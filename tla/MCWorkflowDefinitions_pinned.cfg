SPECIFICATION Spec
CONSTANTS
    None = None
    First = d1
    Second = d2
    Calls = {c1, c2, c3}
    MaxRequests = 1
    MaxErrors = 0
    MaxLost = 0
    MaxCrashes = 0
SYMMETRY MCCalls
INVARIANTS
    PinnedDefinitionReadable

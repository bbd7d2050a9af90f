SPECIFICATION Spec
CONSTANTS
    None = None
    First = d1
    Second = d2
    Calls = {c1, c2, c3}
    MaxRequests = 1
    MaxErrors = 1
    MaxLost = 1
    MaxCrashes = 1
SYMMETRY MCCalls
INVARIANTS
    GapHasAnAuthor
PROPERTIES
    ActiveUntouched

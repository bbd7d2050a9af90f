SPECIFICATION Spec
CONSTANTS
    amy = amy
    root = root
    None = None
    Calls = {c1}
    Users = {amy, root}
    Requester = amy
    Role <- MCRole
    AssignedTo <- MCAssignedTo
    AssignedRole <- MCAssignedRole
    NumStages = 1
    MaxErrors = 1
    MaxLost = 0
    MaxCrashes = 0
SYMMETRY MCCalls
INVARIANTS
    FailedCreateLeavesNothing

SPECIFICATION Spec
CONSTANTS
    amy = amy
    root = root
    None = None
    Calls = {c1, c2, c3}
    Users = {amy, root}
    Requester = amy
    Role <- MCRole
    AssignedTo <- MCAssignedTo
    AssignedRole <- MCAssignedRole
    NumStages = 2
    MaxErrors = 1
    MaxLost = 1
    MaxCrashes = 1
SYMMETRY MCCalls
INVARIANTS
    TypeOK
    DecisionDurable
    OutcomeDurable
    AtMostOnePending
    QuiescentConsistent
    NoticesTrue
PROPERTIES
    DecisionOwned

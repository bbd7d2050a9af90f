SPECIFICATION Spec
CONSTANTS
    t1 = t1
    t2 = t2
    Tasks = {t1, t2}
    Requester = requester
    Approver = approver
    Admin = admin
    Foreigner = foreigner
    Operator = operator
    None = None
    Menu <- MCMenu
    Callers <- MCCallers
    Changing = {admin}
    Rounds <- MCRounds
    Limits <- MCLimits
    MaxClients = 1
    MaxChanges = 1
    MaxOutages = 1
    MaxLapses = 1
INVARIANTS
    QuotaHolds
PROPERTIES
    OwnClientOnly
    StaleRoleStopsAtPolicies
    EntitledOnly

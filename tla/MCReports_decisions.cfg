SPECIFICATION Spec
CONSTANTS
    Threads = {"t1", "t2"}
    Profiles <- MCProfiles
    Loads <- MCLoads
    Databases <- MCDatabases
    Arrivals <- MCArrivals
    Backends = {"ttl", "redis"}
    PageSize = 2
    BatchSize = 2
    MAX_PAGE_SIZE = 2
    DayHours = 2
    MonthFirsts = {0, 1}
    TTL = 1
    Begin = 5
    MaxChanges = 1
    MaxFaults = 1
INVARIANT
    DecisionsCounted
CHECK_DEADLOCK FALSE

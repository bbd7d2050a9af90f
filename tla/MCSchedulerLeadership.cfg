SPECIFICATION SchedulerSpec
CONSTANTS
    Instances = {a, b}
    Threads = {interval, manual}
    Nobody = Nobody
    Dead = Dead
    LeaderTtl = 2
    JobTtl = 1
    MaxRuns = 3
    MaxFaults = 1
INVARIANTS OneLeaderUnlessLate StopHandsOver JobOverlapOnlyWhenLate
PROPERTIES AlwaysALeaderAgain

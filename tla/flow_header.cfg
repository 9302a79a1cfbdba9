CONSTANTS
    NumProcs = 1
    NumHosts = 2
    Sizes = {1}
    MaxTime = 2
    MaxFlows = 3
    Estimates = {3, 11, 12}
    HandWritten = {}
    Percents = {50}
    MaxMigrates = 0
SPECIFICATION SchedulerSpec
INVARIANT EachLineOnce
CHECK_DEADLOCK FALSE

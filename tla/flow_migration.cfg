CONSTANTS
    NumProcs = 1
    NumHosts = 3
    Sizes = {1}
    MaxTime = 1
    MaxFlows = 2
    Estimates = {1}
    HandWritten = {}
    Percents = {50}
    MaxMigrates = 1
SPECIFICATION SchedulerSpec
INVARIANT MigrationKeepsDestination
CHECK_DEADLOCK FALSE

CONSTANTS
    NumProcs = 2
    NumHosts = 3
    HostsPerProc = 2
    Sizes = {2}
    PktSize = 2
    MaxTime = 1
    MaxFlows = 1
    Estimates = {1}
    HandWritten = {}
    Percents = {50}
    MaxMigrates = 2
    MaxNumber = 1
    StartPort = 20
    LastPort = 24
    FirstEphemeral = 23
    Apps <- AppIds
SPECIFICATION Spec
INVARIANTS
    EachFlowOnTime
    StreamsReachTheirSinks
CHECK_DEADLOCK FALSE

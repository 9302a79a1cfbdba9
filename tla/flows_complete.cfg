CONSTANTS
    NumProcs = 2
    NumHosts = 2
    HostsPerProc = 1
    Sizes = {3}
    PktSize = 2
    MaxTime = 1
    MaxFlows = 2
    Estimates = {1}
    HandWritten = {1, 3}
    Percents = {50}
    MaxMigrates = 0
    MaxNumber = 3
    StartPort = 20
    LastPort = 22
    FirstEphemeral = 22
    Apps <- AppIds
SPECIFICATION Spec
INVARIANTS
    TypeOK
    EachFlowOnTime
    ClosedWhenSent
    PacketsConserved
    BindFailsOnlyWhenPortsRunOut
    SortedNeverFails
PROPERTY KeepsPromise
CHECK_DEADLOCK FALSE

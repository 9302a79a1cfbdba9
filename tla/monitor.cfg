CONSTANTS
    NumProcs = 2
    NumHosts = 3
    HostsPerProc = 2
    FiveTuples <- TwoWays
    DiscardPort = 10
    NoAcks = TRUE
    Size = 2
    IdSpan = 2
    ProcSpan = 2
    MaxTime = 2
    MaxPackets = 3
SPECIFICATION Spec
INVARIANTS
    TypeOK
    NeverAborts
    NumbersTellFlowsApart
    CountsAddUp
    WrittenOnce
    CompletionTimeIsKnown
    TrackedIsUnknownHere
CHECK_DEADLOCK FALSE

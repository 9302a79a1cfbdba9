\* Radix 4, three link commands before the packet.
SPECIFICATION Spec
CONSTANTS
    SwitchRadix = 4
    NumPods = 2
    NumServers = 1
    ManualWeights = {}
    MaxChanges = 3
    BackupPaths = FALSE
    TimeToLive = 8
INVARIANTS
    TypeOK
    WeightsMirrorLinks
    NoSilentLoss
    UpDownPath
    OneFailureHarmless
    EdgeAbortsOnlyWhenCut
PROPERTY OneFailureDelivers
CHECK_DEADLOCK FALSE

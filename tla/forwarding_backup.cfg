\* Radix 4 with backup paths; SET_WCMP may send packets to a failed cable.
SPECIFICATION Spec
CONSTANTS
    SwitchRadix = 4
    NumPods = 2
    NumServers = 1
    ManualWeights = {3}
    MaxChanges = 2
    BackupPaths = TRUE
    TimeToLive = 8
INVARIANTS
    BackupDelivers
    BackupOnlyWhenDown
CHECK_DEADLOCK FALSE

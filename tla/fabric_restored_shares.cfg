\* A restored weight is not the default one.
SPECIFICATION FabricSpec
CONSTANTS
    SwitchRadix = 4
    NumPods = 2
    NumServers = 1
    ManualWeights = {}
    MaxChanges = 3
INVARIANT EqualShares
CHECK_DEADLOCK FALSE

\* Link commands mixed with SET_WCMP.
SPECIFICATION FabricSpec
CONSTANTS
    SwitchRadix = 4
    NumPods = 2
    NumServers = 1
    ManualWeights = {0, 3}
    MaxChanges = 3
INVARIANT UpLinksHaveRoutes
CHECK_DEADLOCK FALSE

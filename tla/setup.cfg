\* Every way to place four pods on up to eight processes.
SPECIFICATION Spec
CONSTANTS
    SwitchRadix = 4
    NumPods = 4
    NumServers = 3
    MaxProcs = 8
INVARIANTS
    ServersWhereComputed
    ProcessesExist
    CommandedCablesAreLocal
    NextCableExists
    NumbersAsComputed
    RoutesFollowCables
    LevelsAreDistinct
CHECK_DEADLOCK FALSE

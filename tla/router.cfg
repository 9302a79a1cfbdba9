\* An aggregate of pod 1 with its backup route (radix 4), with the cache and
\* without (--cache).
SPECIFICATION Spec
CONSTANTS
    NumIfs = 4
    Uplinks = {3, 4}
    Backups = {1}
    Levels = {0, 1}
    OwnLevels = {0}
    WeightValues = {0, 1}
    Hashes = {0, 150}
    MaxEvents = 3
    CacheModes = {FALSE, TRUE}
INVARIANT StatesMirrorStack
PROPERTIES
    KeepsPolicy
    CachedFlowNeverMoves
CHECK_DEADLOCK FALSE

\* Tables of up to three routes, three kinds of weight.
SPECIFICATION Spec
CONSTANTS
    PrefixLengths = {0, 16, 24}
    Metrics = {1, 10}
    NoMetric = 100
    MaxRoutes = 3
    MaxEntries = 3
    WeightValues = {0, 1, 3}
    Hashes = {0, 1, 2, 3, 8}
INVARIANTS
    CollectsTheBest
    InTableOrder
    ExactShare
    LookupIsRight
CHECK_DEADLOCK FALSE

SPECIFICATION FairSpec

CONSTANTS
    h1 = h1
    h2 = h2
    Helpers <- MCHelpers
    Configs <- MCConfigs

INVARIANTS
    DeadlockNeedsNesting

PROPERTIES
    EveryCallReturns
    EndsWithStorm

CHECK_DEADLOCK FALSE

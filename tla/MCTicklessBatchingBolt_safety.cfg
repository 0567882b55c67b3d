SPECIFICATION Spec

CONSTANTS
    t1 = t1
    t2 = t2
    tick1 = tick1
    h1 = h1
    k1 = k1
    k2 = k2
    NoKey = NoKey
    NoTuple = NoTuple
    Keys <- MCKeys
    Tuples <- MCTuples
    Ticks <- MCTicks
    Heartbeats <- None
    Configs <- AllConfigs

INVARIANTS
    MutualExclusion
    SettledOnce
    AnchorsOpen

PROPERTIES
    LostOnlyInHand

CHECK_DEADLOCK FALSE

SPECIFICATION FairSpec

CONSTANTS
    t1 = t1
    t2 = t2
    tick1 = tick1
    h1 = h1
    k1 = k1
    k2 = k2
    NoKey = NoKey
    NoTuple = NoTuple
    Keys <- MCKeys
    Tuples <- MCTuples
    Ticks <- None
    Heartbeats <- MCHeartbeats
    Configs <- MCConfigs

PROPERTIES
    ExceptionsReachMain
    EverythingSettled

CHECK_DEADLOCK FALSE

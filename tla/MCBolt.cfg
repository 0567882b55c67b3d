SPECIFICATION FairSpec

CONSTANTS
    t1 = t1
    t2 = t2
    t3 = t3
    h1 = h1
    h2 = h2
    Tuples <- MCTuples
    Heartbeats <- MCHeartbeats
    Configs <- MCConfigs

PROPERTIES
    ImplementsSettlement
    EverythingSettled

CHECK_DEADLOCK FALSE

SPECIFICATION FairSpec

CONSTANTS
    t1 = t1
    t2 = t2
    t3 = t3
    h1 = h1
    k1 = k1
    k2 = k2
    NoKey = NoKey
    Tick = Tick
    Tuples <- MCTuples
    Heartbeats <- MCHeartbeats
    Keys <- MCKeys
    TicksBetweenBatches = 1
    Configs <- MCConfigs

INVARIANTS
    TypeOK
    SettledOnce
    AnchorsOpen
    NoOrphan

PROPERTIES
    OnlyCurrentFailed
    ImplementsSettlement
    EverythingSettled

CHECK_DEADLOCK FALSE

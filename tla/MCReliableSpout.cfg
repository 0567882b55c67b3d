SPECIFICATION FairSpec

CONSTANTS
    i1 = i1
    i2 = i2
    p1 = p1
    p2 = p2
    NoPayload = NoPayload
    Ids <- MCIds
    Payloads <- MCPayloads
    MaxFails = 2
    Configs <- MCConfigs

INVARIANTS
    TypeOK
    HoldsUnresolved
    OneSyncPerCommand

PROPERTIES
    ImplementsReplay
    EverythingResolved

CHECK_DEADLOCK FALSE

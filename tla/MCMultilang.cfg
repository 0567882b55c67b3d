SPECIFICATION FairSpec

CONSTANTS
    Main = Main
    worker = worker
    c1 = c1
    c2 = c2
    Beat = Beat
    Garbled = Garbled
    Workers <- MCWorkers
    Commands <- MCCommands
    Serials = 2
    PipeLimit = 2
    Configs <- MCConfigs

INVARIANTS
    IdsMatch
    NothingLost

PROPERTIES
    InOrder
    EverybodyIsServed

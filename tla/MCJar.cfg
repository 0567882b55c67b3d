SPECIFICATION Spec

CONSTANTS
    Dirs <- MCDirs
    Root = "src"
    Names <- MCNames
    ExcludedDirs <- MCExcludedDirs
    ExcludedFiles <- MCExcludedFiles
    Commands <- MCCommands
    Configs <- MCConfigs

INVARIANTS
    PacksAll
    ArchiveWhole

PROPERTIES
    EveryCommandEnds

CHECK_DEADLOCK FALSE

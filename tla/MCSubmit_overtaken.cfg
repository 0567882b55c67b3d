SPECIFICATION FairSpec

CONSTANTS
    s1 = s1
    s2 = s2
    n1 = n1
    n2 = n2
    None = None
    NotADict = NotADict
    Unsupported <- MCUnsupported
    Bare <- MCBare
    Slashed <- MCSlashed
    RunCommands <- MCRunCommands
    Submitters <- MCSubmitters
    Requests <- BothForced
    Env <- MCEnv
    Files <- MCFiles
    Names <- OneName
    BadNames <- NoNames
    Nodes <- MCNodes
    Seed = n1
    Supervisors = "3"
    ChunkSize = 2
    MaxTimeouts = 0
    MaxElections = 0

PROPERTIES
    EverySubmissionEnds

CHECK_DEADLOCK FALSE

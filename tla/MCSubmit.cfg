SPECIFICATION FairSpec

CONSTANTS
    s1 = s1
    s2 = s2
    n1 = n1
    n2 = n2
    None = None
    NotADict = NotADict
    Unsupported <- MCUnsupported
    Bare <- MCBare
    Slashed <- MCSlashed
    RunCommands <- MCRunCommands
    Submitters <- MCSubmitters
    Requests <- MCRequests
    Env <- MCEnv
    Files <- MCFiles
    Names <- MCNames
    BadNames <- MCBadNames
    Nodes <- MCNodes
    Seed = n1
    Supervisors = "3"
    ChunkSize = 2
    MaxTimeouts = 1
    MaxElections = 1

INVARIANTS
    JarComplete
    VirtualenvAgrees
    RunsAsAsked

PROPERTIES
    KilledByForce
    ForceReplaces
    ReportsTruly
    EndsUnlessOvertaken

CHECK_DEADLOCK FALSE

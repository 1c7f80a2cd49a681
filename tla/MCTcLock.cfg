CONSTANTS
    Sessions = {s1, s2}
    NoSession = NoSession
    ConfigNames <- MCNames
    Rank <- MCRank
    WriteOps = {"TC_COMMIT", "TC_SAVE_STARTUP_CONFIG", "TC_AUDIT_DRIVER"}
    UINT32_MAX = 4
SPECIFICATION LockSpec
SYMMETRY MCSymmetry
CHECK_DEADLOCK FALSE
INVARIANTS
    LockTypeOK
    RwOwnerCountsHolders
    
    GlobalModeExcludesOthers
    EntriesAreAnnounced
    CandidateWriterKeepsConfig
    IdleUnlessActive
    SetupOnlyWhenActive
PROPERTIES
    StopGrantsNothing

CONSTANTS
    Sessions = {s1, s2}
    NoSession = NoSession
    ConfigNames <- MCGlobal
    Rank <- MCRank
    WriteOps = {"TC_COMMIT", "TC_SAVE_STARTUP_CONFIG"}
    UINT32_MAX = 4
    StartupOutcomes = {"early_failure", "setup_complete_failure", "success"}
SPECIFICATION Spec
SYMMETRY MCSymmetry
CHECK_DEADLOCK FALSE
INVARIANTS
    
    HandlerStateAgrees
    LocksHaveOwners
    
    

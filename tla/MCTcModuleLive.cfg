CONSTANTS
    Sessions = {s1}
    NoSession = NoSession
    ConfigNames <- MCNames
    Rank <- MCRank
    WriteOps = {"TC_COMMIT", "TC_SAVE_STARTUP_CONFIG", "TC_AUDIT_DRIVER"}
    UINT32_MAX = 3
    StartupOutcomes = {"early_failure", "audit_db_failure", "response_failure", "success"}
SPECIFICATION LiveSpec
CHECK_DEADLOCK FALSE
INVARIANTS
    LocksHaveOwners
    
PROPERTIES
    ImplementsTcLock
    EventsComplete
    RequestsComplete

CONSTANTS
    Sessions = {s1, s2, s3}
    NoSession = NoSession
    ConfigNames <- MCNames
    Rank <- MCRank
    WriteOps = {}
    UINT32_MAX = 5
    StartupOutcomes = {"early_failure", "success"}
    Timeouts <- MCInfinite
    SettledOnly = TRUE
    NotifyFails = FALSE
SPECIFICATION QueueSpec
CHECK_DEADLOCK FALSE
PROPERTIES
    StopReleasesWaiters
    WaitersAreServed

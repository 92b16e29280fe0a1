CONSTANTS
    MaxSteps = 2
    MaxBlocks = 2
    TraceMayFail = TRUE
    StreamMayEndEarly = TRUE
SPECIFICATION FairSpec
INVARIANTS
    RequestsWellFormed
    NoPartialCallRuns
    AuditTrail
    OutcomeIsTrue
PROPERTIES
    LoopEnds
CHECK_DEADLOCK FALSE

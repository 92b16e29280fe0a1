CONSTANTS
    Own = {a1, a2}
    Foreign = {f1}
    None = None
    MaxRequests = 3
    MaxActivity = 1
SPECIFICATION FairSpec
INVARIANTS
    OutcomeIsOwn
    EndNotMissed
    EveryChatReported
PROPERTIES
    EveryWaitEnds
CHECK_DEADLOCK FALSE

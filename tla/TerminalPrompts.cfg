CONSTANTS
    Main = main
    Asks = {q1, q2}
    None = None
    MaxLines = 4
SPECIFICATION FairSpec
INVARIANTS
    PromptIsAlone
PROPERTIES
    EveryRequestReturns
CHECK_DEADLOCK FALSE

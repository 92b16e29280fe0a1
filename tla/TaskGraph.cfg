CONSTANTS
    t1 = t1
    t2 = t2
    t3 = t3
    Ids <- ThreeIds
    DepLists <- ListsUpToTwo
    MaxAttempts = 1
    MaxLost = 1
SPECIFICATION Spec
SYMMETRY Symmetry
INVARIANTS
    CycleCheckExact
    StartedInOrder
    NeverStuck
    TraceTellsPlan
    PlanUpToDate
CHECK_DEADLOCK FALSE

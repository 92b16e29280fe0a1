CONSTANTS
    c1 = c1
    c2 = c2
    r1 = r1
    r2 = r2
    q1 = q1
    q2 = q2
    None = None
    Conns = {c1, c2}
    Runs = {r1, r2}
    Ephemeral = {r2}
    Calls = {q1, q2}
    Terms <- FourTerms
    GlobalDefault = "allow"
    TraceMayFail = TRUE
SPECIFICATION LiveSpec
INVARIANTS
    RunsOnlyIfAllowed
    RefusedForCause
    TableIsExact
    RunsAreOnRecord
PROPERTIES
    EveryCheckEnds
CHECK_DEADLOCK FALSE

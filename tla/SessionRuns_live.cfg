CONSTANTS
    Conns = {c1, c2}
    Named = {s1}
    Runs = {r1}
    None = None
    MaxBeats = 1
    TraceMayFail = FALSE
SPECIFICATION FairSpec
PROPERTIES
    EveryCloseEnds
    KeepsPromisesFairly
CHECK_DEADLOCK FALSE

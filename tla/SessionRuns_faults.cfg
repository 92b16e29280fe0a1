CONSTANTS
    Conns = {c1, c2}
    Named = {s1}
    Runs = {r1, r2}
    None = None
    MaxBeats = 1
    TraceMayFail = TRUE
SPECIFICATION Spec
SYMMETRY Symmetry
INVARIANTS
    RunningIsActive
    NoticesInOrder
PROPERTIES
    KeepsPromises
CHECK_DEADLOCK FALSE

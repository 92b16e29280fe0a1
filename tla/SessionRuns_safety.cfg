CONSTANTS
    Conns = {c1, c2}
    Named = {s1, s2}
    Runs = {r1, r2}
    None = None
    MaxBeats = 0
    TraceMayFail = FALSE
SPECIFICATION Spec
SYMMETRY Symmetry
INVARIANTS
    NoOrphanedRun
    CancelRecordedOnce
    SettledRunReleased
    HistoryAgreesWithNotices
CHECK_DEADLOCK FALSE

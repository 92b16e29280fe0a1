CONSTANTS
    Conns = {c1, c2}
    Runs = {r1}
    None = None
    Input <- Some
    MaxLines = 3
SPECIFICATION Spec
SYMMETRY Symmetry
INVARIANTS
    EndReachesAudience
    RunReadInOrder
    SnapshotFitsNotices
    LinesAnswered
CHECK_DEADLOCK FALSE

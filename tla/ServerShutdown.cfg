CONSTANTS
    Conns = {c1, c2}
    Named = {s1}
    Runs = {r1, r2}
    None = None
    Server = Server
    MaxBeats = 0
    TraceMayFail = FALSE
SPECIFICATION ShutdownSpec
SYMMETRY Symmetry
INVARIANTS
    StopNeverStuck
    NoRunOutlivesStop
    RunsSettleFirst
    EndsRecorded
CHECK_DEADLOCK FALSE

CONSTANTS
    Runs = {r1, r2}
    Chars = {"a", "b", "n", "r", "f"}
    Newline = "n"
    CarriageReturn = "r"
    Breaks = {"n", "r", "f"}
    Blocked = {directory}
    Absent = Absent
    Opaque = {binary}
    None = None
    Files <- SomeFiles
    Contents <- SomeContents
    Edits <- SomeEdits
    Offsets = {0, 1, 2}
    Limits <- SomeLimits
    MaxRead = 3
    MaxWrite = 3
    Workers = 2
    MaxCalls = 2
SPECIFICATION Spec
INVARIANTS
    ResultIsTrue
    PagesMakeTheFile
CHECK_DEADLOCK FALSE

SPECIFICATION Spec
CONSTANTS
    Loop = {}
    Streams = {s1, s2}
    MaxRuns = 2
    Contexts = {1, 2}
    Unsafe = {2}
    Exclusive = FALSE
    None = None
INVARIANTS VerdictIsOfThisRun
CHECK_DEADLOCK FALSE

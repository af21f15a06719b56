SPECIFICATION Spec
CONSTANTS
    Loop = {http}
    Streams = {s1}
    MaxRuns = 2
    Contexts = {1}
    Unsafe = {1}
    Exclusive = TRUE
    None = None
INVARIANTS TypeOK VerdictIsOfThisRun RunsExecuteVetted QuietContext
CHECK_DEADLOCK FALSE

SPECIFICATION Spec
CONSTANTS
    N = 3
    Temps = {1}
    Timeout = 2
    Grace = 1
INVARIANTS OnlyPassedIsPackaged
CHECK_DEADLOCK FALSE

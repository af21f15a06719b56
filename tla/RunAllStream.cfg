SPECIFICATION Spec
CONSTANTS
    SqlStages = 2
    MaxQueue = 17
    DoneSerializes = FALSE
INVARIANTS TypeOK EndsWithFinalLine PutNeverWaits
PROPERTIES ImplementsPromise ThreadEnds ClientIsTold
CHECK_DEADLOCK FALSE

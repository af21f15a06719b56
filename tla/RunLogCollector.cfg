SPECIFICATION FairSpec
CONSTANTS
    Collectors = {app, c1}
    App = app
    MaxQueue = 2
    MaxEvents = 3
    Hole = Hole
    None = None
    DiskFails = FALSE
INVARIANTS TypeOK AcceptedOnceInOrder CloseDrains
PROPERTIES AcceptedIsHandled 
CHECK_DEADLOCK FALSE

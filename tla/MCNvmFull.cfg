CONSTANTS
    Entries = 2
    Extent <- OneAndTwo
    Value = {a}
    Cells = 10
    MinimumFree = 4
    QueueSize = 1
    MaxRequests = 5
    MaxLosses = 2
SPECIFICATION Spec
INVARIANTS AgreesWithFlash NextStartSucceeds PointsToRecord OnlyRemnantsFillPages
PROPERTIES ProgramsBlankCells KeepsItsPromise
CHECK_DEADLOCK FALSE

CONSTANTS
    Entries = 2
    Extent <- OneAndTwo
    Value = {a, b}
    Cells = 10
    MinimumFree = 4
    QueueSize = 1
    MaxRequests = 3
    MaxLosses = 2
SPECIFICATION FairSpec
PROPERTIES KeepsItsPromise  ComesToRest
CHECK_DEADLOCK FALSE

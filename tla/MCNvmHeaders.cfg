CONSTANTS
    Entries = 2
    Extent <- OneAndTwo
    Value = {a}
    Cells = 10
    MinimumFree = 4
    QueueSize = 1
    MaxRequests = 5
    MaxLosses = 1
SPECIFICATION Spec
INVARIANTS HeadersEndBelowRecords
CHECK_DEADLOCK FALSE

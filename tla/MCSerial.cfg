CONSTANTS
    gSerialMgrTxQueueSize_c = 3
    gSerialMgrRxBufSize_c = 2
    MaxWrites = 5
    MaxBytes = 4
    Length <- TwoThenOne
    ReadSizes = {1, 2}
SPECIFICATION FairSpec
INVARIANTS BuffersAreHeld
PROPERTIES SendsInOrder ReadsInOrder EverythingIsServed

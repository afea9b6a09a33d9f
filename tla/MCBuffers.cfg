CONSTANTS
    b1 = b1
    b2 = b2
    b3 = b3
    b4 = b4
    b5 = b5
    mHostAppInputQueue = mHostAppInputQueue
    gApp2Host_TaskQueue = gApp2Host_TaskQueue
    NULL = NULL
    Blocks = {b1, b2, b3, b4, b5}
    Queues = {mHostAppInputQueue, gApp2Host_TaskQueue}
    poolInfo <- BuildPools
    pParentPool <- BuildBlocks
    Requests <- BuildRequests
SPECIFICATION Spec
INVARIANTS WellLinked Conservation AllocatesWhilePossible
PROPERTIES DeliversInOrder

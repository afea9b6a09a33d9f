----------------------------- MODULE MCBuffers -----------------------------
(* MessageBuffers for TLC: as in the build (app_preinclude.h), growing     *)
(* block sizes for the application and, with an id of their own, smaller   *)
(* ones for the non-volatile memory.                                       *)
EXTENDS MessageBuffers

CONSTANTS b1, b2, b3, b4, b5, mHostAppInputQueue, gApp2Host_TaskQueue

BuildPools ==
    << [blockSize |-> 32, poolId |-> 0], [blockSize |-> 64, poolId |-> 0],
       [blockSize |-> 32, poolId |-> 1] >>
BuildBlocks ==
    [b \in Blocks |-> CASE b \in {b1, b2} -> 1 [] b \in {b3, b4} -> 2 [] b = b5 -> 3]
BuildRequests ==
    {[numBytes |-> 20, poolId |-> 0], [numBytes |-> 64, poolId |-> 0],
     [numBytes |-> 65, poolId |-> 0], [numBytes |-> 32, poolId |-> 1]}
=============================================================================

--------------------------- MODULE MessageQueues ---------------------------
(***************************************************************************)
(* What the memory manager and the messaging layer promise the tasks: a    *)
(* buffer belongs to one owner at a time, and the messages of a queue      *)
(* arrive once each and in the order they were sent.                       *)
(***************************************************************************)
EXTENDS Sequences, SequencesExt

CONSTANTS Blocks, Queues

VARIABLES
    held,     \* the buffers some task holds
    queue     \* the buffers in each queue

vars == <<held, queue>>

Free == Blocks \ (held \cup UNION {Range(queue[q]) : q \in Queues})

Init ==
    /\ held = {}
    /\ queue = [q \in Queues |-> <<>>]

Allocate(b) == b \in Free /\ held' = held \cup {b} /\ UNCHANGED queue

Release(b) == b \in held /\ held' = held \ {b} /\ UNCHANGED queue

Send(q, b) ==
    /\ b \in held
    /\ held' = held \ {b}
    /\ queue' = [queue EXCEPT ![q] = Append(@, b)]

Receive(q) ==
    /\ queue[q] # <<>>
    /\ held' = held \cup {Head(queue[q])}
    /\ queue' = [queue EXCEPT ![q] = Tail(@)]

Next ==
    \/ \E b \in Blocks : Allocate(b) \/ Release(b) \/ \E q \in Queues : Send(q, b)
    \/ \E q \in Queues : Receive(q)

Spec == Init /\ [][Next]_vars
=============================================================================

--------------------------- MODULE MessageBuffers ---------------------------
(***************************************************************************)
(* Message buffers: the pools of MemManager.c and the queues of            *)
(* Messaging.c, which are the same linked lists (GenericList.c).  A buffer *)
(* carries one link, so it is in one list at most: the free list of its    *)
(* pool, or the queue it was sent to.  Every operation runs with the       *)
(* interrupts disabled and is one step; tasks and interrupt handlers call  *)
(* them in any order.                                                      *)
(***************************************************************************)
EXTENDS Naturals, Sequences, FiniteSets, SequencesExt

CONSTANTS
    Blocks,
    poolInfo,     \* the pools in their order: [blockSize, poolId]
    pParentPool,  \* the pool each block is cut for
    Queues,       \* the msgQueue_t anchors
    Requests,     \* what clients ask for: [numBytes, poolId]
    NULL

Pools == 1 .. Len(poolInfo)
Lists == Pools \cup Queues
Cut(p) == {b \in Blocks : pParentPool[b] = p}

ASSUME BuffersAssumption ==
    /\ IsFiniteSet(Blocks)
    /\ poolInfo \in Seq([blockSize : Nat \ {0}, poolId : Nat])
    /\ pParentPool \in [Blocks -> Pools]
    /\ Queues \cap Pools = {}
    /\ Requests \subseteq [numBytes : Nat \ {0}, poolId : Nat]
    /\ \A r \in Requests : \E p \in Pools : r.poolId = poolInfo[p].poolId
    /\ NULL \notin Blocks \cup Lists

\* AppPoolsDetails_c and NvmPoolsDetails_c give the pools of one id together
\* and in ascending order of their block sizes.
ASSUME PoolOrderAssumption ==
    \A p, q \in Pools :
        p < q /\ poolInfo[p].poolId = poolInfo[q].poolId =>
            /\ poolInfo[p].blockSize <= poolInfo[q].blockSize
            /\ poolInfo[p + 1].poolId = poolInfo[p].poolId

VARIABLES
    head, tail, size,     \* of each list_t
    next, list,           \* of each block's listElement_t
    gFreeMessagesCount,
    allocatedBlocks,      \* of each pool
    fresh,                \* blocks MEM_Init has yet to add to their pool
    held,                 \* blocks that some client holds
    content               \* history: what each list holds, in order

links  == <<head, tail, size, next, list, content>>
counts == <<gFreeMessagesCount, allocatedBlocks>>
vars   == <<links, counts, fresh, held>>

TypeOK ==
    /\ head \in [Lists -> Blocks \cup {NULL}]
    /\ tail \in [Lists -> Blocks \cup {NULL}]
    /\ size \in [Lists -> Nat]
    /\ next \in [Blocks -> Blocks \cup {NULL}]
    /\ list \in [Blocks -> Lists \cup {NULL}]
    /\ gFreeMessagesCount \in Nat
    /\ allocatedBlocks \in [Pools -> Nat]
    /\ fresh \subseteq Blocks
    /\ held \subseteq Blocks
    /\ content \in [Lists -> Seq(Blocks)]

Init ==
    /\ head = [l \in Lists |-> NULL]
    /\ tail = [l \in Lists |-> NULL]
    /\ size = [l \in Lists |-> 0]
    /\ next = [b \in Blocks |-> NULL]
    /\ list = [b \in Blocks |-> NULL]
    /\ gFreeMessagesCount = 0
    /\ allocatedBlocks = [p \in Pools |-> 0]
    /\ fresh = Blocks
    /\ held = {}
    /\ content = [l \in Lists |-> <<>>]

-----------------------------------------------------------------------------
(* The lists.                                                              *)

\* One block short of it.
FullTooEarly(l) == l \in Pools /\ size[l] + 1 = Cardinality(Cut(l))

\* A pool's list has room for the pool's blocks, a queue (max 0) for any.
Full(l) == l \in Pools /\ size[l] = Cardinality(Cut(l))

ListAddHead(l, e) ==
    /\ tail' = IF size[l] = 0 THEN [tail EXCEPT ![l] = e] ELSE tail
    /\ next' = [next EXCEPT ![e] = head[l]]
    /\ list' = [list EXCEPT ![e] = l]
    /\ head' = [head EXCEPT ![l] = e]
    /\ size' = [size EXCEPT ![l] = @ + 1]
    /\ content' = [content EXCEPT ![l] = <<e>> \o @]

Link(l, e) ==
    /\ head' = IF size[l] = 0 THEN [head EXCEPT ![l] = e] ELSE head
    /\ next' = IF size[l] = 0 THEN [next EXCEPT ![e] = NULL]
               ELSE [next EXCEPT ![tail[l]] = e, ![e] = NULL]
    /\ list' = [list EXCEPT ![e] = l]
    /\ tail' = [tail EXCEPT ![l] = e]
    /\ size' = [size EXCEPT ![l] = @ + 1]
    /\ content' = [content EXCEPT ![l] = Append(@, e)]

\* No caller looks at the result, gListFull_c included.
ListAddTail(l, e) == IF Full(l) THEN UNCHANGED links ELSE Link(l, e)

\* The tail of the emptied list keeps pointing at the block.
RemoveHeadKeepTail(l) ==
    /\ size[l] > 0
    /\ size' = [size EXCEPT ![l] = @ - 1]
    /\ head' = [head EXCEPT ![l] = next[head[l]]]
    /\ list' = [list EXCEPT ![head[l]] = NULL]
    /\ content' = [content EXCEPT ![l] = Tail(@)]
    /\ UNCHANGED <<tail, next>>

ListRemoveHead(l) ==
    /\ size[l] > 0
    /\ size' = [size EXCEPT ![l] = @ - 1]
    /\ tail' = IF size[l] = 1 THEN [tail EXCEPT ![l] = NULL] ELSE tail
    /\ head' = [head EXCEPT ![l] = next[head[l]]]
    /\ list' = [list EXCEPT ![head[l]] = NULL]
    /\ content' = [content EXCEPT ![l] = Tail(@)]
    /\ UNCHANGED next

-----------------------------------------------------------------------------
(* Memory.                                                                 *)

\* MEM_Init cuts the heap pool by pool.
MEM_Init(b) ==
    /\ b \in fresh
    /\ \A c \in fresh : pParentPool[b] <= pParentPool[c]
    /\ fresh' = fresh \ {b}
    /\ ListAddTail(pParentPool[b], b)
    /\ gFreeMessagesCount' = gFreeMessagesCount + 1
    /\ UNCHANGED <<allocatedBlocks, held>>

NextBlockSize(p) == IF p < Len(poolInfo) THEN poolInfo[p + 1].blockSize ELSE 0

Fits(need, id, p) == need <= poolInfo[p].blockSize /\ id = poolInfo[p].poolId

\* Only the first pool that fits is tried.
FirstPoolFor(r) ==
    LET fitting == {p \in Pools : Fits(r.numBytes, r.poolId, p)}
    IN  IF \E p \in fitting : size[p] > 0 /\ \A q \in fitting : p <= q
          THEN CHOOSE p \in fitting : \A q \in fitting : p <= q
          ELSE 0

\* Pool p asked for s.need bytes, 0 bytes once the search has ended with
\* s.pool.  An empty pool makes it ask for the next pool's size, unless the
\* next pool is too small for what is asked.
Visit(s, p, id) ==
    IF s.need = 0 \/ ~Fits(s.need, id, p) THEN s
    ELSE IF size[p] > 0 THEN [need |-> 0, pool |-> p]
    ELSE IF s.need > NextBlockSize(p) THEN [need |-> 0, pool |-> 0]
    ELSE [need |-> NextBlockSize(p), pool |-> 0]

\* The search after each pool, from none to all of them.
Search(r) ==
    LET after[p \in 0 .. Len(poolInfo)] ==
          IF p = 0 THEN [need |-> r.numBytes, pool |-> 0] ELSE Visit(after[p - 1], p, r.poolId)
    IN  after

\* The pool that MEM_BufferAllocWithId takes a block from, 0 if it gives up.
PoolFor(r) == Search(r)[Len(poolInfo)].pool

MEM_BufferAlloc(r) ==
    /\ fresh = {}
    /\ \E p \in Pools :
          /\ p = PoolFor(r)
          /\ ListRemoveHead(p)
          /\ held' = held \cup {head[p]}
          /\ allocatedBlocks' = [allocatedBlocks EXCEPT ![p] = @ + 1]
    /\ gFreeMessagesCount' = gFreeMessagesCount - 1
    /\ UNCHANGED fresh

\* A block that is in a list, free already or queued, is refused
\* (MEM_FREE_ERROR_c, which no caller looks at).
MEM_BufferFree(b) ==
    /\ fresh = {}
    /\ list[b] = NULL
    /\ gFreeMessagesCount' = gFreeMessagesCount + 1
    /\ ListAddTail(pParentPool[b], b)
    /\ allocatedBlocks' = [allocatedBlocks EXCEPT ![pParentPool[b]] = @ - 1]
    /\ held' = held \ {b}
    /\ UNCHANGED fresh

-----------------------------------------------------------------------------
(* Messages.                                                               *)

MSG_QueueHead(q, b) ==
    /\ b \in held
    /\ ListAddHead(q, b)
    /\ held' = held \ {b}
    /\ UNCHANGED <<counts, fresh>>

\* A client sends a buffer it holds, and forgets it.
MSG_Queue(q, b) ==
    /\ b \in held
    /\ ListAddTail(q, b)
    /\ held' = held \ {b}
    /\ UNCHANGED <<counts, fresh>>

\* MSG_Pending looks at the head, ListRemoveHead at the size.
MSG_DeQueue(q) ==
    /\ head[q] # NULL
    /\ ListRemoveHead(q)
    /\ held' = held \cup {head[q]}
    /\ UNCHANGED <<counts, fresh>>

Next ==
    \/ \E b \in Blocks : MEM_Init(b) \/ MEM_BufferFree(b)
    \/ \E r \in Requests : MEM_BufferAlloc(r)
    \/ \E q \in Queues : MSG_DeQueue(q) \/ \E b \in Blocks : MSG_Queue(q, b)

Spec == Init /\ [][Next]_vars

-----------------------------------------------------------------------------
(* Properties.                                                             *)

\* l holds s, as the pointers have it.
Holds(l, s) ==
    /\ Len(s) = size[l]
    /\ size[l] = 0 => head[l] = NULL /\ tail[l] = NULL
    /\ size[l] > 0 =>
         /\ head[l] = s[1]
         /\ tail[l] = s[size[l]]
         /\ next[tail[l]] = NULL
    /\ \A i \in 1 .. size[l] - 1 : next[s[i]] = s[i + 1]
    /\ \A i \in 1 .. size[l] : list[s[i]] = l
    /\ \A i, j \in 1 .. size[l] : s[i] = s[j] => i = j
    /\ \A b \in Blocks : list[b] = l => \E i \in 1 .. size[l] : s[i] = b

\* The pointers of GenericList.c make up each list: from its head, next
\* leads to its tail in size steps, and exactly the blocks on the way have
\* it as their list.  In particular MSG_Pending and ListRemoveHead agree on
\* whether a queue is empty.
WellLinked == \A l \in Lists : Holds(l, content[l])

\* The counts of MemManager.c tell what is where: no block leaks and none is
\* counted twice, whatever clients free, a block that is free or queued
\* included.
Conservation ==
    /\ held = {b \in Blocks \ fresh : list[b] = NULL}
    /\ gFreeMessagesCount = Cardinality({b \in Blocks : list[b] \in Pools})
    /\ \A p \in Pools :
         /\ allocatedBlocks[p] = Cardinality({b \in Cut(p) \ fresh : list[b] # p})
         /\ \A b \in Blocks : list[b] = p => pParentPool[b] = p

\* MEM_BufferAllocWithId gives up only when no block of that id that is
\* large enough is free: falling through to larger pools misses none.
AllocatesWhilePossible ==
    \A r \in Requests :
        PoolFor(r) = 0 => \A p \in Pools : Fits(r.numBytes, r.poolId, p) => size[p] = 0

\* To the tasks the pointers look like MessageQueues: a buffer has one owner
\* at a time, messages arrive once and in order.
Messaging == INSTANCE MessageQueues WITH queue <- [q \in Queues |-> content[q]]
DeliversInOrder == Messaging!Spec
=============================================================================

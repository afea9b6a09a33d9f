----------------------- MODULE MessageBuffers_proofs -----------------------
(***************************************************************************)
(* Proofs about MessageBuffers for every set of blocks, pools and queues.  *)
(***************************************************************************)
EXTENDS MessageBuffers, SequenceTheorems, FiniteSetTheorems,
        NaturalsInduction, TLAPS

LinkTypes ==
    /\ head \in [Lists -> Blocks \cup {NULL}]
    /\ tail \in [Lists -> Blocks \cup {NULL}]
    /\ size \in [Lists -> Nat]
    /\ next \in [Blocks -> Blocks \cup {NULL}]
    /\ list \in [Blocks -> Lists \cup {NULL}]
    /\ content \in [Lists -> Seq(Blocks)]

LinkInv == LinkTypes /\ WellLinked

-----------------------------------------------------------------------------
(* The lists.                                                              *)

\* What the pointers of a list say, where it is used.
LEMMA ListFacts ==
  ASSUME LinkInv, NEW l \in Lists
  PROVE  /\ size[l] \in Nat
         /\ content[l] \in Seq(Blocks)
         /\ Len(content[l]) = size[l]
         /\ \A i \in 1 .. size[l] : content[l][i] \in Blocks /\ list[content[l][i]] = l
         /\ size[l] > 0 => /\ head[l] = content[l][1] /\ head[l] \in Blocks
                           /\ tail[l] = content[l][size[l]] /\ tail[l] \in Blocks
                           /\ list[head[l]] = l /\ list[tail[l]] = l
         /\ l # NULL
  <1>1. size[l] \in Nat /\ content[l] \in Seq(Blocks) /\ Len(content[l]) = size[l]
    BY DEF LinkInv, LinkTypes, WellLinked, Holds
  <1>2. \A i \in 1 .. size[l] : content[l][i] \in Blocks /\ list[content[l][i]] = l
    BY <1>1, ElementOfSeq DEF LinkInv, WellLinked, Holds
  <1>3. size[l] > 0 => head[l] = content[l][1] /\ tail[l] = content[l][size[l]]
    BY DEF LinkInv, WellLinked, Holds
  <1>4. l # NULL
    BY BuffersAssumption DEF BuffersAssumption
  <1> QED BY <1>1, <1>2, <1>3, <1>4

\* A list that a step leaves alone.
LEMMA OtherLists ==
  ASSUME NEW m \in Lists, Holds(m, content[m]),
         head'[m] = head[m], tail'[m] = tail[m], size'[m] = size[m], content'[m] = content[m],
         size[m] > 0 => next'[tail[m]] = next[tail[m]],
         \A i \in 1 .. size[m] - 1 : next'[content[m][i]] = content[m][i + 1],
         \A i \in 1 .. size[m] : list'[content[m][i]] = m,
         \A b \in Blocks : list'[b] = m => list[b] = m
  PROVE  Holds(m, content[m])'
  BY DEF Holds

\* Appending a block that is in no list.
LEMMA LinkKeepsLists ==
  ASSUME LinkInv, NEW l \in Lists, NEW e \in Blocks, list[e] = NULL, Link(l, e)
  PROVE  LinkInv'
  <1> DEFINE n == size[l]
             s == content[l]
  <1>1. LinkTypes'
    <2>1. content' \in [Lists -> Seq(Blocks)]
      BY ListFacts, AppendProperties DEF Link, LinkInv, LinkTypes
    <2>2. size[l] \in Nat /\ (size[l] > 0 => tail[l] \in Blocks)
      BY ListFacts
    <2>3. next' \in [Blocks -> Blocks \cup {NULL}]
      BY <2>2 DEF Link, LinkInv, LinkTypes
    <2>4. /\ head' \in [Lists -> Blocks \cup {NULL}] /\ tail' \in [Lists -> Blocks \cup {NULL}]
          /\ size' \in [Lists -> Nat] /\ list' \in [Blocks -> Lists \cup {NULL}]
      BY <2>2 DEF Link, LinkInv, LinkTypes
    <2> QED BY <2>1, <2>3, <2>4 DEF LinkTypes
  <1>2. /\ \A m \in Lists : size'[m] = IF m = l THEN n + 1 ELSE size[m]
        /\ \A m \in Lists : content'[m] = IF m = l THEN Append(s, e) ELSE content[m]
        /\ \A m \in Lists : tail'[m] = IF m = l THEN e ELSE tail[m]
        /\ \A m \in Lists : head'[m] = IF m = l /\ n = 0 THEN e ELSE head[m]
        /\ \A b \in Blocks : list'[b] = IF b = e THEN l ELSE list[b]
    BY DEF Link, LinkInv, LinkTypes
  <1>3. /\ next'[e] = NULL
        /\ n > 0 /\ tail[l] # e => next'[tail[l]] = e
        /\ \A b \in Blocks : b # e /\ (n > 0 => b # tail[l]) => next'[b] = next[b]
    BY ListFacts DEF Link, LinkInv, LinkTypes
  <1>4. n \in Nat /\ s \in Seq(Blocks) /\ Len(s) = n /\ l # NULL
    BY ListFacts
  <1>5. ASSUME NEW m \in Lists, m # l PROVE Holds(m, content[m])'
    <2>1. \A i \in 1 .. size[m] :
             /\ content[m][i] \in Blocks /\ content[m][i] # e
             /\ n > 0 => content[m][i] # tail[l]
      BY <1>5, ListFacts
    <2>2. Holds(m, content[m]) /\ size[m] \in Nat
      BY ListFacts DEF LinkInv, WellLinked
    <2>3. \A i \in 1 .. size[m] : next'[content[m][i]] = next[content[m][i]]
      BY <1>3, <2>1
    <2>4. size[m] > 0 => next'[tail[m]] = next[tail[m]]
      BY <2>2, <2>3 DEF Holds
    <2>5. \A i \in 1 .. size[m] - 1 : next'[content[m][i]] = content[m][i + 1]
      BY <2>2, <2>3 DEF Holds
    <2>6. \A i \in 1 .. size[m] : list'[content[m][i]] = m
      BY <1>2, <2>1, <2>2 DEF Holds
    <2>7. \A b \in Blocks : list'[b] = m => list[b] = m
      BY <1>2, <1>5
    <2>8. size'[m] = size[m] /\ content'[m] = content[m] /\ tail'[m] = tail[m] /\ head'[m] = head[m]
      BY <1>2, <1>5
    <2> QED BY <2>2, <2>4, <2>5, <2>6, <2>7, <2>8, OtherLists
  <1>6. Holds(l, content[l])'
    <2>1. Holds(l, s)
      BY DEF LinkInv, WellLinked
    <2>2. /\ Append(s, e)[n + 1] = e /\ Len(Append(s, e)) = n + 1
          /\ \A i \in 1 .. n : Append(s, e)[i] = s[i]
      BY <1>4
    <2>3. \A i \in 1 .. n : s[i] \in Blocks /\ list[s[i]] = l /\ s[i] # e
      BY <1>4, ListFacts
    <2>4. size'[l] = n + 1 /\ content'[l] = Append(s, e) /\ tail'[l] = e
      BY <1>2
    <2>5. head'[l] = Append(s, e)[1]
      BY <1>2, <1>4, <2>1, <2>2 DEF Holds
    <2>6. ASSUME NEW i \in 1 .. n PROVE next'[s[i]] = Append(s, e)[i + 1]
      <3>1. CASE i = n
        BY <1>3, <1>4, <2>1, <2>2, <2>3, <3>1 DEF Holds
      <3>2. CASE i # n
        <4>1. i \in 1 .. n - 1 /\ n \in 1 .. n /\ s[i] # s[n]
          BY <1>4, <2>1, <3>2 DEF Holds
        <4>2. next'[s[i]] = next[s[i]]
          BY <1>3, <2>1, <2>3, <4>1 DEF Holds
        <4> QED BY <1>4, <2>1, <2>2, <4>1, <4>2 DEF Holds
      <3> QED BY <3>1, <3>2
    <2>7. \A i \in 1 .. n + 1 : list'[Append(s, e)[i]] = l
      BY <1>2, <1>4, <2>2, <2>3
    <2>8. \A i, j \in 1 .. n + 1 : Append(s, e)[i] = Append(s, e)[j] => i = j
      BY <1>4, <2>1, <2>2, <2>3 DEF Holds
    <2>9. ASSUME NEW b \in Blocks, list'[b] = l PROVE \E i \in 1 .. n + 1 : Append(s, e)[i] = b
      <3>1. CASE b = e
        BY <1>4, <2>2, <3>1
      <3>2. CASE b # e
        <4>1. PICK i \in 1 .. n : s[i] = b
          BY <1>2, <2>1, <2>9, <3>2 DEF Holds
        <4>2. i \in 1 .. n + 1 /\ Append(s, e)[i] = b
          BY <1>4, <2>2, <4>1
        <4> QED BY <4>2
      <3> QED BY <3>1, <3>2
    <2> QED BY <1>3, <1>4, <2>2, <2>4, <2>5, <2>6, <2>7, <2>8, <2>9 DEF Holds
  <1> QED BY <1>1, <1>5, <1>6 DEF LinkInv, WellLinked

\* Taking the first block off a list.
LEMMA RemoveHeadKeepsLists ==
  ASSUME LinkInv, NEW l \in Lists, ListRemoveHead(l)
  PROVE  LinkInv'
  <1> DEFINE n == size[l]
             s == content[l]
  <1>1. /\ n \in Nat /\ n > 0 /\ s \in Seq(Blocks) /\ Len(s) = n /\ s # <<>>
        /\ head[l] = s[1] /\ s[1] \in Blocks /\ list[s[1]] = l /\ l # NULL
    BY ListFacts DEF ListRemoveHead
  <1>2. /\ Tail(s) \in Seq(Blocks) /\ Len(Tail(s)) = n - 1
        /\ \A i \in 1 .. n - 1 : Tail(s)[i] = s[i + 1]
    BY <1>1
  <1>3. LinkTypes'
    BY <1>1, <1>2 DEF ListRemoveHead, LinkInv, LinkTypes
  <1>4. /\ \A m \in Lists : size'[m] = IF m = l THEN n - 1 ELSE size[m]
        /\ \A m \in Lists : content'[m] = IF m = l THEN Tail(s) ELSE content[m]
        /\ \A m \in Lists : tail'[m] = IF m = l /\ n = 1 THEN NULL ELSE tail[m]
        /\ \A m \in Lists : head'[m] = IF m = l THEN next[s[1]] ELSE head[m]
        /\ \A b \in Blocks : list'[b] = IF b = s[1] THEN NULL ELSE list[b]
        /\ next' = next
    BY <1>1 DEF ListRemoveHead, LinkInv, LinkTypes
  <1>5. ASSUME NEW m \in Lists, m # l PROVE Holds(m, content[m])'
    <2>1. Holds(m, content[m])
      BY DEF LinkInv, WellLinked
    <2>2. \A i \in 1 .. size[m] : content[m][i] \in Blocks /\ content[m][i] # s[1]
      BY <1>1, <1>5, ListFacts
    <2>3. \A b \in Blocks : list'[b] = m => list[b] = m
      BY <1>4, ListFacts
    <2>4. \A i \in 1 .. size[m] : list'[content[m][i]] = m
      BY <1>4, <2>1, <2>2 DEF Holds
    <2>5. /\ size'[m] = size[m] /\ content'[m] = content[m] /\ tail'[m] = tail[m] /\ head'[m] = head[m]
          /\ next' = next
      BY <1>4, <1>5
    <2>6. \A i \in 1 .. size[m] - 1 : next'[content[m][i]] = content[m][i + 1]
      BY <2>1, <2>5 DEF Holds
    <2> QED BY <2>1, <2>3, <2>4, <2>5, <2>6, OtherLists
  <1>6. Holds(l, content[l])'
    <2>1. Holds(l, s)
      BY DEF LinkInv, WellLinked
    <2>2. /\ size'[l] = n - 1 /\ content'[l] = Tail(s)
          /\ tail'[l] = IF n = 1 THEN NULL ELSE tail[l]
          /\ head'[l] = next[s[1]]
      BY <1>4
    <2>3. CASE n = 1
      <3>1. next[s[1]] = NULL
        BY <1>1, <2>1, <2>3 DEF Holds
      <3>2. \A b \in Blocks : list'[b] # l
        <4> SUFFICES ASSUME NEW b \in Blocks, list'[b] = l PROVE FALSE
          OBVIOUS
        <4>1. b # s[1] /\ list[b] = l
          BY <1>1, <1>4
        <4>2. PICK i \in 1 .. n : s[i] = b
          BY <2>1, <4>1 DEF Holds
        <4> QED BY <2>3, <4>1, <4>2
      <3> QED BY <1>2, <2>2, <2>3, <3>1, <3>2 DEF Holds
    <2>4. CASE n > 1
      <3>1. next[s[1]] = s[2] /\ Tail(s)[1] = s[2]
        BY <1>1, <1>2, <2>1, <2>4 DEF Holds
      <3>2. tail[l] = Tail(s)[n - 1] /\ next[tail[l]] = NULL
        BY <1>1, <1>2, <2>1, <2>4 DEF Holds
      <3>3. ASSUME NEW i \in 1 .. n - 2 PROVE next[Tail(s)[i]] = Tail(s)[i + 1]
        <4>1. i \in 1 .. n - 1 /\ i + 1 \in 1 .. n - 1
          BY <1>1
        <4>2. Tail(s)[i] = s[i + 1] /\ Tail(s)[i + 1] = s[i + 1 + 1]
          BY <1>2, <4>1
        <4>3. next[s[i + 1]] = s[i + 1 + 1]
          BY <2>1, <4>1 DEF Holds
        <4> QED BY <4>2, <4>3
      <3>4. \A i \in 1 .. n - 1 : i + 1 \in 1 .. n /\ s[i + 1] \in Blocks /\ s[i + 1] # s[1]
        BY <1>1, <2>1, ListFacts DEF Holds
      <3>5. \A i \in 1 .. n - 1 : list'[Tail(s)[i]] = l
        BY <1>2, <1>4, <2>1, <3>4 DEF Holds
      <3>6. \A i, j \in 1 .. n - 1 : Tail(s)[i] = Tail(s)[j] => i = j
        BY <1>1, <1>2, <2>1, <3>4 DEF Holds
      <3>7. ASSUME NEW b \in Blocks, list'[b] = l PROVE \E i \in 1 .. n - 1 : Tail(s)[i] = b
        <4>1. b # s[1] /\ list[b] = l
          BY <1>1, <1>4, <3>7
        <4>2. PICK i \in 1 .. n : s[i] = b
          BY <2>1, <4>1 DEF Holds
        <4>3. i - 1 \in 1 .. n - 1 /\ Tail(s)[i - 1] = b
          BY <1>1, <1>2, <4>1, <4>2
        <4> QED BY <4>3
      <3>8. /\ size'[l] = n - 1 /\ content'[l] = Tail(s) /\ tail'[l] = tail[l]
            /\ head'[l] = Tail(s)[1] /\ next' = next /\ n - 1 > 0 /\ n - 1 - 1 = n - 2
        BY <1>1, <1>4, <2>2, <2>4, <3>1
      <3> HIDE DEF n, s
      <3> QED BY <1>1, <1>2, <3>2, <3>3, <3>5, <3>6, <3>7, <3>8 DEF Holds
    <2> QED BY <1>1, <2>3, <2>4
  <1> QED BY <1>3, <1>5, <1>6 DEF LinkInv, WellLinked

-----------------------------------------------------------------------------
(* Who has each block.                                                     *)

\* A block is cut but not yet added, held, or in the list that its link
\* names, which is no other pool's than its own.
Owned ==
    /\ fresh \subseteq Blocks
    /\ \A b \in fresh : list[b] = NULL
    /\ held = {b \in Blocks \ fresh : list[b] = NULL}
    /\ \A p \in Pools, b \in Blocks : list[b] = p => pParentPool[b] = p

ListInv == LinkInv /\ Owned

\* A pool's list is never full when a block of the pool is not in it, so
\* the result gListFull_c that MEM_Init and MEM_BufferFree do not look at
\* never occurs: the list holds different blocks of the pool, one short of
\* them all at most.
LEMMA NeverFull ==
  ASSUME BuffersAssumption, ListInv, NEW b \in Blocks, list[b] = NULL
  PROVE  ~Full(pParentPool[b])
  <1> DEFINE p == pParentPool[b]
             rest == Cut(p) \ {b}
             slots == 1 .. size[p]
             f == [i \in slots |-> content[p][i]]
  <1>1. p \in Pools /\ p \in Lists /\ IsFiniteSet(Blocks)
    BY DEF BuffersAssumption, Lists
  <1>2. b \in Cut(p) /\ IsFiniteSet(Cut(p))
    BY <1>1, FS_Subset DEF Cut
  <1>3. IsFiniteSet(rest) /\ Cardinality(rest) = Cardinality(Cut(p)) - 1 /\ Cardinality(Cut(p)) \in Nat
    BY <1>2, FS_RemoveElement, FS_CardinalityType
  <1>4. size[p] \in Nat /\ \A i \in 1 .. size[p] :
                             content[p][i] \in Blocks /\ list[content[p][i]] = p /\ p # NULL
    BY <1>1, ListFacts DEF ListInv
  <1>5. f \in [slots -> rest]
    BY <1>1, <1>4 DEF ListInv, Owned, Cut
  <1>6. \A i, j \in slots : f[i] = f[j] => i = j
    BY <1>1 DEF ListInv, LinkInv, WellLinked, Holds
  <1> SUFFICES ASSUME size[p] = Cardinality(Cut(p)) PROVE FALSE
    BY DEF Full
  <1>7. IsFiniteSet(slots) /\ Cardinality(slots) = size[p]
    BY <1>4, FS_Interval
  <1> HIDE DEF rest, slots, f
  <1>8. Cardinality(rest) < Cardinality(slots)
    BY <1>3, <1>4, <1>7
  <1>9. \E i, j \in slots : i # j /\ f[i] = f[j]
    BY <1>3, <1>5, <1>7, <1>8, FS_PigeonHole
  <1> QED BY <1>6, <1>9

\* MEM_Init and MEM_BufferFree add the block to its pool.
LEMMA AddsToPool ==
  ASSUME BuffersAssumption, ListInv, NEW b \in Blocks, list[b] = NULL,
         ListAddTail(pParentPool[b], b)
  PROVE  Link(pParentPool[b], b) /\ pParentPool[b] \in Pools /\ pParentPool[b] \in Lists
  BY NeverFull DEF ListAddTail, BuffersAssumption, Lists

\* A message is always added to its queue.
LEMMA AddsToQueue ==
  ASSUME BuffersAssumption, NEW q \in Queues, NEW b \in Blocks, ListAddTail(q, b)
  PROVE  Link(q, b) /\ q \in Lists /\ q \notin Pools
  BY DEF ListAddTail, Full, BuffersAssumption, Lists

\* The pool that MEM_BufferAlloc takes a block from is one of them.
LEMMA RemovedHead ==
  ASSUME ListInv, NEW l \in Lists, ListRemoveHead(l)
  PROVE  /\ head[l] \in Blocks /\ list[head[l]] = l /\ l # NULL
         /\ list' = [list EXCEPT ![head[l]] = NULL]
  BY ListFacts DEF ListInv, ListRemoveHead

-----------------------------------------------------------------------------
(* The steps.                                                              *)

LEMMA InitLists ==
  ASSUME BuffersAssumption, Init
  PROVE  ListInv
  <1>1. LinkTypes
    BY EmptySeq DEF Init, LinkTypes
  <1>2. \A l \in Lists : l # NULL
    BY DEF BuffersAssumption
  <1>3. WellLinked
    BY <1>2 DEF Init, WellLinked, Holds
  <1>4. Owned
    BY <1>2 DEF Init, Owned, Lists
  <1> QED BY <1>1, <1>3, <1>4 DEF ListInv, LinkInv

\* What a step does to the lists: nothing, a link or a removal.
LEMMA NextKeepsLists ==
  ASSUME BuffersAssumption, ListInv, [Next]_vars
  PROVE  ListInv'
  <1>0. \A l \in Lists : l # NULL
    BY DEF BuffersAssumption
  <1>1. ASSUME NEW b \in Blocks, MEM_Init(b) PROVE ListInv'
    <2>1. b \in fresh /\ list[b] = NULL /\ b \in Blocks
      BY <1>1 DEF MEM_Init, ListInv, Owned
    <2>2. Link(pParentPool[b], b) /\ pParentPool[b] \in Pools /\ pParentPool[b] \in Lists
      BY <1>1, <2>1, AddsToPool DEF MEM_Init
    <2>3. LinkInv'
      BY <2>1, <2>2, LinkKeepsLists DEF ListInv
    <2>4. list' = [list EXCEPT ![b] = pParentPool[b]] /\ fresh' = fresh \ {b} /\ held' = held
      BY <1>1, <2>2 DEF Link, MEM_Init
    <2>5. list \in [Blocks -> Lists \cup {NULL}]
      BY DEF ListInv, LinkInv, LinkTypes
    <2>6. Owned'
      BY <1>0, <2>1, <2>2, <2>4, <2>5 DEF ListInv, Owned
    <2> QED BY <2>3, <2>6 DEF ListInv
  <1>2. ASSUME NEW b \in Blocks, MEM_BufferFree(b) PROVE ListInv'
    <2>1. list[b] = NULL /\ fresh = {} /\ fresh' = fresh /\ held' = held \ {b}
      BY <1>2 DEF MEM_BufferFree
    <2>2. Link(pParentPool[b], b) /\ pParentPool[b] \in Pools /\ pParentPool[b] \in Lists
      BY <1>2, <2>1, AddsToPool DEF MEM_BufferFree
    <2>3. LinkInv'
      BY <2>1, <2>2, LinkKeepsLists DEF ListInv
    <2>4. list' = [list EXCEPT ![b] = pParentPool[b]]
      BY <2>2 DEF Link
    <2>5. list \in [Blocks -> Lists \cup {NULL}]
      BY DEF ListInv, LinkInv, LinkTypes
    <2>6. Owned'
      BY <1>0, <2>1, <2>2, <2>4, <2>5 DEF ListInv, Owned
    <2> QED BY <2>3, <2>6 DEF ListInv
  <1>3. ASSUME NEW q \in Queues, NEW b \in Blocks, MSG_Queue(q, b) PROVE ListInv'
    <2>1. b \in held /\ list[b] = NULL /\ fresh' = fresh /\ held' = held \ {b}
      BY <1>3 DEF MSG_Queue, ListInv, Owned
    <2>2. Link(q, b) /\ q \in Lists /\ q \notin Pools
      BY <1>3, AddsToQueue DEF MSG_Queue
    <2>3. LinkInv'
      BY <2>1, <2>2, LinkKeepsLists DEF ListInv
    <2>4. list' = [list EXCEPT ![b] = q]
      BY <2>2 DEF Link
    <2>5. list \in [Blocks -> Lists \cup {NULL}]
      BY DEF ListInv, LinkInv, LinkTypes
    <2>6. Owned'
      BY <1>0, <2>1, <2>2, <2>4, <2>5 DEF ListInv, Owned
    <2> QED BY <2>3, <2>6 DEF ListInv
  <1>4. ASSUME NEW q \in Queues, MSG_DeQueue(q) PROVE ListInv'
    <2>1. q \in Lists /\ q # NULL /\ ListRemoveHead(q) /\ fresh' = fresh /\ held' = held \cup {head[q]}
      BY <1>0, <1>4 DEF MSG_DeQueue, Lists
    <2>2. LinkInv'
      BY <2>1, RemoveHeadKeepsLists DEF ListInv
    <2>3. /\ head[q] \in Blocks /\ list[head[q]] = q
          /\ list' = [list EXCEPT ![head[q]] = NULL]
      BY <2>1, RemovedHead
    <2>4. list \in [Blocks -> Lists \cup {NULL}] /\ \A p \in Pools : p # NULL
      BY <1>0 DEF ListInv, LinkInv, LinkTypes, Lists
    <2>5. Owned'
      BY <2>1, <2>3, <2>4 DEF ListInv, Owned
    <2> QED BY <2>2, <2>5 DEF ListInv
  <1>5. ASSUME NEW r \in Requests, MEM_BufferAlloc(r) PROVE ListInv'
    <2>1. PICK p \in Pools : ListRemoveHead(p) /\ held' = held \cup {head[p]}
      BY <1>5 DEF MEM_BufferAlloc
    <2>2. p \in Lists /\ p # NULL /\ fresh' = fresh /\ fresh = {}
      BY <1>0, <1>5 DEF MEM_BufferAlloc, Lists
    <2>3. LinkInv'
      BY <2>1, <2>2, RemoveHeadKeepsLists DEF ListInv
    <2>4. /\ head[p] \in Blocks /\ list[head[p]] = p
          /\ list' = [list EXCEPT ![head[p]] = NULL]
      BY <2>1, <2>2, RemovedHead
    <2>5. list \in [Blocks -> Lists \cup {NULL}] /\ \A m \in Pools : m # NULL
      BY <1>0 DEF ListInv, LinkInv, LinkTypes, Lists
    <2>6. Owned'
      BY <2>1, <2>2, <2>4, <2>5 DEF ListInv, Owned
    <2> QED BY <2>3, <2>6 DEF ListInv
  <1>6. CASE UNCHANGED vars
    BY <1>6 DEF vars, links, ListInv, LinkInv, LinkTypes, WellLinked, Holds, Owned
  <1> QED BY <1>1, <1>2, <1>3, <1>4, <1>5, <1>6 DEF Next

\* The pointers of every list are well linked, whatever clients allocate,
\* send, receive and free, a block that is free or queued included.
THEOREM ListsAreWellLinked == Spec => []WellLinked
  <1>1. Init => ListInv
    BY InitLists, BuffersAssumption
  <1>2. ListInv /\ [Next]_vars => ListInv'
    BY NextKeepsLists, BuffersAssumption
  <1>3. ListInv => WellLinked
    BY DEF ListInv, LinkInv
  <1> QED BY <1>1, <1>2, <1>3, PTL DEF Spec

-----------------------------------------------------------------------------
(* The counts.                                                             *)

FreeBlocks == {b \in Blocks : list[b] \in Pools}

Taken(p) == {b \in Cut(p) \ fresh : list[b] # p}

Counted ==
    /\ gFreeMessagesCount = Cardinality(FreeBlocks)
    /\ allocatedBlocks \in [Pools -> Nat]
    /\ \A p \in Pools : allocatedBlocks[p] = Cardinality(Taken(p))

Inv == ListInv /\ Counted

LEMMA FiniteParts ==
  ASSUME BuffersAssumption
  PROVE  IsFiniteSet(FreeBlocks) /\ \A p \in Pools : IsFiniteSet(Taken(p))
  BY FS_Subset DEF BuffersAssumption, FreeBlocks, Taken, Cut

\* A step that moves no block into or out of a free list keeps the counts.
LEMMA CountsUntouched ==
  ASSUME Counted, counts' = counts, FreeBlocks' = FreeBlocks,
         \A p \in Pools : Taken(p)' = Taken(p)
  PROVE  Counted'
  BY DEF Counted, counts

\* How a step moves block b between the free list of its pool and the rest.
LEMMA CountsMoved ==
  ASSUME BuffersAssumption, Counted, NEW b \in Blocks,
         pParentPool[b] \in Pools,
         \A p \in Pools : p # pParentPool[b] => Taken(p)' = Taken(p),
         \/ /\ b \notin FreeBlocks /\ FreeBlocks' = FreeBlocks \cup {b}
            /\ b \in Taken(pParentPool[b])
            /\ Taken(pParentPool[b])' = Taken(pParentPool[b]) \ {b}
            /\ gFreeMessagesCount' = gFreeMessagesCount + 1
            /\ allocatedBlocks' = [allocatedBlocks EXCEPT ![pParentPool[b]] = @ - 1]
         \/ /\ b \in FreeBlocks /\ FreeBlocks' = FreeBlocks \ {b}
            /\ b \notin Taken(pParentPool[b])
            /\ Taken(pParentPool[b])' = Taken(pParentPool[b]) \cup {b}
            /\ gFreeMessagesCount' = gFreeMessagesCount - 1
            /\ allocatedBlocks' = [allocatedBlocks EXCEPT ![pParentPool[b]] = @ + 1]
  PROVE  Counted'
  <1> DEFINE p == pParentPool[b]
  <1>1. IsFiniteSet(FreeBlocks) /\ IsFiniteSet(Taken(p))
    BY FiniteParts
  <1>2. gFreeMessagesCount' = Cardinality(FreeBlocks')
    <2>1. gFreeMessagesCount = Cardinality(FreeBlocks)
      BY DEF Counted
    <2>2. CASE /\ b \notin FreeBlocks /\ FreeBlocks' = FreeBlocks \cup {b}
               /\ gFreeMessagesCount' = gFreeMessagesCount + 1
      <3>1. Cardinality(FreeBlocks \cup {b}) = Cardinality(FreeBlocks) + 1
        BY <1>1, <2>2, FS_AddElement
      <3> QED BY <2>1, <2>2, <3>1
    <2>3. CASE /\ b \in FreeBlocks /\ FreeBlocks' = FreeBlocks \ {b}
               /\ gFreeMessagesCount' = gFreeMessagesCount - 1
      <3>1. Cardinality(FreeBlocks \ {b}) = Cardinality(FreeBlocks) - 1
        BY <1>1, <2>3, FS_RemoveElement
      <3> QED BY <2>1, <2>3, <3>1
    <2> QED BY <2>2, <2>3
  <1>3. Cardinality(Taken(p)) \in Nat /\ (b \in Taken(p) => Cardinality(Taken(p)) # 0)
    BY <1>1, FS_CardinalityType, FS_EmptySet
  <1>4. allocatedBlocks[p] = Cardinality(Taken(p))
    BY DEF Counted
  <1>5. allocatedBlocks'[p] \in Nat /\ allocatedBlocks'[p] = Cardinality(Taken(p)')
    <2>1. CASE b \in Taken(p) /\ Taken(p)' = Taken(p) \ {b} /\ allocatedBlocks'[p] = allocatedBlocks[p] - 1
      <3>1. Cardinality(Taken(p) \ {b}) = Cardinality(Taken(p)) - 1
        BY <1>1, <2>1, FS_RemoveElement
      <3> QED BY <1>3, <1>4, <2>1, <3>1
    <2>2. CASE b \notin Taken(p) /\ Taken(p)' = Taken(p) \cup {b} /\ allocatedBlocks'[p] = allocatedBlocks[p] + 1
      <3>1. Cardinality(Taken(p) \cup {b}) = Cardinality(Taken(p)) + 1
        BY <1>1, <2>2, FS_AddElement
      <3> QED BY <1>3, <1>4, <2>2, <3>1
    <2>3. allocatedBlocks \in [Pools -> Nat]
      BY DEF Counted
    <2> QED BY <2>1, <2>2, <2>3
  <1>6. \A m \in Pools : m # p => allocatedBlocks'[m] = allocatedBlocks[m]
    BY DEF Counted
  <1>7. allocatedBlocks' \in [Pools -> Nat]
    BY <1>3, <1>4, <1>5 DEF Counted
  <1> QED BY <1>2, <1>5, <1>6, <1>7 DEF Counted

LEMMA InitCounts ==
  ASSUME BuffersAssumption, Init
  PROVE  Counted
  <1>1. FreeBlocks = {} /\ \A p \in Pools : Taken(p) = {}
    BY DEF BuffersAssumption, Init, FreeBlocks, Taken, Cut, Lists
  <1> QED BY <1>1, FS_EmptySet DEF Init, Counted

LEMMA NextKeepsCounts ==
  ASSUME BuffersAssumption, Inv, [Next]_vars
  PROVE  Counted'
  <1>1. /\ list \in [Blocks -> Lists \cup {NULL}] /\ NULL \notin Lists
        /\ pParentPool \in [Blocks -> Pools] /\ Pools \subseteq Lists
        /\ ListInv /\ Counted /\ Owned
    BY DEF BuffersAssumption, Inv, ListInv, LinkInv, LinkTypes, Lists
  <1>2. ASSUME NEW b \in Blocks, MEM_Init(b) PROVE Counted'
    <2>1. b \in fresh /\ list[b] = NULL /\ fresh' = fresh \ {b} /\ allocatedBlocks' = allocatedBlocks
      BY <1>1, <1>2 DEF MEM_Init, Owned
    <2>2. list' = [list EXCEPT ![b] = pParentPool[b]]
      BY <1>1, <1>2, <2>1, AddsToPool DEF MEM_Init, Link
    <2>3. b \notin FreeBlocks /\ FreeBlocks' = FreeBlocks \cup {b}
      BY <1>1, <2>1, <2>2 DEF FreeBlocks
    <2>4. \A p \in Pools : Taken(p)' = Taken(p)
      BY <1>1, <2>1, <2>2 DEF Taken, Cut
    <2>5. gFreeMessagesCount' = Cardinality(FreeBlocks')
      BY <1>1, <1>2, <2>3, FiniteParts, FS_AddElement DEF MEM_Init, Counted
    <2> QED BY <1>1, <2>1, <2>4, <2>5 DEF Counted
  <1>3. ASSUME NEW b \in Blocks, MEM_BufferFree(b) PROVE Counted'
    <2>1. list[b] = NULL /\ fresh = {} /\ fresh' = fresh
      BY <1>3 DEF MEM_BufferFree
    <2>2. list' = [list EXCEPT ![b] = pParentPool[b]]
      BY <1>1, <1>3, <2>1, AddsToPool DEF MEM_BufferFree, Link
    <2>3. b \notin FreeBlocks /\ FreeBlocks' = FreeBlocks \cup {b}
      BY <1>1, <2>1, <2>2 DEF FreeBlocks
    <2>4. \A p \in Pools : Taken(p)' = IF p = pParentPool[b] THEN Taken(p) \ {b} ELSE Taken(p)
      BY <1>1, <2>1, <2>2 DEF Taken, Cut
    <2>5. b \in Taken(pParentPool[b]) /\ pParentPool[b] \in Pools
      BY <1>1, <2>1 DEF Taken, Cut
    <2>6. /\ gFreeMessagesCount' = gFreeMessagesCount + 1
          /\ allocatedBlocks' = [allocatedBlocks EXCEPT ![pParentPool[b]] = @ - 1]
      BY <1>3 DEF MEM_BufferFree
    <2> QED BY <1>1, <2>3, <2>4, <2>5, <2>6, CountsMoved
  <1>4. ASSUME NEW q \in Queues, NEW b \in Blocks, MSG_Queue(q, b) PROVE Counted'
    <2>1. list[b] = NULL /\ fresh' = fresh /\ counts' = counts
      BY <1>1, <1>4 DEF MSG_Queue, Owned
    <2>2. list' = [list EXCEPT ![b] = q] /\ q \notin Pools
      BY <1>4, AddsToQueue DEF MSG_Queue, Link
    <2>3. FreeBlocks' = FreeBlocks
      BY <1>1, <2>1, <2>2 DEF FreeBlocks
    <2>4. \A p \in Pools : Taken(p)' = Taken(p)
      BY <1>1, <2>1, <2>2 DEF Taken, Cut
    <2> QED BY <1>1, <2>1, <2>3, <2>4, CountsUntouched
  <1>5. ASSUME NEW q \in Queues, MSG_DeQueue(q) PROVE Counted'
    <2>1. ListRemoveHead(q) /\ fresh' = fresh /\ counts' = counts /\ q \in Lists /\ q \notin Pools
      BY <1>5 DEF MSG_DeQueue, BuffersAssumption, Lists
    <2>2. /\ head[q] \in Blocks /\ list[head[q]] = q
          /\ list' = [list EXCEPT ![head[q]] = NULL]
      BY <1>1, <2>1, RemovedHead
    <2>3. FreeBlocks' = FreeBlocks
      BY <1>1, <2>1, <2>2 DEF FreeBlocks
    <2>4. \A p \in Pools : Taken(p)' = Taken(p)
      BY <1>1, <2>1, <2>2 DEF Taken, Cut
    <2> QED BY <1>1, <2>1, <2>3, <2>4, CountsUntouched
  <1>6. ASSUME NEW r \in Requests, MEM_BufferAlloc(r) PROVE Counted'
    <2>1. PICK p \in Pools : /\ ListRemoveHead(p)
                             /\ allocatedBlocks' = [allocatedBlocks EXCEPT ![p] = @ + 1]
      BY <1>6 DEF MEM_BufferAlloc
    <2>2. fresh = {} /\ fresh' = fresh /\ gFreeMessagesCount' = gFreeMessagesCount - 1
      BY <1>6 DEF MEM_BufferAlloc
    <2>3. PICK b \in Blocks : list[b] = p /\ list' = [list EXCEPT ![b] = NULL]
      BY <1>1, <2>1, RemovedHead
    <2>4. pParentPool[b] = p
      BY <1>1, <2>3 DEF Owned
    <2>5. b \in FreeBlocks /\ FreeBlocks' = FreeBlocks \ {b}
      BY <1>1, <2>3 DEF FreeBlocks
    <2>6. \A m \in Pools : Taken(m)' = IF m = p THEN Taken(m) \cup {b} ELSE Taken(m)
      BY <1>1, <2>2, <2>3, <2>4 DEF Taken, Cut
    <2>7. b \notin Taken(p)
      BY <2>3 DEF Taken
    <2> QED BY <1>1, <2>1, <2>2, <2>4, <2>5, <2>6, <2>7, CountsMoved
  <1>7. CASE UNCHANGED vars
    <2>1. list' = list /\ fresh' = fresh /\ counts' = counts
      BY <1>7 DEF vars, links
    <2>2. FreeBlocks' = FreeBlocks /\ \A p \in Pools : Taken(p)' = Taken(p)
      BY <2>1 DEF FreeBlocks, Taken
    <2> QED BY <1>1, <2>1, <2>2, CountsUntouched
  <1> QED BY <1>2, <1>3, <1>4, <1>5, <1>6, <1>7 DEF Next

LEMMA InvIsInductive ==
  /\ Init => Inv
  /\ Inv /\ [Next]_vars => Inv'
  <1>1. Init => Inv
    BY InitLists, InitCounts, BuffersAssumption DEF Inv
  <1>2. Inv /\ [Next]_vars => Inv'
    BY NextKeepsLists, NextKeepsCounts, BuffersAssumption DEF Inv
  <1> QED BY <1>1, <1>2

\* Every variable keeps its type: no count of MemManager.c goes below zero.
THEOREM BuffersTypeCorrect == Spec => []TypeOK
  <1>1. Inv => TypeOK
    <2>1. BuffersAssumption => IsFiniteSet(FreeBlocks)
      BY FiniteParts
    <2>2. Inv => gFreeMessagesCount \in Nat
      BY <2>1, BuffersAssumption, FS_CardinalityType DEF Inv, Counted
    <2> QED BY <2>2 DEF Inv, ListInv, LinkInv, LinkTypes, Owned, Counted, TypeOK
  <1> QED BY <1>1, InvIsInductive, PTL DEF Spec

\* No block leaks and none is counted twice, with a full free list, a
\* refused free and an exhausted pool included.
THEOREM NothingIsLost == Spec => []Conservation
  <1>1. Inv => Conservation
    BY DEF Inv, ListInv, Owned, Counted, Conservation, FreeBlocks, Taken
  <1> QED BY <1>1, InvIsInductive, PTL DEF Spec

-----------------------------------------------------------------------------
(* Memory.                                                                 *)

LEMMA FirstOfPools ==
  ASSUME NEW S \in SUBSET Nat, S # {}
  PROVE  \E x \in S : \A y \in S : x <= y
  <1>1. PICK x \in S : \A y \in S : ~ (<<y, x>> \in OpToRel(<, Nat))
    BY WFMin, NatLessThanWellFounded
  <1>2. \A y \in S : ~ (y < x) /\ y \in Nat
    BY <1>1 DEF OpToRel
  <1> QED BY <1>2

First(r) == [need |-> r.numBytes, pool |-> 0]

\* after is the search through the first n pools.
Searches(after, r, n) ==
    after = [p \in 0 .. n |-> IF p = 0 THEN First(r) ELSE Visit(after[p - 1], p, r.poolId)]

\* The equation of Search has a solution, so Search is one.
LEMMA SearchExists ==
  ASSUME NEW r, BuffersAssumption
  PROVE  Searches(Search(r), r, Len(poolInfo))
  <1> DEFINE N == Len(poolInfo)
             P(n) == \E after : Searches(after, r, n)
             Failing == {n \in 0 .. N : ~ P(n)}
  <1>1. N \in Nat
    BY DEF BuffersAssumption
  <1>2. P(0)
    <2> DEFINE g == [p \in 0 .. 0 |-> First(r)]
    <2>1. Searches(g, r, 0)
      BY DEF Searches
    <2> QED BY <2>1
  <1>3. ASSUME NEW n \in Nat, P(n) PROVE P(n + 1)
    <2>1. PICK g : Searches(g, r, n)
      BY <1>3
    <2> DEFINE h == [p \in 0 .. n + 1 |-> IF p = 0 THEN First(r) ELSE Visit(g[p - 1], p, r.poolId)]
    <2>2. \A p \in 0 .. n : h[p] = g[p]
      BY <2>1 DEF Searches
    <2>3. \A p \in 0 .. n + 1 : p # 0 => p - 1 \in 0 .. n
      OBVIOUS
    <2>4. \A p \in 0 .. n + 1 : h[p] = IF p = 0 THEN First(r) ELSE Visit(h[p - 1], p, r.poolId)
      BY <2>2, <2>3
    <2>5. Searches(h, r, n + 1)
      BY <2>4 DEF Searches
    <2> QED BY <2>5
  <1>4. Failing = {}
    <2> SUFFICES ASSUME Failing # {} PROVE FALSE
      OBVIOUS
    <2>1. Failing \in SUBSET Nat
      OBVIOUS
    <2>2. PICK n \in Failing : \A m \in Failing : n <= m
      <3> HIDE DEF Failing
      <3> QED BY <2>1, FirstOfPools
    <2>3. n \in 0 .. N /\ ~ P(n)
      OBVIOUS
    <2>4. n # 0
      <3> HIDE DEF P
      <3> QED BY <1>2, <2>3
    <2>5. n - 1 \in 0 .. N /\ n - 1 \in Nat /\ (n - 1) + 1 = n /\ ~ (n <= n - 1)
      BY <1>1, <2>3, <2>4
    <2>6. P(n - 1)
      <3> HIDE DEF P
      <3> QED BY <2>2, <2>5
    <2>7. P((n - 1) + 1)
      <3> HIDE DEF P
      <3> QED BY <1>3, <2>5, <2>6
    <2> HIDE DEF P
    <2> QED BY <2>3, <2>5, <2>7
  <1>5. P(N)
    <2> HIDE DEF P
    <2> QED BY <1>1, <1>4
  <1> QED BY <1>5 DEF Searches, Search, First

Large(r) == {q \in Pools : Fits(r.numBytes, r.poolId, q)}

\* The search s after the first p pools: no pool passed over had a block to
\* give, and a pool that it goes on to would satisfy it.
Passed(s, r, p) ==
    /\ s = [need |-> s.need, pool |-> s.pool] /\ s.need \in Nat
    /\ s.need = 0 /\ s.pool = 0 => \A q \in Large(r) : size[q] = 0
    /\ s.need # 0 => /\ s.pool = 0
                     /\ \A q \in Large(r) : q <= p => size[q] = 0
                     /\ \A q \in Large(r) : p < q => s.need <= poolInfo[q].blockSize

LEMMA VisitPasses ==
  ASSUME NEW r \in Requests, NEW p \in Pools, NEW s, Passed(s, r, p - 1),
         LinkTypes, BuffersAssumption, PoolOrderAssumption
  PROVE  Passed(Visit(s, p, r.poolId), r, p)
  <1>1. /\ Len(poolInfo) \in Nat /\ p \in Nat
        /\ \A q \in Pools : /\ q \in Nat /\ q <= Len(poolInfo)
                            /\ poolInfo[q].blockSize \in Nat \ {0}
                            /\ size[q] \in Nat
        /\ r.numBytes \in Nat \ {0}
    <2>1. Len(poolInfo) \in Nat /\ \A q \in Pools : q \in Nat /\ q <= Len(poolInfo)
      BY DEF BuffersAssumption, Pools
    <2>2. \A q \in Pools : poolInfo[q] \in [blockSize : Nat \ {0}, poolId : Nat]
      BY ElementOfSeq DEF BuffersAssumption, Pools
    <2>3. \A q \in Pools : size[q] \in Nat
      BY DEF Lists, LinkTypes
    <2>4. r.numBytes \in Nat \ {0}
      BY DEF BuffersAssumption
    <2> QED BY <2>1, <2>2, <2>3, <2>4
  <1>2. \A q \in Large(r) : q \in Pools /\ poolInfo[q].poolId = r.poolId /\ r.numBytes <= poolInfo[q].blockSize
    BY DEF Large, Fits
  <1>3. CASE s.need = 0
    BY <1>3 DEF Visit, Passed
  <1>4. CASE s.need # 0 /\ ~ Fits(s.need, r.poolId, p)
    <2>1. Visit(s, p, r.poolId) = s
      BY <1>4 DEF Visit
    <2>2. p \notin Large(r)
      BY <1>1, <1>2, <1>4 DEF Passed, Fits
    <2>3. \A q \in Large(r) : q <= p => q <= p - 1
      <3>1. \A q \in Large(r) : q \in Nat /\ q # p
        BY <1>1, <1>2, <2>2
      <3> QED BY <1>1, <3>1
    <2>4. \A q \in Large(r) : p < q => p - 1 < q
      <3>1. \A q \in Large(r) : q \in Nat
        BY <1>1, <1>2
      <3> QED BY <1>1, <3>1
    <2> QED BY <1>4, <2>1, <2>3, <2>4 DEF Passed
  <1>5. CASE s.need # 0 /\ Fits(s.need, r.poolId, p) /\ size[p] > 0
    <2>1. Visit(s, p, r.poolId) = [need |-> 0, pool |-> p]
      BY <1>5 DEF Visit
    <2>2. p # 0
      BY DEF Pools
    <2> QED BY <2>1, <2>2 DEF Passed
  <1>6. CASE s.need # 0 /\ Fits(s.need, r.poolId, p) /\ ~ (size[p] > 0)
    <2>1. size[p] = 0
      BY <1>1, <1>6
    <2>2. \A q \in Large(r) : q <= p => size[q] = 0
      <3>0. \A q \in Large(r) : q \in Nat
        BY <1>1, <1>2
      <3>1. \A q \in Large(r) : q <= p => q = p \/ q <= p - 1
        BY <1>1, <3>0
      <3> QED BY <1>6, <2>1, <3>1 DEF Passed
    <2>3. ASSUME NEW q \in Large(r), p < q
          PROVE  /\ NextBlockSize(p) <= poolInfo[q].blockSize
                 /\ s.need <= NextBlockSize(p)
      <3>1. q \in Pools /\ poolInfo[q].poolId = poolInfo[p].poolId
        BY <1>2, <1>6 DEF Fits
      <3>2. poolInfo[p + 1].poolId = poolInfo[p].poolId
        BY <2>3, <3>1 DEF PoolOrderAssumption
      <3>3. p + 1 \in Pools /\ p < p + 1 /\ (p + 1 = q \/ p + 1 < q)
        <4>1. q \in Nat /\ q <= Len(poolInfo)
          BY <1>1, <3>1
        <4>2. p + 1 \in 1 .. Len(poolInfo) /\ p < p + 1 /\ (p + 1 = q \/ p + 1 < q)
          BY <1>1, <2>3, <4>1
        <4> QED BY <4>2 DEF Pools
      <3>4. NextBlockSize(p) = poolInfo[p + 1].blockSize
        BY <1>1, <2>3, <3>1 DEF NextBlockSize
      <3>5. poolInfo[p + 1].blockSize <= poolInfo[q].blockSize
        BY <1>1, <3>1, <3>2, <3>3 DEF PoolOrderAssumption
      <3>6. poolInfo[p].blockSize <= poolInfo[p + 1].blockSize
        BY <3>2, <3>3 DEF PoolOrderAssumption
      <3>7. s.need <= poolInfo[p].blockSize /\ s.need \in Nat
        BY <1>6 DEF Fits, Passed
      <3>8. /\ poolInfo[p].blockSize \in Nat /\ poolInfo[p + 1].blockSize \in Nat
            /\ poolInfo[q].blockSize \in Nat
        BY <1>1, <3>1, <3>3
      <3> DEFINE m == poolInfo[p].blockSize
                 n == poolInfo[p + 1].blockSize
                 k == poolInfo[q].blockSize
                 a == s.need
      <3>9. a \in Nat /\ m \in Nat /\ n \in Nat /\ k \in Nat /\ a <= m /\ m <= n /\ n <= k
        BY <3>5, <3>6, <3>7, <3>8
      <3>10. NextBlockSize(p) = n
        BY <3>4
      <3> HIDE DEF m, n, k, a
      <3>11. n <= k /\ a <= n
        BY <3>9
      <3> QED BY <3>10, <3>11 DEF k, a
    <2>4. NextBlockSize(p) \in Nat
      <3>1. p + 1 \in Pools \/ ~ (p < Len(poolInfo))
        BY <1>1 DEF Pools
      <3> QED BY <1>1, <3>1 DEF NextBlockSize
    <2>5. CASE s.need > NextBlockSize(p)
      <3>1. Visit(s, p, r.poolId) = [need |-> 0, pool |-> 0]
        BY <1>6, <2>5 DEF Visit
      <3>2. \A q \in Large(r) : size[q] = 0
        <4>0. \A q \in Large(r) : q \in Nat
          BY <1>1, <1>2
        <4>1. \A q \in Large(r) : q <= p \/ p < q
          BY <1>1, <4>0
        <4>2. s.need \in Nat
          BY DEF Passed
        <4> QED BY <2>2, <2>3, <2>4, <2>5, <4>1, <4>2
      <3> QED BY <3>1, <3>2 DEF Passed
    <2>6. CASE ~ (s.need > NextBlockSize(p))
      <3>1. Visit(s, p, r.poolId) = [need |-> NextBlockSize(p), pool |-> 0]
        BY <1>6, <2>6 DEF Visit
      <3>2. s.need \in Nat
        BY DEF Passed
      <3>3. NextBlockSize(p) # 0
        BY <1>6, <2>4, <2>6, <3>2
      <3> QED BY <2>2, <2>3, <2>4, <3>1, <3>3 DEF Passed
    <2> QED BY <2>5, <2>6
  <1> QED BY <1>3, <1>4, <1>5, <1>6

\* A search that ends without a pool has passed over every large one.
LEMMA SearchMissesNone ==
  ASSUME NEW r \in Requests, LinkTypes, BuffersAssumption, PoolOrderAssumption,
         PoolFor(r) = 0
  PROVE  \A q \in Large(r) : size[q] = 0
  <1> DEFINE N == Len(poolInfo)
             after == Search(r)
             Failing == {n \in 0 .. N : ~ Passed(after[n], r, n)}
  <1>1. N \in Nat
    BY DEF BuffersAssumption
  <1>2. \A p \in 0 .. N : after[p] = IF p = 0 THEN First(r) ELSE Visit(after[p - 1], p, r.poolId)
    <2> DEFINE f == Search(r)
    <2>1. Searches(f, r, N)
      BY SearchExists
    <2> HIDE DEF f, N
    <2>2. \A p \in 0 .. N : f[p] = IF p = 0 THEN First(r) ELSE Visit(f[p - 1], p, r.poolId)
      BY <2>1 DEF Searches
    <2> QED BY <2>2 DEF f
  <1>3. 0 \notin Failing
    <2>1. after[0] = First(r) /\ r.numBytes \in Nat \ {0}
      BY <1>1, <1>2 DEF BuffersAssumption
    <2>2. \A q \in Large(r) : q \in Nat /\ q > 0 /\ r.numBytes <= poolInfo[q].blockSize
      BY DEF Large, Pools, Fits
    <2> QED BY <2>1, <2>2 DEF First, Passed
  <1>4. Failing = {}
    <2> SUFFICES ASSUME Failing # {} PROVE FALSE
      OBVIOUS
    <2>1. Failing \in SUBSET Nat
      OBVIOUS
    <2>2. PICK n \in Failing : \A m \in Failing : n <= m
      <3> HIDE DEF Failing
      <3> QED BY <2>1, FirstOfPools
    <2>3. n # 0 /\ n \in 0 .. N /\ ~ Passed(after[n], r, n)
      BY <1>3
    <2>4. n \in Pools /\ n - 1 \in 0 .. N /\ ~ (n <= n - 1)
      BY <1>1, <2>3 DEF Pools
    <2>5. Passed(after[n - 1], r, n - 1)
      BY <2>2, <2>4
    <2>6. after[n] = Visit(after[n - 1], n, r.poolId)
      BY <1>2, <2>3
    <2> DEFINE s == after[n - 1]
    <2>7. Passed(s, r, n - 1) /\ after[n] = Visit(s, n, r.poolId)
      BY <2>5, <2>6
    <2> HIDE DEF s
    <2>8. Passed(Visit(s, n, r.poolId), r, n)
      BY <2>4, <2>7, VisitPasses
    <2> QED BY <2>3, <2>7, <2>8
  <1>5. Passed(after[N], r, N)
    BY <1>1, <1>4
  <1>6. after[N].pool = 0
    BY DEF PoolFor
  <1>7. \A q \in Large(r) : q <= N
    BY <1>1 DEF Large, Pools
  <1> HIDE DEF after
  <1> QED BY <1>5, <1>6, <1>7 DEF Passed

\* MEM_BufferAllocWithId gives up only when no block of that id that is
\* large enough is free, whatever the pools hold.
THEOREM AllocationsSucceed == Spec => []AllocatesWhilePossible
  <1>1. Inv => AllocatesWhilePossible
    BY SearchMissesNone, BuffersAssumption, PoolOrderAssumption
    DEF Inv, ListInv, LinkInv, AllocatesWhilePossible, Large
  <1> QED BY <1>1, InvIsInductive, PTL DEF Spec

-----------------------------------------------------------------------------
(* What the tasks see.                                                     *)

\* The queues and the held blocks as MessageQueues has them.
Queued == [q \in Queues |-> content[q]]

LEMMA StepsAreMessaging ==
  ASSUME BuffersAssumption, Inv, [Next]_vars
  PROVE  [Messaging!Next]_(Messaging!vars)
  <1>1. /\ LinkInv /\ Owned /\ \A q \in Queues : q \in Lists /\ q \notin Pools
        /\ NULL \notin Lists
        /\ content \in [Lists -> Seq(Blocks)] /\ Pools \subseteq Lists
    BY DEF BuffersAssumption, Inv, ListInv, LinkInv, LinkTypes, Lists
  \* A link or a removal in a pool's list shows the tasks nothing.
  <1>2. ASSUME NEW b \in Blocks, MEM_Init(b) PROVE UNCHANGED Messaging!vars
    <2>1. list[b] = NULL /\ held' = held
      BY <1>1, <1>2 DEF MEM_Init, Owned
    <2>2. Link(pParentPool[b], b) /\ pParentPool[b] \in Pools
      BY <1>2, <2>1, AddsToPool DEF MEM_Init, Inv
    <2>3. Queued' = Queued
      BY <1>1, <2>2 DEF Link, Queued
    <2> QED BY <2>1, <2>3 DEF Messaging!vars, Queued
  <1>3. ASSUME NEW b \in Blocks, MEM_BufferFree(b) PROVE Messaging!Release(b)
    <2>1. list[b] = NULL /\ held' = held \ {b} /\ b \in held
      BY <1>1, <1>3 DEF MEM_BufferFree, Owned
    <2>2. Link(pParentPool[b], b) /\ pParentPool[b] \in Pools
      BY <1>3, <2>1, AddsToPool DEF MEM_BufferFree, Inv
    <2>3. Queued' = Queued
      BY <1>1, <2>2 DEF Link, Queued
    <2> QED BY <2>1, <2>3 DEF Messaging!Release, Queued
  <1>4. ASSUME NEW q \in Queues, NEW b \in Blocks, MSG_Queue(q, b) PROVE Messaging!Send(q, b)
    <2>1. b \in held /\ held' = held \ {b} /\ Link(q, b)
      BY <1>4, AddsToQueue DEF MSG_Queue
    <2>2. Queued' = [Queued EXCEPT ![q] = Append(@, b)]
      BY <1>1, <2>1 DEF Link, Queued
    <2> QED BY <2>1, <2>2 DEF Messaging!Send, Queued
  <1>5. ASSUME NEW q \in Queues, MSG_DeQueue(q) PROVE Messaging!Receive(q)
    <2>1. ListRemoveHead(q) /\ held' = held \cup {head[q]}
      BY <1>5 DEF MSG_DeQueue
    <2>2. /\ content[q] \in Seq(Blocks) /\ Len(content[q]) > 0
          /\ head[q] = Head(content[q]) /\ content[q] # <<>>
      BY <1>1, <2>1, ListFacts DEF ListRemoveHead
    <2>3. Queued' = [Queued EXCEPT ![q] = Tail(@)]
      BY <1>1, <2>1 DEF ListRemoveHead, Queued
    <2>4. Queued[q] = content[q]
      BY DEF Queued
    <2> QED BY <2>1, <2>2, <2>3, <2>4 DEF Messaging!Receive, Queued
  <1>6. ASSUME NEW r \in Requests, MEM_BufferAlloc(r) PROVE \E b \in Blocks : Messaging!Allocate(b)
    <2>1. PICK p \in Pools : ListRemoveHead(p) /\ held' = held \cup {head[p]}
      BY <1>6 DEF MEM_BufferAlloc
    <2>2. head[p] \in Blocks /\ list[head[p]] = p /\ head[p] \notin held
      BY <1>1, <2>1, RemovedHead DEF Owned, Inv
    <2>3. ASSUME NEW q \in Queues, NEW i \in DOMAIN content[q] PROVE content[q][i] # head[p]
      <3>1. i \in 1 .. size[q] /\ q \in Lists /\ q # p
        BY <1>1, ListFacts
      <3> QED BY <1>1, <2>2, <3>1, ListFacts
    <2>4. \A q \in Queues : head[p] \notin Messaging!Range(Queued[q])
      BY <2>3 DEF Messaging!Range, Queued
    <2>5. head[p] \in Messaging!Free
      BY <2>2, <2>4 DEF Messaging!Free, Queued
    <2>6. Queued' = Queued
      BY <1>1, <2>1 DEF ListRemoveHead, Queued
    <2> QED BY <2>1, <2>2, <2>5, <2>6 DEF Messaging!Allocate, Queued
  <1>7. CASE UNCHANGED vars
    BY <1>7 DEF vars, links, Messaging!vars
  <1> QED BY <1>2, <1>3, <1>4, <1>5, <1>6, <1>7 DEF Next, Messaging!Next

\* MemManager.c and Messaging.c implement MessageQueues: a buffer has one
\* owner at a time, and the messages of a queue arrive once each and in the
\* order they were sent.
THEOREM ImplementsMessageQueues == Spec => DeliversInOrder
  <1>1. Init => Messaging!Init
    <2> SUFFICES ASSUME Init PROVE Messaging!Init
      OBVIOUS
    <2>1. Queued = [q \in Queues |-> <<>>]
      BY DEF Init, Queued, Lists
    <2> QED BY <2>1 DEF Init, Queued, Messaging!Init
  <1>2. Inv /\ [Next]_vars => [Messaging!Next]_(Messaging!vars)
    BY StepsAreMessaging, BuffersAssumption
  <1> QED BY <1>1, <1>2, InvIsInductive, PTL DEF Spec, DeliversInOrder, Messaging!Spec
=============================================================================

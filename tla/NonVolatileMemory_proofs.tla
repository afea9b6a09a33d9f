---------------------- MODULE NonVolatileMemory_proofs ----------------------
(***************************************************************************)
(* The proofs that the pointers into flash always point to records, that   *)
(* flash is programmed only where it is blank, that the module agrees with *)
(* what a restart would read back, and that a start which formats the      *)
(* storage is followed by one that succeeds - for every number of elements *)
(* and cells, records of any size, and any number of power losses.         *)
(*                                                                         *)
(* The inductive invariant has three layers.  The first is about the call   *)
(* in progress: which step may follow which (Chain).  The second is about   *)
(* the bytes: the metas of a page have no gap (Sound), the active page is   *)
(* the one a restart would take (CounterInv), and a page that is copied to  *)
(* is filled from both ends (Filling).  The third ties each element's       *)
(* pointer to its newest meta (PointsInto), on the old page or on the new   *)
(* one while a copy is under way.                                           *)
(***************************************************************************)
EXTENDS NonVolatileMemory, SequenceTheorems, FiniteSetTheorems,
        WellFoundedInduction, TLAPS

-----------------------------------------------------------------------------
(* What a call in progress may still have to do. *)

ElementSteps == {"write", "synced", "syncCopied", "makeRoom", "idleSaved"}
RoomSteps == {"roomMade", "roomCopied", "roomRetried"}
StartSteps == {"start", "estimate", "formatted"}
PlainSteps == {"copy", "idle", "idleCopied", "drain", "measure", "restore",
               "forgetOld"} \cup StartSteps

\* The last step of a call, and steps that are never the last.
FinalSteps == RoomSteps \cup {"synced", "syncCopied", "makeRoom", "idle", "idleCopied",
                              "idleSaved", "drain", "measure", "restore", "start"}
Unfinished == {"record", "copyRecord", "copyMeta", "erase", "top"}

Steps ==
  [do : PlainSteps]
    \cup [do : {"formatted"}, lost : BOOLEAN]
    \cup [do : ElementSteps, element : Element]
    \cup [do : RoomSteps, first : Element, element : Element]
    \cup [do : {"erase"}, page : Page, sector : {1, 2}]
    \cup [do : {"top", "bottom"}, page : Page]
    \cup [do : {"record"}, element : Element, at : 1..Cells, meta : 1..Cells]
    \cup [do : {"meta", "copyMeta"}, element : Element, at : 0..Cells, meta : 1..Cells]
    \cup [do : {"copyRecord"}, element : Element, at : 1..Cells, value : Value \cup {Junk}]
    \cup [do : {"copyNext"}, from : 0..Cells, meta : 1..(Cells + 1), at : 1..(Cells + 1)]

\* What may follow a step immediately; init tells whether the module is initialised.
Follows(a, b, init) ==
  /\ a.do = "record" =>
       b = [do |-> "meta", element |-> a.element, at |-> a.at, meta |-> a.meta]
  /\ a.do = "copyRecord" => b.do = "copyMeta" /\ b.at = a.at /\ b.element = a.element
  /\ a.do = "copyMeta" => b.do = "copyNext" /\ b.meta = a.meta + 1 /\ b.at = a.at
  /\ a.do = "erase" /\ a.sector = 1 =>
       b = [do |-> "erase", page |-> a.page, sector |-> 2]
  /\ a.do = "erase" /\ a.sector = 2 /\ init =>
       \/ b.do = "copyNext" /\ b.meta = 1 /\ b.at = Cells + 1
       \/ b.do = "forgetOld"
  /\ a.do = "erase" /\ a.sector = 2 /\ ~ init =>
       \/ a.page = 1 /\ b = [do |-> "erase", page |-> 2, sector |-> 1]
       \/ a.page = 2 /\ b = [do |-> "top", page |-> 1]
  /\ a.do = "top" => b = [do |-> "bottom", page |-> a.page]
  /\ a.do = "forgetOld" => b.do = "write"
  /\ a.do \notin Unfinished =>
       b.do \in (ElementSteps \cup RoomSteps \cup PlainSteps) \ {"forgetOld"}

Allowed(s, init) ==
  IF init THEN s.do \notin StartSteps
          ELSE s.do \in StartSteps \cup {"erase", "top", "bottom"}

Chain(t, init) ==
  /\ t \in Seq(Steps)
  /\ \A i \in 1..Len(t) :
       /\ Allowed(t[i], init)
       /\ i = Len(t) => t[i].do \notin Unfinished
       /\ i < Len(t) => t[i].do \notin FinalSteps /\ Follows(t[i], t[i + 1], init)
       /\ t[i].do = "forgetOld" => i = Len(t) - 1

Has(t, W) == \E i \in 1..Len(t) : t[i].do \in W

Second == Head(Tail(todo))
Third == Head(Tail(Tail(todo)))
Copying == todo # <<>> /\ Now.do \in {"copyRecord", "copyMeta", "copyNext"}

TodoInv ==
  /\ Chain(todo, initialised)
  /\ Has(todo, {"forgetOld"}) => erase.pending
  /\ Has(todo, {"syncCopied"}) =>
       erase.pending \/ Now.do \in {"copy", "erase", "copyRecord", "copyMeta", "copyNext"}

QueueInv ==
  /\ queue \in Seq(Element \cup {Cancelled}) /\ Len(queue) <= QueueSize
  /\ head \in 0..(QueueSize - 1)
  /\ Has(todo, RoomSteps \cup {"idleSaved"}) => Len(queue) < QueueSize
  /\ Has(todo, {"makeRoom"}) => queue # <<>>
  /\ Has(todo, RoomSteps \cup {"makeRoom"}) =>
       \A j \in 1..Len(queue) : queue[j] # Cancelled

-----------------------------------------------------------------------------
(* Flash, and what the module knows of it: c is the cells of a page. *)

CellsOf(p) == flash[p].cell

MetaOf(c, i, e) == IsMeta(c[i]) /\ c[i].element = e
IsRecord(c, at, e) == HoldsRecord(c, at, Size(e))
BlankBetween(c, lo, hi) == \A i \in lo..hi : c[i] = Blank

\* Metas without a gap below them, and the records they point to.
Sound(c) ==
  \A i \in 1..Cells : IsMeta(c[i]) =>
    /\ \A j \in 1..(i - 1) : c[j] # Blank
    /\ c[i].at # 0 => IsRecord(c, c[i].at, c[i].element)

\* m is the newest meta, 0 for none, and u too if it has a record.
NewestMeta(c, m, u) ==
  /\ \A i \in 1..Cells : IsMeta(c[i]) => i <= m
  /\ \A i \in 1..m : c[i] # Blank
  /\ m # 0 => IsMeta(c[m]) /\ (c[m].at # 0 => u = m)

\* The page copied to holds n metas from its first cell, of as many elements,
\* and only records above hi; it is blank from lo to hi.
Filling(c, n, lo, hi) ==
  /\ \A i \in 1..n :
       /\ IsMeta(c[i]) /\ c[i].at \in (hi + 1)..Cells
       /\ IsRecord(c, c[i].at, c[i].element)
       /\ \A j \in 1..n : c[i].element = c[j].element => i = j
  /\ BlankBetween(c, lo, hi)
  /\ \A i \in (hi + 1)..Cells : c[i].kind = "record"

Copied(c, e, n) == \E i \in 1..n : MetaOf(c, i, e)

\* The cells that records of the elements S take, in all: each element has
\* as many places of its own among 1..Extent[Entries].
Slot(e) == (Extent[e - 1] + 1)..Extent[e]
Used(S) == Cardinality(UNION {Slot(e) : e \in S})
CopiedIn(c, n) == {c[i].element : i \in 1..n}

\* The records of the first n metas reach down to cell at.
ReachesTo(c, n, at) == at = Cells + 1 - Used(CopiedIn(c, n))

\* The newest meta of the element says its record is at cell `at'.
PointsInto(c, e, at) ==
  /\ IsRecord(c, at, e)
  /\ \E i \in 1..Cells : /\ MetaOf(c, i, e) /\ c[i].at = at
                         /\ \A j \in (i + 1)..Cells : ~ MetaOf(c, j, e)

\* The pointer of element e, into page p.
PointerInto(p, e) == data[e].page = p /\ PointsInto(CellsOf(p), e, data[e].cell)

\* n metas are copied, `moving' is on its way, and the search for more is at `from'.
PointersWhileCopying(n, from, moving) ==
  \A e \in Element : IsFlash(e) =>
    IF Copied(CellsOf(Other(active)), e, n) THEN PointerInto(Other(active), e)
    ELSE /\ PointerInto(active, e)
         /\ e \in moving \/ \E i \in 1..from : MetaOf(CellsOf(active), i, e)

CopyInv ==
  /\ Doing("copyNext") =>
       LET n == Now.meta - 1 IN
       /\ Filling(CellsOf(Other(active)), n, n + 1, Now.at - 1)
       /\ ReachesTo(CellsOf(Other(active)), n, Now.at)
       /\ PointersWhileCopying(n, Now.from, {})
  /\ Doing("copyRecord") =>
       LET n == Second.meta - 1
           above == Now.at + Size(Now.element)
       IN
       /\ n + 1 < Now.at /\ above <= Cells + 1
       /\ Filling(CellsOf(Other(active)), n, n + 1, above - 1)
       /\ ReachesTo(CellsOf(Other(active)), n, above)
       /\ ~ Copied(CellsOf(Other(active)), Second.element, n)
       /\ PointersWhileCopying(n, Third.from, {Second.element})
  /\ Doing("copyMeta") =>
       LET n == Now.meta - 1 IN
       /\ n + 1 < Now.at
       /\ Filling(CellsOf(Other(active)), n, n + 1, Now.at - 1)
       /\ IsRecord(CellsOf(Other(active)), Now.at, Now.element)
       /\ ReachesTo(CellsOf(Other(active)), n, Now.at + Size(Now.element))
       /\ ~ Copied(CellsOf(Other(active)), Now.element, n)
       /\ PointersWhileCopying(n, Second.from, {Now.element})

PointerInv == ~ Copying => \A e \in Element : IsFlash(e) => PointerInto(active, e)

WriteInv ==
  /\ Doing("record") =>
       /\ Now.at + Size(Now.element) <= Cells + 1
       /\ BlankBetween(CellsOf(active), Now.at, Now.at + Size(Now.element) - 1)
       /\ data[Now.element].at \in {"ram", "caller"}
       /\ Now.meta < Now.at
  /\ Doing("meta") =>
       /\ Now.at # 0 => IsRecord(CellsOf(active), Now.at, Now.element)
       /\ ~ IsFlash(Now.element)
  /\ Doing("record") \/ Doing("meta") =>
       /\ CellsOf(active)[Now.meta] = Blank /\ lastMeta[active] < Now.meta
       /\ \A i \in (lastMeta[active] + 1)..(Now.meta - 1) : CellsOf(active)[i] # Blank

AllBlank(c) == BlankBetween(c, 1, Cells)
LowerBlank(c) == BlankBetween(c, 1, Cells \div 2)
Erased(p) == flash[p].top = 0 /\ flash[p].bottom = 0

EraseInv ==
  /\ erase.pending =>
       /\ initialised /\ erase.page = Other(active)
       /\ erase.sector > 1 => flash[erase.page].top = 0
  /\ Doing("erase") =>
       /\ Now.sector = 2 => LowerBlank(CellsOf(Now.page)) /\ flash[Now.page].top = 0
       /\ initialised => Now.page = Other(active)
       /\ initialised /\ Now.sector = 1 /\ Third.do = "copyNext" =>
            Third.from = lastMeta[active]
       /\ initialised /\ Now.sector = 2 /\ Second.do = "copyNext" =>
            Second.from = lastMeta[active]
       /\ ~ initialised /\ Now.page = 2 => AllBlank(CellsOf(1)) /\ Erased(1)

\* The page counters: which page a restart would take.
Current(p) == flash[p].top = counter /\ flash[p].bottom = counter
Older(p) == IsValidPage(p) => flash[p].top < counter

CounterInv ==
  /\ initialised \/ (todo # <<>> /\ Now.do \in StartSteps \cup {"top", "bottom"}) =>
       /\ counter # 0 /\ Older(Other(active))
       /\ IF Doing("top") THEN Now.page = active /\ Erased(active)
          ELSE IF Doing("bottom")
            THEN Now.page = active /\ flash[active].top = counter /\ flash[active].bottom = 0
          ELSE Current(active)
  /\ Copying => Erased(Other(active))
  /\ ~ initialised /\ todo # <<>> /\ Now.do \in {"erase", "top", "bottom"} =>
       active = 1 /\ counter = 1
  /\ IsValidPage(1) /\ IsValidPage(2) => flash[1].top # flash[2].top

FlashInv ==
  /\ \A p \in Page : flash[p].top # 0 => Sound(CellsOf(p))
  /\ initialised =>
       /\ Sound(CellsOf(active))
       /\ NewestMeta(CellsOf(active), lastMeta[active], lastUnerased[active])
  /\ ~ initialised /\ Doing("top") => AllBlank(CellsOf(1))
  /\ ~ initialised => \A e \in Element : ~ IsFlash(e)
  /\ ~ powered => todo = <<>> /\ ~ initialised

NInv == TypeOK /\ TodoInv /\ QueueInv /\ CopyInv /\ PointerInv /\ WriteInv
          /\ EraseInv /\ CounterInv /\ FlashInv

-----------------------------------------------------------------------------
(* The first and the last of some places of a page. *)

LEMMA SmallestExists ==
  ASSUME NEW S \in SUBSET Nat, S # {}
  PROVE  \E x \in S : \A y \in S : x <= y
  <1>1. PICK x \in S : \A y \in S : ~ (<<y, x>> \in OpToRel(<, Nat))
    BY WFMin, NatLessThanWellFounded
  <1>2. \A y \in S : ~ (y < x)
    BY <1>1 DEF OpToRel
  <1>3. \A y \in S : y \in Nat
    OBVIOUS
  <1>4. \A y \in S : x <= y
    BY <1>2, <1>3
  <1> QED BY <1>4

\* The first of the places a to b in S, or b + 1 when there is none.
LEMMA FirstPlace ==
  ASSUME NEW a \in Nat, NEW b \in Nat, NEW S \in SUBSET (a..b), a <= b + 1
  PROVE  LET x == Min(S \cup {b + 1})
         IN  /\ x \in a..(b + 1)
             /\ x = b + 1 \/ x \in S
             /\ \A y \in S : x <= y
  <1> DEFINE T == S \cup {b + 1}
  <1>1. T \in SUBSET Nat /\ T # {}
    OBVIOUS
  <1>2. \E x \in T : \A y \in T : x <= y
    <2> HIDE DEF T
    <2> QED BY <1>1, SmallestExists
  <1>3. Min(T) \in T /\ \A y \in T : Min(T) <= y
    BY <1>2 DEF Min
  <1>4. /\ \A y \in S : y \in T /\ y \in a..b
        /\ \A y \in T : y = b + 1 \/ y \in S
        /\ b + 1 \in T
    OBVIOUS
  <1>5. b + 1 \in a..(b + 1)
    OBVIOUS
  <1>6. \A y \in a..b : y \in a..(b + 1)
    OBVIOUS
  <1>7. Min(T) \in a..(b + 1)
    BY <1>3, <1>4, <1>5, <1>6
  <1> QED BY <1>3, <1>4, <1>7

\* The last of the places up to b in S, or 0 when there is none.
LEMMA LastPlace ==
  ASSUME NEW b \in Nat, NEW S \in SUBSET (1..b)
  PROVE  /\ Newest(S) \in 0..b
         /\ Newest(S) = 0 => S = {}
         /\ Newest(S) # 0 => Newest(S) \in S
         /\ \A y \in S : y <= Newest(S)
  <1> DEFINE T == S \cup {0}
             U == {b - y : y \in T}
  <1>1. U \in SUBSET Nat /\ U # {} /\ T \subseteq 0..b
    OBVIOUS
  <1>2. PICK u \in U : \A v \in U : u <= v
    <2> HIDE DEF U
    <2> QED BY <1>1, SmallestExists
  <1>3. PICK x \in T : u = b - x
    BY <1>2
  <1>4. \A y \in T : x >= y
    <2>1. \A y \in T : b - x <= b - y
      BY <1>2, <1>3
    <2> QED BY <2>1, <1>1, <1>3
  <1>5. Max(T) \in T /\ \A y \in T : Max(T) >= y
    <2> HIDE DEF T
    <2> QED BY <1>3, <1>4 DEF Max
  <1>6. Newest(S) = Max(T)
    BY DEF Newest
  <1>7. /\ \A y \in S : y \in T /\ y \in 1..b
        /\ \A y \in T : y \in 0..b /\ (y # 0 => y \in S)
    OBVIOUS
  <1>8. \A y \in S : y <= Newest(S)
    BY <1>5, <1>6, <1>7
  <1>9. Newest(S) = 0 => S = {}
    BY <1>7, <1>8
  <1> QED BY <1>5, <1>6, <1>7, <1>8, <1>9

\* Metas of different elements are no more than there are elements.
LEMMA FewElements ==
  ASSUME NEW n \in Nat, NEW f \in [1..n -> Element], StoreAssumption,
         \A i, j \in 1..n : f[i] = f[j] => i = j
  PROVE  n <= Entries
  <1>1. IsFiniteSet(1..n) /\ Cardinality(1..n) = n
    <2>1. n >= 1 \/ n = 0
      OBVIOUS
    <2> QED BY <2>1, FS_Interval, FS_EmptySet
  <1>2. IsFiniteSet(Element) /\ Cardinality(Element) = Entries
    BY FS_Interval DEF Element, StoreAssumption
  <1>3. ~ (Cardinality(Element) < Cardinality(1..n))
    <2> SUFFICES ASSUME Cardinality(Element) < Cardinality(1..n) PROVE FALSE
      OBVIOUS
    <2>1. \E i, j \in 1..n : i # j /\ f[i] = f[j]
      BY <1>1, <1>2, FS_PigeonHole
    <2> QED BY <2>1
  <1> QED BY <1>1, <1>2, <1>3 DEF StoreAssumption

-----------------------------------------------------------------------------
(* The records' sizes. *)

LEMMA SizeFacts ==
  ASSUME StoreAssumption
  PROVE  /\ Cells \in Nat /\ Entries \in Nat /\ Extent[Entries] \in Nat
         /\ \A e \in Element : /\ Size(e) \in Nat /\ Size(e) >= 1
                               /\ Extent[e] \in Nat /\ Extent[e - 1] \in Nat
                               /\ Extent[e] <= Extent[Entries]
                               /\ Cells >= Extent[Entries] + Entries + Size(e) + 3
  <1>1. /\ Entries \in Nat \ {0} /\ Extent \in [0..Entries -> Nat] /\ Cells \in Nat
        /\ \A d, e \in 0..Entries : d < e => Extent[d] < Extent[e]
        /\ \A e \in Element : Cells >= Extent[Entries] + Entries + Size(e) + 3
    BY DEF StoreAssumption
  <1>2. Entries \in 0..Entries
    BY <1>1
  <1>3. \A e \in Element : e \in 0..Entries /\ e - 1 \in 0..Entries /\ e - 1 < e
                           /\ (e = Entries \/ e < Entries)
    BY <1>1 DEF Element
  <1>4. \A e \in Element : /\ Extent[e] \in Nat /\ Extent[e - 1] \in Nat
                           /\ Extent[e - 1] < Extent[e] /\ Extent[e] <= Extent[Entries]
    <2> TAKE e \in Element
    <2>1. Extent[e] \in Nat /\ Extent[e - 1] \in Nat /\ Extent[Entries] \in Nat
      BY <1>1, <1>2, <1>3
    <2>2. Extent[e - 1] < Extent[e]
      BY <1>1, <1>3
    <2>3. e # Entries => Extent[e] < Extent[Entries]
      BY <1>1, <1>2, <1>3
    <2> QED BY <2>1, <2>2, <2>3
  <1>5. \A e \in Element : Size(e) \in Nat /\ Size(e) >= 1
    BY <1>4 DEF Size
  <1> QED BY <1>1, <1>2, <1>4, <1>5

LEMMA IntervalSize ==
  ASSUME NEW a \in Int, NEW b \in Int, a <= b + 1
  PROVE  IsFiniteSet(a..b) /\ Cardinality(a..b) = b - a + 1
  BY FS_Interval

LEMMA SlotFacts ==
  ASSUME StoreAssumption, NEW e \in Element
  PROVE  /\ IsFiniteSet(Slot(e)) /\ Cardinality(Slot(e)) = Size(e)
         /\ Slot(e) \subseteq 1..Extent[Entries]
         /\ \A d \in Element : d # e => Slot(d) \cap Slot(e) = {}
  <1>1. /\ Extent[e] \in Nat /\ Extent[e - 1] \in Nat /\ Extent[e] <= Extent[Entries]
        /\ Extent[Entries] \in Nat /\ Size(e) \in Nat /\ Size(e) >= 1
    BY SizeFacts
  <1>2. IsFiniteSet(Slot(e)) /\ Cardinality(Slot(e)) = Size(e)
    <2>1. Size(e) = Extent[e] - Extent[e - 1]
      BY DEF Size
    <2>2. PICK a \in Int, b \in Int : a = Extent[e - 1] + 1 /\ b = Extent[e]
      BY <1>1
    <2>3. a <= b + 1 /\ b - a + 1 = Size(e)
      <3>1. PICK x \in Int, y \in Int : x = Extent[e - 1] /\ y = Extent[e]
        BY <1>1
      <3>2. Size(e) = y - x /\ y - x >= 1 /\ a = x + 1 /\ b = y
        BY <3>1, <2>1, <2>2, <1>1
      <3> QED BY <3>2
    <2>4. IsFiniteSet(a..b) /\ Cardinality(a..b) = b - a + 1
      BY <2>3, IntervalSize
    <2> QED BY <2>2, <2>3, <2>4 DEF Slot
  <1>3. Slot(e) \subseteq 1..Extent[Entries]
    BY <1>1 DEF Slot
  <1>4. \A d \in Element : d # e => Slot(d) \cap Slot(e) = {}
    <2> TAKE d \in Element
    <2>1. /\ Extent[d] \in Nat /\ Extent[d - 1] \in Nat
          /\ Entries \in Nat /\ Extent \in [0..Entries -> Nat]
          /\ \A i, j \in 0..Entries : i < j => Extent[i] < Extent[j]
      BY SizeFacts DEF StoreAssumption
    <2>2. d \in Int /\ e \in Int /\ d \in 0..Entries /\ e \in 0..Entries
          /\ d - 1 \in 0..Entries /\ e - 1 \in 0..Entries
      BY <2>1 DEF Element
    <2>3. d < e => Extent[d] <= Extent[e - 1]
      <3>1. d < e => d = e - 1 \/ d < e - 1
        BY <2>2
      <3> QED BY <3>1, <2>1, <2>2
    <2>4. e < d => Extent[e] <= Extent[d - 1]
      <3>1. e < d => e = d - 1 \/ e < d - 1
        BY <2>2
      <3>2. e = d - 1 => Extent[e] <= Extent[d - 1]
        BY <1>1
      <3>3. e < d - 1 => Extent[e] < Extent[d - 1]
        BY <2>1, <2>2
      <3> QED BY <3>1, <3>2, <3>3, <1>1, <2>1
    <2>5. d # e => d < e \/ e < d
      BY <2>2
    <2>6. Extent[d] <= Extent[e - 1] => Slot(d) \cap Slot(e) = {}
      BY <1>1, <2>1 DEF Slot
    <2>7. Extent[e] <= Extent[d - 1] => Slot(d) \cap Slot(e) = {}
      BY <1>1, <2>1 DEF Slot
    <2> QED BY <2>3, <2>4, <2>5, <2>6, <2>7
  <1> QED BY <1>2, <1>3, <1>4

\* The records of different elements take no more than those of all.
LEMMA UsedMore ==
  ASSUME StoreAssumption, NEW S \in SUBSET Element, NEW e \in Element, e \notin S
  PROVE  /\ Used(S) \in Nat
         /\ Used(S \cup {e}) = Used(S) + Size(e)
         /\ Used(S \cup {e}) <= Extent[Entries]
  <1> DEFINE A == UNION {Slot(d) : d \in S}
             B == UNION {Slot(d) : d \in S \cup {e}}
             N == 1..Extent[Entries]
  <1>1. IsFiniteSet(N) /\ Cardinality(N) = Extent[Entries]
    <2>1. Extent[Entries] \in Nat
      BY SizeFacts
    <2>2. PICK b \in Int : b = Extent[Entries]
      BY <2>1
    <2>3. PICK a \in Int : a = 1
      OBVIOUS
    <2>4. a <= b + 1 /\ b - a + 1 = b
      BY <2>1, <2>2, <2>3
    <2>5. IsFiniteSet(a..b) /\ Cardinality(a..b) = b - a + 1
      BY <2>4, IntervalSize
    <2> QED BY <2>2, <2>3, <2>4, <2>5
  <1>2. A \subseteq N /\ B \subseteq N
    BY SlotFacts
  <1>3. IsFiniteSet(A) /\ Cardinality(A) \in Nat /\ Cardinality(B) <= Extent[Entries]
    <2> HIDE DEF A, B, N
    <2> QED BY <1>1, <1>2, FS_Subset, FS_CardinalityType
  <1>4. B = A \cup Slot(e) /\ A \cap Slot(e) = {}
    <2>1. B = A \cup Slot(e)
      OBVIOUS
    <2>2. \A d \in S : Slot(d) \cap Slot(e) = {}
      BY SlotFacts
    <2> QED BY <2>1, <2>2
  <1>5. IsFiniteSet(Slot(e)) /\ Cardinality(Slot(e)) = Size(e) /\ Size(e) \in Nat
    BY SlotFacts, SizeFacts
  <1>6. Cardinality(B) = Cardinality(A) + Size(e)
    <2> HIDE DEF A, B
    <2>1. Cardinality(A \cup Slot(e)) =
            Cardinality(A) + Cardinality(Slot(e)) - Cardinality(A \cap Slot(e))
      BY <1>3, <1>5, FS_Union
    <2>2. Cardinality(A \cap Slot(e)) = 0
      BY <1>4, FS_EmptySet
    <2> QED BY <2>1, <2>2, <1>3, <1>4, <1>5
  <1> QED BY <1>3, <1>6 DEF Used

LEMMA UsedBound ==
  ASSUME StoreAssumption, NEW S \in SUBSET Element
  PROVE  Used(S) \in Nat /\ Used(S) <= Extent[Entries]
  <1> DEFINE A == UNION {Slot(d) : d \in S}
  <1>1. A \subseteq 1..Extent[Entries]
    BY SlotFacts
  <1>2. /\ IsFiniteSet(1..Extent[Entries])
        /\ Cardinality(1..Extent[Entries]) = Extent[Entries]
    <2>1. Extent[Entries] \in Nat
      BY SizeFacts
    <2>2. PICK b \in Int : b = Extent[Entries]
      BY <2>1
    <2>3. PICK a \in Int : a = 1
      OBVIOUS
    <2>4. a <= b + 1 /\ b - a + 1 = b
      BY <2>1, <2>2, <2>3
    <2>5. IsFiniteSet(a..b) /\ Cardinality(a..b) = b - a + 1
      BY <2>4, IntervalSize
    <2> QED BY <2>2, <2>3, <2>4, <2>5
  <1>3. Cardinality(A) \in Nat /\ Cardinality(A) <= Extent[Entries]
    <2> HIDE DEF A
    <2> QED BY <1>1, <1>2, FS_Subset, FS_CardinalityType
  <1> QED BY <1>3 DEF Used

LEMMA NothingUsed == Used({}) = 0
  <1>1. UNION {Slot(d) : d \in {}} = {}
    OBVIOUS
  <1> QED BY <1>1, FS_EmptySet DEF Used

-----------------------------------------------------------------------------
(* The call in progress. *)

\* What the head of a chain may be, and what comes after it.
LEMMA ChainTail ==
  ASSUME NEW t, NEW init \in BOOLEAN, Chain(t, init), t # <<>>
  PROVE  /\ Head(t) \in Steps /\ Allowed(Head(t), init)
         /\ Chain(Tail(t), init)
         /\ Head(t).do \in FinalSteps => Tail(t) = <<>>
         /\ Tail(t) = <<>> => Head(t).do \notin Unfinished
         /\ Tail(t) # <<>> => Follows(Head(t), Head(Tail(t)), init)
         /\ Head(t).do = "forgetOld" =>
              Tail(t) # <<>> /\ \A W : Has(Tail(t), W) => Head(Tail(t)).do \in W
         /\ \A W : Has(Tail(t), W) => Has(t, W)
         /\ \A W : Head(t).do \in W => Has(t, W)
  <1> DEFINE r == Tail(t)
  <1>1. t \in Seq(Steps) /\ Len(t) \in Nat \ {0} /\ Head(t) = t[1]
    BY EmptySeq DEF Chain
  <1>2. /\ r \in Seq(Steps) /\ Len(r) = Len(t) - 1
        /\ \A i \in 1..Len(r) : r[i] = t[i + 1]
    BY <1>1, HeadTailProperties
  <1>3. Len(r) = 0 <=> r = <<>>
    BY <1>2, EmptySeq
  <1>4. r # <<>> => Head(r) = t[2] /\ 1 < Len(t)
    BY <1>1, <1>2, <1>3
  <1>5. \A i \in 1..Len(t) :
          /\ Allowed(t[i], init)
          /\ i = Len(t) => t[i].do \notin Unfinished
          /\ i < Len(t) => t[i].do \notin FinalSteps /\ Follows(t[i], t[i + 1], init)
          /\ t[i].do = "forgetOld" => i = Len(t) - 1
    BY DEF Chain
  <1>6. 1 \in 1..Len(t)
    BY <1>1
  <1> HIDE DEF r
  <1>7. \A i \in 1..Len(r) : i + 1 \in 1..Len(t)
    BY <1>1, <1>2
  <1>8. Chain(r, init)
    <2> SUFFICES ASSUME NEW i \in 1..Len(r)
                 PROVE  /\ Allowed(r[i], init)
                        /\ i = Len(r) => r[i].do \notin Unfinished
                        /\ i < Len(r) => /\ r[i].do \notin FinalSteps
                                         /\ Follows(r[i], r[i + 1], init)
                        /\ r[i].do = "forgetOld" => i = Len(r) - 1
      BY <1>2 DEF Chain
    <2>1. r[i] = t[i + 1] /\ (i < Len(r) => r[i + 1] = t[i + 2])
      BY <1>1, <1>2
    <2>2. i + 1 \in 1..Len(t) /\ Len(t) = Len(r) + 1
      BY <1>1, <1>2, <1>7
    <2>3. i < Len(r) => Follows(t[i + 1], t[i + 2], init)
      <3>1. i + 1 < Len(t) => Follows(t[i + 1], t[i + 1 + 1], init)
        BY <1>5, <2>2
      <3> QED BY <3>1, <2>2, <1>1
    <2> QED BY <2>1, <2>2, <2>3, <1>5, <1>1
  <1>9. t[1] \in Steps
    BY <1>1, ElementOfSeq
  <1>10. t[1].do = "forgetOld" => r # <<>> /\ \A W : Has(r, W) => t[2].do \in W
    <2> SUFFICES ASSUME t[1].do = "forgetOld"
                 PROVE  r # <<>> /\ \A W : Has(r, W) => t[2].do \in W
      OBVIOUS
    <2>0. 1 = Len(t) - 1
      BY <1>5, <1>6
    <2>1. Len(t) = 2
      BY <2>0, <1>1
    <2>2. Len(r) = 1 /\ r[1] = t[2]
      BY <2>1, <1>2
    <2>3. r # <<>>
      BY <2>2, <1>3
    <2>4. \A i \in 1..Len(r) : r[i] = t[2]
      BY <2>2
    <2> QED BY <2>3, <2>4 DEF Has
  <1>11. \A W : Has(r, W) => Has(t, W)
    BY <1>2, <1>7 DEF Has
  <1>12. \A W : t[1].do \in W => Has(t, W)
    BY <1>6 DEF Has
  <1>13. t[1].do \in FinalSteps => r = <<>>
    BY <1>1, <1>2, <1>3, <1>5, <1>6
  <1>14. r = <<>> => t[1].do \notin Unfinished
    BY <1>1, <1>2, <1>3, <1>5, <1>6
  <1>15. r # <<>> => Follows(t[1], t[2], init)
    BY <1>4, <1>5, <1>6
  <1> QED
    BY <1>1, <1>4, <1>5, <1>6, <1>8, <1>9, <1>10, <1>11, <1>12, <1>13, <1>14, <1>15 DEF r

\* One step before a chain.
LEMMA ChainCons ==
  ASSUME NEW s \in Steps, NEW t, NEW init \in BOOLEAN, Chain(t, init),
         Allowed(s, init), s.do = "forgetOld" => Len(t) = 1,
         t = <<>> => s.do \notin Unfinished,
         t # <<>> => s.do \notin FinalSteps /\ Follows(s, Head(t), init)
  PROVE  /\ Chain(<<s>> \o t, init) /\ <<s>> \o t # <<>>
         /\ Head(<<s>> \o t) = s /\ Tail(<<s>> \o t) = t
         /\ Len(<<s>> \o t) = Len(t) + 1
         /\ \A W : Has(<<s>> \o t, W) => s.do \in W \/ Has(t, W)
  <1> DEFINE u == <<s>> \o t
  <1>1. t \in Seq(Steps) /\ <<s>> \in Seq(Steps) /\ Len(t) \in Nat /\ Len(<<s>>) = 1
    BY LenProperties DEF Chain
  <1>2. /\ u \in Seq(Steps) /\ Len(u) = Len(t) + 1
        /\ \A i \in 1..Len(u) : u[i] = IF i <= 1 THEN s ELSE t[i - 1]
    BY <1>1, ConcatProperties
  <1> HIDE DEF u
  <1>3. u # <<>> /\ Head(u) = s
    BY <1>1, <1>2, EmptySeq
  <1>4. Tail(u) = t
    <2>1. Tail(u) \in Seq(Steps) /\ Len(Tail(u)) = Len(t)
          /\ \A i \in 1..Len(Tail(u)) : Tail(u)[i] = u[i + 1]
      BY <1>1, <1>2, <1>3, HeadTailProperties
    <2>2. \A i \in 1..Len(t) : Tail(u)[i] = t[i]
      BY <1>1, <1>2, <2>1
    <2> QED BY <1>1, <2>1, <2>2, SeqEqual
  <1>5. t # <<>> => Len(t) >= 1 /\ Head(t) = t[1]
    BY <1>1, EmptySeq
  <1>5a. t = <<>> => Len(t) = 0
    BY EmptySeq
  <1>6. \A i \in 1..Len(t) :
          /\ Allowed(t[i], init)
          /\ i = Len(t) => t[i].do \notin Unfinished
          /\ i < Len(t) => t[i].do \notin FinalSteps /\ Follows(t[i], t[i + 1], init)
          /\ t[i].do = "forgetOld" => i = Len(t) - 1
    BY DEF Chain
  <1>7. Chain(u, init)
    <2> SUFFICES ASSUME NEW i \in 1..Len(u)
                 PROVE  /\ Allowed(u[i], init)
                        /\ i = Len(u) => u[i].do \notin Unfinished
                        /\ i < Len(u) => /\ u[i].do \notin FinalSteps
                                         /\ Follows(u[i], u[i + 1], init)
                        /\ u[i].do = "forgetOld" => i = Len(u) - 1
      BY <1>2 DEF Chain
    <2>1. CASE i = 1
      <3>1. u[1] = s /\ (1 < Len(u) => u[2] = Head(t) /\ t # <<>>)
        BY <1>1, <1>2, <1>5, <1>5a
      <3>2. 1 = Len(u) => t = <<>>
        BY <1>1, <1>2, <1>5
      <3>3. 1 < Len(u) => Follows(s, u[2], init) /\ s.do \notin FinalSteps
        BY <3>1
      <3> QED BY <3>1, <3>2, <3>3, <2>1, <1>1, <1>2
    <2>2. CASE i > 1
      <3>1. i - 1 \in 1..Len(t) /\ u[i] = t[i - 1] /\ Len(u) = Len(t) + 1
        BY <2>2, <1>1, <1>2
      <3>2. i < Len(u) => u[i + 1] = t[i]
        BY <2>2, <1>1, <1>2
      <3>3. i < Len(u) => t[i - 1].do \notin FinalSteps /\ Follows(t[i - 1], t[i], init)
        <4>1. i - 1 < Len(t) =>
                t[i - 1].do \notin FinalSteps /\ Follows(t[i - 1], t[(i - 1) + 1], init)
          BY <1>6, <3>1
        <4> QED BY <4>1, <3>1, <1>1
      <3>4. Allowed(t[i - 1], init)
        BY <1>6, <3>1
      <3>5. i - 1 = Len(t) => t[i - 1].do \notin Unfinished
        BY <1>6, <3>1
      <3>6. t[i - 1].do = "forgetOld" => i - 1 = Len(t) - 1
        BY <1>6, <3>1
      <3> QED BY <3>1, <3>2, <3>3, <3>4, <3>5, <3>6, <1>1
    <2> QED BY <2>1, <2>2, <1>1, <1>2
  <1>8. \A W : Has(u, W) => s.do \in W \/ Has(t, W)
    <2> SUFFICES ASSUME NEW W, NEW i \in 1..Len(u), u[i].do \in W
                 PROVE  s.do \in W \/ Has(t, W)
      BY DEF Has
    <2>1. CASE i = 1
      BY <2>1, <1>2
    <2>2. CASE i > 1
      <3>1. i - 1 \in 1..Len(t) /\ t[i - 1].do \in W
        BY <2>2, <1>1, <1>2
      <3> QED BY <3>1 DEF Has
    <2> QED BY <2>1, <2>2, <1>1, <1>2
  <1> QED BY <1>2, <1>3, <1>4, <1>7, <1>8 DEF u

LEMMA ChainEmpty ==
  ASSUME NEW init
  PROVE  Chain(<<>>, init) /\ \A W : ~ Has(<<>>, W)
  BY EmptySeq DEF Chain, Has

-----------------------------------------------------------------------------
(* The cells of a page. *)

Row == [1..Cells -> Cell]

LEMMA CellFacts ==
  /\ \A x \in Cell : IsMeta(x) => x.element \in Element /\ x.at \in 0..Cells /\ x # Blank
  /\ \A x \in Cell : x.kind = "record" => x # Blank /\ ~ IsMeta(x)
  /\ ~ IsMeta(Blank) /\ Blank.kind # "record"
  /\ Torn # Blank /\ ~ IsMeta(Torn) /\ Torn \in Cell /\ Blank \in Cell
  /\ \A v : /\ Record(v).kind = "record" /\ ~ IsMeta(Record(v)) /\ Record(v) # Blank
            /\ v \in Value \cup {Junk} => Record(v) \in Cell
  /\ \A e, at : /\ IsMeta(Meta(e, at)) /\ Meta(e, at).element = e /\ Meta(e, at).at = at
                /\ Meta(e, at) # Blank /\ Meta(e, at).kind # "record"
                /\ e \in Element /\ at \in 0..Cells => Meta(e, at) \in Cell
  <1>1. \A x \in Cell : \/ x = Blank \/ x = Torn
                        \/ \E v \in Value \cup {Junk} : x = Record(v)
                        \/ \E e \in Element, at \in 0..Cells : x = Meta(e, at)
    BY DEF Cell
  <1>2. \A v : /\ Record(v).kind = "record" /\ ~ IsMeta(Record(v)) /\ Record(v) # Blank
               /\ v \in Value \cup {Junk} => Record(v) \in Cell
    <2>1. \A v \in Value \cup {Junk} : Record(v) \in Cell
      BY DEF Cell
    <2>2. \A v : Record(v).kind = "record"
      BY DEF Record
    <2> QED BY <2>1, <2>2 DEF IsMeta, Blank
  <1>3. \A e, at : /\ IsMeta(Meta(e, at)) /\ Meta(e, at).element = e /\ Meta(e, at).at = at
                   /\ Meta(e, at) # Blank /\ Meta(e, at).kind # "record"
                   /\ e \in Element /\ at \in 0..Cells => Meta(e, at) \in Cell
    <2>1. \A e \in Element, at \in 0..Cells : Meta(e, at) \in Cell
      BY DEF Cell
    <2>2. \A e, at : /\ Meta(e, at).kind = "meta" /\ Meta(e, at).element = e
                     /\ Meta(e, at).at = at
      BY DEF Meta
    <2> QED BY <2>1, <2>2 DEF IsMeta, Blank
  <1>4. Torn # Blank /\ ~ IsMeta(Torn) /\ Torn \in Cell /\ Blank \in Cell
    BY DEF Torn, Blank, IsMeta, Cell
  <1>5. ~ IsMeta(Blank) /\ Blank.kind # "record" /\ Torn.kind # "record"
    BY DEF Torn, Blank, IsMeta
  <1>6. \A x \in Cell : IsMeta(x) => x.element \in Element /\ x.at \in 0..Cells /\ x # Blank
    BY <1>1, <1>2, <1>3, <1>4, <1>5
  <1>7. \A x \in Cell : x.kind = "record" => x # Blank /\ ~ IsMeta(x)
    BY <1>1, <1>2, <1>3, <1>4, <1>5
  <1> QED BY <1>2, <1>3, <1>4, <1>5, <1>6, <1>7

\* Some cells of a page are programmed.
LEMMA ProgrammingIs ==
  ASSUME NEW c \in Row, NEW x \in Cell, NEW k, NEW n
  PROVE  /\ Programming(c, k, n, x) \in Row
         /\ \A i \in 1..Cells : Programming(c, k, n, x)[i] =
                                  IF i \in k..(k + n - 1) THEN x ELSE c[i]
  BY DEF Programming, Row

LEMMA OneCellIs ==
  ASSUME NEW c \in Row, NEW x \in Cell, NEW k \in 1..Cells
  PROVE  /\ Programming(c, k, 1, x) \in Row
         /\ \A i \in 1..Cells : Programming(c, k, 1, x)[i] = IF i = k THEN x ELSE c[i]
  <1>1. \A i \in 1..Cells : i \in k..(k + 1 - 1) <=> i = k
    OBVIOUS
  <1> QED BY <1>1, ProgrammingIs

\* The cells of a record.
LEMMA RecordFacts ==
  ASSUME StoreAssumption, NEW c \in Row, NEW e \in Element, NEW at \in Int,
         IsRecord(c, at, e)
  PROVE  /\ at \in 1..Cells /\ at + Size(e) - 1 <= Cells
         /\ \A i \in at..(at + Size(e) - 1) :
              /\ i \in 1..Cells /\ c[i].kind = "record" /\ c[i].value = c[at].value
              /\ c[i] # Blank /\ ~ IsMeta(c[i])
         /\ at \in at..(at + Size(e) - 1)
         /\ c[at].kind = "record" /\ c[at] # Blank
  <1>1. Cells \in Nat /\ Size(e) \in Nat /\ Size(e) >= 1
    BY SizeFacts
  <1>2. /\ at >= 1 /\ at + Size(e) - 1 <= Cells
        /\ \A i \in at..(at + Size(e) - 1) : c[i].kind = "record" /\ c[i].value = c[at].value
    BY DEF IsRecord, HoldsRecord
  <1>3. at \in 1..Cells /\ at \in at..(at + Size(e) - 1)
    BY <1>1, <1>2
  <1>4. \A i \in at..(at + Size(e) - 1) : i \in 1..Cells
    BY <1>1, <1>2
  <1>5. \A i \in 1..Cells : c[i] \in Cell
    BY DEF Row
  <1>6. \A i \in at..(at + Size(e) - 1) : c[i] # Blank /\ ~ IsMeta(c[i])
    BY <1>2, <1>4, <1>5, CellFacts
  <1> QED BY <1>2, <1>3, <1>4, <1>6

LEMMA RecordKept ==
  ASSUME StoreAssumption, NEW c \in Row, NEW d, NEW e \in Element, NEW at \in Int,
         IsRecord(c, at, e),
         \A i \in 1..Cells : c[i].kind = "record" => d[i] = c[i]
  PROVE  IsRecord(d, at, e) /\ d[at] = c[at]
  <1>1. /\ at \in 1..Cells /\ at + Size(e) - 1 <= Cells
        /\ \A i \in at..(at + Size(e) - 1) :
             i \in 1..Cells /\ c[i].kind = "record" /\ c[i].value = c[at].value
        /\ c[at].kind = "record"
    BY RecordFacts
  <1>2. \A i \in at..(at + Size(e) - 1) : d[i] = c[i]
    BY <1>1
  <1>3. d[at] = c[at]
    BY <1>1
  <1>4. at >= 1
    BY <1>1
  <1> QED BY <1>1, <1>2, <1>3, <1>4 DEF IsRecord, HoldsRecord

LEMMA RecordProgrammed ==
  ASSUME StoreAssumption, NEW c \in Row, NEW e \in Element, NEW at \in 1..Cells,
         at + Size(e) <= Cells + 1, NEW v \in Value \cup {Junk},
         NEW d, d = Programming(c, at, Size(e), Record(v))
  PROVE  IsRecord(d, at, e) /\ d[at].value = v
  <1>1. Cells \in Nat /\ Size(e) \in Nat /\ Size(e) >= 1
    BY SizeFacts
  <1>2. Record(v) \in Cell /\ Record(v).kind = "record" /\ Record(v).value = v
    BY CellFacts DEF Record
  <1>3. \A i \in at..(at + Size(e) - 1) : i \in 1..Cells
    BY <1>1
  <1>4. \A i \in at..(at + Size(e) - 1) : d[i] = Record(v)
    BY <1>2, <1>3, ProgrammingIs
  <1>5. at \in at..(at + Size(e) - 1) /\ at >= 1 /\ at + Size(e) - 1 <= Cells
    BY <1>1
  <1>6. d[at] = Record(v)
    BY <1>4, <1>5
  <1> QED BY <1>2, <1>4, <1>5, <1>6 DEF IsRecord, HoldsRecord

\* Programming blank cells with anything but a meta.
LEMMA ProgramData ==
  ASSUME StoreAssumption, NEW c \in Row, NEW k \in 1..Cells, NEW n \in Nat,
         BlankBetween(c, k, k + n - 1),
         NEW x \in Cell, x # Blank, ~ IsMeta(x),
         NEW d, d = Programming(c, k, n, x)
  PROVE  /\ d \in Row
         /\ Sound(c) => Sound(d)
         /\ \A m \in 0..Cells : \A u : NewestMeta(c, m, u) => NewestMeta(d, m, u)
         /\ \A e, at : at \in 1..Cells /\ PointsInto(c, e, at) => PointsInto(d, e, at)
         /\ \A e : \A i \in 1..Cells : MetaOf(c, i, e) <=> MetaOf(d, i, e)
  <1>1. d \in Row /\ \A i \in 1..Cells : d[i] = IF i \in k..(k + n - 1) THEN x ELSE c[i]
    BY ProgrammingIs
  <1>2. \A i \in 1..Cells : /\ IsMeta(c[i]) => d[i] = c[i]
                            /\ IsMeta(d[i]) => d[i] = c[i]
                            /\ c[i] # Blank => d[i] # Blank
                            /\ c[i].kind = "record" => d[i] = c[i]
    <2>1. \A i \in 1..Cells : i \in k..(k + n - 1) => c[i] = Blank /\ d[i] = x
      BY <1>1 DEF BlankBetween
    <2>2. \A i \in 1..Cells : ~ (i \in k..(k + n - 1)) => d[i] = c[i]
      BY <1>1
    <2> QED BY <2>1, <2>2, CellFacts
  <1>3. \A i \in 1..Cells : c[i] \in Cell
                            /\ (IsMeta(c[i]) => c[i].at \in 0..Cells /\ c[i].element \in Element)
    BY CellFacts DEF Row
  <1>4. Cells \in Nat
    BY DEF StoreAssumption
  <1>5. \A i \in 1..Cells : \A j \in 1..(i - 1) : j \in 1..Cells
    BY <1>4
  <1>6. Sound(c) => Sound(d)
    <2> SUFFICES ASSUME Sound(c), NEW i \in 1..Cells, IsMeta(d[i])
                 PROVE  /\ \A j \in 1..(i - 1) : d[j] # Blank
                        /\ d[i].at # 0 => IsRecord(d, d[i].at, d[i].element)
      BY DEF Sound
    <2>1. IsMeta(c[i]) /\ d[i] = c[i]
      BY <1>2
    <2>2. \A j \in 1..(i - 1) : c[j] # Blank
      BY <2>1 DEF Sound
    <2>3. \A j \in 1..(i - 1) : d[j] # Blank
      BY <2>2, <1>2, <1>5
    <2>4. d[i].at # 0 => IsRecord(d, d[i].at, d[i].element)
      <3> SUFFICES ASSUME d[i].at # 0 PROVE IsRecord(d, d[i].at, d[i].element)
        OBVIOUS
      <3>1. PICK at \in Int, e \in Element : at = c[i].at /\ e = c[i].element
        BY <2>1, <1>3, <1>4
      <3>2. IsRecord(c, at, e)
        BY <3>1, <2>1 DEF Sound
      <3>3. IsRecord(d, at, e)
        BY <3>2, <1>2, RecordKept
      <3> QED BY <3>1, <3>3, <2>1
    <2> QED BY <2>3, <2>4
  <1>7. \A e : \A i \in 1..Cells : MetaOf(c, i, e) <=> MetaOf(d, i, e)
    BY <1>2 DEF MetaOf
  <1>8. ASSUME NEW m \in 0..Cells, NEW u, NewestMeta(c, m, u)
        PROVE  NewestMeta(d, m, u)
    <2>1. m # 0 => m \in 1..Cells
      BY <1>4
    <2>2. \A i \in 1..m : i \in 1..Cells
      BY <1>4
    <2>3. \A i \in 1..Cells : IsMeta(d[i]) => i <= m
      BY <1>8, <1>2 DEF NewestMeta
    <2>4. \A i \in 1..m : d[i] # Blank
      BY <1>8, <1>2, <2>2 DEF NewestMeta
    <2>5. m # 0 => IsMeta(d[m]) /\ (d[m].at # 0 => u = m)
      BY <1>8, <1>2, <2>1 DEF NewestMeta
    <2> QED BY <2>3, <2>4, <2>5 DEF NewestMeta
  <1>9. ASSUME NEW e, NEW at, at \in 1..Cells, PointsInto(c, e, at)
        PROVE  PointsInto(d, e, at)
    <2>1. PICK i \in 1..Cells : /\ MetaOf(c, i, e) /\ c[i].at = at
                                /\ \A j \in (i + 1)..Cells : ~ MetaOf(c, j, e)
      BY <1>9 DEF PointsInto
    <2>2. e \in Element /\ at \in Int
      BY <2>1, <1>3, <1>9 DEF MetaOf
    <2>3. IsRecord(d, at, e)
      <3>1. IsRecord(c, at, e)
        BY <1>9 DEF PointsInto
      <3> QED BY <3>1, <2>2, <1>2, RecordKept
    <2>4. d[i] = c[i]
      BY <2>1, <1>2 DEF MetaOf
    <2>5. \A j \in (i + 1)..Cells : j \in 1..Cells
      BY <1>4
    <2>6. \A j \in (i + 1)..Cells : ~ MetaOf(d, j, e)
      BY <2>1, <2>5, <1>7
    <2> QED BY <2>1, <2>3, <2>4, <2>6, <1>7 DEF PointsInto
  <1> QED BY <1>1, <1>6, <1>7, <1>8, <1>9

\* Programming the next meta of the active page.
LEMMA ProgramNextMeta ==
  ASSUME StoreAssumption, NEW c \in Row, NEW m \in 0..Cells, NEW u,
         Sound(c), NewestMeta(c, m, u),
         NEW k \in 1..Cells, c[k] = Blank, m < k, \A i \in (m + 1)..(k - 1) : c[i] # Blank,
         NEW e \in Element, NEW at \in 0..Cells, at # 0 => IsRecord(c, at, e),
         NEW d, d = Programming(c, k, 1, Meta(e, at))
  PROVE  /\ d \in Row
         /\ Sound(d)
         /\ NewestMeta(d, k, IF at = 0 THEN u ELSE k)
         /\ at # 0 => PointsInto(d, e, at)
         /\ \A f, a : f # e /\ a \in 1..Cells /\ PointsInto(c, f, a) => PointsInto(d, f, a)
  <1> DEFINE x == Meta(e, at)
  <1>1. x \in Cell /\ IsMeta(x) /\ x # Blank /\ x.element = e /\ x.at = at /\ x.kind # "record"
    BY CellFacts
  <1>2. d \in Row /\ \A i \in 1..Cells : d[i] = IF i = k THEN x ELSE c[i]
    BY <1>1, OneCellIs
  <1> HIDE DEF x
  <1>3. \A i \in 1..Cells : /\ i # k => d[i] = c[i]
                            /\ c[i] # Blank => d[i] # Blank
                            /\ c[i].kind = "record" => d[i] = c[i]
    BY <1>1, <1>2, CellFacts
  <1>4. Cells \in Nat /\ d[k] = x /\ (at # 0 => at \in 1..Cells) /\ at \in Int
    BY <1>2 DEF StoreAssumption
  <1>5. \A i \in 1..Cells : IsMeta(c[i]) => /\ i <= m /\ i # k /\ c[i].at \in 0..Cells
                                            /\ c[i].element \in Element
    BY <1>4, CellFacts DEF NewestMeta, Row
  <1>6. \A i \in 1..(k - 1) : c[i] # Blank
    <2>1. \A i \in 1..m : c[i] # Blank
      BY DEF NewestMeta
    <2>2. \A i \in 1..(k - 1) : i \in 1..m \/ i \in (m + 1)..(k - 1)
      BY <1>4
    <2> QED BY <2>1, <2>2
  <1>13. \A g \in Element : \A b \in Int : IsRecord(c, b, g) => IsRecord(d, b, g)
    <2>1. \A j \in 1..Cells : c[j].kind = "record" => d[j] = c[j]
      BY <1>3
    <2> TAKE g \in Element, b \in Int
    <2> QED BY <2>1, RecordKept
  <1>7. \A i \in 1..k : d[i] # Blank
    <2> TAKE i \in 1..k
    <2>1. i \in 1..Cells
      BY <1>4
    <2>2. i # k => i \in 1..(k - 1)
      BY <1>4
    <2> QED BY <2>1, <2>2, <1>1, <1>3, <1>4, <1>6
  <1>8. \A i \in 1..Cells : IsMeta(d[i]) => i <= k
    <2> TAKE i \in 1..Cells
    <2>1. i # k => (IsMeta(d[i]) => i <= m)
      BY <1>3, <1>5
    <2> QED BY <2>1, <1>4
  <1>9. NewestMeta(d, k, IF at = 0 THEN u ELSE k)
    BY <1>1, <1>4, <1>7, <1>8 DEF NewestMeta
  <1>10. Sound(d)
    <2> SUFFICES ASSUME NEW i \in 1..Cells, IsMeta(d[i])
                 PROVE  /\ \A j \in 1..(i - 1) : d[j] # Blank
                        /\ d[i].at # 0 => IsRecord(d, d[i].at, d[i].element)
      BY DEF Sound
    <2>1. \A j \in 1..(i - 1) : j \in 1..k
      BY <1>4, <1>8
    <2>2. i = k => (d[i].at # 0 => IsRecord(d, d[i].at, d[i].element))
      <3>1. at # 0 => IsRecord(d, at, e)
        BY <1>4, <1>13
      <3> QED BY <3>1, <1>1, <1>4
    <2>3. i # k => (d[i].at # 0 => IsRecord(d, d[i].at, d[i].element))
      <3> SUFFICES ASSUME i # k, d[i].at # 0 PROVE IsRecord(d, d[i].at, d[i].element)
        OBVIOUS
      <3>1. d[i] = c[i] /\ IsMeta(c[i]) /\ IsRecord(c, c[i].at, c[i].element)
        BY <1>3 DEF Sound
      <3>2. PICK b \in Int, f \in Element : b = c[i].at /\ f = c[i].element
        BY <3>1, <1>4, <1>5
      <3>3. IsRecord(d, b, f)
        BY <3>1, <3>2, <1>13
      <3> QED BY <3>1, <3>2, <3>3
    <2> QED BY <2>1, <2>2, <2>3, <1>7
  <1>11. at # 0 => PointsInto(d, e, at)
    <2> SUFFICES ASSUME at # 0 PROVE PointsInto(d, e, at)
      OBVIOUS
    <2>1. IsRecord(d, at, e)
      BY <1>4, <1>13
    <2>2. MetaOf(d, k, e) /\ d[k].at = at
      BY <1>1, <1>4 DEF MetaOf
    <2>3. \A j \in (k + 1)..Cells : ~ MetaOf(d, j, e)
      BY <1>4, <1>8 DEF MetaOf
    <2> QED BY <2>1, <2>2, <2>3 DEF PointsInto
  <1>12. ASSUME NEW f, NEW a, f # e, a \in 1..Cells, PointsInto(c, f, a)
         PROVE  PointsInto(d, f, a)
    <2>1. PICK i \in 1..Cells : /\ MetaOf(c, i, f) /\ c[i].at = a
                                /\ \A j \in (i + 1)..Cells : ~ MetaOf(c, j, f)
      BY <1>12 DEF PointsInto
    <2>2. IsRecord(d, a, f)
      <3>1. IsRecord(c, a, f)
        BY <1>12 DEF PointsInto
      <3>2. f \in Element /\ a \in Int
        BY <2>1, <1>4, <1>5, <1>12 DEF MetaOf
      <3> QED BY <3>1, <3>2, <1>13
    <2>3. d[i] = c[i]
      BY <2>1, <1>3, <1>5 DEF MetaOf
    <2>4. \A j \in (i + 1)..Cells : ~ MetaOf(d, j, f)
      <3> TAKE j \in (i + 1)..Cells
      <3>1. j \in 1..Cells
        BY <1>4
      <3>2. j = k => ~ MetaOf(d, j, f)
        BY <1>1, <1>4, <1>12 DEF MetaOf
      <3>3. j # k => ~ MetaOf(d, j, f)
        BY <3>1, <2>1, <1>3 DEF MetaOf
      <3> QED BY <3>2, <3>3
    <2> QED BY <2>1, <2>2, <2>3, <2>4 DEF PointsInto, MetaOf
  <1> QED BY <1>2, <1>9, <1>10, <1>11, <1>12

\* The elements copied are different ones, so there is room for one more of each.
LEMMA FillingRoom ==
  ASSUME StoreAssumption, NEW c \in Row, NEW n \in 0..Cells, NEW lo, NEW hi,
         Filling(c, n, lo, hi), NEW at, ReachesTo(c, n, at)
  PROVE  /\ n <= Entries /\ at \in 1..(Cells + 1) /\ n + 1 < at
         /\ \A e \in Element : ~ Copied(c, e, n) =>
              /\ Size(e) \in Nat /\ n + 1 < at - Size(e)
              /\ at - Size(e) = Cells + 1 - Used(CopiedIn(c, n) \cup {e})
  <1>1. /\ Cells \in Nat /\ Entries \in Nat /\ Extent[Entries] \in Nat
        /\ \A e \in Element : Size(e) \in Nat /\ Cells >= Extent[Entries] + Entries + Size(e) + 3
        /\ 1 \in Element
    BY SizeFacts DEF StoreAssumption, Element
  <1>2. \A i \in 1..n : i \in 1..Cells /\ c[i] \in Cell /\ IsMeta(c[i])
    BY <1>1 DEF Row, Filling
  <1>3. \A i \in 1..n : c[i].element \in Element
    BY <1>2, CellFacts
  <1> DEFINE f == [i \in 1..n |-> c[i].element]
  <1>4. f \in [1..n -> Element]
    BY <1>3
  <1>5. \A i, j \in 1..n : f[i] = f[j] => i = j
    BY DEF Filling
  <1>6. n \in Nat
    BY <1>1
  <1>7. n <= Entries
    <2> HIDE DEF f
    <2> QED BY <1>4, <1>5, <1>6, FewElements
  <1> DEFINE S == CopiedIn(c, n)
  <1>8. S \subseteq Element
    BY <1>3 DEF CopiedIn
  <1>9. Used(S) \in Nat /\ Used(S) <= Extent[Entries]
    <2> HIDE DEF S
    <2> QED BY <1>8, UsedBound
  <1>10. at = Cells + 1 - Used(S)
    BY DEF ReachesTo
  <1>11. ASSUME NEW e \in Element, ~ Copied(c, e, n)
         PROVE  /\ n + 1 < at - Size(e)
                /\ at - Size(e) = Cells + 1 - Used(S \cup {e})
    <2>1. e \notin S
      BY <1>2, <1>11 DEF Copied, CopiedIn, MetaOf
    <2>2. Used(S \cup {e}) = Used(S) + Size(e) /\ Used(S \cup {e}) <= Extent[Entries]
      <3> HIDE DEF S
      <3> QED BY <2>1, <1>8, UsedMore
    <2> HIDE DEF S
    <2>3. /\ Size(e) \in Nat /\ Cells >= Extent[Entries] + Entries + Size(e) + 3
          /\ Cells \in Nat /\ Entries \in Nat /\ Extent[Entries] \in Nat
      BY <1>1
    <2>4. at - Size(e) = Cells + 1 - Used(S \cup {e})
      BY <2>2, <2>3, <1>9, <1>10
    <2>5. n + 1 < at - Size(e)
      BY <2>2, <2>3, <2>4, <1>6, <1>7, <1>9
    <2> QED BY <2>4, <2>5
  <1>12. at \in 1..(Cells + 1) /\ n + 1 < at
    <2> HIDE DEF S
    <2>1. Size(1) \in Nat /\ Cells >= Extent[Entries] + Entries + Size(1) + 3
      BY <1>1
    <2>2. Cells \in Nat /\ Entries \in Nat /\ Extent[Entries] \in Nat
      BY <1>1
    <2> QED BY <2>1, <2>2, <1>6, <1>7, <1>9, <1>10
  <1> QED BY <1>1, <1>7, <1>11, <1>12

\* A page filled with n metas is sound, and they are all its metas.
LEMMA FillingIsSound ==
  ASSUME StoreAssumption, NEW c \in Row, NEW n \in 0..Cells, NEW hi \in 0..Cells, n <= hi,
         Filling(c, n, n + 1, hi)
  PROVE  /\ Sound(c) /\ NewestMeta(c, n, n)
         /\ \A i \in 1..Cells : IsMeta(c[i]) => i \in 1..n
  <1>1. Cells \in Nat /\ n \in Nat /\ hi \in Nat
    BY DEF StoreAssumption
  <1>2. \A i \in 1..n : /\ IsMeta(c[i]) /\ IsRecord(c, c[i].at, c[i].element)
                        /\ i \in 1..Cells /\ c[i] # Blank
    BY <1>1, CellFacts DEF Filling
  <1>3. \A i \in 1..Cells : IsMeta(c[i]) => i \in 1..n
    <2> SUFFICES ASSUME NEW i \in 1..Cells, IsMeta(c[i]), ~ (i \in 1..n) PROVE FALSE
      OBVIOUS
    <2>1. i \in (n + 1)..hi \/ i \in (hi + 1)..Cells
      BY <1>1
    <2>2. i \in (n + 1)..hi => c[i] = Blank
      BY DEF Filling, BlankBetween
    <2>3. i \in (hi + 1)..Cells => c[i].kind = "record"
      BY DEF Filling
    <2> QED BY <2>1, <2>2, <2>3, CellFacts DEF Row
  <1>4. Sound(c)
    <2> SUFFICES ASSUME NEW i \in 1..Cells, IsMeta(c[i])
                 PROVE  /\ \A j \in 1..(i - 1) : c[j] # Blank
                        /\ c[i].at # 0 => IsRecord(c, c[i].at, c[i].element)
      BY DEF Sound
    <2>1. i \in 1..n /\ \A j \in 1..(i - 1) : j \in 1..n
      BY <1>1, <1>3
    <2> QED BY <2>1, <1>2
  <1>5. NewestMeta(c, n, n)
    <2>1. \A i \in 1..Cells : IsMeta(c[i]) => i <= n
      BY <1>1, <1>3
    <2>2. n # 0 => n \in 1..n
      BY <1>1
    <2> QED BY <2>1, <2>2, <1>2 DEF NewestMeta
  <1> QED BY <1>3, <1>4, <1>5

LEMMA BlankFilling ==
  ASSUME StoreAssumption, NEW c \in Row, AllBlank(c)
  PROVE  /\ Filling(c, 0, 1, Cells) /\ Sound(c) /\ ReachesTo(c, 0, Cells + 1)
         /\ \A e : ~ Copied(c, e, 0)
  <1>1. Cells \in Nat
    BY DEF StoreAssumption
  <1>2. BlankBetween(c, 1, Cells)
    BY DEF AllBlank
  <1>3. \A i \in 1..0 : FALSE
    OBVIOUS
  <1>4. \A i \in (Cells + 1)..Cells : FALSE
    BY <1>1
  <1>5. Filling(c, 0, 1, Cells)
    BY <1>2, <1>3, <1>4 DEF Filling
  <1>6. Sound(c)
    BY <1>2, CellFacts DEF Sound, BlankBetween
  <1>7. ReachesTo(c, 0, Cells + 1)
    <2>1. CopiedIn(c, 0) = {}
      BY <1>3 DEF CopiedIn
    <2>2. Used(CopiedIn(c, 0)) = 0
      BY <2>1, NothingUsed
    <2> QED BY <2>2, <1>1 DEF ReachesTo
  <1> QED BY <1>3, <1>5, <1>6, <1>7 DEF Copied

\* NvInternalCopy: the record ...
LEMMA CopyRecordCells ==
  ASSUME StoreAssumption, NEW c \in Row, NEW n \in 0..Cells,
         NEW e \in Element, NEW at \in 1..Cells, at + Size(e) <= Cells + 1, n + 1 < at,
         Filling(c, n, n + 1, at + Size(e) - 1),
         NEW v \in Value \cup {Junk}, NEW d, d = Programming(c, at, Size(e), Record(v))
  PROVE  /\ d \in Row /\ BlankBetween(c, at, at + Size(e) - 1)
         /\ Filling(d, n, n + 1, at - 1) /\ IsRecord(d, at, e) /\ d[at].value = v
         /\ \A f : Copied(d, f, n) <=> Copied(c, f, n)
         /\ CopiedIn(d, n) = CopiedIn(c, n)
         /\ \A f, a : a \in 1..Cells /\ PointsInto(c, f, a) => PointsInto(d, f, a)
  <1>1. Cells \in Nat /\ n \in Nat /\ Size(e) \in Nat /\ Size(e) >= 1
    BY SizeFacts
  <1>2. BlankBetween(c, at, at + Size(e) - 1)
    <2>1. \A i \in at..(at + Size(e) - 1) : i \in (n + 1)..(at + Size(e) - 1)
      BY <1>1
    <2> QED BY <2>1 DEF Filling, BlankBetween
  <1>3. /\ Record(v) \in Cell /\ Record(v) # Blank /\ ~ IsMeta(Record(v))
        /\ Record(v).kind = "record"
    BY CellFacts
  <1>4. /\ d \in Row
        /\ \A f, a : a \in 1..Cells /\ PointsInto(c, f, a) => PointsInto(d, f, a)
        /\ \A f : \A i \in 1..Cells : MetaOf(c, i, f) <=> MetaOf(d, i, f)
    <2> DEFINE x == Record(v)
               k == Size(e)
    <2>1. d = Programming(c, at, k, x) /\ BlankBetween(c, at, at + k - 1) /\ k \in Nat
      BY <1>1, <1>2
    <2>2. x \in Cell /\ x # Blank /\ ~ IsMeta(x)
      BY <1>3
    <2> HIDE DEF k, x
    <2> QED BY <2>1, <2>2, ProgramData
  <1>5. \A i \in 1..Cells : d[i] = IF i \in at..(at + Size(e) - 1) THEN Record(v) ELSE c[i]
    BY <1>3, ProgrammingIs
  <1>6. \A i \in 1..n : i \in 1..Cells /\ ~ (i \in at..(at + Size(e) - 1))
    BY <1>1
  <1>7. \A i \in 1..n : d[i] = c[i]
    BY <1>5, <1>6
  <1>8. \A f : Copied(d, f, n) <=> Copied(c, f, n)
    BY <1>4, <1>6 DEF Copied
  <1>9. \A i \in (n + 1)..(at - 1) : /\ i \in 1..Cells /\ ~ (i \in at..(at + Size(e) - 1))
                                     /\ i \in (n + 1)..(at + Size(e) - 1)
    BY <1>1
  <1>10. BlankBetween(d, n + 1, at - 1)
    BY <1>5, <1>9 DEF Filling, BlankBetween
  <1>11. \A i \in ((at - 1) + 1)..Cells : d[i].kind = "record"
    <2> TAKE i \in ((at - 1) + 1)..Cells
    <2>1. i \in 1..Cells /\ (~ (i \in at..(at + Size(e) - 1)) =>
                               i \in ((at + Size(e) - 1) + 1)..Cells)
      BY <1>1
    <2> QED BY <2>1, <1>3, <1>5 DEF Filling
  <1>12. \A i \in 1..Cells : c[i].kind = "record" => d[i] = c[i]
    <2>1. \A i \in 1..Cells : i \in at..(at + Size(e) - 1) => c[i].kind # "record"
      BY <1>2, CellFacts DEF BlankBetween
    <2> QED BY <2>1, <1>5
  <1>13. \A i \in 1..n :
           /\ IsMeta(d[i]) /\ d[i].at \in ((at - 1) + 1)..Cells
           /\ IsRecord(d, d[i].at, d[i].element)
           /\ \A j \in 1..n : d[i].element = d[j].element => i = j
    <2> TAKE i \in 1..n
    <2>1. /\ IsMeta(c[i]) /\ c[i].at \in ((at + Size(e) - 1) + 1)..Cells
          /\ IsRecord(c, c[i].at, c[i].element)
          /\ \A j \in 1..n : c[i].element = c[j].element => i = j
      BY DEF Filling
    <2>2. c[i].element \in Element
      BY <2>1, <1>6, CellFacts DEF Row
    <2>3. c[i].at \in Int /\ c[i].at \in ((at - 1) + 1)..Cells
      BY <2>1, <1>1
    <2>4. IsRecord(d, c[i].at, c[i].element)
      BY <2>1, <2>2, <2>3, <1>12, RecordKept
    <2> QED BY <2>1, <2>3, <2>4, <1>7
  <1>14. Filling(d, n, n + 1, at - 1)
    BY <1>10, <1>11, <1>13 DEF Filling
  <1>15. CopiedIn(d, n) = CopiedIn(c, n)
    BY <1>7 DEF CopiedIn
  <1>16. IsRecord(d, at, e) /\ d[at].value = v
    BY RecordProgrammed
  <1> QED BY <1>2, <1>4, <1>8, <1>14, <1>15, <1>16

\* ... and then its meta.
LEMMA CopyMetaCell ==
  ASSUME StoreAssumption, NEW c \in Row, NEW n \in 0..Cells,
         NEW e \in Element, NEW at \in 1..Cells, n + 1 < at,
         Filling(c, n, n + 1, at - 1), IsRecord(c, at, e),
         ReachesTo(c, n, at + Size(e)), ~ Copied(c, e, n),
         NEW d, d = Programming(c, n + 1, 1, Meta(e, at))
  PROVE  /\ d \in Row /\ n + 1 \in 0..Cells /\ c[n + 1] = Blank
         /\ Filling(d, n + 1, n + 2, at - 1) /\ ReachesTo(d, n + 1, at)
         /\ \A f : Copied(d, f, n + 1) <=> f = e \/ Copied(c, f, n)
         /\ PointsInto(d, e, at)
         /\ \A f, a : f # e /\ a \in 1..Cells /\ PointsInto(c, f, a) => PointsInto(d, f, a)
  <1> DEFINE x == Meta(e, at)
  <1>1. Cells \in Nat /\ n \in Nat /\ n + 1 \in 1..Cells /\ at \in Int /\ at \in 0..Cells
    BY DEF StoreAssumption
  <1>2. x \in Cell /\ IsMeta(x) /\ x # Blank /\ x.element = e /\ x.at = at
        /\ x.kind # "record"
    BY <1>1, CellFacts
  <1>3. d \in Row /\ \A i \in 1..Cells : d[i] = IF i = n + 1 THEN x ELSE c[i]
    BY <1>1, <1>2, OneCellIs
  <1> HIDE DEF x
  <1>4. n + 1 \in (n + 1)..(at - 1) /\ c[n + 1] = Blank
    BY <1>1 DEF Filling, BlankBetween
  <1>5. \A i \in 1..n : i \in 1..Cells /\ i # n + 1 /\ d[i] = c[i]
    BY <1>1, <1>3
  <1>6. d[n + 1] = x
    BY <1>1, <1>3
  <1>7. \A i \in 1..(n + 1) : i = n + 1 \/ i \in 1..n
    BY <1>1
  <1>8. \A i \in 1..n : c[i].element # e
    BY DEF Copied, MetaOf, Filling
  <1>9. \A i \in 1..Cells : c[i].kind = "record" => d[i] = c[i]
    BY <1>3, <1>4, CellFacts
  <1>10. IsRecord(d, at, e)
    BY <1>1, <1>9, RecordKept
  <1>11. \A i \in 1..(n + 1) :
          /\ IsMeta(d[i]) /\ d[i].at \in ((at - 1) + 1)..Cells
          /\ IsRecord(d, d[i].at, d[i].element)
          /\ \A j \in 1..(n + 1) : d[i].element = d[j].element => i = j
    <2> TAKE i \in 1..(n + 1)
    <2>1. /\ IsMeta(d[i]) /\ d[i].at \in ((at - 1) + 1)..Cells
          /\ IsRecord(d, d[i].at, d[i].element)
      <3>1. CASE i = n + 1
        BY <3>1, <1>1, <1>2, <1>6, <1>10
      <3>2. CASE i \in 1..n
        <4>1. /\ IsMeta(c[i]) /\ c[i].at \in ((at - 1) + 1)..Cells
              /\ IsRecord(c, c[i].at, c[i].element)
          BY <3>2 DEF Filling
        <4>2. c[i].element \in Element
          BY <4>1, <3>2, <1>5, CellFacts DEF Row
        <4>3. c[i].at \in Int
          BY <4>1, <1>1
        <4>4. IsRecord(d, c[i].at, c[i].element)
          BY <4>1, <4>2, <4>3, <1>9, RecordKept
        <4> QED BY <4>1, <4>4, <3>2, <1>5
      <3> QED BY <3>1, <3>2, <1>7
    <2>2. \A j \in 1..(n + 1) : d[i].element = d[j].element => i = j
      <3> SUFFICES ASSUME NEW j \in 1..(n + 1), d[i].element = d[j].element PROVE i = j
        OBVIOUS
      <3>1. CASE i = n + 1
        BY <3>1, <1>2, <1>5, <1>6, <1>7, <1>8
      <3>2. CASE j = n + 1
        BY <3>2, <1>2, <1>5, <1>6, <1>7, <1>8
      <3>3. CASE i \in 1..n /\ j \in 1..n
        BY <3>3, <1>5 DEF Filling
      <3> QED BY <3>1, <3>2, <3>3, <1>7
    <2> QED BY <2>1, <2>2
  <1>12. \A i \in (n + 2)..(at - 1) : i \in 1..Cells /\ i # n + 1 /\ i \in (n + 1)..(at - 1)
    BY <1>1
  <1>13. BlankBetween(d, n + 2, at - 1)
    BY <1>3, <1>12 DEF Filling, BlankBetween
  <1>14. \A i \in ((at - 1) + 1)..Cells : i \in 1..Cells /\ i # n + 1
    BY <1>1
  <1>15. \A i \in ((at - 1) + 1)..Cells : d[i].kind = "record"
    BY <1>3, <1>14 DEF Filling
  <1>16. Filling(d, n + 1, n + 2, at - 1)
    BY <1>11, <1>13, <1>15 DEF Filling
  <1>17. \A f : Copied(d, f, n + 1) <=> f = e \/ Copied(c, f, n)
    <2> TAKE f
    <2>1. ASSUME Copied(d, f, n + 1) PROVE f = e \/ Copied(c, f, n)
      BY <2>1, <1>2, <1>5, <1>6, <1>7 DEF Copied, MetaOf
    <2>2. Copied(d, e, n + 1)
      <3>1. n + 1 \in 1..(n + 1) /\ MetaOf(d, n + 1, e)
        BY <1>1, <1>2, <1>6 DEF MetaOf
      <3> QED BY <3>1 DEF Copied
    <2>3. ASSUME Copied(c, f, n) PROVE Copied(d, f, n + 1)
      <3>1. PICK i \in 1..n : MetaOf(c, i, f)
        BY <2>3 DEF Copied
      <3>2. i \in 1..(n + 1) /\ MetaOf(d, i, f)
        BY <3>1, <1>1, <1>5 DEF MetaOf
      <3> QED BY <3>2 DEF Copied
    <2> QED BY <2>1, <2>2, <2>3
  <1>18. ReachesTo(d, n + 1, at)
    <2>1. CopiedIn(d, n + 1) = CopiedIn(c, n) \cup {e}
      <3>1. \A i \in 1..(n + 1) : d[i].element \in CopiedIn(c, n) \cup {e}
        BY <1>2, <1>5, <1>6, <1>7 DEF CopiedIn
      <3>2. \A i \in 1..n : c[i].element = d[i].element /\ i \in 1..(n + 1)
        BY <1>1, <1>5
      <3>3. e = d[n + 1].element /\ n + 1 \in 1..(n + 1)
        BY <1>1, <1>2, <1>6
      <3> QED BY <3>1, <3>2, <3>3 DEF CopiedIn
    <2>2. (at + Size(e)) - Size(e) = Cells + 1 - Used(CopiedIn(c, n) \cup {e})
      <3> DEFINE r == at + Size(e)
      <3>1. ReachesTo(c, n, r)
        OBVIOUS
      <3> HIDE DEF r
      <3>2. r - Size(e) = Cells + 1 - Used(CopiedIn(c, n) \cup {e})
        BY <3>1, FillingRoom
      <3> QED BY <3>2 DEF r
    <2>3. Size(e) \in Nat
      BY SizeFacts
    <2>4. (at + Size(e)) - Size(e) = at
      BY <2>3, <1>1
    <2> QED BY <2>1, <2>2, <2>4 DEF ReachesTo
  \* A meta other than the n + 1 first ones would be in the blank part or among the records.
  <1>19. \A i \in 1..Cells : IsMeta(d[i]) => i \in 1..(n + 1)
    <2> DEFINE m == n + 1
               hi == at - 1
    <2>1. m \in 0..Cells /\ m + 1 = n + 2 /\ hi \in 0..Cells /\ m <= hi
      BY <1>1
    <2>2. Filling(d, m, m + 1, hi)
      BY <2>1, <1>16
    <2> HIDE DEF m, hi
    <2>3. \A i \in 1..Cells : IsMeta(d[i]) => i \in 1..m
      BY <2>1, <2>2, <1>3, FillingIsSound
    <2> QED BY <2>3 DEF m
  <1>20. PointsInto(d, e, at)
    <2>1. MetaOf(d, n + 1, e) /\ d[n + 1].at = at
      BY <1>2, <1>6 DEF MetaOf
    <2>2. \A j \in ((n + 1) + 1)..Cells : ~ MetaOf(d, j, e)
      <3> TAKE j \in ((n + 1) + 1)..Cells
      <3>1. j \in 1..Cells /\ ~ (j \in 1..(n + 1))
        BY <1>1
      <3> QED BY <3>1, <1>19 DEF MetaOf
    <2> QED BY <2>1, <2>2, <1>1, <1>10 DEF PointsInto
  <1>21. ASSUME NEW f, NEW a, f # e, a \in 1..Cells, PointsInto(c, f, a)
         PROVE  PointsInto(d, f, a)
    <2>1. PICK i \in 1..Cells : /\ MetaOf(c, i, f) /\ c[i].at = a
                                /\ \A j \in (i + 1)..Cells : ~ MetaOf(c, j, f)
      BY <1>21 DEF PointsInto
    <2>2. \A k \in 1..Cells : k # n + 1 => d[k] = c[k]
      BY <1>3
    <2>3. i # n + 1
      BY <2>1, <1>4, CellFacts DEF MetaOf
    <2>4. \A j \in (i + 1)..Cells : ~ MetaOf(d, j, f)
      <3> TAKE j \in (i + 1)..Cells
      <3>1. j \in 1..Cells
        BY <1>1
      <3>2. j = n + 1 => ~ MetaOf(d, j, f)
        BY <1>2, <1>6, <1>21 DEF MetaOf
      <3>3. j # n + 1 => ~ MetaOf(d, j, f)
        BY <3>1, <2>1, <2>2 DEF MetaOf
      <3> QED BY <3>2, <3>3
    <2>5. f \in Element /\ a \in Int /\ IsRecord(c, a, f)
      BY <2>1, <1>21, CellFacts DEF MetaOf, PointsInto, Row
    <2>6. IsRecord(d, a, f)
      BY <2>5, <1>9, RecordKept
    <2>7. MetaOf(d, i, f) /\ d[i].at = a
      BY <2>1, <2>2, <2>3 DEF MetaOf
    <2> QED BY <2>4, <2>6, <2>7 DEF PointsInto
  <1>22. n + 1 \in 0..Cells
    BY <1>1
  <1> QED BY <1>3, <1>4, <1>16, <1>17, <1>18, <1>20, <1>21, <1>22

\* A sector of a page is erased: its cells and its counter.
LEMMA SectorErased ==
  ASSUME StoreAssumption, NEW pg \in [top : Nat, bottom : Nat, cell : Row],
         NEW s \in {1, 2}, NEW q, q = WithSectorErased(pg, s)
  PROVE  /\ q \in [top : Nat, bottom : Nat, cell : Row]
         /\ \A i \in 1..Cells : q.cell[i] = pg.cell[i] \/ q.cell[i] = Blank
         /\ s = 1 => q.top = 0 /\ q.bottom = pg.bottom /\ LowerBlank(q.cell)
         /\ s = 2 => /\ q.top = pg.top /\ q.bottom = 0
                     /\ LowerBlank(pg.cell) => AllBlank(q.cell)
  <1> DEFINE lower == 1..(Cells \div 2)
             gone  == IF s = 1 THEN lower ELSE (1..Cells) \ lower
             cell  == [i \in 1..Cells |-> IF i \in gone THEN Blank ELSE pg.cell[i]]
  <1>1. Cells \in Nat /\ Cells \div 2 \in Nat /\ Cells \div 2 <= Cells
    BY DEF StoreAssumption
  <1>2. cell \in Row
    BY CellFacts DEF Row
  <1>3. \A i \in 1..Cells : cell[i] = IF i \in gone THEN Blank ELSE pg.cell[i]
    OBVIOUS
  <1>4. s = 1 => q = [pg EXCEPT !.top = 0, !.cell = cell]
    BY DEF WithSectorErased
  <1>5. s = 2 => q = [pg EXCEPT !.bottom = 0, !.cell = cell]
    BY DEF WithSectorErased
  <1>6. s = 1 => LowerBlank(cell)
    <2>1. \A i \in lower : i \in 1..Cells
      BY <1>1
    <2> QED BY <2>1, <1>3 DEF LowerBlank, BlankBetween
  <1>7. s = 2 /\ LowerBlank(pg.cell) => AllBlank(cell)
    BY <1>3 DEF LowerBlank, AllBlank, BlankBetween
  <1> HIDE DEF cell
  <1>8. q.cell = cell
    BY <1>4, <1>5
  <1>9. s = 1 => q.top = 0 /\ q.bottom = pg.bottom
    BY <1>4
  <1>10. s = 2 => q.top = pg.top /\ q.bottom = 0
    BY <1>5
  <1>11. q \in [top : Nat, bottom : Nat, cell : Row]
    <2>1. pg.top \in Nat /\ pg.bottom \in Nat
      OBVIOUS
    <2>2. s = 1 => q = [top |-> 0, bottom |-> pg.bottom, cell |-> cell]
      BY <1>4
    <2>3. s = 2 => q = [top |-> pg.top, bottom |-> 0, cell |-> cell]
      BY <1>5
    <2> QED BY <2>1, <2>2, <2>3, <1>2
  <1> QED BY <1>3, <1>6, <1>7, <1>8, <1>9, <1>10, <1>11

-----------------------------------------------------------------------------
(* The parts of a state. *)

LEMMA StepFields ==
  ASSUME NEW s \in Steps
  PROVE  /\ s.do \in ElementSteps => s.element \in Element
         /\ s.do \in RoomSteps => s.first \in Element /\ s.element \in Element
         /\ s.do = "erase" => s.page \in Page /\ s.sector \in {1, 2}
         /\ s.do \in {"top", "bottom"} => s.page \in Page
         /\ s.do = "record" =>
              s.element \in Element /\ s.at \in 1..Cells /\ s.meta \in 1..Cells
         /\ s.do \in {"meta", "copyMeta"} =>
              s.element \in Element /\ s.at \in 0..Cells /\ s.meta \in 1..Cells
         /\ s.do = "copyRecord" =>
              s.element \in Element /\ s.at \in 1..Cells /\ s.value \in Value \cup {Junk}
         /\ s.do = "copyNext" =>
              s.from \in 0..Cells /\ s.meta \in 1..(Cells + 1) /\ s.at \in 1..(Cells + 1)
  BY DEF Steps, ElementSteps, RoomSteps, PlainSteps, StartSteps

LEMMA PointerFacts ==
  /\ NullPointer \in Pointer /\ NullPointer.at = "null"
  /\ \A v \in Value : /\ RamPointer(v) \in Pointer /\ RamPointer(v).at = "ram"
                      /\ RamPointer(v).value = v
                      /\ CallerPointer(v) \in Pointer /\ CallerPointer(v).at = "caller"
                      /\ CallerPointer(v).value = v
  /\ \A p \in Page, c \in 1..Cells : FlashPointer(p, c) \in Pointer
  /\ \A p, c : /\ FlashPointer(p, c).at = "flash"
               /\ FlashPointer(p, c).page = p /\ FlashPointer(p, c).cell = c
  /\ \A d \in Pointer :
       /\ d.at \in {"null", "ram", "caller", "flash"}
       /\ d.at = "null" <=> d = NullPointer
       /\ d.at \in {"ram", "caller"} => d.value \in Value
       /\ d.at = "flash" => d.page \in Page /\ d.cell \in 1..Cells
  <1>1. NullPointer.at = "null"
    BY DEF NullPointer
  <1>2. \A v : /\ RamPointer(v).at = "ram" /\ RamPointer(v).value = v
               /\ CallerPointer(v).at = "caller" /\ CallerPointer(v).value = v
    BY DEF RamPointer, CallerPointer
  <1>3. \A p, c : /\ FlashPointer(p, c).at = "flash"
                  /\ FlashPointer(p, c).page = p /\ FlashPointer(p, c).cell = c
    BY DEF FlashPointer
  <1>4. \A v \in Value : RamPointer(v) \in Pointer /\ CallerPointer(v) \in Pointer
    BY DEF Pointer
  <1>5. \A p \in Page, c \in 1..Cells : FlashPointer(p, c) \in Pointer
    BY DEF Pointer
  <1>6. NullPointer \in Pointer
    BY DEF Pointer
  <1>7. \A d \in Pointer :
          \/ d = NullPointer
          \/ \E v \in Value : d = RamPointer(v) \/ d = CallerPointer(v)
          \/ \E p \in Page, c \in 1..Cells : d = FlashPointer(p, c)
    BY DEF Pointer
  <1> QED BY <1>1, <1>2, <1>3, <1>4, <1>5, <1>6, <1>7

LEMMA Types ==
  ASSUME TypeOK
  PROVE  /\ flash \in [Page -> [top : Nat, bottom : Nat, cell : Row]]
         /\ \A p \in Page : /\ flash[p] \in [top : Nat, bottom : Nat, cell : Row]
                            /\ flash[p].top \in Nat /\ flash[p].bottom \in Nat
                            /\ CellsOf(p) = flash[p].cell /\ CellsOf(p) \in Row
                            /\ lastMeta[p] \in 0..Cells /\ lastUnerased[p] \in 0..Cells
         /\ active \in Page /\ Other(active) \in Page /\ Other(active) # active
         /\ \A p \in Page : p = active \/ p = Other(active)
         /\ Other(Other(active)) = active
         /\ data \in [Element -> Pointer]
         /\ \A e \in Element : /\ data[e] \in Pointer
                               /\ IsFlash(e) => data[e].page \in Page /\ data[e].cell \in 1..Cells
  <1>1. flash \in [Page -> [top : Nat, bottom : Nat, cell : Row]]
    BY DEF TypeOK, Row
  <1>2. \A p \in Page : /\ flash[p] \in [top : Nat, bottom : Nat, cell : Row]
                        /\ flash[p].top \in Nat /\ flash[p].bottom \in Nat
                        /\ CellsOf(p) = flash[p].cell /\ CellsOf(p) \in Row
    BY <1>1 DEF CellsOf
  <1>3. \A p \in Page : lastMeta[p] \in 0..Cells /\ lastUnerased[p] \in 0..Cells
    BY DEF TypeOK
  <1>4. /\ active \in Page /\ Other(active) \in Page /\ Other(active) # active
        /\ \A p \in Page : p = active \/ p = Other(active)
        /\ Other(Other(active)) = active
    BY DEF TypeOK, Page, Other
  <1>5. data \in [Element -> Pointer] /\ \A e \in Element : data[e] \in Pointer
    BY DEF TypeOK
  <1>6. \A e \in Element : IsFlash(e) => data[e].page \in Page /\ data[e].cell \in 1..Cells
    BY <1>5, PointerFacts DEF IsFlash
  <1> QED BY <1>1, <1>2, <1>3, <1>4, <1>5, <1>6

\* All metas of a sound page are below its first blank cell.
LEMMA SoundMetas ==
  ASSUME StoreAssumption, TypeOK, NEW p \in Page, Sound(CellsOf(p))
  PROVE  /\ MetaEnd(p) \in 0..Cells
         /\ \A i \in 1..MetaEnd(p) : CellsOf(p)[i] # Blank
         /\ Metas(p) = {i \in 1..Cells : IsMeta(CellsOf(p)[i])}
         /\ \A e : MetasOf(p, e) = {i \in 1..Cells : MetaOf(CellsOf(p), i, e)}
  <1> DEFINE c == CellsOf(p)
             B == {i \in 1..Cells : c[i] = Blank}
             x == Min(B \cup {Cells + 1})
  <1>1. Cells \in Nat
    BY DEF StoreAssumption
  <1>2. c = flash[p].cell /\ c \in Row
    BY Types
  <1>3. MetaEnd(p) = x - 1
    BY <1>2 DEF MetaEnd
  <1>4. B \in SUBSET (1..Cells) /\ 1 \in Nat /\ 1 <= Cells + 1
    BY <1>1
  <1>5. x \in 1..(Cells + 1) /\ (x = Cells + 1 \/ x \in B) /\ \A y \in B : x <= y
    <2> HIDE DEF B
    <2> QED BY <1>1, <1>4, FirstPlace
  <1>6. \A i \in 1..(x - 1) : i \in 1..Cells /\ c[i] # Blank
    <2> HIDE DEF x, c
    <2>1. \A i \in 1..(x - 1) : i \in 1..Cells /\ ~ (x <= i)
      BY <1>1, <1>5
    <2> QED BY <2>1, <1>5
  <1> HIDE DEF x
  <1>7. \A i \in 1..Cells : IsMeta(c[i]) => i \in 1..(x - 1)
    <2> SUFFICES ASSUME NEW i \in 1..Cells, IsMeta(c[i]), ~ (i \in 1..(x - 1)) PROVE FALSE
      OBVIOUS
    <2>1. x <= i /\ x \in 1..Cells
      BY <1>1, <1>5
    <2>2. c[x] = Blank
      BY <2>1, <1>1, <1>5
    <2>3. x = i \/ x \in 1..(i - 1)
      BY <2>1, <1>1
    <2>4. \A j \in 1..(i - 1) : c[j] # Blank
      BY DEF Sound
    <2> QED BY <2>2, <2>3, <2>4, CellFacts
  <1>8. Metas(p) = {i \in 1..(x - 1) : IsMeta(c[i])}
    BY <1>2, <1>3 DEF Metas
  <1>9. Metas(p) = {i \in 1..Cells : IsMeta(c[i])}
    <2> HIDE DEF c
    <2> QED BY <1>6, <1>7, <1>8
  <1>10. \A e : MetasOf(p, e) = {i \in 1..Cells : MetaOf(c, i, e)}
    <2> TAKE e
    <2>1. MetasOf(p, e) = {i \in Metas(p) : c[i].element = e}
      BY <1>2 DEF MetasOf
    <2> QED BY <2>1, <1>9 DEF MetaOf
  <1>11. MetaEnd(p) \in 0..Cells
    BY <1>1, <1>3, <1>5
  <1> QED BY <1>3, <1>6, <1>9, <1>10, <1>11

-----------------------------------------------------------------------------
(* What is put before the rest of a call. *)

Quiet(s) == s.do \notin {"record", "meta", "copyRecord", "copyMeta", "copyNext",
                         "erase", "top", "bottom"}

LEMMA StepKinds ==
  /\ \A n \in PlainSteps : Call(n) \in Steps /\ Call(n).do = n
  /\ \A lost \in BOOLEAN : /\ FormattedStep(lost) \in Steps
                            /\ FormattedStep(lost).do = "formatted"
  /\ \A n \in ElementSteps, e \in Element :
       [do |-> n, element |-> e] \in Steps
  /\ \A n \in RoomSteps, e, f \in Element :
       [do |-> n, first |-> f, element |-> e] \in Steps
  /\ \A p \in Page, s \in {1, 2} : [do |-> "erase", page |-> p, sector |-> s] \in Steps
  /\ \A p \in Page : /\ [do |-> "top", page |-> p] \in Steps
                     /\ [do |-> "bottom", page |-> p] \in Steps
  /\ \A e \in Element, at \in 1..Cells, m \in 1..Cells :
       [do |-> "record", element |-> e, at |-> at, meta |-> m] \in Steps
  /\ \A n \in {"meta", "copyMeta"}, e \in Element, at \in 0..Cells, m \in 1..Cells :
       [do |-> n, element |-> e, at |-> at, meta |-> m] \in Steps
  /\ \A e \in Element, at \in 1..Cells, v \in Value \cup {Junk} :
       [do |-> "copyRecord", element |-> e, at |-> at, value |-> v] \in Steps
  /\ \A f \in 0..Cells, m, at \in 1..(Cells + 1) :
       [do |-> "copyNext", from |-> f, meta |-> m, at |-> at] \in Steps
  BY DEF Steps, Call, FormattedStep

LEMMA PairOfSteps ==
  ASSUME NEW a \in Steps, NEW b \in Steps
  PROVE  <<a, b>> = <<a>> \o <<b>> /\ <<a, b>> \in Seq(Steps) /\ <<>> \o <<b>> = <<b>>
  <1>1. <<a>> \in Seq(Steps) /\ <<b>> \in Seq(Steps) /\ <<a, b>> \in Seq(Steps)
    OBVIOUS
  <1>2. Len(<<a, b>>) = 2 /\ Len(<<a>>) = 1 /\ Len(<<b>>) = 1
    OBVIOUS
  <1>3. /\ Len(<<a>> \o <<b>>) = 2
        /\ \A i \in 1..2 : (<<a>> \o <<b>>)[i] = <<a, b>>[i]
    BY <1>1, <1>2, ConcatProperties
  <1> QED BY <1>1, <1>2, <1>3, SeqEqual, ConcatProperties, ConcatEmptySeq

LEMMA StepsInARow ==
  ASSUME NEW t \in Seq(Steps)
  PROVE  /\ <<>> \o t = t
         /\ \A a \in Steps : <<a>> \o t \in Seq(Steps)
         /\ \A a, b \in Steps : <<a, b>> \o t = <<a>> \o (<<b>> \o t)
         /\ \A a, b, c \in Steps : <<a, b, c>> \o t = <<a>> \o (<<b>> \o (<<c>> \o t))
  <1>1. <<>> \o t = t
    BY ConcatEmptySeq
  <1>2. \A a \in Steps : <<a>> \in Seq(Steps)
    OBVIOUS
  <1>3. \A a \in Steps : <<a>> \o t \in Seq(Steps)
    BY <1>2, ConcatProperties
  <1>4. \A a, b \in Steps : <<a, b>> = <<a>> \o <<b>> /\ <<a, b>> \in Seq(Steps)
    BY PairOfSteps
  <1>5. \A a, b, c \in Steps : <<a, b, c>> = <<a>> \o <<b, c>>
    OBVIOUS
  <1>6. ASSUME NEW a \in Steps, NEW b \in Steps
        PROVE  <<a, b>> \o t = <<a>> \o (<<b>> \o t)
    BY <1>2, <1>4, ConcatAssociative
  <1>7. ASSUME NEW a \in Steps, NEW b \in Steps, NEW c \in Steps
        PROVE  <<a, b, c>> \o t = <<a>> \o (<<b>> \o (<<c>> \o t))
    <2>1. (<<a>> \o <<b, c>>) \o t = <<a>> \o (<<b, c>> \o t)
      BY <1>2, <1>4, ConcatAssociative
    <2> QED BY <2>1, <1>5, <1>6
  <1> QED BY <1>1, <1>3, <1>6, <1>7

LEMMA StepsAssociate ==
  \A r, s, t \in Seq(Steps) : /\ r \o s \in Seq(Steps)
                              /\ (r \o s) \o t = r \o (s \o t)
  BY ConcatProperties, ConcatAssociative

LEMMA FormatInARow ==
  ASSUME NEW t \in Seq(Steps), NEW lost \in BOOLEAN
  PROVE  FormatSteps(lost) \o t = EraseSteps(1) \o (EraseSteps(2) \o (CounterSteps(1)
                               \o (<<FormattedStep(lost)>> \o t)))
  <1> DEFINE a == EraseSteps(1)
             b == EraseSteps(2)
             c == CounterSteps(1)
             d == <<FormattedStep(lost)>>
             y == d \o t
             z == c \o y
             ab == a \o b
             abc == ab \o c
  <1>0. a \in Seq(Steps) /\ b \in Seq(Steps) /\ c \in Seq(Steps) /\ d \in Seq(Steps)
    BY StepKinds DEF EraseSteps, CounterSteps, Page, PlainSteps, StartSteps
  <1>6. FormatSteps(lost) = abc \o d
    BY DEF FormatSteps
  <1> HIDE DEF a, b, c, d
  <1>1. ab \in Seq(Steps) /\ y \in Seq(Steps)
    BY <1>0, StepsAssociate
  <1>2. abc \in Seq(Steps) /\ z \in Seq(Steps)
    <2> HIDE DEF ab, y
    <2> QED BY <1>0, <1>1, StepsAssociate
  <1>3. (abc \o d) \o t = abc \o y
    <2> HIDE DEF abc
    <2> QED BY <1>0, <1>2, StepsAssociate
  <1>4. abc \o y = ab \o z
    <2> HIDE DEF ab, y
    <2>1. c \in Seq(Steps)
      BY <1>0
    <2>2. (ab \o c) \o y = ab \o (c \o y)
      BY <2>1, <1>1, StepsAssociate
    <2> QED BY <2>2
  <1>5. ab \o z = a \o (b \o z)
    <2> HIDE DEF z
    <2> QED BY <1>0, <1>2, StepsAssociate
  <1> HIDE DEF y, z, ab, abc
  <1> QED BY <1>3, <1>4, <1>5, <1>6 DEF y, z, ab, abc, a, b, c, d

\* The two sectors of a page, before what follows an erased page.
LEMMA EraseChain ==
  ASSUME NEW p \in Page, NEW t, NEW init \in BOOLEAN, Chain(t, init), t # <<>>,
         Follows([do |-> "erase", page |-> p, sector |-> 2], Head(t), init)
  PROVE  /\ EraseSteps(p) \o t \in Seq(Steps)
         /\ Chain(EraseSteps(p) \o t, init) /\ EraseSteps(p) \o t # <<>>
         /\ Head(EraseSteps(p) \o t) = [do |-> "erase", page |-> p, sector |-> 1]
         /\ Tail(EraseSteps(p) \o t) # <<>>
         /\ Head(Tail(EraseSteps(p) \o t)) = [do |-> "erase", page |-> p, sector |-> 2]
         /\ Tail(Tail(EraseSteps(p) \o t)) = t
         /\ \A W : Has(EraseSteps(p) \o t, W) => "erase" \in W \/ Has(t, W)
  <1> DEFINE a == [do |-> "erase", page |-> p, sector |-> 1]
             b == [do |-> "erase", page |-> p, sector |-> 2]
  <1>1. a \in Steps /\ b \in Steps /\ a.do = "erase" /\ b.do = "erase"
    BY StepKinds
  <1>2. a.sector = 1 /\ a.page = p
    OBVIOUS
  <1>3. Allowed(a, init) /\ Allowed(b, init)
    BY <1>1 DEF Allowed, StartSteps
  <1>4. "erase" \notin FinalSteps /\ "erase" \in Unfinished
    BY DEF FinalSteps, Unfinished, RoomSteps
  <1>5. Follows(a, b, init)
    BY <1>1, <1>2, <1>4 DEF Follows
  <1>6. EraseSteps(p) \o t = <<a>> \o (<<b>> \o t)
    <2>1. t \in Seq(Steps)
      BY DEF Chain
    <2>2. EraseSteps(p) = <<a, b>>
      BY DEF EraseSteps
    <2> HIDE DEF a, b
    <2> QED BY <1>1, <2>1, <2>2, StepsInARow
  <1> HIDE DEF a
  <1>7. Follows(b, Head(t), init)
    OBVIOUS
  <1> HIDE DEF b
  <1> DEFINE u == <<b>> \o t
  <1>8. /\ Chain(u, init) /\ u # <<>> /\ Head(u) = b /\ Tail(u) = t
        /\ \A W : Has(u, W) => b.do \in W \/ Has(t, W)
    BY <1>1, <1>3, <1>4, <1>7, ChainCons
  <1> HIDE DEF u
  <1>9. /\ Chain(<<a>> \o u, init) /\ <<a>> \o u # <<>> /\ Head(<<a>> \o u) = a
        /\ Tail(<<a>> \o u) = u
        /\ \A W : Has(<<a>> \o u, W) => a.do \in W \/ Has(u, W)
    BY <1>1, <1>3, <1>4, <1>5, <1>8, ChainCons
  <1>10. <<a>> \o u \in Seq(Steps)
    BY <1>9 DEF Chain
  <1> QED BY <1>1, <1>6, <1>8, <1>9, <1>10 DEF a, b, u

LEMMA CounterChain ==
  ASSUME NEW p \in Page, NEW t, NEW init \in BOOLEAN, Chain(t, init),
         t # <<>> => Follows([do |-> "bottom", page |-> p], Head(t), init)
  PROVE  /\ CounterSteps(p) \o t \in Seq(Steps)
         /\ Chain(CounterSteps(p) \o t, init) /\ CounterSteps(p) \o t # <<>>
         /\ Head(CounterSteps(p) \o t) = [do |-> "top", page |-> p]
         /\ Tail(CounterSteps(p) \o t) # <<>>
         /\ \A W : Has(CounterSteps(p) \o t, W) => "top" \in W \/ "bottom" \in W \/ Has(t, W)
  <1> DEFINE a == [do |-> "top", page |-> p]
             b == [do |-> "bottom", page |-> p]
  <1>1. a \in Steps /\ b \in Steps /\ a.do = "top" /\ b.do = "bottom" /\ a.page = p
    BY StepKinds
  <1>3. Allowed(a, init) /\ Allowed(b, init)
    BY <1>1 DEF Allowed, StartSteps
  <1>4. /\ "top" \notin FinalSteps /\ "bottom" \notin FinalSteps
        /\ "bottom" \notin Unfinished /\ "top" \in Unfinished
    BY DEF FinalSteps, Unfinished, RoomSteps
  <1>5. Follows(a, b, init)
    BY <1>1, <1>4 DEF Follows
  <1>6. CounterSteps(p) \o t = <<a>> \o (<<b>> \o t)
    <2>1. t \in Seq(Steps)
      BY DEF Chain
    <2>2. CounterSteps(p) = <<a, b>>
      BY DEF CounterSteps
    <2> HIDE DEF a, b
    <2> QED BY <1>1, <2>1, <2>2, StepsInARow
  <1>7. t # <<>> => Follows(b, Head(t), init)
    OBVIOUS
  <1> HIDE DEF a, b
  <1> DEFINE u == <<b>> \o t
  <1>8. /\ Chain(u, init) /\ u # <<>> /\ Head(u) = b /\ Tail(u) = t
        /\ \A W : Has(u, W) => b.do \in W \/ Has(t, W)
    BY <1>1, <1>3, <1>4, <1>7, ChainCons
  <1> HIDE DEF u
  <1>9. /\ Chain(<<a>> \o u, init) /\ <<a>> \o u # <<>> /\ Head(<<a>> \o u) = a
        /\ Tail(<<a>> \o u) = u
        /\ \A W : Has(<<a>> \o u, W) => a.do \in W \/ Has(u, W)
    <2>1. u # <<>> => a.do \notin FinalSteps /\ Follows(a, Head(u), init)
      BY <1>1, <1>4, <1>5, <1>8
    <2>2. a.do # "forgetOld"
      BY <1>1
    <2> QED BY <1>1, <1>3, <1>8, <2>1, <2>2, ChainCons
  <1>10. <<a>> \o u \in Seq(Steps)
    BY <1>9 DEF Chain
  <1> QED BY <1>1, <1>6, <1>8, <1>9, <1>10 DEF a, u

\* NvInternalFormat.
LEMMA FormatChain ==
  ASSUME NEW init \in BOOLEAN, ~ init, NEW t, Chain(t, init), NEW lost \in BOOLEAN,
         t # <<>> => Head(t).do \in StartSteps
  PROVE  /\ FormatSteps(lost) \o t \in Seq(Steps)
         /\ Chain(FormatSteps(lost) \o t, init) /\ FormatSteps(lost) \o t # <<>>
         /\ Head(FormatSteps(lost) \o t) = [do |-> "erase", page |-> 1, sector |-> 1]
         /\ \A W : Has(FormatSteps(lost) \o t, W) =>
                     Has(t, W) \/ W \cap {"erase", "top", "bottom", "formatted"} # {}
  <1> DEFINE f == FormattedStep(lost)
             t1 == <<f>> \o t
             t2 == CounterSteps(1) \o t1
             t3 == EraseSteps(2) \o t2
             t4 == EraseSteps(1) \o t3
  <1>0. t \in Seq(Steps) /\ 1 \in Page /\ 2 \in Page 
    BY DEF Chain, Page
  <1>1. f \in Steps /\ f.do = "formatted"
    BY StepKinds
  <1>2. /\ "formatted" \notin FinalSteps /\ "formatted" \notin Unfinished
        /\ "formatted" \in StartSteps
        /\ \A n \in StartSteps :
             n \in (ElementSteps \cup RoomSteps \cup PlainSteps) \ {"forgetOld"}
        /\ "bottom" \notin Unfinished
    BY DEF FinalSteps, Unfinished, RoomSteps, StartSteps, PlainSteps
  <1>3. Allowed(f, init)
    BY <1>1 DEF Allowed, StartSteps
  <1>4. t # <<>> => Follows(f, Head(t), init)
    BY <1>1, <1>2 DEF Follows
  <1> HIDE DEF f
  <1>5. /\ Chain(t1, init) /\ t1 # <<>> /\ Head(t1) = f
        /\ \A W : Has(t1, W) => f.do \in W \/ Has(t, W)
    BY <1>0, <1>1, <1>2, <1>3, <1>4, ChainCons
  <1> HIDE DEF t1
  <1>6. Follows([do |-> "bottom", page |-> 1], Head(t1), init)
    BY <1>1, <1>2, <1>5 DEF Follows
  <1>7. /\ Chain(t2, init) /\ t2 # <<>> /\ Head(t2) = [do |-> "top", page |-> 1]
        /\ \A W : Has(t2, W) => "top" \in W \/ "bottom" \in W \/ Has(t1, W)
    BY <1>0, <1>5, <1>6, CounterChain
  <1> HIDE DEF t2
  <1>8. Follows([do |-> "erase", page |-> 2, sector |-> 2], Head(t2), init)
    BY <1>7 DEF Follows, Unfinished
  <1>9. /\ Chain(t3, init) /\ t3 # <<>>
        /\ Head(t3) = [do |-> "erase", page |-> 2, sector |-> 1]
        /\ \A W : Has(t3, W) => "erase" \in W \/ Has(t2, W)
    BY <1>0, <1>7, <1>8, EraseChain
  <1> HIDE DEF t3
  <1>10. Follows([do |-> "erase", page |-> 1, sector |-> 2], Head(t3), init)
    BY <1>9 DEF Follows, Unfinished
  <1>11. /\ t4 \in Seq(Steps) /\ Chain(t4, init) /\ t4 # <<>>
         /\ Head(t4) = [do |-> "erase", page |-> 1, sector |-> 1]
         /\ \A W : Has(t4, W) => "erase" \in W \/ Has(t3, W)
    BY <1>0, <1>9, <1>10, EraseChain
  <1>12. FormatSteps(lost) \o t = t4
    BY <1>0, FormatInARow DEF f, t1, t2, t3, t4
  <1>13. \A W : Has(t4, W) => Has(t, W) \/ W \cap {"erase", "top", "bottom", "formatted"} # {}
    BY <1>1, <1>5, <1>7, <1>9, <1>11
  <1> HIDE DEF t4
  <1> QED BY <1>11, <1>12, <1>13

-----------------------------------------------------------------------------
(* What a step leaves alone. *)

\* No pointer into flash is new.
PointersKept == \A e \in Element : data'[e].at = "flash" => data'[e] = data[e]

LEMMA SamePointers ==
  ASSUME NInv, ~ Copying, ~ Copying', active' = active, flash'[active].cell = flash[active].cell,
         PointersKept
  PROVE  PointerInv' /\ CopyInv'
  <1>1. \A e \in Element : IsFlash(e) => PointerInto(active, e)
    BY DEF NInv, PointerInv
  <1>2. CopyInv'
    BY DEF CopyInv, Copying, Doing, Now
  <1>3. ASSUME NEW e \in Element, data'[e].at = "flash"
        PROVE  /\ data'[e].page = active
               /\ PointsInto(flash'[active].cell, e, data'[e].cell)
    BY <1>1, <1>3 DEF PointersKept, IsFlash, PointerInto, CellsOf
  <1>4. PointerInv'
    BY <1>3 DEF PointerInv, IsFlash, PointerInto, CellsOf
  <1> QED BY <1>2, <1>4

LEMMA SameErase ==
  ASSUME NInv, UNCHANGED <<flash, active, initialised, erase>>, ~ Doing("erase")'
  PROVE  EraseInv'
  BY DEF NInv, EraseInv, Other

LEMMA SameCounters ==
  ASSUME NInv, UNCHANGED <<flash, active, counter, initialised>>,
         ~ Doing("top"), ~ Doing("bottom"), ~ Doing("top")', ~ Doing("bottom")', ~ Copying',
         todo' # <<>> /\ Head(todo').do \in StartSteps =>
           initialised \/ (todo # <<>> /\ Head(todo).do \in StartSteps),
         Doing("erase")' /\ ~ initialised => active = 1 /\ counter = 1
  PROVE  CounterInv'
  <1>1. initialised \/ (todo # <<>> /\ Now.do \in StartSteps) =>
          counter # 0 /\ Older(Other(active)) /\ Current(active)
    BY DEF NInv, CounterInv, Now, Doing
  <1>2. initialised' \/ (todo' # <<>> /\ Now'.do \in StartSteps \cup {"top", "bottom"}) =>
          (counter # 0 /\ Older(Other(active)) /\ Current(active))'
    BY <1>1 DEF Now, Doing, Older, Current, Other, IsValidPage
  <1>3. IsValidPage(1)' /\ IsValidPage(2)' => flash'[1].top # flash'[2].top
    BY DEF NInv, CounterInv, IsValidPage
  <1> QED BY <1>2, <1>3 DEF CounterInv, Doing, Now

LEMMA SameFlash ==
  ASSUME NInv, powered, UNCHANGED <<flash, active, initialised, powered, lastMeta, lastUnerased>>,
         ~ Doing("top")', PointersKept
  PROVE  FlashInv'
  <1>1. \A p \in Page : flash[p].top # 0 => Sound(flash[p].cell)
    BY DEF NInv, FlashInv, CellsOf
  <1>2. initialised =>
          /\ Sound(flash[active].cell)
          /\ NewestMeta(flash[active].cell, lastMeta[active], lastUnerased[active])
    BY DEF NInv, FlashInv, CellsOf
  <1>3. ~ initialised => \A e \in Element : ~ (data'[e].at = "flash")
    BY DEF NInv, FlashInv, IsFlash, PointersKept
  <1> QED BY <1>1, <1>2, <1>3 DEF FlashInv, CellsOf, IsFlash

\* Steps between those that write flash or move the active page.
LEMMA QuietStep ==
  ASSUME NInv, powered,
         UNCHANGED <<flash, powered, initialised, active, counter, lastMeta, lastUnerased, erase>>,
         PointersKept, todo # <<>> => Quiet(Head(todo)), todo' # <<>> => Quiet(Head(todo')),
         todo' # <<>> /\ ~ initialised => todo # <<>> /\ Head(todo).do \in StartSteps
  PROVE  CopyInv' /\ PointerInv' /\ WriteInv' /\ EraseInv' /\ CounterInv' /\ FlashInv'
  <1>1. /\ ~ Copying /\ ~ Copying' /\ ~ Doing("erase")' /\ ~ Doing("top")' /\ ~ Doing("bottom")'
        /\ ~ Doing("top") /\ ~ Doing("bottom") /\ ~ Doing("record")' /\ ~ Doing("meta")'
    BY DEF Quiet, Copying, Doing, Now
  <1>2. WriteInv'
    BY <1>1 DEF WriteInv
  <1>3. PointerInv' /\ CopyInv'
    BY <1>1, SamePointers
  <1>4. EraseInv'
    BY <1>1, SameErase
  <1>5. CounterInv'
    BY <1>1, SameCounters
  <1>6. FlashInv'
    BY <1>1, SameFlash
  <1> QED BY <1>2, <1>3, <1>4, <1>5, <1>6

\* The call in progress.
LEMMA InCall ==
  ASSUME NInv, todo # <<>>
  PROVE  /\ powered /\ Now \in Steps /\ Now = Head(todo) /\ Allowed(Now, initialised)
         /\ todo \in Seq(Steps) /\ Tail(todo) \in Seq(Steps) /\ initialised \in BOOLEAN
         /\ Chain(Tail(todo), initialised)
         /\ Now.do \in FinalSteps => Tail(todo) = <<>>
         /\ Tail(todo) = <<>> => Now.do \notin Unfinished
         /\ Tail(todo) # <<>> => Follows(Now, Second, initialised)
         /\ Now.do = "forgetOld" =>
              Tail(todo) # <<>> /\ \A W : Has(Tail(todo), W) => Second.do \in W
         /\ \A W : Has(Tail(todo), W) => Has(todo, W)
         /\ \A W : Now.do \in W => Has(todo, W)
  <1>1. Chain(todo, initialised) /\ initialised \in BOOLEAN
    BY DEF NInv, TodoInv, TypeOK
  <1>2. powered
    BY DEF NInv, FlashInv
  <1>3. todo \in Seq(Steps) /\ (Chain(Tail(todo), initialised) => Tail(todo) \in Seq(Steps))
    BY <1>1 DEF Chain
  <1> QED BY <1>1, <1>2, <1>3, ChainTail DEF Now, Second

\* A final step that returns leaves nothing to do.
LEMMA CallEnds ==
  ASSUME todo' = <<>>, initialised' \in BOOLEAN
  PROVE  TodoInv' /\ \A W : ~ Has(todo', W)
  <1>1. Chain(<<>>, initialised') /\ \A W : ~ Has(<<>>, W)
    BY ChainEmpty
  <1> QED BY <1>1 DEF TodoInv

-----------------------------------------------------------------------------
(* Steps that neither write flash nor move the active page. *)

LEMMA OneStep ==
  ASSUME NEW init \in BOOLEAN, NEW s \in Steps, Allowed(s, init),
         s.do \notin Unfinished, s.do # "forgetOld",
         NEW u, u = <<s>> \/ u = <<s>> \o <<>>
  PROVE  /\ Chain(u, init) /\ u # <<>> /\ Head(u) = s /\ Tail(u) = <<>>
         /\ \A W : Has(u, W) => s.do \in W
  <1>1. <<s>> \in Seq(Steps)
    OBVIOUS
  <1>2. u = <<s>> \o <<>>
    BY <1>1, ConcatEmptySeq
  <1>3. Chain(<<>>, init) /\ \A W : ~ Has(<<>>, W)
    BY ChainEmpty
  <1> QED BY <1>2, <1>3, ChainCons

LEMMA TwoSteps ==
  ASSUME NEW init \in BOOLEAN, NEW a \in Steps, NEW b \in Steps,
         Allowed(a, init), Allowed(b, init), b.do \notin Unfinished,
         a.do # "forgetOld", b.do # "forgetOld",
         a.do \notin FinalSteps, Follows(a, b, init),
         NEW u, u = <<a, b>> \/ u = <<a, b>> \o <<>>
  PROVE  /\ Chain(u, init) /\ u # <<>> /\ Head(u) = a
         /\ Tail(u) # <<>> /\ Head(Tail(u)) = b
         /\ \A W : Has(u, W) => a.do \in W \/ b.do \in W
  <1>1. <<a, b>> \in Seq(Steps) /\ <<>> \in Seq(Steps)
    OBVIOUS
  <1>2. u = <<a, b>> \o <<>>
    BY <1>1, ConcatEmptySeq
  <1> DEFINE v == <<b>> \o <<>>
  <1>3. u = <<a>> \o v
    BY <1>1, <1>2, StepsInARow
  <1>4. /\ Chain(v, init) /\ v # <<>> /\ Head(v) = b
        /\ \A W : Has(v, W) => b.do \in W
    BY OneStep
  <1> HIDE DEF v
  <1> QED BY <1>3, <1>4, ChainCons

QueueType(q) == q \in Seq(Element \cup {Cancelled}) /\ Len(q) <= QueueSize

\* Cancelling keeps the length, and a request takes the place of a cancelled one.
LEMMA WithoutRequest ==
  ASSUME NEW q, QueueType(q), NEW e
  PROVE  QueueType(Without(q, e)) /\ Len(Without(q, e)) = Len(q)
  <1>1. Len(q) \in Nat /\ \A i \in 1..Len(q) : q[i] \in Element \cup {Cancelled}
    BY LenProperties DEF QueueType
  <1>2. Without(q, e) \in [1..Len(q) -> Element \cup {Cancelled}]
    BY <1>1 DEF Without
  <1>3. Without(q, e) \in Seq(Element \cup {Cancelled})
    BY <1>1, <1>2, SeqDef
  <1>4. Len(Without(q, e)) = Len(q)
    BY <1>1, <1>2, <1>3, LenProperties
  <1> QED BY <1>3, <1>4 DEF QueueType

LEMMA WithRequest ==
  ASSUME NEW q, QueueType(q), NEW e \in Element
  PROVE  /\ With(q, e) \in Seq(Element \cup {Cancelled}) /\ With(q, e) # <<>>
         /\ Len(With(q, e)) <= Len(q) + 1
         /\ HasRoomFor(q, e) => Len(With(q, e)) <= QueueSize
         /\ (\A i \in 1..Len(q) : q[i] # Cancelled) =>
               \A i \in 1..Len(With(q, e)) : With(q, e)[i] # Cancelled
  <1> DEFINE T == Element \cup {Cancelled}
             free == {i \in 1..Len(q) : q[i] = Cancelled}
  <1>1. q \in Seq(T) /\ Len(q) \in Nat /\ e \in T /\ Len(q) <= QueueSize
    BY LenProperties DEF QueueType
  <1>2. e # Cancelled
    BY DEF Element, Cancelled
  <1>3. CASE \E i \in 1..Len(q) : q[i] = e
    <2>1. With(q, e) = q
      BY <1>3 DEF With
    <2>2. Len(q) # 0
      BY <1>1, <1>3
    <2>3. q # <<>>
      BY <2>2, EmptySeq
    <2> QED BY <2>1, <2>3, <1>1
  <1>4. CASE (~ \E i \in 1..Len(q) : q[i] = e) /\ free # {}
    <2> DEFINE m == Min(free)
    <2>1. With(q, e) = [q EXCEPT ![m] = e]
      BY <1>4 DEF With
    <2>2. free \in SUBSET Nat
      BY <1>1
    <2>3. m \in free
      <3>1. \E x \in free : \A y \in free : x <= y
        <4> HIDE DEF free
        <4> QED BY <2>2, <1>4, SmallestExists
      <3> HIDE DEF free
      <3> QED BY <3>1 DEF Min
    <2>4. m \in 1..Len(q)
      BY <2>3
    <2> HIDE DEF m, T
    <2>5. /\ With(q, e) \in Seq(T) /\ Len(With(q, e)) = Len(q)
          /\ \A j \in 1..Len(q) : With(q, e)[j] = IF j = m THEN e ELSE q[j]
      BY <1>1, <2>1, <2>4, ExceptSeq
    <2>6. With(q, e) # <<>>
      BY <2>4, <2>5, <1>1, EmptySeq
    <2> QED BY <2>5, <2>6, <1>1, <1>2 DEF T
  <1>5. CASE (~ \E i \in 1..Len(q) : q[i] = e) /\ free = {}
    <2>1. With(q, e) = Append(q, e)
      BY <1>5 DEF With
    <2> HIDE DEF T
    <2>2. /\ With(q, e) \in Seq(T) /\ Len(With(q, e)) = Len(q) + 1
          /\ With(q, e)[Len(q) + 1] = e
          /\ \A j \in 1..Len(q) : With(q, e)[j] = q[j]
      BY <1>1, <2>1, AppendProperties
    <2>3. With(q, e) # <<>>
      BY <2>2, <1>1, EmptySeq
    <2>4. HasRoomFor(q, e) => Len(q) < QueueSize
      BY <1>5 DEF HasRoomFor
    <2>5. HasRoomFor(q, e) => Len(With(q, e)) <= QueueSize
      BY <2>2, <2>4, <1>1, StoreAssumption DEF StoreAssumption
    <2>6. \A i \in 1..Len(With(q, e)) : i \in 1..Len(q) \/ i = Len(q) + 1
      BY <2>2, <1>1
    <2> QED BY <2>2, <2>3, <2>5, <2>6, <1>1, <1>2 DEF T
  <1> QED BY <1>3, <1>4, <1>5

LEMMA PopRequest ==
  ASSUME NEW q, QueueType(q), q # <<>>
  PROVE  /\ Head(q) \in Element \cup {Cancelled} /\ Head(q) = q[1] /\ 1 \in 1..Len(q)
         /\ QueueType(Tail(q)) /\ Len(Tail(q)) < QueueSize
         /\ \A i \in 1..Len(Tail(q)) : i + 1 \in 1..Len(q) /\ Tail(q)[i] = q[i + 1]
  <1>1. q \in Seq(Element \cup {Cancelled}) /\ Len(q) \in Nat \ {0} /\ Len(q) <= QueueSize
    BY EmptySeq DEF QueueType
  <1>2. /\ Head(q) \in Element \cup {Cancelled}
        /\ Tail(q) \in Seq(Element \cup {Cancelled}) /\ Len(Tail(q)) = Len(q) - 1
        /\ \A i \in 1..Len(Tail(q)) : Tail(q)[i] = q[i + 1]
    BY <1>1, HeadTailProperties
  <1>3. QueueSize \in Nat
    BY StoreAssumption DEF StoreAssumption
  <1> QED BY <1>1, <1>2, <1>3 DEF QueueType

LEMMA AddRequest ==
  ASSUME NEW q, QueueType(q), Len(q) < QueueSize, NEW e \in Element
  PROVE  QueueType(Append(q, e))
  <1>1. q \in Seq(Element \cup {Cancelled}) /\ Len(q) \in Nat /\ QueueSize \in Nat
    BY LenProperties, StoreAssumption DEF QueueType, StoreAssumption
  <1> QED BY <1>1, AppendProperties DEF QueueType

LEMMA SameTypes ==
  ASSUME TypeOK,
         UNCHANGED <<flash, powered, initialised, active, counter, lastMeta, lastUnerased, erase>>,
         copyPending' \in BOOLEAN, data' \in [Element -> Pointer],
         QueueType(queue)', head' \in 0..(QueueSize - 1)
  PROVE  TypeOK'
  BY DEF TypeOK, QueueType

LEMMA QuietInv ==
  ASSUME NInv, powered,
         UNCHANGED <<flash, powered, initialised, active, counter, lastMeta, lastUnerased, erase>>,
         copyPending' \in BOOLEAN, data' \in [Element -> Pointer], PointersKept,
         todo # <<>> => Quiet(Head(todo)), todo' # <<>> => Quiet(Head(todo')),
         todo' # <<>> /\ ~ initialised => todo # <<>> /\ Head(todo).do \in StartSteps,
         TodoInv', QueueInv'
  PROVE  NInv'
  <1>1. QueueType(queue)' /\ head' \in 0..(QueueSize - 1)
    BY DEF QueueInv, QueueType
  <1>2. TypeOK'
    BY <1>1, SameTypes DEF NInv
  <1> QED BY <1>2, QuietStep DEF NInv

\* What NInv says of the queue.
LEMMA QueueFacts ==
  ASSUME NInv
  PROVE  /\ QueueType(queue) /\ head \in 0..(QueueSize - 1)
         /\ (head + 1) % QueueSize \in 0..(QueueSize - 1)
         /\ QueueSize \in Nat \ {0}
         /\ initialised \in BOOLEAN /\ copyPending \in BOOLEAN
         /\ data \in [Element -> Pointer]
  <1>1. QueueSize \in Nat \ {0}
    BY StoreAssumption DEF StoreAssumption
  <1>2. (head + 1) % QueueSize \in 0..(QueueSize - 1)
    BY <1>1 DEF NInv, QueueInv
  <1> QED BY <1>1, <1>2 DEF NInv, QueueInv, QueueType, TypeOK

\* What the queue must be for a step to come.
QueueFor(q, n) ==
  /\ n \in RoomSteps \cup {"idleSaved"} => Len(q) < QueueSize
  /\ n = "makeRoom" => q # <<>>
  /\ n \in RoomSteps \cup {"makeRoom"} => \A j \in 1..Len(q) : q[j] # Cancelled

QuietVars == <<flash, powered, initialised, active, counter, lastMeta, lastUnerased, erase>>

LEMMA EndsQuietly ==
  ASSUME NInv, powered, UNCHANGED QuietVars, copyPending' \in BOOLEAN,
         data' \in [Element -> Pointer], PointersKept,
         todo # <<>> => Quiet(Head(todo)), todo' = <<>>,
         QueueType(queue'), head' \in 0..(QueueSize - 1)
  PROVE  NInv'
  <1>1. TodoInv' /\ \A W : ~ Has(todo', W)
    BY CallEnds DEF NInv, TypeOK, QuietVars
  <1>2. QueueInv'
    BY <1>1 DEF QueueInv, QueueType
  <1> QED BY <1>1, <1>2, QuietInv DEF QuietVars

LEMMA GoesOnWithOne ==
  ASSUME NInv, powered, initialised, UNCHANGED QuietVars, copyPending' \in BOOLEAN,
         data' \in [Element -> Pointer], PointersKept,
         todo # <<>> => Quiet(Head(todo)),
         NEW s \in Steps, s.do \notin Unfinished \cup StartSteps, s.do # "forgetOld", Quiet(s),
         todo' = <<s>> \/ todo' = <<s>> \o <<>>,
         s.do # "syncCopied",
         QueueType(queue'), head' \in 0..(QueueSize - 1), QueueFor(queue', s.do)
  PROVE  NInv'
  <1>1. initialised' = TRUE /\ initialised = TRUE
    BY DEF QuietVars, NInv, TypeOK
  <1>2. Allowed(s, TRUE) /\ s.do \notin Unfinished
    BY DEF Allowed
  <1>3. /\ Chain(todo', TRUE) /\ todo' # <<>> /\ Head(todo') = s
        /\ \A W : Has(todo', W) => s.do \in W
    BY <1>2, OneStep
  <1>4. TodoInv'
    BY <1>1, <1>3 DEF TodoInv
  <1>5. QueueInv'
    BY <1>3 DEF QueueInv, QueueType, QueueFor
  <1> QED BY <1>1, <1>3, <1>4, <1>5, QuietInv DEF QuietVars

LEMMA GoesOnWithTwo ==
  ASSUME NInv, powered, initialised, UNCHANGED QuietVars, copyPending' \in BOOLEAN,
         data' \in [Element -> Pointer], PointersKept,
         todo # <<>> => Quiet(Head(todo)),
         NEW a \in Steps, a.do \in {"copy", "write"},
         NEW b \in Steps, b.do \in FinalSteps, b.do \notin StartSteps,
         todo' = <<a, b>> \/ todo' = <<a, b>> \o <<>>,
         b.do = "syncCopied" => a.do = "copy",
         QueueType(queue'), head' \in 0..(QueueSize - 1), QueueFor(queue', b.do)
  PROVE  NInv'
  <1>1. initialised' = TRUE /\ initialised = TRUE
    BY DEF QuietVars, NInv, TypeOK
  <1>2. /\ a.do \notin Unfinished \cup StartSteps /\ a.do # "forgetOld"
        /\ a.do \notin FinalSteps /\ Quiet(a)
        /\ a.do \notin RoomSteps \cup {"idleSaved", "makeRoom", "syncCopied"}
    BY DEF Unfinished, StartSteps, FinalSteps, RoomSteps, Quiet
  <1>3. /\ b.do \notin Unfinished /\ b.do # "forgetOld"
        /\ b.do \in (ElementSteps \cup RoomSteps \cup PlainSteps) \ {"forgetOld"}
    BY DEF Unfinished, FinalSteps, RoomSteps, ElementSteps, PlainSteps, StartSteps
  <1>4. Allowed(a, TRUE) /\ Allowed(b, TRUE)
    BY <1>2 DEF Allowed
  <1>5. Follows(a, b, TRUE)
    BY <1>2, <1>3 DEF Follows, Unfinished
  <1>6. a.do \notin Unfinished /\ a.do # "forgetOld"
    BY <1>2
  <1>7. /\ Chain(todo', TRUE) /\ todo' # <<>> /\ Head(todo') = a
        /\ \A W : Has(todo', W) => a.do \in W \/ b.do \in W
    BY <1>2, <1>3, <1>4, <1>5, TwoSteps
  <1>8. TodoInv'
    <2>1. ~ Has(todo', {"forgetOld"})
      BY <1>2, <1>3, <1>7
    <2>2. Has(todo', {"syncCopied"}) => b.do = "syncCopied"
      BY <1>2, <1>7
    <2>3. Has(todo', {"syncCopied"}) => Head(todo').do = "copy"
      BY <2>2, <1>7
    <2> QED BY <1>1, <1>7, <2>1, <2>3 DEF TodoInv, Now
  <1>9. QueueInv'
    <2>1. \A W : W \subseteq RoomSteps \cup {"idleSaved", "makeRoom"} /\ Has(todo', W) =>
                   b.do \in W
      BY <1>2, <1>7
    <2> QED BY <2>1 DEF QueueInv, QueueType, QueueFor
  <1> QED BY <1>1, <1>2, <1>7, <1>8, <1>9, QuietInv DEF QuietVars

\* The head of a call that ends with it.
LEMMA AtFinalStep ==
  ASSUME NInv, todo # <<>>, Now.do \in FinalSteps, Now.do # "start"
  PROVE  /\ powered /\ initialised /\ Tail(todo) = <<>> /\ Now \in Steps
         /\ Quiet(Head(todo)) /\ Now = Head(todo)
         /\ Now.do = "syncCopied" => erase.pending
         /\ QueueFor(queue, Now.do)
         /\ copyPending \in BOOLEAN /\ data \in [Element -> Pointer]
  <1>1. Now.do \notin StartSteps \cup {"erase", "top", "bottom"} /\ Quiet(Now)
    BY DEF FinalSteps, RoomSteps, StartSteps, Quiet
  <1>2. initialised
    BY <1>1, InCall DEF Allowed
  <1>3. Now.do = "syncCopied" => erase.pending
    <2>1. Now.do = "syncCopied" => Has(todo, {"syncCopied"})
      BY InCall
    <2> QED BY <2>1 DEF NInv, TodoInv
  <1>4. QueueFor(queue, Now.do)
    <2>1. \A W : Now.do \in W => Has(todo, W)
      BY InCall
    <2> QED BY <2>1 DEF NInv, QueueInv, QueueFor
  <1> QED BY <1>1, <1>2, <1>3, <1>4, InCall, QueueFacts

LEMMA SyncSavedKeeps ==
  ASSUME NInv, SyncSaved PROVE NInv'
  <1>1. todo # <<>> /\ Now.do = "synced" /\ "synced" \in FinalSteps /\ "synced" \in ElementSteps
    BY DEF SyncSaved, Doing, Now, FinalSteps, ElementSteps
  <1>2. /\ powered /\ initialised /\ Tail(todo) = <<>> /\ Quiet(Head(todo)) /\ Now \in Steps
    BY <1>1, AtFinalStep
  <1>3. /\ UNCHANGED QuietVars /\ UNCHANGED <<copyPending, data, queue, head>> /\ PointersKept
    BY DEF SyncSaved, QuietVars, moduleVars, queueVars, PointersKept
  <1>4. /\ QueueType(queue) /\ head \in 0..(QueueSize - 1) /\ copyPending \in BOOLEAN
        /\ data \in [Element -> Pointer]
    BY QueueFacts
  <1>5. CASE status = "PageCopyPending"
    <2> DEFINE a == Call("copy")
               b == [do |-> "syncCopied", element |-> Now.element]
    <2>1. todo' = <<a, b>> \o <<>>
      BY <1>2, <1>5 DEF SyncSaved, Continue
    <2>2. Now.element \in Element
      BY <1>1, <1>2, StepFields
    <2>3. a \in Steps /\ a.do = "copy" /\ b \in Steps /\ b.do = "syncCopied"
      BY <2>2, StepKinds DEF PlainSteps, ElementSteps
    <2>4. "syncCopied" \in FinalSteps /\ "syncCopied" \notin StartSteps
      BY DEF FinalSteps, StartSteps
    <2>5. QueueFor(queue', b.do)
      BY <2>3 DEF QueueFor, RoomSteps
    <2> HIDE DEF a, b
    <2> QED BY <1>2, <1>3, <1>4, <2>1, <2>3, <2>4, <2>5, GoesOnWithTwo
  <1>6. CASE status # "PageCopyPending"
    <2>1. todo' = <<>>
      BY <1>2, <1>6 DEF SyncSaved, Return
    <2> QED BY <1>2, <1>3, <1>4, <2>1, EndsQuietly
  <1> QED BY <1>5, <1>6

LEMMA MakeRoomKeeps ==
  ASSUME NInv, MakeRoom PROVE NInv'
  <1>1. /\ todo # <<>> /\ Now.do = "makeRoom" /\ "makeRoom" \in FinalSteps
        /\ "makeRoom" \in ElementSteps
    BY DEF MakeRoom, Doing, Now, FinalSteps, ElementSteps
  <1>2. /\ powered /\ initialised /\ Tail(todo) = <<>> /\ Quiet(Head(todo)) /\ Now \in Steps
        /\ QueueFor(queue, Now.do)
    BY <1>1, AtFinalStep
  <1>3. /\ UNCHANGED QuietVars /\ UNCHANGED <<copyPending, data>> /\ PointersKept
    BY DEF MakeRoom, QuietVars, moduleVars, PointersKept
  <1>4. /\ QueueType(queue) /\ (head + 1) % QueueSize \in 0..(QueueSize - 1)
        /\ copyPending \in BOOLEAN /\ data \in [Element -> Pointer]
    BY QueueFacts
  <1>5. queue' = Tail(queue) /\ head' = (head + 1) % QueueSize
    BY DEF MakeRoom, Pop
  <1>6. queue # <<>> /\ \A j \in 1..Len(queue) : queue[j] # Cancelled
    BY <1>1, <1>2 DEF QueueFor
  <1>7. /\ Head(queue) \in Element \cup {Cancelled} /\ Head(queue) = queue[1]
        /\ 1 \in 1..Len(queue) /\ QueueType(Tail(queue)) /\ Len(Tail(queue)) < QueueSize
        /\ \A i \in 1..Len(Tail(queue)) :
             i + 1 \in 1..Len(queue) /\ Tail(queue)[i] = queue[i + 1]
    BY <1>4, <1>6, PopRequest
  <1>8. Head(queue) \in Element
    BY <1>6, <1>7
  <1> DEFINE a == [do |-> "write", element |-> Head(queue)]
             b == [do |-> "roomMade", first |-> Head(queue), element |-> Now.element]
  <1>9. todo' = <<a, b>> \o <<>>
    BY <1>2 DEF MakeRoom, Continue
  <1>10. Now.element \in Element
    BY <1>1, <1>2, StepFields
  <1>11. a \in Steps /\ a.do = "write" /\ b \in Steps /\ b.do = "roomMade"
    BY <1>8, <1>10, StepKinds DEF RoomSteps, ElementSteps
  <1>12. "roomMade" \in FinalSteps /\ "roomMade" \notin StartSteps
    BY DEF FinalSteps, StartSteps, RoomSteps
  <1>13. QueueFor(queue', b.do)
    BY <1>5, <1>6, <1>7, <1>11 DEF QueueFor
  <1> HIDE DEF a, b
  <1> QED BY <1>2, <1>3, <1>4, <1>5, <1>7, <1>9, <1>11, <1>12, <1>13, GoesOnWithTwo

LEMMA RoomMadeKeeps ==
  ASSUME NInv, RoomMade PROVE NInv'
  <1>1. /\ todo # <<>> /\ Now.do = "roomMade" /\ "roomMade" \in FinalSteps
        /\ "roomMade" \in RoomSteps /\ "roomCopied" \in RoomSteps
    BY DEF RoomMade, Doing, Now, FinalSteps, RoomSteps
  <1>2. /\ powered /\ initialised /\ Tail(todo) = <<>> /\ Quiet(Head(todo)) /\ Now \in Steps
        /\ QueueFor(queue, Now.do)
    BY <1>1, AtFinalStep
  <1>3. /\ UNCHANGED QuietVars /\ UNCHANGED <<copyPending, data>> /\ PointersKept
    BY DEF RoomMade, QuietVars, moduleVars, PointersKept
  <1>4. /\ QueueType(queue) /\ head \in 0..(QueueSize - 1)
        /\ copyPending \in BOOLEAN /\ data \in [Element -> Pointer]
    BY QueueFacts
  <1>5. Now.element \in Element /\ Now.first \in Element
    BY <1>1, <1>2, StepFields
  <1>6. CASE status = "PageCopyPending"
    <2> DEFINE a == Call("copy")
               b == [Now EXCEPT !.do = "roomCopied"]
    <2>1. todo' = <<a, b>> \o <<>> /\ queue' = queue /\ head' = head
      BY <1>2, <1>6 DEF RoomMade, Continue, queueVars
    <2>2. Now = [do |-> "roomMade", first |-> Now.first, element |-> Now.element]
      BY <1>1, <1>2 DEF Steps, ElementSteps, RoomSteps, PlainSteps, StartSteps
    <2>3. b = [do |-> "roomCopied", first |-> Now.first, element |-> Now.element]
      BY <2>2
    <2>4. a \in Steps /\ a.do = "copy" /\ b \in Steps /\ b.do = "roomCopied"
      BY <2>3, <1>1, <1>5, StepKinds DEF PlainSteps
    <2>5. "roomCopied" \in FinalSteps /\ "roomCopied" \notin StartSteps
      BY DEF FinalSteps, StartSteps, RoomSteps
    <2>6. QueueFor(queue', b.do)
      BY <1>1, <1>2, <2>1, <2>4 DEF QueueFor
    <2> HIDE DEF a, b
    <2> QED BY <1>2, <1>3, <1>4, <2>1, <2>4, <2>5, <2>6, GoesOnWithTwo
  <1>7. CASE status # "PageCopyPending"
    <2>1. todo' = <<>> /\ queue' = Append(queue, Now.element) /\ head' = head
      BY <1>2, <1>7 DEF RoomMade, Return
    <2>2. QueueType(queue')
      BY <1>1, <1>2, <1>4, <1>5, <2>1, AddRequest DEF QueueFor
    <2> QED BY <1>2, <1>3, <1>4, <2>1, <2>2, EndsQuietly
  <1> QED BY <1>6, <1>7

LEMMA RoomCopiedKeeps ==
  ASSUME NInv, RoomCopied PROVE NInv'
  <1>1. /\ todo # <<>> /\ Now.do = "roomCopied" /\ "roomCopied" \in FinalSteps
        /\ "roomCopied" \in RoomSteps /\ "roomRetried" \in RoomSteps
    BY DEF RoomCopied, Doing, Now, FinalSteps, RoomSteps
  <1>2. /\ powered /\ initialised /\ Tail(todo) = <<>> /\ Quiet(Head(todo)) /\ Now \in Steps
        /\ QueueFor(queue, Now.do)
    BY <1>1, AtFinalStep
  <1>3. /\ UNCHANGED QuietVars /\ UNCHANGED <<data, queue, head>> /\ copyPending' \in BOOLEAN
        /\ PointersKept
    BY DEF RoomCopied, QuietVars, queueVars, PointersKept
  <1>4. /\ QueueType(queue) /\ head \in 0..(QueueSize - 1) /\ data \in [Element -> Pointer]
    BY QueueFacts
  <1>5. Now.element \in Element /\ Now.first \in Element
    BY <1>1, <1>2, StepFields
  <1> DEFINE a == [do |-> "write", element |-> Now.first]
             b == [Now EXCEPT !.do = "roomRetried"]
  <1>6. todo' = <<a, b>> \o <<>>
    BY <1>2 DEF RoomCopied, Continue
  <1>7. Now = [do |-> "roomCopied", first |-> Now.first, element |-> Now.element]
    BY <1>1, <1>2 DEF Steps, ElementSteps, RoomSteps, PlainSteps, StartSteps
  <1>8. b = [do |-> "roomRetried", first |-> Now.first, element |-> Now.element]
    BY <1>7
  <1>9. a \in Steps /\ a.do = "write" /\ b \in Steps /\ b.do = "roomRetried"
    BY <1>1, <1>5, <1>8, StepKinds DEF ElementSteps
  <1>10. "roomRetried" \in FinalSteps /\ "roomRetried" \notin StartSteps
    BY DEF FinalSteps, StartSteps, RoomSteps
  <1>11. QueueFor(queue', b.do)
    BY <1>1, <1>2, <1>3, <1>9 DEF QueueFor
  <1> HIDE DEF a, b
  <1> QED BY <1>2, <1>3, <1>4, <1>6, <1>9, <1>10, <1>11, GoesOnWithTwo

LEMMA RoomRetriedKeeps ==
  ASSUME NInv, RoomRetried PROVE NInv'
  <1>1. /\ todo # <<>> /\ Now.do = "roomRetried" /\ "roomRetried" \in FinalSteps
        /\ "roomRetried" \in RoomSteps
    BY DEF RoomRetried, Doing, Now, FinalSteps, RoomSteps
  <1>2. /\ powered /\ initialised /\ Tail(todo) = <<>> /\ Quiet(Head(todo)) /\ Now \in Steps
        /\ QueueFor(queue, Now.do)
    BY <1>1, AtFinalStep
  <1>3. /\ UNCHANGED QuietVars /\ UNCHANGED <<copyPending, data, head>> /\ PointersKept
    BY DEF RoomRetried, QuietVars, moduleVars, PointersKept
  <1>4. /\ QueueType(queue) /\ head \in 0..(QueueSize - 1)
        /\ copyPending \in BOOLEAN /\ data \in [Element -> Pointer]
    BY QueueFacts
  <1>5. Now.element \in Element /\ Now.first \in Element
    BY <1>1, <1>2, StepFields
  <1>6. Len(queue) < QueueSize /\ \A j \in 1..Len(queue) : queue[j] # Cancelled
    BY <1>1, <1>2 DEF QueueFor
  <1>7. CASE status = "OK"
    <2>1. todo' = <<>> /\ queue' = Append(queue, Now.element)
      BY <1>2, <1>7 DEF RoomRetried, Return
    <2>2. QueueType(queue')
      BY <1>4, <1>5, <1>6, <2>1, AddRequest
    <2> QED BY <1>2, <1>3, <1>4, <2>1, <2>2, EndsQuietly
  <1>8. CASE status # "OK"
    <2> DEFINE s == [do |-> "makeRoom", element |-> Now.element]
    <2>1. todo' = <<s>> \o <<>> /\ queue' = With(queue, Now.first)
      BY <1>2, <1>8 DEF RoomRetried, Continue
    <2>2. s \in Steps /\ s.do = "makeRoom"
      BY <1>5, StepKinds DEF ElementSteps
    <2>3. /\ queue' # <<>> /\ queue' \in Seq(Element \cup {Cancelled})
          /\ Len(queue') <= Len(queue) + 1
          /\ \A j \in 1..Len(queue') : queue'[j] # Cancelled
      BY <1>4, <1>5, <1>6, <2>1, WithRequest
    <2>4. QueueType(queue')
      <3>1. Len(queue) \in Nat /\ Len(queue') \in Nat /\ QueueSize \in Nat
        BY <1>4, <2>3, LenProperties, StoreAssumption DEF QueueType, StoreAssumption
      <3> QED BY <3>1, <2>3, <1>6 DEF QueueType
    <2>5. QueueFor(queue', s.do)
      BY <2>2, <2>3 DEF QueueFor, RoomSteps
    <2>6. s.do \notin Unfinished \cup StartSteps /\ s.do # "forgetOld" /\ Quiet(s)
          /\ s.do # "syncCopied"
      BY <2>2 DEF Unfinished, StartSteps, Quiet
    <2> HIDE DEF s
    <2> QED BY <1>2, <1>3, <1>4, <2>1, <2>2, <2>4, <2>5, <2>6, GoesOnWithOne
  <1> QED BY <1>7, <1>8

\* A step that returns to the rest of its call.
LEMMA ReturnsQuietly ==
  ASSUME NInv, todo # <<>>, Quiet(Now), Now.do # "copy", Now.do # "forgetOld",
         todo' = Tail(todo), UNCHANGED QuietVars, UNCHANGED <<data, queue, head>>,
         copyPending' \in BOOLEAN
  PROVE  NInv'
  <1> DEFINE t == Tail(todo)
  <1>1. /\ powered /\ Chain(t, initialised) /\ Now = Head(todo) /\ Allowed(Now, initialised)
        /\ t # <<>> => Follows(Now, Second, initialised)
        /\ \A W : Has(t, W) => Has(todo, W)
    BY InCall
  <1>2. initialised' = initialised /\ erase' = erase
    BY DEF QuietVars
  <1>3. data \in [Element -> Pointer] /\ PointersKept
    BY QueueFacts DEF PointersKept
  <1>4. Now.do \notin Unfinished
    BY DEF Quiet, Unfinished
  <1>5. t # <<>> => Quiet(Head(t))
    BY <1>1, <1>4
       DEF Follows, Quiet, Second, ElementSteps, RoomSteps, PlainSteps, StartSteps
  <1>6. ~ initialised => Now.do \in StartSteps
    BY <1>1 DEF Allowed, Quiet
  <1>7. TodoInv'
    <2>1. Has(t, {"forgetOld"}) => erase.pending
      BY <1>1 DEF NInv, TodoInv
    <2>2. Has(t, {"syncCopied"}) => erase.pending
      BY <1>1 DEF NInv, TodoInv, Quiet
    <2> QED BY <1>1, <1>2, <2>1, <2>2 DEF TodoInv
  <1>8. QueueInv'
    BY <1>1 DEF NInv, QueueInv
  <1> QED BY <1>1, <1>3, <1>5, <1>6, <1>7, <1>8, QuietInv DEF QuietVars

LEMMA NvIdleKeeps ==
  ASSUME NInv, NvIdle PROVE NInv'
  <1>1. todo = <<>> /\ initialised
    BY DEF NvIdle
  <1>2. powered
    BY <1>1 DEF NInv, FlashInv
  <1>3. /\ UNCHANGED QuietVars /\ UNCHANGED <<copyPending, data, queue, head>> /\ PointersKept
    BY DEF NvIdle, QuietVars, moduleVars, queueVars, PointersKept
  <1>4. /\ QueueType(queue) /\ head \in 0..(QueueSize - 1)
        /\ copyPending \in BOOLEAN /\ data \in [Element -> Pointer]
    BY QueueFacts
  <1> DEFINE a == Call("copy")
             b == Call("idleCopied")
             s == Call("idle")
  <1>5. /\ a \in Steps /\ a.do = "copy" /\ b \in Steps /\ b.do = "idleCopied"
        /\ s \in Steps /\ s.do = "idle"
    BY StepKinds DEF PlainSteps
  <1>6. "idleCopied" \in FinalSteps /\ "idleCopied" \notin StartSteps
    BY DEF FinalSteps, StartSteps
  <1>7. s.do \notin Unfinished \cup StartSteps /\ s.do # "forgetOld" /\ Quiet(s)
        /\ s.do # "syncCopied"
    BY <1>5 DEF Unfinished, StartSteps, Quiet
  <1>8. QueueFor(queue', s.do) /\ QueueFor(queue', b.do)
    BY <1>5 DEF QueueFor, RoomSteps
  <1>9. todo' = <<a, b>> \/ todo' = <<s>>
    BY DEF NvIdle
  <1> HIDE DEF a, b, s
  <1>10. CASE todo' = <<a, b>>
    BY <1>1, <1>2, <1>3, <1>4, <1>5, <1>6, <1>8, <1>10, GoesOnWithTwo
  <1>11. CASE todo' = <<s>>
    BY <1>1, <1>2, <1>3, <1>4, <1>5, <1>7, <1>8, <1>11, GoesOnWithOne
  <1> QED BY <1>9, <1>10, <1>11

LEMMA IdleCopiedKeeps ==
  ASSUME NInv, IdleCopied PROVE NInv'
  <1>1. todo # <<>> /\ Now.do = "idleCopied" /\ "idleCopied" \in FinalSteps
    BY DEF IdleCopied, Doing, Now, FinalSteps
  <1>2. powered /\ initialised /\ Tail(todo) = <<>> /\ Quiet(Head(todo))
    BY <1>1, AtFinalStep
  <1>3. /\ UNCHANGED QuietVars /\ UNCHANGED <<data, queue, head>> /\ copyPending' \in BOOLEAN
        /\ PointersKept
    BY DEF IdleCopied, QuietVars, queueVars, PointersKept
  <1>4. /\ QueueType(queue) /\ head \in 0..(QueueSize - 1) /\ data \in [Element -> Pointer]
    BY QueueFacts
  <1> DEFINE s == Call("idle")
  <1>5. s \in Steps /\ s.do = "idle"
    BY StepKinds DEF PlainSteps
  <1>6. s.do \notin Unfinished \cup StartSteps /\ s.do # "forgetOld" /\ Quiet(s)
        /\ s.do # "syncCopied"
    BY <1>5 DEF Unfinished, StartSteps, Quiet
  <1>7. QueueFor(queue', s.do)
    BY <1>5 DEF QueueFor, RoomSteps
  <1>8. todo' = <<s>> \o <<>>
    BY <1>2 DEF IdleCopied, Continue
  <1> HIDE DEF s
  <1> QED BY <1>2, <1>3, <1>4, <1>5, <1>6, <1>7, <1>8, GoesOnWithOne

LEMMA IdleSaveKeeps ==
  ASSUME NInv, IdleSave PROVE NInv'
  <1>1. todo # <<>> /\ Now.do \in {"idle", "drain"} /\ Now.do \in FinalSteps /\ Now.do # "start"
    BY DEF IdleSave, Doing, Now, FinalSteps
  <1>2. powered /\ initialised /\ Tail(todo) = <<>> /\ Quiet(Head(todo))
    BY <1>1, AtFinalStep
  <1>3. /\ UNCHANGED QuietVars /\ UNCHANGED <<copyPending, data>> /\ PointersKept
    BY DEF IdleSave, QuietVars, moduleVars, PointersKept
  <1>4. /\ QueueType(queue) /\ head \in 0..(QueueSize - 1)
        /\ (head + 1) % QueueSize \in 0..(QueueSize - 1)
        /\ copyPending \in BOOLEAN /\ data \in [Element -> Pointer]
    BY QueueFacts
  <1> DEFINE a == [do |-> "write", element |-> Head(queue)]
             b == [do |-> "idleSaved", element |-> Head(queue)]
             s == Call("drain")
  <1>5. \/ todo' = <<>> /\ queue' = queue /\ head' = head
        \/ /\ queue # <<>> /\ queue' = Tail(queue) /\ head' = (head + 1) % QueueSize
           /\ todo' = <<s>> \o <<>>
        \/ /\ queue # <<>> /\ queue' = Tail(queue) /\ head' = (head + 1) % QueueSize
           /\ Head(queue) # Cancelled /\ todo' = <<a, b>> \o <<>>
    BY <1>2 DEF IdleSave, Continue, Return, Pop, queueVars
  <1>6. CASE todo' = <<>> /\ queue' = queue /\ head' = head
    BY <1>2, <1>3, <1>4, <1>6, EndsQuietly
  <1>7. CASE /\ queue # <<>> /\ queue' = Tail(queue) /\ head' = (head + 1) % QueueSize
             /\ todo' = <<s>> \o <<>>
    <2>1. s \in Steps /\ s.do = "drain"
      BY StepKinds DEF PlainSteps
    <2>2. s.do \notin Unfinished \cup StartSteps /\ s.do # "forgetOld" /\ Quiet(s)
          /\ s.do # "syncCopied"
      BY <2>1 DEF Unfinished, StartSteps, Quiet
    <2>3. QueueFor(queue', s.do)
      BY <2>1 DEF QueueFor, RoomSteps
    <2>4. QueueType(queue')
      BY <1>4, <1>7, PopRequest
    <2> HIDE DEF s
    <2> QED BY <1>2, <1>3, <1>4, <1>7, <2>1, <2>2, <2>3, <2>4, GoesOnWithOne
  <1>8. CASE /\ queue # <<>> /\ queue' = Tail(queue) /\ head' = (head + 1) % QueueSize
             /\ Head(queue) # Cancelled /\ todo' = <<a, b>> \o <<>>
    <2>1. /\ Head(queue) \in Element \cup {Cancelled} /\ QueueType(Tail(queue))
          /\ Len(Tail(queue)) < QueueSize
      BY <1>4, <1>8, PopRequest
    <2>2. Head(queue) \in Element
      BY <1>8, <2>1
    <2>3. a \in Steps /\ a.do = "write" /\ b \in Steps /\ b.do = "idleSaved"
      BY <2>2, StepKinds DEF ElementSteps
    <2>4. "idleSaved" \in FinalSteps /\ "idleSaved" \notin StartSteps
      BY DEF FinalSteps, StartSteps
    <2>5. QueueFor(queue', b.do)
      BY <1>8, <2>1, <2>3 DEF QueueFor, RoomSteps
    <2>6. QueueType(queue')
      BY <1>8, <2>1
    <2> HIDE DEF a, b
    <2> QED BY <1>2, <1>3, <1>4, <1>8, <2>3, <2>4, <2>5, <2>6, GoesOnWithTwo
  <1> QED BY <1>5, <1>6, <1>7, <1>8

LEMMA IdleSavedKeeps ==
  ASSUME NInv, IdleSaved PROVE NInv'
  <1>1. /\ todo # <<>> /\ Now.do = "idleSaved" /\ "idleSaved" \in FinalSteps
        /\ "idleSaved" \in ElementSteps
    BY DEF IdleSaved, Doing, Now, FinalSteps, ElementSteps
  <1>2. /\ powered /\ initialised /\ Tail(todo) = <<>> /\ Quiet(Head(todo)) /\ Now \in Steps
        /\ QueueFor(queue, Now.do)
    BY <1>1, AtFinalStep
  <1>3. /\ UNCHANGED QuietVars /\ UNCHANGED <<copyPending, data, head>> /\ PointersKept
    BY DEF IdleSaved, QuietVars, moduleVars, PointersKept
  <1>4. /\ QueueType(queue) /\ head \in 0..(QueueSize - 1)
        /\ copyPending \in BOOLEAN /\ data \in [Element -> Pointer]
    BY QueueFacts
  <1>5. Now.element \in Element /\ Len(queue) < QueueSize
    BY <1>1, <1>2, StepFields DEF QueueFor
  <1>6. CASE status = "PageCopyPending"
    <2>1. todo' = <<>> /\ queue' = With(queue, Now.element)
      BY <1>2, <1>6 DEF IdleSaved, Return, RequestAgain
    <2>2. queue' \in Seq(Element \cup {Cancelled}) /\ Len(queue') <= Len(queue) + 1
      BY <1>4, <1>5, <2>1, WithRequest
    <2>3. Len(queue) \in Nat /\ Len(queue') \in Nat /\ QueueSize \in Nat
      BY <1>4, <2>2, LenProperties, StoreAssumption DEF QueueType, StoreAssumption
    <2>4. QueueType(queue')
      BY <2>2, <2>3, <1>5 DEF QueueType
    <2> QED BY <1>2, <1>3, <1>4, <2>1, <2>4, EndsQuietly
  <1>7. CASE status # "PageCopyPending"
    <2> DEFINE s == Call("drain")
    <2>1. s \in Steps /\ s.do = "drain"
      BY StepKinds DEF PlainSteps
    <2>2. s.do \notin Unfinished \cup StartSteps /\ s.do # "forgetOld" /\ Quiet(s)
          /\ s.do # "syncCopied"
      BY <2>1 DEF Unfinished, StartSteps, Quiet
    <2>3. QueueFor(queue', s.do)
      BY <2>1 DEF QueueFor, RoomSteps
    <2>4. todo' = <<s>> \o <<>> /\ queue' = queue
      BY <1>2, <1>7 DEF IdleSaved, Continue
    <2> HIDE DEF s
    <2> QED BY <1>2, <1>3, <1>4, <2>1, <2>2, <2>3, <2>4, GoesOnWithOne
  <1> QED BY <1>6, <1>7

LEMMA MeasureFreeSpaceKeeps ==
  ASSUME NInv, MeasureFreeSpace PROVE NInv'
  <1>1. todo # <<>> /\ Now.do = "measure" /\ "measure" \in FinalSteps
    BY DEF MeasureFreeSpace, Doing, Now, FinalSteps
  <1>2. powered /\ initialised /\ Tail(todo) = <<>> /\ Quiet(Head(todo))
    BY <1>1, AtFinalStep
  <1>3. /\ UNCHANGED QuietVars /\ UNCHANGED <<copyPending, data, queue, head>> /\ PointersKept
    BY DEF MeasureFreeSpace, QuietVars, moduleVars, queueVars, PointersKept
  <1>4. /\ QueueType(queue) /\ head \in 0..(QueueSize - 1)
        /\ copyPending \in BOOLEAN /\ data \in [Element -> Pointer]
    BY QueueFacts
  <1> DEFINE a == Call("copy")
             b == Call("restore")
  <1>5. a \in Steps /\ a.do = "copy" /\ b \in Steps /\ b.do = "restore"
    BY StepKinds DEF PlainSteps
  <1>6. "restore" \in FinalSteps /\ "restore" \notin StartSteps
    BY DEF FinalSteps, StartSteps
  <1>7. b.do \notin Unfinished \cup StartSteps /\ b.do # "forgetOld" /\ Quiet(b)
        /\ b.do # "syncCopied"
    BY <1>5 DEF Unfinished, StartSteps, Quiet
  <1>8. QueueFor(queue', b.do)
    BY <1>5 DEF QueueFor, RoomSteps
  <1>9. todo' = <<>> \/ todo' = <<a, b>> \o <<>> \/ todo' = <<b>> \o <<>>
    <2>1. <<a>> \o <<b>> = <<a, b>> /\ <<>> \o <<b>> = <<b>>
      <3> HIDE DEF a, b
      <3> QED BY <1>5, PairOfSteps
    <2> QED BY <1>2, <2>1 DEF MeasureFreeSpace, Continue, Return
  <1> HIDE DEF a, b
  <1>10. CASE todo' = <<>>
    BY <1>2, <1>3, <1>4, <1>10, EndsQuietly
  <1>11. CASE todo' = <<a, b>> \o <<>>
    BY <1>2, <1>3, <1>4, <1>5, <1>6, <1>7, <1>8, <1>11, GoesOnWithTwo
  <1>12. CASE todo' = <<b>> \o <<>>
    BY <1>2, <1>3, <1>4, <1>5, <1>7, <1>8, <1>12, GoesOnWithOne
  <1> QED BY <1>9, <1>10, <1>11, <1>12

LEMMA EstimateSizeKeeps ==
  ASSUME NInv, EstimateSize PROVE NInv'
  <1>1. todo # <<>> /\ Now.do = "estimate" /\ Quiet(Now) /\ Now = Head(todo)
    BY DEF EstimateSize, Doing, Now, Quiet
  <1>2. powered
    BY <1>1, InCall
  <1>3. /\ UNCHANGED QuietVars /\ UNCHANGED <<copyPending, data, queue, head>> /\ PointersKept
    BY DEF EstimateSize, QuietVars, moduleVars, queueVars, PointersKept
  <1>4. /\ QueueType(queue) /\ head \in 0..(QueueSize - 1)
        /\ copyPending \in BOOLEAN /\ data \in [Element -> Pointer]
    BY QueueFacts
  <1>5. todo' = <<>> \/ todo' = Tail(todo)
    BY DEF EstimateSize, Return
  <1>6. CASE todo' = <<>>
    BY <1>1, <1>2, <1>3, <1>4, <1>6, EndsQuietly
  <1>7. CASE todo' = Tail(todo)
    BY <1>1, <1>3, <1>4, <1>7, ReturnsQuietly
  <1> QED BY <1>5, <1>6, <1>7

\* The rest of a call, when a step returns.
LEMMA Returns ==
  ASSUME NInv, todo # <<>>, Now.do # "forgetOld", todo' = Tail(todo),
         UNCHANGED <<queue, head, initialised>>, erase'.pending = erase.pending,
         Has(todo, {"syncCopied"}) =>
           \/ erase.pending
           \/ todo' # <<>> /\ Head(todo').do \in {"copy", "erase", "copyRecord", "copyMeta",
                                                  "copyNext"}
  PROVE  TodoInv' /\ QueueInv'
  <1> DEFINE t == Tail(todo)
  <1>1. Chain(t, initialised) /\ \A W : Has(t, W) => Has(todo, W)
    BY InCall
  <1>2. TodoInv'
    <2>1. Has(t, {"forgetOld"}) => erase.pending
      BY <1>1 DEF NInv, TodoInv
    <2> QED BY <1>1, <2>1 DEF TodoInv, Now
  <1>3. QueueInv'
    BY <1>1 DEF NInv, QueueInv
  <1> QED BY <1>2, <1>3

LEMMA FormattedKeeps ==
  ASSUME NInv, Formatted PROVE NInv'
  <1>1. todo # <<>> /\ Now.do = "formatted" /\ Now = Head(todo) /\ todo' = Tail(todo)
    BY DEF Formatted, Doing, Now, Return
  <1>2. /\ powered /\ Allowed(Now, initialised) /\ initialised \in BOOLEAN
        /\ Tail(todo) # <<>> => Follows(Now, Second, initialised)
    BY <1>1, InCall
  <1>3. ~ initialised
    BY <1>1, <1>2 DEF Allowed, StartSteps
  <1>4. /\ UNCHANGED <<flash, powered, initialised, active, counter, copyPending, erase,
                       queue, head, data>>
        /\ lastMeta' = [lastMeta EXCEPT ![1] = 0]
        /\ lastUnerased' = [lastUnerased EXCEPT ![1] = 0]
    BY DEF Formatted, queueVars
  <1>5. TypeOK'
    <2>1. 0 \in 0..Cells
      BY StoreAssumption DEF StoreAssumption
    <2>2. lastMeta' \in [Page -> 0..Cells] /\ lastUnerased' \in [Page -> 0..Cells]
      BY <1>4, <2>1 DEF NInv, TypeOK
    <2> QED BY <1>4, <2>2 DEF NInv, TypeOK
  <1>6. todo' # <<>> => Quiet(Head(todo'))
    BY <1>1, <1>2
       DEF Follows, Quiet, Second, ElementSteps, RoomSteps, PlainSteps, StartSteps, Unfinished
  <1>7. PointersKept
    BY <1>4 DEF PointersKept
  <1>8. /\ ~ Copying /\ ~ Copying' /\ ~ Doing("erase")' /\ ~ Doing("top")' /\ ~ Doing("bottom")'
        /\ ~ Doing("top") /\ ~ Doing("bottom") /\ ~ Doing("record")' /\ ~ Doing("meta")'
    BY <1>1, <1>6 DEF Quiet, Copying, Doing, Now
  <1>9. TodoInv' /\ QueueInv'
    <2>1. Has(todo, {"syncCopied"}) => erase.pending
      BY <1>1 DEF NInv, TodoInv
    <2> QED BY <1>1, <1>4, <2>1, Returns
  <1>10. WriteInv'
    BY <1>8 DEF WriteInv
  <1>11. PointerInv' /\ CopyInv'
    BY <1>4, <1>7, <1>8, SamePointers
  <1>12. EraseInv'
    BY <1>4, <1>8, SameErase
  <1>13. CounterInv'
    <2>1. Head(todo).do \in StartSteps
      BY <1>1 DEF StartSteps
    <2> QED BY <1>1, <1>4, <1>8, <2>1, SameCounters
  <1>14. FlashInv'
    BY <1>2, <1>3, <1>4, <1>8 DEF NInv, FlashInv, CellsOf, IsFlash
  <1> QED BY <1>5, <1>9, <1>10, <1>11, <1>12, <1>13, <1>14 DEF NInv

-----------------------------------------------------------------------------
(* The application. *)

LEMMA WriteElementKeeps ==
  ASSUME NInv, NEW e \in Element, NEW v \in Value, WriteElement(e, v) PROVE NInv'
  <1>1. powered /\ todo = <<>>
    BY DEF WriteElement, Request
  <1>2. UNCHANGED QuietVars /\ UNCHANGED <<copyPending, head>>
    BY DEF WriteElement, QuietVars, moduleVars
  <1>3. /\ QueueType(queue) /\ head \in 0..(QueueSize - 1)
        /\ copyPending \in BOOLEAN /\ data \in [Element -> Pointer]
    BY QueueFacts
  <1>4. data' = [data EXCEPT ![e] = RamPointer(v)]
    BY DEF WriteElement
  <1>5. data' \in [Element -> Pointer] /\ PointersKept
    <2>1. RamPointer(v) \in Pointer /\ RamPointer(v).at # "flash"
      BY PointerFacts
    <2> QED BY <1>3, <1>4, <2>1 DEF PointersKept
  <1> DEFINE before == IF data[e].at \in {"ram", "caller"} THEN Without(queue, e) ELSE queue
             s == [do |-> "makeRoom", element |-> e]
  <1>6. QueueType(before)
    BY <1>3, WithoutRequest
  <1>7. \/ initialised /\ ~ HasRoomFor(before, e) /\ todo' = <<s>> /\ queue' = before
        \/ /\ ~ (initialised /\ ~ HasRoomFor(before, e))
           /\ queue' = IF initialised THEN With(before, e) ELSE before
           /\ todo' = <<>>
    BY <1>1 DEF WriteElement
  <1> HIDE DEF before
  <1>8. CASE initialised /\ ~ HasRoomFor(before, e) /\ todo' = <<s>> /\ queue' = before
    <2>1. s \in Steps /\ s.do = "makeRoom"
      BY StepKinds DEF ElementSteps
    <2>2. s.do \notin Unfinished \cup StartSteps /\ s.do # "forgetOld" /\ Quiet(s)
          /\ s.do # "syncCopied"
      BY <2>1 DEF Unfinished, StartSteps, Quiet
    <2>3. QueueFor(queue', s.do)
      <3>1. Len(before) >= QueueSize /\ QueueSize >= 1
        BY <1>6, <1>8, LenProperties, StoreAssumption
           DEF HasRoomFor, QueueType, StoreAssumption
      <3>2. before # <<>>
        BY <3>1, EmptySeq, StoreAssumption DEF StoreAssumption
      <3>3. \A j \in 1..Len(before) : before[j] # Cancelled
        BY <1>8 DEF HasRoomFor
      <3> QED BY <1>8, <2>1, <3>2, <3>3 DEF QueueFor, RoomSteps
    <2> HIDE DEF s
    <2> QED BY <1>1, <1>2, <1>3, <1>5, <1>6, <1>8, <2>1, <2>2, <2>3, GoesOnWithOne
  <1>9. CASE /\ ~ (initialised /\ ~ HasRoomFor(before, e))
             /\ queue' = IF initialised THEN With(before, e) ELSE before
             /\ todo' = <<>>
    <2>1. QueueType(queue')
      BY <1>6, <1>9, WithRequest DEF QueueType
    <2> QED BY <1>1, <1>2, <1>3, <1>5, <1>9, <2>1, EndsQuietly
  <1> QED BY <1>7, <1>8, <1>9

\* NvSyncSave by the application.
LEMMA SyncSaveKeeps ==
  ASSUME NInv, powered, todo = <<>>, initialised, UNCHANGED QuietVars, UNCHANGED <<copyPending, head>>,
         data' \in [Element -> Pointer], PointersKept, QueueType(queue'),
         NEW e \in Element, todo' = SyncSaveSteps(e)
  PROVE  NInv'
  <1> DEFINE a == [do |-> "write", element |-> e]
             b == [do |-> "synced", element |-> e]
  <1>1. a \in Steps /\ a.do = "write" /\ b \in Steps /\ b.do = "synced"
    BY StepKinds DEF ElementSteps
  <1>2. "synced" \in FinalSteps /\ "synced" \notin StartSteps
    BY DEF FinalSteps, StartSteps
  <1>3. QueueFor(queue', b.do)
    BY <1>1 DEF QueueFor, RoomSteps
  <1>4. todo' = <<a, b>>
    BY DEF SyncSaveSteps
  <1>5. head' \in 0..(QueueSize - 1) /\ copyPending' \in BOOLEAN
    BY QueueFacts
  <1> HIDE DEF a, b
  <1> QED BY <1>1, <1>2, <1>3, <1>4, <1>5, GoesOnWithTwo

LEMMA WriteElementSyncKeeps ==
  ASSUME NInv, NEW e \in Element, NEW v \in Value, WriteElementSync(e, v) PROVE NInv'
  <1>1. powered /\ todo = <<>>
    BY DEF WriteElementSync, Request
  <1>2. UNCHANGED QuietVars /\ UNCHANGED <<copyPending, head, queue>>
    BY DEF WriteElementSync, QuietVars, moduleVars, queueVars
  <1>3. /\ QueueType(queue) /\ head \in 0..(QueueSize - 1)
        /\ copyPending \in BOOLEAN /\ data \in [Element -> Pointer] /\ initialised \in BOOLEAN
    BY QueueFacts
  <1>4. data' = [data EXCEPT ![e] = CallerPointer(v)]
    BY DEF WriteElementSync
  <1>5. data' \in [Element -> Pointer] /\ PointersKept
    <2>1. CallerPointer(v) \in Pointer /\ CallerPointer(v).at # "flash"
      BY PointerFacts
    <2> QED BY <1>3, <1>4, <2>1 DEF PointersKept
  <1>6. todo' = IF initialised THEN SyncSaveSteps(e) ELSE <<>>
    BY DEF WriteElementSync
  <1>7. CASE initialised
    BY <1>1, <1>2, <1>3, <1>5, <1>6, <1>7, SyncSaveKeeps
  <1>8. CASE ~ initialised
    BY <1>1, <1>2, <1>3, <1>5, <1>6, <1>8, EndsQuietly
  <1> QED BY <1>7, <1>8

LEMMA EraseElementKeeps ==
  ASSUME NInv, NEW e \in Element, EraseElement(e) PROVE NInv'
  <1>1. powered /\ todo = <<>>
    BY DEF EraseElement, Request
  <1>2. UNCHANGED QuietVars /\ UNCHANGED <<copyPending, head>>
    BY DEF EraseElement, QuietVars, moduleVars
  <1>3. /\ QueueType(queue) /\ head \in 0..(QueueSize - 1)
        /\ copyPending \in BOOLEAN /\ data \in [Element -> Pointer] /\ initialised \in BOOLEAN
    BY QueueFacts
  <1>4. data' = [data EXCEPT ![e] = NullPointer]
    BY DEF EraseElement
  <1>5. data' \in [Element -> Pointer] /\ PointersKept
    <2>1. NullPointer \in Pointer /\ NullPointer.at # "flash"
      BY PointerFacts
    <2> QED BY <1>3, <1>4, <2>1 DEF PointersKept
  <1>6. /\ queue' = IF IsFlash(e) THEN Without(queue, e) ELSE queue
        /\ todo' = IF IsFlash(e) THEN SyncSaveSteps(e) ELSE <<>>
    BY DEF EraseElement
  <1>7. QueueType(queue')
    BY <1>3, <1>6, WithoutRequest
  <1>8. CASE IsFlash(e)
    <2>1. initialised
      BY <1>3, <1>8 DEF NInv, FlashInv
    <2> QED BY <1>1, <1>2, <1>3, <1>5, <1>6, <1>7, <1>8, <2>1, SyncSaveKeeps
  <1>9. CASE ~ IsFlash(e)
    BY <1>1, <1>2, <1>3, <1>5, <1>6, <1>7, <1>9, EndsQuietly
  <1> QED BY <1>8, <1>9

-----------------------------------------------------------------------------
(* The old page is forgotten once it is erased. *)

LEMMA OldPageForgotten ==
  ASSUME NInv, todo # <<>>, erase.pending, Quiet(Now), Now.do # "copy",
         todo' = Tail(todo), ~ Has(todo', {"forgetOld", "syncCopied"}),
         todo' # <<>> => Quiet(Head(todo')),
         UNCHANGED <<flash, powered, initialised, active, counter, lastUnerased,
                     copyPending, queue, head, data>>,
         lastMeta' = [lastMeta EXCEPT ![erase.page] = 0],
         erase' = [erase EXCEPT !.pending = FALSE]
  PROVE  NInv'
  <1>1. /\ powered /\ Chain(todo', initialised)
        /\ \A W : Has(todo', W) => Has(todo, W)
    BY InCall
  <1>2. initialised /\ erase.page = Other(active)
    BY DEF NInv, EraseInv
  <1>3. /\ erase \in [pending : BOOLEAN, page : Page, sector : 1..3]
        /\ erase' = [pending |-> FALSE, page |-> erase.page, sector |-> erase.sector]
        /\ lastMeta \in [Page -> 0..Cells]
    BY DEF NInv, TypeOK
  <1>4. 0 \in 0..Cells
    BY StoreAssumption DEF StoreAssumption
  <1>5. lastMeta' \in [Page -> 0..Cells] /\ lastMeta'[active] = lastMeta[active]
    BY <1>2, <1>3, <1>4, Types DEF NInv
  <1>6. erase' \in [pending : BOOLEAN, page : Page, sector : 1..3]
    BY <1>3
  <1>7. TypeOK'
    BY <1>5, <1>6 DEF NInv, TypeOK
  <1>8. TodoInv'
    BY <1>1 DEF TodoInv, Has
  <1>9. QueueInv'
    BY <1>1 DEF NInv, QueueInv
  <1>10. /\ ~ Copying /\ ~ Copying' /\ ~ Doing("erase")' /\ ~ Doing("top")' /\ ~ Doing("bottom")'
         /\ ~ Doing("top") /\ ~ Doing("bottom") /\ ~ Doing("record")' /\ ~ Doing("meta")'
    BY DEF Quiet, Copying, Doing, Now
  <1>11. WriteInv'
    BY <1>10 DEF WriteInv
  <1>12. PointersKept
    BY DEF PointersKept
  <1>13. PointerInv' /\ CopyInv'
    BY <1>10, <1>12, SamePointers
  <1>14. EraseInv'
    BY <1>3, <1>10 DEF EraseInv
  <1>15. CounterInv'
    BY <1>2, <1>10, SameCounters
  <1>16. FlashInv'
    <2>1. \A p \in Page : flash[p].top # 0 => Sound(flash[p].cell)
      BY DEF NInv, FlashInv, CellsOf
    <2>2. /\ Sound(flash[active].cell)
          /\ NewestMeta(flash[active].cell, lastMeta[active], lastUnerased[active])
      BY <1>2 DEF NInv, FlashInv, CellsOf
    <2> QED BY <2>1, <2>2, <1>1, <1>2, <1>5 DEF FlashInv, CellsOf
  <1> QED BY <1>7, <1>8, <1>9, <1>11, <1>13, <1>14, <1>15, <1>16 DEF NInv

LEMMA ForgetOldPageKeeps ==
  ASSUME NInv, ForgetOldPage PROVE NInv'
  <1>1. todo # <<>> /\ Now.do = "forgetOld" /\ todo' = Tail(todo)
    BY DEF ForgetOldPage, Doing, Now, Return
  <1>2. Quiet(Now) /\ Now.do # "copy"
    BY <1>1 DEF Quiet
  <1>3. /\ todo' # <<>> /\ Head(todo') = Second /\ Second.do = "write"
        /\ \A W : Has(todo', W) => Second.do \in W
    BY <1>1, InCall DEF Follows, Second
  <1>4. Has(todo, {"forgetOld"})
    BY <1>1, InCall
  <1>5. erase.pending
    BY <1>4 DEF NInv, TodoInv
  <1>6. ~ Has(todo', {"forgetOld", "syncCopied"})
    BY <1>3
  <1>7. Quiet(Head(todo'))
    BY <1>3 DEF Quiet
  <1>8. /\ UNCHANGED <<flash, powered, initialised, active, counter, lastUnerased,
                       copyPending, queue, head, data>>
        /\ lastMeta' = [lastMeta EXCEPT ![erase.page] = 0]
        /\ erase' = [erase EXCEPT !.pending = FALSE]
    BY DEF ForgetOldPage, queueVars
  <1> QED BY <1>1, <1>2, <1>5, <1>6, <1>7, <1>8, OldPageForgotten

\* A sector of the page that is not active is erased.
LEMMA OtherSectorErased ==
  ASSUME NInv, NEW s \in {1, 2},
         flash' = [flash EXCEPT ![Other(active)] = WithSectorErased(@, s)]
  PROVE  /\ flash' \in [Page -> [top : Nat, bottom : Nat, cell : [1..Cells -> Cell]]]
         /\ flash'[active] = flash[active]
         /\ flash'[Other(active)] = WithSectorErased(flash[Other(active)], s)
         /\ s = 1 => flash'[Other(active)].top = 0 /\ LowerBlank(flash'[Other(active)].cell)
         /\ s = 2 => /\ flash'[Other(active)].top = flash[Other(active)].top
                     /\ flash'[Other(active)].bottom = 0
                     /\ LowerBlank(flash[Other(active)].cell) =>
                          AllBlank(flash'[Other(active)].cell)
  <1> DEFINE o == Other(active)
             pg == flash[o]
             q == WithSectorErased(pg, s)
  <1>1. /\ flash \in [Page -> [top : Nat, bottom : Nat, cell : Row]]
        /\ o \in Page /\ o # active /\ active \in Page
        /\ pg \in [top : Nat, bottom : Nat, cell : Row]
    BY Types DEF NInv
  <1>2. flash' = [flash EXCEPT ![o] = q]
    OBVIOUS
  <1>3. /\ q \in [top : Nat, bottom : Nat, cell : Row]
        /\ s = 1 => q.top = 0 /\ LowerBlank(q.cell)
        /\ s = 2 => q.top = pg.top /\ q.bottom = 0 /\ (LowerBlank(pg.cell) => AllBlank(q.cell))
    <2> HIDE DEF pg
    <2> QED BY <1>1, StoreAssumption, SectorErased
  <1> HIDE DEF o, q
  <1>4. /\ flash' \in [Page -> [top : Nat, bottom : Nat, cell : Row]]
        /\ flash'[o] = q /\ flash'[active] = flash[active]
    BY <1>1, <1>2, <1>3
  <1> QED BY <1>3, <1>4 DEF o, q, Row

LEMMA AfterOtherErased ==
  ASSUME NInv, initialised, NEW s \in {1, 2}, s = 2 => flash[Other(active)].top = 0,
         flash' = [flash EXCEPT ![Other(active)] = WithSectorErased(@, s)],
         UNCHANGED <<powered, initialised, active, counter, lastMeta, lastUnerased,
                     copyPending, queue, head, data>>,
         erase' \in [pending : BOOLEAN, page : Page, sector : 1..3],
         ~ Doing("top"), ~ Doing("bottom"), ~ Doing("top")', ~ Doing("bottom")',
         Copying' => s = 2
  PROVE  TypeOK' /\ CounterInv' /\ FlashInv'
  <1>1. /\ flash' \in [Page -> [top : Nat, bottom : Nat, cell : [1..Cells -> Cell]]]
        /\ flash'[active] = flash[active]
        /\ flash'[Other(active)].top = 0
        /\ s = 2 => flash'[Other(active)].bottom = 0
    BY OtherSectorErased
  <1>2. TypeOK'
    BY <1>1 DEF NInv, TypeOK
  <1>3. counter # 0 /\ Current(active)
    BY DEF NInv, CounterInv
  <1>4. /\ active \in Page /\ \A p \in Page : p = active \/ p = Other(active)
        /\ Page = {1, 2}
    BY Types DEF NInv, Page
  <1>5. CounterInv'
    <2>1. (Current(active) /\ Older(Other(active)))'
      BY <1>1, <1>3 DEF Current, Older, IsValidPage, Other
    <2>2. Copying' => Erased(Other(active))'
      BY <1>1 DEF Erased, Other
    <2>3. ~ IsValidPage(Other(active))'
      BY <1>1 DEF IsValidPage, Other
    <2>4. ~ (IsValidPage(1)' /\ IsValidPage(2)')
      BY <2>3, <1>4 DEF Other
    <2> QED BY <2>1, <2>2, <2>4, <1>3 DEF CounterInv
  <1>6. FlashInv'
    <2>1. /\ Sound(flash[active].cell)
          /\ NewestMeta(flash[active].cell, lastMeta[active], lastUnerased[active])
      BY DEF NInv, FlashInv, CellsOf
    <2>2. \A p \in Page : flash'[p].top # 0 => Sound(flash'[p].cell)
      BY <2>1, <1>1, <1>4
    <2>3. powered \in BOOLEAN /\ (~ powered => todo = <<>> /\ ~ initialised)
      BY DEF NInv, TypeOK, FlashInv
    <2> QED BY <2>1, <2>2, <2>3, <1>1 DEF FlashInv, CellsOf
  <1> QED BY <1>2, <1>5, <1>6

LEMMA IdleEraseKeeps ==
  ASSUME NInv, IdleErase PROVE NInv'
  <1>1. todo # <<>> /\ Now.do = "idle" /\ "idle" \in FinalSteps /\ erase.pending
    BY DEF IdleErase, Doing, Now, FinalSteps
  <1>2. /\ powered /\ initialised /\ Tail(todo) = <<>> /\ Quiet(Now) /\ Now.do # "copy"
        /\ initialised \in BOOLEAN
    BY <1>1, AtFinalStep, InCall
  <1>3. todo' = <<>>
    BY <1>2 DEF IdleErase, Return
  <1>4. UNCHANGED <<powered, initialised, active, counter, lastUnerased, copyPending,
                    queue, head, data>>
    BY DEF IdleErase, queueVars
  <1>5. TodoInv' /\ \A W : ~ Has(todo', W)
    BY <1>2, <1>3, <1>4, CallEnds
  <1>6. CASE erase.sector > 2
    <2>1. /\ UNCHANGED flash
          /\ lastMeta' = [lastMeta EXCEPT ![erase.page] = 0]
          /\ erase' = [erase EXCEPT !.pending = FALSE]
      BY <1>6 DEF IdleErase
    <2> QED BY <2>1, <1>1, <1>2, <1>3, <1>4, <1>5, OldPageForgotten
  <1>7. CASE ~ (erase.sector > 2)
    <2> DEFINE s == erase.sector
    <2>1. /\ erase.page = Other(active) /\ (s > 1 => flash[Other(active)].top = 0)
          /\ erase \in [pending : BOOLEAN, page : Page, sector : 1..3]
      BY <1>1 DEF NInv, EraseInv, TypeOK
    <2>2. /\ flash' = [flash EXCEPT ![Other(active)] = WithSectorErased(@, s)]
          /\ erase' = [erase EXCEPT !.sector = s + 1] /\ lastMeta' = lastMeta
      BY <1>7, <2>1 DEF IdleErase, NextSector
    <2>3. s \in {1, 2}
      BY <1>7, <2>1
    <2>4. /\ erase' = [pending |-> erase.pending, page |-> erase.page, sector |-> s + 1]
          /\ erase' \in [pending : BOOLEAN, page : Page, sector : 1..3]
      <3>1. erase' = [pending |-> erase.pending, page |-> erase.page, sector |-> s + 1]
        BY <2>1, <2>2
      <3>2. s + 1 \in 1..3 /\ erase.pending \in BOOLEAN /\ erase.page \in Page
        BY <2>1, <2>3
      <3> HIDE DEF s
      <3> QED BY <3>1, <3>2
    <2>5. s = 2 => flash[Other(active)].top = 0
      BY <2>1, <2>3
    <2>6. /\ ~ Copying /\ ~ Copying' /\ ~ Doing("erase")' /\ ~ Doing("top")'
          /\ ~ Doing("bottom")' /\ ~ Doing("top") /\ ~ Doing("bottom")
          /\ ~ Doing("record")' /\ ~ Doing("meta")'
      BY <1>1, <1>3 DEF Copying, Doing, Now
    <2> HIDE DEF s
    <2>7. TypeOK' /\ CounterInv' /\ FlashInv'
      BY <1>2, <1>4, <2>2, <2>3, <2>4, <2>5, <2>6, AfterOtherErased
    <2>8. flash'[active] = flash[active] /\ flash'[Other(active)].top = 0
      BY <2>2, <2>3, <2>5, OtherSectorErased
    <2>9. PointerInv' /\ CopyInv'
      BY <1>4, <2>6, <2>8, SamePointers DEF PointersKept
    <2>10. WriteInv'
      BY <2>6 DEF WriteInv
    <2>11. EraseInv'
      BY <1>2, <1>4, <2>1, <2>4, <2>6, <2>8 DEF EraseInv, Other
    <2>12. QueueInv'
      BY <1>4, <1>5 DEF NInv, QueueInv
    <2> QED BY <1>5, <2>7, <2>9, <2>10, <2>11, <2>12 DEF NInv
  <1> QED BY <1>6, <1>7

LEMMA SyncCopiedKeeps ==
  ASSUME NInv, SyncCopied PROVE NInv'
  <1>1. /\ todo # <<>> /\ Now.do = "syncCopied" /\ "syncCopied" \in FinalSteps
        /\ "syncCopied" \in ElementSteps
    BY DEF SyncCopied, Doing, Now, FinalSteps, ElementSteps
  <1>2. /\ powered /\ initialised /\ Tail(todo) = <<>> /\ Now \in Steps /\ Quiet(Now)
        /\ erase.pending /\ data \in [Element -> Pointer]
    BY <1>1, AtFinalStep
  <1>3. /\ UNCHANGED <<flash, powered, initialised, active, counter, lastMeta, lastUnerased,
                       erase, queue, head, data>>
        /\ copyPending' = FALSE
    BY DEF SyncCopied, queueVars
  <1>4. erase.page = Other(active) /\ erase.page \in Page
    BY <1>2, Types DEF NInv, EraseInv
  <1>5. Now.element \in Element
    BY <1>1, <1>2, StepFields
  <1> DEFINE f == Call("forgetOld")
             w == [do |-> "write", element |-> Now.element]
             v == <<w>> \o <<>>
             t == <<f>> \o v
  <1>6. f \in Steps /\ f.do = "forgetOld" /\ w \in Steps /\ w.do = "write"
    BY <1>5, StepKinds DEF PlainSteps, ElementSteps
  <1> HIDE DEF f, w
  <1>7. /\ Allowed(w, TRUE) /\ Allowed(f, TRUE)
        /\ w.do \notin Unfinished /\ w.do # "forgetOld" /\ f.do \notin Unfinished
        /\ f.do \notin FinalSteps /\ Follows(f, w, TRUE)
    BY <1>6 DEF Allowed, StartSteps, Unfinished, FinalSteps, RoomSteps, Follows, ElementSteps
  <1>8. /\ Chain(v, TRUE) /\ v # <<>> /\ Head(v) = w /\ Tail(v) = <<>>
        /\ \A W : Has(v, W) => w.do \in W
    BY <1>6, <1>7, OneStep
  <1>9. Len(v) = 1
    BY <1>6, ConcatProperties DEF v
  <1> HIDE DEF v
  <1>10. /\ Chain(t, TRUE) /\ t # <<>> /\ Head(t) = f
         /\ \A W : Has(t, W) => f.do \in W \/ w.do \in W
    BY <1>6, <1>7, <1>8, <1>9, ChainCons
  <1>11. Tail(todo) = <<>> /\ todo' = EraseSteps(Other(active)) \o (<<f, w>> \o <<>>)
    <2>1. todo' = (EraseSteps(Other(active)) \o <<f, w>>) \o <<>>
      BY <1>2, <1>4 DEF SyncCopied, Continue, f, w
    <2>2. EraseSteps(Other(active)) \in Seq(Steps) /\ <<f, w>> \in Seq(Steps) /\ <<>> \in Seq(Steps)
      BY <1>4, <1>6, StepKinds DEF EraseSteps
    <2> HIDE DEF f, w
    <2> QED BY <1>2, <2>1, <2>2, StepsAssociate
  <1>12. <<f, w>> \o <<>> = t
    <2>1. <<>> \in Seq(Steps)
      OBVIOUS
    <2> QED BY <2>1, <1>6, StepsInARow DEF t, v
  <1> HIDE DEF t
  <1> DEFINE first == [do |-> "erase", page |-> Other(active), sector |-> 1]
  <1>13. Follows([do |-> "erase", page |-> Other(active), sector |-> 2], Head(t), TRUE)
    BY <1>6, <1>10 DEF Follows, Unfinished
  <1>14. /\ Chain(todo', TRUE) /\ todo' # <<>> /\ Head(todo') = first
         /\ Tail(todo') # <<>>
         /\ Head(Tail(todo')) = [do |-> "erase", page |-> Other(active), sector |-> 2]
         /\ Tail(Tail(todo')) = t
         /\ \A W : Has(todo', W) => "erase" \in W \/ Has(t, W)
    BY <1>4, <1>10, <1>11, <1>12, <1>13, EraseChain
  <1>15. initialised' = TRUE
    BY <1>2, <1>3 DEF NInv, TypeOK
  <1>16. /\ ~ Copying /\ ~ Copying' /\ ~ Doing("top")' /\ ~ Doing("bottom")'
         /\ ~ Doing("top") /\ ~ Doing("bottom") /\ ~ Doing("record")' /\ ~ Doing("meta")'
    BY <1>1, <1>14 DEF Copying, Doing, Now
  <1>17. TypeOK'
    BY <1>3 DEF NInv, TypeOK
  <1>18. TodoInv'
    <2>1. erase'.pending
      BY <1>2, <1>3
    <2> QED BY <2>1, <1>14, <1>15 DEF TodoInv
  <1>19. QueueInv'
    <2>1. \A W : Has(todo', W) => W \cap {"erase", "forgetOld", "write"} # {}
      BY <1>6, <1>10, <1>14
    <2>2. ~ Has(todo', RoomSteps \cup {"idleSaved"}) /\ ~ Has(todo', {"makeRoom"})
          /\ ~ Has(todo', RoomSteps \cup {"makeRoom"})
      BY <2>1 DEF RoomSteps
    <2> QED BY <2>2, <1>3 DEF NInv, QueueInv
  <1>20. WriteInv'
    BY <1>16 DEF WriteInv
  <1>21. PointerInv' /\ CopyInv'
    BY <1>3, <1>16, SamePointers DEF PointersKept
  <1>22. EraseInv'
    <2>1. Now' = first /\ Third' = f
      BY <1>10, <1>14 DEF Now, Third
    <2>2. erase.sector > 1 => flash[erase.page].top = 0
      BY <1>2 DEF NInv, EraseInv
    <2> QED BY <2>1, <2>2, <1>3, <1>4, <1>6, <1>15 DEF EraseInv, Other
  <1>23. CounterInv'
    BY <1>3, <1>15, <1>2, <1>16, SameCounters
  <1>24. FlashInv'
    BY <1>2, <1>3, <1>16, SameFlash DEF PointersKept
  <1> QED BY <1>17, <1>18, <1>19, <1>20, <1>21, <1>22, <1>23, <1>24 DEF NInv

-----------------------------------------------------------------------------
(* The page copy. *)

\* The page copied to is blank: every element still points into the active page.
LEMMA CopyStarts ==
  ASSUME NInv, initialised, ~ Copying, UNCHANGED <<active, data, lastMeta>>, TypeOK',
         flash'[active] = flash[active], AllBlank(CellsOf(Other(active)))'
  PROVE  (/\ Filling(CellsOf(Other(active)), 0, 1, Cells)
          /\ ReachesTo(CellsOf(Other(active)), 0, Cells + 1)
          /\ PointersWhileCopying(0, lastMeta[active], {}))'
  <1>1. active \in Page /\ Other(active) \in Page
    BY Types DEF NInv
  <1>2. CellsOf(Other(active))' \in Row
    BY <1>1 DEF TypeOK, CellsOf, Row, Other
  <1> DEFINE c == CellsOf(Other(active))'
  <1>3. /\ Filling(c, 0, 1, Cells) /\ ReachesTo(c, 0, Cells + 1)
        /\ \A e : ~ Copied(c, e, 0)
    <2>1. AllBlank(c) /\ c \in Row
      BY <1>2
    <2> HIDE DEF c
    <2> QED BY <2>1, StoreAssumption, BlankFilling
  <1>4. \A i \in 1..Cells : IsMeta(CellsOf(active)[i]) => i <= lastMeta[active]
    BY DEF NInv, FlashInv, NewestMeta
  <1>5. ASSUME NEW e \in Element, IsFlash(e)
        PROVE  /\ PointerInto(active, e)
               /\ \E i \in 1..lastMeta[active] : MetaOf(CellsOf(active), i, e)
    <2>1. PointerInto(active, e)
      BY <1>5 DEF NInv, PointerInv
    <2>2. PICK i \in 1..Cells : MetaOf(CellsOf(active), i, e)
      BY <2>1 DEF PointerInto, PointsInto
    <2>3. i <= lastMeta[active] /\ lastMeta[active] \in 0..Cells /\ Cells \in Nat
      BY <2>2, <1>1, <1>4, StoreAssumption, Types DEF MetaOf, NInv, StoreAssumption
    <2>4. i \in 1..lastMeta[active]
      BY <2>3
    <2> QED BY <2>1, <2>2, <2>4
  <1>6. PointersWhileCopying(0, lastMeta[active], {})'
    <2>1. ASSUME NEW e \in Element, IsFlash(e)'
          PROVE  /\ PointerInto(active, e)'
                 /\ \E i \in 1..lastMeta'[active] : MetaOf(CellsOf(active), i, e)'
      BY <2>1, <1>5 DEF IsFlash, PointerInto, CellsOf
    <2> QED BY <1>3, <2>1 DEF PointersWhileCopying
  <1> QED BY <1>3, <1>6

LEMMA NvCopyPageKeeps ==
  ASSUME NInv, NvCopyPage PROVE NInv'
  <1>1. todo # <<>> /\ Now.do = "copy" /\ Now = Head(todo)
    BY DEF NvCopyPage, Doing, Now
  <1>2. UNCHANGED <<flash, powered, initialised, active, counter, lastMeta, lastUnerased,
                    copyPending, erase, queue, head, data>>
    BY DEF NvCopyPage, moduleVars, queueVars
  <1> DEFINE t == Tail(todo)
             c == [do |-> "copyNext", from |-> lastMeta[active], meta |-> 1, at |-> Cells + 1]
             u == <<c>> \o t
             es == EraseSteps(Other(active))
  <1>3. /\ powered /\ initialised \in BOOLEAN /\ Allowed(Now, initialised)
        /\ t \in Seq(Steps) /\ Chain(t, initialised)
        /\ t # <<>> => Follows(Now, Second, initialised)
        /\ \A W : Has(t, W) => Has(todo, W)
    BY <1>1, InCall
  <1>4. initialised = TRUE /\ initialised' = TRUE
    BY <1>1, <1>2, <1>3 DEF Allowed, StartSteps
  <1>5. /\ active \in Page /\ Other(active) \in Page /\ Other(active) # active
        /\ lastMeta[active] \in 0..Cells /\ Cells \in Nat
        /\ CellsOf(Other(active)) = flash[Other(active)].cell
    BY Types, StoreAssumption DEF NInv, StoreAssumption
  <1>6. c \in Steps
    <2>1. 1 \in 1..(Cells + 1) /\ Cells + 1 \in 1..(Cells + 1)
      BY <1>5
    <2> QED BY <2>1, <1>5, StepKinds
  <1>7. /\ c.do = "copyNext" /\ c.from = lastMeta[active] /\ c.meta = 1 /\ c.at = Cells + 1
        /\ es \in Seq(Steps) /\ <<c>> \in Seq(Steps)
    BY <1>5, <1>6, StepKinds DEF EraseSteps
  <1> HIDE DEF c, t
  <1>8. /\ Allowed(c, TRUE) /\ c.do \notin Unfinished /\ c.do # "forgetOld"
        /\ c.do \notin FinalSteps
    BY <1>7 DEF Allowed, StartSteps, Unfinished, FinalSteps, RoomSteps
  <1>9. t # <<>> => Follows(c, Head(t), TRUE)
    <2>1. t # <<>> => Follows(Now, Head(t), TRUE)
      BY <1>3, <1>4 DEF Second, t
    <2>2. Now.do \notin Unfinished
      BY <1>1 DEF Unfinished
    <2> QED BY <2>1, <2>2, <1>1, <1>7 DEF Follows, Unfinished
  <1>10. /\ Chain(u, TRUE) /\ u # <<>> /\ Head(u) = c /\ Tail(u) = t
         /\ \A W : Has(u, W) => c.do \in W \/ Has(t, W)
    BY <1>3, <1>4, <1>6, <1>8, <1>9, ChainCons
  <1>11. TypeOK'
    BY <1>2 DEF NInv, TypeOK
  <1>12. /\ ~ Copying /\ ~ Doing("top") /\ ~ Doing("bottom")
    BY <1>1 DEF Copying, Doing, Now
  <1>13. IsBlankPage(Other(active)) => todo' = u
    <2>1. IsBlankPage(Other(active)) => todo' = (<<>> \o <<c>>) \o t
      BY DEF NvCopyPage, Continue, c, t
    <2>2. <<>> \o <<c>> = <<c>>
      BY <1>6, PairOfSteps
    <2> QED BY <2>1, <2>2
  <1>14. ~ IsBlankPage(Other(active)) => todo' = es \o u
    <2>1. ~ IsBlankPage(Other(active)) => todo' = (es \o <<c>>) \o t
      BY DEF NvCopyPage, Continue, c, t
    <2> HIDE DEF es
    <2> QED BY <2>1, <1>3, <1>7, StepsAssociate
  <1> HIDE DEF u
  <1> DEFINE first == [do |-> "erase", page |-> Other(active), sector |-> 1]
  <1>15. /\ Chain(es \o u, TRUE) /\ es \o u # <<>> /\ Head(es \o u) = first
         /\ Tail(es \o u) # <<>> /\ Tail(Tail(es \o u)) = u
         /\ Head(Tail(es \o u)) = [do |-> "erase", page |-> Other(active), sector |-> 2]
         /\ \A W : Has(es \o u, W) => "erase" \in W \/ Has(u, W)
    <2>1. Follows([do |-> "erase", page |-> Other(active), sector |-> 2], Head(u), TRUE)
      BY <1>7, <1>10 DEF Follows, Unfinished
    <2> QED BY <2>1, <1>5, <1>10, EraseChain
  <1> HIDE DEF es
  <1>16. /\ Chain(todo', TRUE) /\ todo' # <<>> /\ Head(todo').do \in {"copyNext", "erase"}
         /\ \A W : Has(todo', W) => W \cap {"copyNext", "erase"} # {} \/ Has(todo, W)
    <2>1. \A W : Has(u, W) => c.do \in W \/ Has(todo, W)
      BY <1>3, <1>10 DEF t
    <2>2. CASE todo' = u
      BY <2>1, <2>2, <1>7, <1>10
    <2>3. CASE todo' = es \o u
      <3>1. Head(todo').do = "erase"
        BY <2>3, <1>15
      <3>2. \A W : Has(todo', W) => "erase" \in W \/ c.do \in W \/ Has(todo, W)
        BY <2>1, <2>3, <1>15
      <3> QED BY <3>1, <3>2, <2>3, <1>7, <1>15
    <2> QED BY <2>2, <2>3, <1>13, <1>14
  <1>17. QueueInv'
    <2>1. /\ Has(todo', RoomSteps \cup {"idleSaved"}) => Has(todo, RoomSteps \cup {"idleSaved"})
          /\ Has(todo', {"makeRoom"}) => Has(todo, {"makeRoom"})
          /\ Has(todo', RoomSteps \cup {"makeRoom"}) => Has(todo, RoomSteps \cup {"makeRoom"})
      BY <1>16 DEF RoomSteps
    <2> QED BY <2>1, <1>2 DEF NInv, QueueInv
  <1>18. TodoInv'
    <2>1. Has(todo', {"forgetOld"}) => erase.pending
      BY <1>16 DEF NInv, TodoInv
    <2> QED BY <2>1, <1>2, <1>4, <1>16 DEF TodoInv, Now
  <1>19. CASE IsBlankPage(Other(active))
    <2>1. todo' = u
      BY <1>13, <1>19
    <2>2. /\ Copying' /\ ~ Doing("erase")' /\ ~ Doing("top")' /\ ~ Doing("bottom")'
          /\ ~ Doing("record")' /\ ~ Doing("meta")' /\ ~ Doing("copyRecord")'
          /\ ~ Doing("copyMeta")' /\ Now' = c /\ todo' # <<>>
      BY <2>1, <1>7, <1>10 DEF Copying, Doing, Now
    <2>3. AllBlank(CellsOf(Other(active))) /\ Erased(Other(active))
      BY <1>19, <1>5 DEF IsBlankPage, AllBlank, BlankBetween, Erased
    <2>4. (/\ Filling(CellsOf(Other(active)), 0, 1, Cells)
           /\ ReachesTo(CellsOf(Other(active)), 0, Cells + 1)
           /\ PointersWhileCopying(0, lastMeta[active], {}))'
      BY <2>3, <1>2, <1>4, <1>11, <1>12, CopyStarts DEF AllBlank, BlankBetween, CellsOf, Other
    <2>5. CopyInv'
      <3>1. c.meta - 1 = 0 /\ c.at = Cells + 1 /\ 0 + 1 = 1 /\ c.at - 1 = Cells
        BY <1>5, <1>7
      <3> QED BY <2>2, <2>4, <3>1, <1>2, <1>7 DEF CopyInv
    <2>6. WriteInv' /\ PointerInv'
      BY <2>2 DEF WriteInv, PointerInv
    <2>7. EraseInv'
      BY <2>2, <1>2, SameErase
    <2>8. CounterInv'
      <3>1. counter # 0 /\ Older(Other(active)) /\ Current(active)
        BY <1>4, <1>12 DEF NInv, CounterInv
      <3>2. (Older(Other(active)) /\ Current(active) /\ Erased(Other(active)))'
        BY <3>1, <2>3, <1>2 DEF Older, Current, Erased, Other, IsValidPage
      <3>3. IsValidPage(1)' /\ IsValidPage(2)' => flash'[1].top # flash'[2].top
        BY <1>2 DEF NInv, CounterInv, IsValidPage
      <3> QED BY <2>2, <3>1, <3>2, <3>3, <1>2, <1>4 DEF CounterInv
    <2>9. FlashInv'
      BY <1>2, <1>3, <2>2, SameFlash DEF PointersKept
    <2> QED BY <1>11, <1>17, <1>18, <2>5, <2>6, <2>7, <2>8, <2>9 DEF NInv
  <1>20. CASE ~ IsBlankPage(Other(active))
    <2>1. todo' = es \o u
      BY <1>14, <1>20
    <2>4. /\ ~ Copying' /\ ~ Doing("top")' /\ ~ Doing("bottom")'
          /\ ~ Doing("record")' /\ ~ Doing("meta")' /\ Now' = first /\ Third' = c
      BY <2>1, <1>10, <1>15 DEF Copying, Doing, Now, Third
    <2>5. PointerInv' /\ CopyInv'
      BY <2>4, <1>2, <1>12, SamePointers DEF PointersKept
    <2>6. WriteInv'
      BY <2>4 DEF WriteInv
    <2>7. EraseInv'
      BY <2>4, <1>2, <1>4, <1>5, <1>7 DEF NInv, EraseInv, Other
    <2>8. CounterInv'
      <3>1. ~ (Doing("erase")' /\ ~ initialised)
        BY <1>4
      <3> QED BY <2>4, <3>1, <1>2, <1>4, <1>12, SameCounters
    <2>9. FlashInv'
      BY <2>4, <1>2, <1>3, SameFlash DEF PointersKept
    <2> QED BY <1>11, <1>17, <1>18, <2>5, <2>6, <2>7, <2>8, <2>9 DEF NInv
  <1> QED BY <1>19, <1>20

-----------------------------------------------------------------------------
(* Erasing a page and writing its counters. *)

LEMMA EraseSectorInitialised ==
  ASSUME NInv, EraseSector, initialised PROVE NInv'
  <1> DEFINE s == Now.sector
  <1>1. todo # <<>> /\ Now.do = "erase" /\ Now = Head(todo) /\ todo' = Tail(todo)
    BY DEF EraseSector, Doing, Now, Return
  <1>2. UNCHANGED <<powered, initialised, active, counter, lastMeta, lastUnerased,
                    copyPending, erase, queue, head, data>>
    BY DEF EraseSector, moduleVars, queueVars
  <1>3. /\ powered /\ Now \in Steps /\ initialised = TRUE
        /\ todo' # <<>> /\ Follows(Now, Second, TRUE) /\ Second = Head(todo')
    BY <1>1, InCall DEF Unfinished, Second, NInv, TypeOK
  <1>4. s \in {1, 2} /\ Now.page \in Page
    BY <1>1, <1>3, StepFields
  <1>5. /\ Now.page = Other(active)
        /\ s = 2 => LowerBlank(CellsOf(Other(active))) /\ flash[Other(active)].top = 0
        /\ s = 1 /\ Third.do = "copyNext" => Third.from = lastMeta[active]
        /\ s = 2 /\ Second.do = "copyNext" => Second.from = lastMeta[active]
    BY <1>1 DEF NInv, EraseInv, Doing, Now
  <1>6. flash' = [flash EXCEPT ![Other(active)] = WithSectorErased(@, s)]
    BY <1>5 DEF EraseSector
  <1>7. \/ /\ s = 1
           /\ Second = [do |-> "erase", page |-> Other(active), sector |-> 2]
        \/ /\ s = 2
           /\ Second.do = "copyNext" /\ Second.meta = 1 /\ Second.at = Cells + 1
        \/ s = 2 /\ Second.do = "forgetOld"
    BY <1>1, <1>3, <1>4, <1>5 DEF Follows
  <1>8. Now' = Second /\ Second' = Third
    BY <1>1, <1>3 DEF Now, Second, Third
  <1>9. /\ ~ Copying /\ ~ Doing("top")' /\ ~ Doing("bottom")' /\ ~ Doing("top")
        /\ ~ Doing("bottom") /\ ~ Doing("record")' /\ ~ Doing("meta")'
        /\ ~ Doing("copyRecord")' /\ ~ Doing("copyMeta")'
        /\ Copying' => s = 2 /\ Second.do = "copyNext"
    BY <1>1, <1>3, <1>7, <1>8 DEF Copying, Doing, Now
  <1>10. erase' \in [pending : BOOLEAN, page : Page, sector : 1..3]
    BY <1>2 DEF NInv, TypeOK
  <1> HIDE DEF s
  <1>11. TypeOK' /\ CounterInv' /\ FlashInv'
    BY <1>2, <1>4, <1>5, <1>6, <1>9, <1>10, AfterOtherErased
  <1>12. /\ flash'[active] = flash[active]
         /\ s = 1 => flash'[Other(active)].top = 0 /\ LowerBlank(flash'[Other(active)].cell)
         /\ s = 2 => flash'[Other(active)].top = 0 /\ AllBlank(flash'[Other(active)].cell)
    <2>1. CellsOf(Other(active)) = flash[Other(active)].cell
      BY DEF CellsOf
    <2> QED BY <2>1, <1>4, <1>5, <1>6, OtherSectorErased
  <1>13. TodoInv' /\ QueueInv'
    <2>1. Second.do = "forgetOld" => erase.pending
      <3>1. Second.do = "forgetOld" => Has(todo', {"forgetOld"})
        <4>1. Chain(todo', TRUE)
          BY <1>1, <1>3, InCall
        <4> QED BY <4>1, <1>3, ChainTail
      <3>2. Has(todo', {"forgetOld"}) => Has(todo, {"forgetOld"})
        BY <1>1, InCall
      <3> QED BY <3>1, <3>2 DEF NInv, TodoInv
    <2>2. erase.pending \/ Head(todo').do \in {"erase", "copyNext"}
      BY <2>1, <1>3, <1>7
    <2> QED BY <2>2, <1>1, <1>2, <1>3, Returns
  <1>14. CopyInv' /\ PointerInv'
    <2>1. CASE Copying'
      <3>1. AllBlank(CellsOf(Other(active)))'
        BY <2>1, <1>2, <1>9, <1>12 DEF AllBlank, BlankBetween, CellsOf, Other
      <3>2. (/\ Filling(CellsOf(Other(active)), 0, 1, Cells)
             /\ ReachesTo(CellsOf(Other(active)), 0, Cells + 1)
             /\ PointersWhileCopying(0, lastMeta[active], {}))'
        BY <3>1, <1>2, <1>9, <1>11, <1>12, CopyStarts
      <3>3. /\ Now'.do = "copyNext" /\ Now'.meta - 1 = 0 /\ Now'.at = Cells + 1
            /\ 0 + 1 = 1 /\ Now'.at - 1 = Cells /\ Now'.from = lastMeta'[active']
        BY <2>1, <1>2, <1>5, <1>7, <1>8, <1>9, StoreAssumption DEF StoreAssumption
      <3> QED BY <2>1, <3>2, <3>3, <1>2, <1>9 DEF CopyInv, PointerInv
    <2>2. CASE ~ Copying'
      BY <2>2, <1>2, <1>9, <1>12, SamePointers DEF PointersKept
    <2> QED BY <2>1, <2>2
  <1>15. WriteInv'
    BY <1>9 DEF WriteInv
  <1>16. EraseInv'
    <2>1. erase.pending => erase.page = Other(active) /\ flash'[Other(active)].top = 0
      BY <1>4, <1>12 DEF NInv, EraseInv
    <2>2. CASE s = 1
      <3>1. /\ Now' = [do |-> "erase", page |-> Other(active), sector |-> 2]
            /\ LowerBlank(CellsOf(Now.page))' /\ flash'[Now'.page].top = 0
        BY <2>2, <1>7, <1>8, <1>12 DEF LowerBlank, BlankBetween, CellsOf
      <3> QED BY <2>1, <2>2, <3>1, <1>2, <1>3, <1>5, <1>8 DEF EraseInv, Other
    <2>3. CASE s = 2
      <3>1. ~ Doing("erase")'
        BY <2>3, <1>7, <1>8 DEF Doing, Now
      <3> QED BY <2>1, <3>1, <1>2, <1>3 DEF EraseInv, Other
    <2> QED BY <2>2, <2>3, <1>4
  <1> QED BY <1>11, <1>13, <1>14, <1>15, <1>16 DEF NInv

\* The storage is formatted before the module is initialised.
LEMMA EraseSectorFormatting ==
  ASSUME NInv, EraseSector, ~ initialised PROVE NInv'
  <1> DEFINE s == Now.sector
             p == Now.page
             q == WithSectorErased(flash[p], s)
  <1>1. todo # <<>> /\ Now.do = "erase" /\ Now = Head(todo) /\ todo' = Tail(todo)
    BY DEF EraseSector, Doing, Now, Return
  <1>2. UNCHANGED <<powered, initialised, active, counter, lastMeta, lastUnerased,
                    copyPending, erase, queue, head, data>>
    BY DEF EraseSector, moduleVars, queueVars
  <1>3. /\ powered /\ Now \in Steps /\ initialised = FALSE
        /\ todo' # <<>> /\ Follows(Now, Second, FALSE) /\ Second = Head(todo')
    BY <1>1, InCall DEF Unfinished, Second, NInv, TypeOK
  <1>4. s \in {1, 2} /\ p \in {1, 2}
    BY <1>1, <1>3, StepFields DEF Page
  <1>5. /\ s = 2 => LowerBlank(flash[p].cell) /\ flash[p].top = 0
        /\ p = 2 => AllBlank(flash[1].cell) /\ Erased(1)
        /\ ~ erase.pending
    BY <1>1, <1>3 DEF NInv, EraseInv, CellsOf, Doing, Now
  <1>6. active = 1 /\ counter = 1
    BY <1>1, <1>3 DEF NInv, CounterInv
  <1>7. flash' = [flash EXCEPT ![p] = q]
    BY DEF EraseSector
  <1>8. \/ s = 1 /\ Second = [do |-> "erase", page |-> p, sector |-> 2]
        \/ s = 2 /\ p = 1 /\ Second = [do |-> "erase", page |-> 2, sector |-> 1]
        \/ s = 2 /\ p = 2 /\ Second = [do |-> "top", page |-> 1]
    BY <1>1, <1>3, <1>4 DEF Follows
  <1>9. Now' = Second
    BY <1>1, <1>3 DEF Now
  <1>10. /\ ~ Copying /\ ~ Copying' /\ ~ Doing("bottom")' /\ ~ Doing("record")'
         /\ ~ Doing("meta")' /\ Now'.do \notin StartSteps /\ todo' # <<>>
         /\ Doing("erase")' => Now'.do = "erase"
         /\ Doing("top")' => Now'.do = "top"
    BY <1>1, <1>3, <1>8, <1>9 DEF Copying, Doing, Now, StartSteps
  <1>11. /\ flash \in [{1, 2} -> [top : Nat, bottom : Nat, cell : Row]]
         /\ flash[p] \in [top : Nat, bottom : Nat, cell : Row]
    BY <1>4, Types DEF NInv, Page
  <1>12. /\ q \in [top : Nat, bottom : Nat, cell : Row]
         /\ s = 1 => q.top = 0 /\ LowerBlank(q.cell)
         /\ s = 2 => /\ q.top = flash[p].top /\ q.bottom = 0
                     /\ LowerBlank(flash[p].cell) => AllBlank(q.cell)
    <2> DEFINE pg == flash[p]
    <2>1. /\ pg \in [top : Nat, bottom : Nat, cell : Row] /\ s \in {1, 2}
          /\ q = WithSectorErased(pg, s) /\ pg = flash[p]
      BY <1>4, <1>11
    <2> HIDE DEF pg, s, p, q
    <2> QED BY <2>1, StoreAssumption, SectorErased
  <1> HIDE DEF s, p, q
  <1>13. /\ flash' \in [{1, 2} -> [top : Nat, bottom : Nat, cell : Row]]
         /\ flash'[p] = q /\ \A r \in {1, 2} : r # p => flash'[r] = flash[r]
    BY <1>4, <1>7, <1>11, <1>12
  <1>14. q.top = 0 /\ (s = 2 => AllBlank(q.cell))
    BY <1>4, <1>5, <1>12
  <1>15. TypeOK'
    BY <1>2, <1>13 DEF NInv, TypeOK, Page, Row
  <1>16. TodoInv' /\ QueueInv'
    <2>1. Has(todo, {"syncCopied"}) => Head(todo').do = "erase" \/ FALSE
      <3>1. ASSUME NEW i \in 1..Len(todo) PROVE todo[i].do # "syncCopied"
        BY <3>1, <1>3 DEF NInv, TodoInv, Chain, Allowed, StartSteps
      <3> QED BY <3>1 DEF Has
    <2> QED BY <2>1, <1>1, <1>2, <1>3, Returns
  <1>17. \A e \in Element : ~ IsFlash(e)
    BY <1>3 DEF NInv, FlashInv
  <1>18. PointerInv' /\ CopyInv'
    <2>1. ~ Doing("copyNext")' /\ ~ Doing("copyRecord")' /\ ~ Doing("copyMeta")'
      BY <1>10 DEF Copying, Doing, Now
    <2>2. \A e \in Element : ~ IsFlash(e)'
      BY <1>2, <1>17 DEF IsFlash
    <2> QED BY <2>1, <2>2 DEF PointerInv, CopyInv
  <1>19. WriteInv'
    BY <1>10 DEF WriteInv
  <1>20. EraseInv'
    <2>1. s = 1 => LowerBlank(flash'[p].cell) /\ flash'[p].top = 0
      BY <1>12, <1>13
    <2>2. s = 2 /\ p = 1 => AllBlank(flash'[1].cell) /\ flash'[1].top = 0 /\ flash'[1].bottom = 0
      BY <1>12, <1>13, <1>14
    <2>3. p = 2 => AllBlank(flash'[1].cell) /\ flash'[1].top = 0 /\ flash'[1].bottom = 0
      BY <1>5, <1>13 DEF Erased
    <2>4. Doing("erase")' =>
            \/ s = 1 /\ Now'.page = p /\ Now'.sector = 2
            \/ s = 2 /\ p = 1 /\ Now'.page = 2 /\ Now'.sector = 1
      BY <1>8, <1>9, <1>10
    <2>5. Doing("erase")' /\ Now'.sector = 2 =>
            LowerBlank(CellsOf(Now.page))' /\ flash'[Now'.page].top = 0
      BY <2>1, <2>4 DEF LowerBlank, BlankBetween, CellsOf
    <2>6. Doing("erase")' /\ Now'.page = 2 => (AllBlank(CellsOf(1)) /\ Erased(1))'
      BY <2>2, <2>3, <2>4, <1>4 DEF AllBlank, BlankBetween, CellsOf, Erased
    <2> QED BY <2>5, <2>6, <1>2, <1>3, <1>5 DEF EraseInv
  <1>21. CounterInv'
    <2>1. ~ (IsValidPage(1)' /\ IsValidPage(2)')
      BY <1>4, <1>13, <1>14 DEF IsValidPage
    <2>2. Doing("top")' => Now'.page = 1 /\ p = 2
      BY <1>8, <1>9, <1>10
    <2>3. p = 2 => Erased(1)' /\ ~ IsValidPage(2)'
      BY <1>5, <1>13, <1>14 DEF IsValidPage, Erased
    <2>4. todo' # <<>> /\ Now'.do \in StartSteps \cup {"top", "bottom"} => Doing("top")'
      BY <1>10 DEF Doing, Now
    <2>5. Other(1) = 2
      BY DEF Other
    <2>6. active' = 1 /\ counter' = 1 /\ initialised' = FALSE
      BY <1>2, <1>3, <1>6
    <2> QED BY <2>1, <2>2, <2>3, <2>4, <2>5, <2>6, <1>10 DEF CounterInv, Older, Erased, IsValidPage
  <1>22. FlashInv'
    <2>1. \A r \in {1, 2} : flash'[r].top # 0 => Sound(flash'[r].cell)
      <3>1. \A r \in {1, 2} : flash[r].top # 0 => Sound(flash[r].cell)
        BY DEF NInv, FlashInv, CellsOf, Page
      <3> QED BY <3>1, <1>13, <1>14
    <2>2. Doing("top")' => AllBlank(flash'[1].cell)
      BY <1>5, <1>8, <1>9, <1>10, <1>13
    <2> QED BY <2>1, <2>2, <1>2, <1>3, <1>17 DEF FlashInv, CellsOf, IsFlash, Page
  <1> QED BY <1>15, <1>16, <1>18, <1>19, <1>20, <1>21, <1>22 DEF NInv

\* The counters are written on the active page, which is sound.
LEMMA AtCounter ==
  ASSUME NInv, todo # <<>>, Now.do \in {"top", "bottom"}, todo' = Tail(todo),
         UNCHANGED <<powered, initialised, active, counter, lastMeta, lastUnerased,
                     copyPending, erase, queue, head, data>>,
         flash' = [flash EXCEPT ![active].top = counter]
           \/ flash' = [flash EXCEPT ![active].bottom = counter]
  PROVE  /\ Now = Head(todo) /\ powered /\ initialised \in BOOLEAN
         /\ Now.page = active /\ counter # 0 /\ Older(Other(active))
         /\ ~ initialised => active = 1 /\ counter = 1 /\ ~ erase.pending
         /\ TypeOK' /\ TodoInv' /\ QueueInv'
         /\ \A p \in Page : p # active => flash'[p] = flash[p]
         /\ \A p \in Page : flash'[p].cell = flash[p].cell
         /\ todo' # <<>> => Follows(Now, Head(todo'), initialised)
         /\ ~ Copying' => PointerInv' /\ CopyInv'
         /\ ~ Doing("erase")' => EraseInv'
  <1>1. /\ Now = Head(todo) /\ powered /\ initialised \in BOOLEAN
        /\ todo' # <<>> => Follows(Now, Head(todo'), initialised)
    BY InCall DEF Second
  <1>2. Now.do = "top" => Doing("top")
    BY DEF Doing, Now
  <1>3. Now.do = "bottom" => Doing("bottom") /\ ~ Doing("top")
    BY DEF Doing, Now
  <1>4. Now.page = active /\ counter # 0 /\ Older(Other(active))
    BY <1>2, <1>3 DEF NInv, CounterInv
  <1>5. ~ initialised => active = 1 /\ counter = 1 /\ ~ erase.pending
    BY DEF NInv, CounterInv, EraseInv
  <1>6. /\ flash \in [Page -> [top : Nat, bottom : Nat, cell : Row]]
        /\ flash[active] \in [top : Nat, bottom : Nat, cell : Row]
        /\ active \in Page /\ counter \in Nat
    BY Types DEF NInv, TypeOK
  <1>7. /\ flash' \in [Page -> [top : Nat, bottom : Nat, cell : Row]]
        /\ \A p \in Page : p # active => flash'[p] = flash[p]
        /\ flash'[active].cell = flash[active].cell
    <2> DEFINE pg == flash[active]
    <2>1. \/ flash' = [flash EXCEPT ![active] = [pg EXCEPT !.top = counter]]
          \/ flash' = [flash EXCEPT ![active] = [pg EXCEPT !.bottom = counter]]
      OBVIOUS
    <2>2. /\ [pg EXCEPT !.top = counter] = [top |-> counter, bottom |-> pg.bottom, cell |-> pg.cell]
          /\ [pg EXCEPT !.bottom = counter] = [top |-> pg.top, bottom |-> counter, cell |-> pg.cell]
          /\ pg.top \in Nat /\ pg.bottom \in Nat /\ pg.cell \in Row
      BY <1>6
    <2>3. PICK q \in [top : Nat, bottom : Nat, cell : Row] :
            q.cell = pg.cell /\ flash' = [flash EXCEPT ![active] = q]
      BY <2>1, <2>2, <1>6
    <2> HIDE DEF pg
    <2>4. flash'[active] = q
      BY <2>3, <1>6
    <2> QED BY <2>3, <2>4, <1>6 DEF pg
  <1>8. \A p \in Page : flash'[p].cell = flash[p].cell
    BY <1>7
  <1>9. TypeOK'
    BY <1>7 DEF NInv, TypeOK, Row
  <1>10. TodoInv' /\ QueueInv'
    <2>1. Has(todo, {"syncCopied"}) => erase.pending
      BY DEF NInv, TodoInv
    <2> QED BY <2>1, Returns
  <1>11. ~ Copying
    BY DEF Copying
  <1>12. ~ Copying' => PointerInv' /\ CopyInv'
    BY <1>7, <1>11, SamePointers DEF PointersKept
  <1>13. ~ Doing("erase")' => EraseInv'
    <2>1. erase.pending => /\ initialised /\ erase.page = Other(active)
                           /\ erase.sector > 1 => flash[erase.page].top = 0
      BY DEF NInv, EraseInv
    <2>2. Other(active) \in Page /\ Other(active) # active
      BY Types DEF NInv
    <2>3. erase.pending => (erase.sector > 1 => flash'[erase.page].top = 0)
      BY <2>1, <2>2, <1>7
    <2> QED BY <2>1, <2>3 DEF EraseInv, Other
  <1> QED BY <1>1, <1>4, <1>5, <1>7, <1>8, <1>9, <1>10, <1>12, <1>13

LEMMA WriteTopCounterKeeps ==
  ASSUME NInv, WriteTopCounter PROVE NInv'
  <1>1. /\ todo # <<>> /\ Now.do = "top" /\ todo' = Tail(todo) /\ Doing("top")
        /\ UNCHANGED <<powered, initialised, active, counter, lastMeta, lastUnerased,
                       copyPending, erase, queue, head, data>>
        /\ flash' = [flash EXCEPT ![Now.page].top = counter]
    BY DEF WriteTopCounter, Doing, Now, Return, moduleVars, queueVars
  <1>2. Now.page = active /\ Erased(active)
    BY <1>1 DEF NInv, CounterInv
  <1>3. /\ Now = Head(todo) /\ powered /\ initialised \in BOOLEAN
        /\ counter # 0 /\ Older(Other(active))
        /\ ~ initialised => active = 1 /\ counter = 1 /\ ~ erase.pending
        /\ TypeOK' /\ TodoInv' /\ QueueInv'
        /\ \A p \in Page : p # active => flash'[p] = flash[p]
        /\ \A p \in Page : flash'[p].cell = flash[p].cell
        /\ todo' # <<>> => Follows(Now, Head(todo'), initialised)
        /\ ~ Copying' => PointerInv' /\ CopyInv'
        /\ ~ Doing("erase")' => EraseInv'
    BY <1>1, <1>2, AtCounter
  <1>4. todo' # <<>>
    BY <1>1, InCall DEF Unfinished
  <1>5. Now' = [do |-> "bottom", page |-> active]
    BY <1>1, <1>2, <1>3, <1>4 DEF Follows, Now
  <1>6. /\ Doing("bottom")' /\ ~ Doing("top")' /\ ~ Copying' /\ ~ Doing("erase")'
        /\ ~ Doing("record")' /\ ~ Doing("meta")' /\ Now'.page = active
    BY <1>4, <1>5 DEF Doing, Now, Copying
  <1>7. flash'[active].top = counter /\ flash'[active].bottom = 0
    BY <1>1, <1>2, Types DEF NInv, Erased
  <1>8. WriteInv'
    BY <1>6 DEF WriteInv
  <1>9. /\ active \in Page /\ Other(active) \in Page /\ Other(active) # active
        /\ \A p \in Page : p = active \/ p = Other(active)
        /\ CellsOf(active) = flash[active].cell /\ CellsOf(active) \in Row
        /\ Page = {1, 2}
    BY Types DEF NInv, Page
  <1>10. CounterInv'
    <2>1. ~ IsValidPage(active)'
      BY <1>1, <1>3, <1>7 DEF IsValidPage
    <2>2. ~ (IsValidPage(1)' /\ IsValidPage(2)')
      BY <2>1, <1>1, <1>9
    <2>3. Older(Other(active))'
      BY <1>1, <1>3, <1>9 DEF Older, IsValidPage, Other
    <2> QED BY <2>2, <2>3, <1>1, <1>3, <1>6, <1>7 DEF CounterInv
  <1>11. Sound(flash[active].cell)
    <2>1. CASE initialised
      BY <2>1, <1>9 DEF NInv, FlashInv
    <2>2. CASE ~ initialised
      <3>1. active = 1 /\ AllBlank(CellsOf(active))
        BY <2>2, <1>1, <1>3 DEF NInv, FlashInv
      <3> QED BY <3>1, <1>9, StoreAssumption, BlankFilling
    <2> QED BY <2>1, <2>2
  <1>12. FlashInv'
    <2>1. \A p \in Page : flash[p].top # 0 => Sound(flash[p].cell)
      BY DEF NInv, FlashInv, CellsOf
    <2>2. \A p \in Page : flash'[p].top # 0 => Sound(flash'[p].cell)
      BY <2>1, <1>3, <1>11
    <2>3. initialised =>
            NewestMeta(flash[active].cell, lastMeta[active], lastUnerased[active])
      BY <1>9 DEF NInv, FlashInv
    <2>4. ~ initialised => \A e \in Element : ~ IsFlash(e)
      BY DEF NInv, FlashInv
    <2> QED BY <2>2, <2>3, <2>4, <1>1, <1>3, <1>6, <1>9, <1>11 DEF FlashInv, CellsOf, IsFlash
  <1> QED BY <1>3, <1>6, <1>8, <1>10, <1>12 DEF NInv

LEMMA WriteBottomCounterKeeps ==
  ASSUME NInv, WriteBottomCounter PROVE NInv'
  <1>1. /\ todo # <<>> /\ Now.do = "bottom" /\ todo' = Tail(todo) /\ Doing("bottom")
        /\ ~ Doing("top")
        /\ UNCHANGED <<powered, initialised, active, counter, lastMeta, lastUnerased,
                       copyPending, erase, queue, head, data>>
        /\ flash' = [flash EXCEPT ![Now.page].bottom = counter]
    BY DEF WriteBottomCounter, Doing, Now, Return, moduleVars, queueVars
  <1>2. Now.page = active /\ flash[active].top = counter
    BY <1>1 DEF NInv, CounterInv
  <1>3. /\ Now = Head(todo) /\ powered /\ initialised \in BOOLEAN
        /\ counter # 0 /\ Older(Other(active))
        /\ TypeOK' /\ TodoInv' /\ QueueInv'
        /\ \A p \in Page : p # active => flash'[p] = flash[p]
        /\ \A p \in Page : flash'[p].cell = flash[p].cell
        /\ todo' # <<>> => Follows(Now, Head(todo'), initialised)
        /\ ~ Copying' => PointerInv' /\ CopyInv'
        /\ ~ Doing("erase")' => EraseInv'
    BY <1>1, <1>2, AtCounter
  <1>4. todo' # <<>> => Quiet(Head(todo'))
    BY <1>1, <1>3
       DEF Follows, Quiet, Unfinished, ElementSteps, RoomSteps, PlainSteps, StartSteps
  <1>5. /\ ~ Doing("bottom")' /\ ~ Doing("top")' /\ ~ Copying' /\ ~ Doing("erase")'
        /\ ~ Doing("record")' /\ ~ Doing("meta")'
    BY <1>4 DEF Doing, Now, Copying, Quiet
  <1>6. flash'[active].top = counter /\ flash'[active].bottom = counter
    BY <1>1, <1>2, Types DEF NInv
  <1>7. WriteInv'
    BY <1>5 DEF WriteInv
  <1>8. /\ active \in Page /\ Other(active) \in Page /\ Other(active) # active
        /\ \A p \in Page : p = active \/ p = Other(active)
        /\ Page = {1, 2} /\ counter \in Nat
        /\ flash[Other(active)].top \in Nat
    BY Types DEF NInv, Page, TypeOK
  <1>9. CounterInv'
    <2>1. Older(Other(active))' /\ Current(active)'
      BY <1>1, <1>3, <1>6, <1>8 DEF Older, IsValidPage, Other, Current
    <2>2. IsValidPage(Other(active))' => flash'[Other(active)].top < flash'[active].top
      BY <2>1, <1>1, <1>6, <1>8 DEF Older, Other, IsValidPage
    <2>3. IsValidPage(1)' /\ IsValidPage(2)' => flash'[1].top # flash'[2].top
      <3>1. flash'[Other(active)].top \in Nat /\ flash'[active].top \in Nat
        BY <1>3, <1>6, <1>8
      <3>2. IsValidPage(Other(active))' => flash'[Other(active)].top # flash'[active].top
        BY <2>2, <3>1
      <3>3. (active = 1 /\ Other(active) = 2) \/ (active = 2 /\ Other(active) = 1)
        BY <1>8 DEF Other
      <3>4. IsValidPage(Other(active))' <=> flash'[Other(active)].top = flash'[Other(active)].bottom
                                            /\ flash'[Other(active)].top # 0
        BY <1>1 DEF IsValidPage, Other
      <3> QED BY <3>2, <3>3, <3>4 DEF IsValidPage
    <2>4. todo' # <<>> => Now'.do \notin {"erase", "top", "bottom"}
      BY <1>4 DEF Quiet, Now
    <2> QED BY <2>1, <2>3, <2>4, <1>1, <1>3, <1>5 DEF CounterInv
  <1>10. FlashInv'
    <2>1. \A p \in Page : flash[p].top # 0 => Sound(flash[p].cell)
      BY DEF NInv, FlashInv, CellsOf
    <2>2. \A p \in Page : flash'[p].top # 0 => Sound(flash'[p].cell)
      BY <2>1, <1>2, <1>3, <1>6
    <2>3. initialised =>
            /\ Sound(flash[active].cell)
            /\ NewestMeta(flash[active].cell, lastMeta[active], lastUnerased[active])
      BY <1>8 DEF NInv, FlashInv, CellsOf
    <2>4. ~ initialised => \A e \in Element : ~ IsFlash(e)
      BY DEF NInv, FlashInv
    <2> QED BY <2>2, <2>3, <2>4, <1>1, <1>3, <1>5, <1>8 DEF FlashInv, CellsOf, IsFlash
  <1> QED BY <1>3, <1>5, <1>7, <1>9, <1>10 DEF NInv

-----------------------------------------------------------------------------
(* A record is written. *)

\* Where NvWriteRecord finds place, both cells are blank and the record lies above the meta.
LEMMA PlaceIsFree ==
  ASSUME NInv, initialised, NEW e \in Element, ~ IsFlash(e),
         FitsFreeSpace(e), LowestRecord # TornOffset, HasPlace(e)
  PROVE  /\ MetaCell \in 1..Cells /\ CellsOf(active)[MetaCell] = Blank
         /\ lastMeta[active] < MetaCell
         /\ \A i \in (lastMeta[active] + 1)..(MetaCell - 1) : CellsOf(active)[i] # Blank
         /\ data[e].at # "null" =>
              /\ RecordCell(e) \in 1..Cells /\ RecordCell(e) + Size(e) <= Cells + 1
              /\ BlankBetween(CellsOf(active), RecordCell(e), RecordCell(e) + Size(e) - 1)
              /\ data[e].at \in {"ram", "caller"}
         /\ LowestRecord \in 3..(Cells + 1) /\ RecordCell(e) \in 0..(Cells + 1)
         /\ RecordSize(e) \in Nat /\ RecordCell(e) + RecordSize(e) <= LowestRecord
         /\ RecordCell(e) > MetaCell + 2
  <1> DEFINE c == CellsOf(active)
             m == lastMeta[active]
             u == lastUnerased[active]
             free == {i \in (m + 1)..Cells : c[i] = Blank}
             size == Size(e)
             below == {i \in 1..(LowestRecord - size) :
                         /\ (LowestRecord - i) % size = 0
                         /\ \A j \in i..(i + size - 1) : c[j] = Blank}
  <1>1. /\ c = flash[active].cell /\ c \in Row /\ m \in 0..Cells /\ u \in 0..Cells
        /\ Cells \in Nat /\ data[e] \in Pointer /\ active \in Page
        /\ size \in Nat /\ size >= 1
    BY Types, StoreAssumption, SizeFacts DEF NInv
  <1>2. NewestMeta(c, m, u)
    BY DEF NInv, FlashInv
  <1>3. \A i \in 1..Cells : IsMeta(c[i]) => c[i].at \in 0..Cells
    BY <1>1, CellFacts DEF Row
  <1>4. LowestRecord \in 0..(Cells + 1)
    <2>1. m = 0 => LowestRecord = Cells + 1
      BY DEF LowestRecord
    <2>2. m # 0 /\ u = 0 => LowestRecord = 0
      BY DEF LowestRecord
    <2>3. m # 0 /\ u # 0 => LowestRecord = RecordOffset(c[u])
      BY <1>1 DEF LowestRecord
    <2>4. u # 0 => u \in 1..Cells
      BY <1>1
    <2>5. u # 0 /\ RecordOffset(c[u]) # TornOffset => RecordOffset(c[u]) \in 0..Cells
      BY <2>4, <1>3 DEF RecordOffset
    <2> HIDE DEF c, m, u
    <2> QED BY <2>1, <2>2, <2>3, <2>5, <1>1
  <1>5. FreeSpace = LowestRecord - (m + 1) \/ FreeSpace = 0
    <2>1. CASE m = 0
      <3>1. FreeSpace = Cells /\ LowestRecord = Cells + 1
        BY <2>1 DEF FreeSpace, LowestRecord
      <3> HIDE DEF m
      <3> QED BY <3>1, <2>1, <1>1
    <2>2. CASE m # 0
      <3>1. m \in 1..Cells /\ IsMeta(c[m]) /\ (c[m].at # 0 => u = m)
        BY <2>2, <1>1, <1>2 DEF NewestMeta
      <3>2. RecordOffset(c[m]) = c[m].at
        BY <3>1 DEF RecordOffset
      <3>3. c[m].at # 0 => FreeSpace = c[m].at - (m + 1) /\ LowestRecord = c[m].at
        BY <2>2, <3>1, <3>2, <1>1 DEF FreeSpace, LowestRecord
      <3>4. c[m].at = 0 => FreeSpace = 0 \/ FreeSpace = LowestRecord - (m + 1)
        BY <2>2, <3>1, <3>2, <1>1 DEF FreeSpace
      <3> HIDE DEF c, m
      <3> QED BY <3>3, <3>4
    <2> QED BY <2>1, <2>2
  <1>6. /\ RecordSize(e) \in {0, size} /\ RecordSize(e) \in Nat
        /\ RecordSize(e) = 0 <=> data[e].at = "null"
        /\ RecordSize(e) # 0 => RecordSize(e) = size
    BY <1>1 DEF RecordSize
  <1>7. MetaCell = Min(free \cup {Cells + 1})
    BY <1>1 DEF MetaCell, IsBlankCell
  <1>8. RecordCell(e) = IF RecordSize(e) = 0 THEN LowestRecord ELSE Newest(below)
    BY <1>1 DEF RecordCell, IsBlankCell
  <1> HIDE DEF c, m, u, size
  <1>9. /\ MetaCell \in (m + 1)..(Cells + 1)
        /\ MetaCell = Cells + 1 \/ MetaCell \in free
        /\ \A y \in free : MetaCell <= y
    <2>1. m + 1 \in Nat /\ m + 1 <= Cells + 1 /\ free \in SUBSET ((m + 1)..Cells)
      BY <1>1
    <2> HIDE DEF free
    <2> QED BY <2>1, <1>1, <1>7, FirstPlace
  <1>10. FreeSpace = LowestRecord - (m + 1) /\ LowestRecord >= 3
    <2>1. RecordSize(e) + 2 <= FreeSpace
      BY DEF FitsFreeSpace
    <2> QED BY <2>1, <1>1, <1>4, <1>5, <1>6
  <1>11. RecordSize(e) # 0 => /\ RecordCell(e) \in 0..(LowestRecord - size)
                              /\ RecordCell(e) # 0 => RecordCell(e) \in below
    <2>1. RecordSize(e) # 0 => LowestRecord - size \in Nat
      <3>1. RecordSize(e) + 2 <= FreeSpace
        BY DEF FitsFreeSpace
      <3> QED BY <3>1, <1>1, <1>4, <1>6, <1>10
    <2>2. below \in SUBSET (1..(LowestRecord - size))
      OBVIOUS
    <2> HIDE DEF below
    <2> QED BY <2>1, <2>2, <1>8, LastPlace
  <1>12. /\ RecordCell(e) \in 0..(Cells + 1)
         /\ RecordCell(e) + RecordSize(e) <= LowestRecord
    BY <1>1, <1>4, <1>6, <1>8, <1>10, <1>11
  <1>13. RecordCell(e) > MetaCell + 2
    <2>1. RecordSize(e) + 2 < FreeSpace
              - ((LowestRecord - RecordSize(e) - RecordCell(e)) + (MetaCell - m - 1))
      BY DEF HasPlace, PassedOver, m
    <2>2. MetaCell \in Int /\ RecordCell(e) \in Int /\ m \in Int /\ LowestRecord \in Int
          /\ RecordSize(e) \in Int
      BY <1>1, <1>4, <1>6, <1>9, <1>12
    <2> QED BY <2>1, <2>2, <1>10
  <1>14. MetaCell \in 1..Cells /\ m < MetaCell /\ MetaCell \in free
    BY <1>1, <1>9, <1>12, <1>13
  <1>15. \A i \in (m + 1)..(MetaCell - 1) : c[i] # Blank
    <2>1. \A i \in (m + 1)..(MetaCell - 1) : i \in (m + 1)..Cells /\ ~ (MetaCell <= i)
      BY <1>1, <1>14
    <2> QED BY <2>1, <1>9
  <1>16. RecordSize(e) # 0 =>
           /\ RecordCell(e) \in 1..Cells /\ RecordCell(e) + size <= Cells + 1
           /\ BlankBetween(c, RecordCell(e), RecordCell(e) + size - 1)
    <2> SUFFICES ASSUME RecordSize(e) # 0
                 PROVE  /\ RecordCell(e) \in 1..Cells /\ RecordCell(e) + size <= Cells + 1
                        /\ BlankBetween(c, RecordCell(e), RecordCell(e) + size - 1)
      OBVIOUS
    <2>1. RecordCell(e) # 0
      BY <1>9, <1>12, <1>13, <1>1
    <2>2. RecordCell(e) \in below
      BY <2>1, <1>11
    <2>3. \A j \in RecordCell(e)..(RecordCell(e) + size - 1) : c[j] = Blank
      BY <2>2
    <2>4. RecordCell(e) + size <= LowestRecord
      BY <1>6, <1>12
    <2> QED BY <2>1, <2>3, <2>4, <1>1, <1>4, <1>12 DEF BlankBetween
  <1>17. data[e].at # "null" => data[e].at \in {"ram", "caller"}
    BY <1>1, PointerFacts DEF IsFlash
  <1>19. LowestRecord \in 3..(Cells + 1)
    BY <1>1, <1>4, <1>10
  <1> QED BY <1>6, <1>12, <1>13, <1>14, <1>15, <1>16, <1>17, <1>19 DEF c, m, size

LEMMA NvWriteRecordKeeps ==
  ASSUME NInv, NvWriteRecord PROVE NInv'
  <1> DEFINE e == Now.element
             t == Tail(todo)
  <1>1. /\ todo # <<>> /\ Now.do = "write" /\ Now = Head(todo)
        /\ Quiet(Now) /\ Now.do # "copy" /\ Now.do # "forgetOld"
    BY DEF NvWriteRecord, Doing, Now, Quiet
  <1>2. /\ UNCHANGED <<flash, powered, initialised, active, counter, lastMeta, lastUnerased,
                       erase, data, queue, head>>
        /\ UNCHANGED QuietVars
    BY DEF NvWriteRecord, QuietVars, queueVars
  <1>3. /\ powered /\ Now \in Steps /\ initialised \in BOOLEAN /\ Allowed(Now, initialised)
        /\ t \in Seq(Steps) /\ Chain(t, initialised)
        /\ t # <<>> => Follows(Now, Head(t), initialised)
        /\ \A W : Has(t, W) => Has(todo, W)
    BY <1>1, InCall DEF Second
  <1>4. initialised = TRUE /\ initialised' = TRUE
    BY <1>1, <1>2, <1>3 DEF Allowed, StartSteps
  <1>5. e \in Element /\ copyPending \in BOOLEAN
    BY <1>1, <1>3, StepFields, QueueFacts DEF ElementSteps
  <1>6. \/ /\ todo' = t /\ copyPending' \in BOOLEAN
        \/ /\ FitsFreeSpace(e) /\ ~ IsFlash(e) /\ LowestRecord # TornOffset /\ HasPlace(e)
           /\ Continue((IF PlaceFor(e).at = 0 THEN <<>> ELSE <<Step("record", PlaceFor(e))>>)
                            \o <<Step("meta", PlaceFor(e))>>)
           /\ copyPending' = copyPending
    BY <1>5 DEF NvWriteRecord, Return
  <1>7. CASE todo' = t /\ copyPending' \in BOOLEAN
    BY <1>1, <1>2, <1>7, ReturnsQuietly
  <1>8. CASE /\ FitsFreeSpace(e) /\ ~ IsFlash(e) /\ LowestRecord # TornOffset /\ HasPlace(e)
             /\ Continue((IF PlaceFor(e).at = 0 THEN <<>> ELSE <<Step("record", PlaceFor(e))>>)
                              \o <<Step("meta", PlaceFor(e))>>)
             /\ copyPending' = copyPending
    <2> DEFINE at == PlaceFor(e).at
               k == PlaceFor(e).meta
               r == Step("record", PlaceFor(e))
               w == Step("meta", PlaceFor(e))
               u == <<w>> \o t
    <2>1. /\ MetaCell \in 1..Cells /\ CellsOf(active)[MetaCell] = Blank
          /\ lastMeta[active] < MetaCell
          /\ \A i \in (lastMeta[active] + 1)..(MetaCell - 1) : CellsOf(active)[i] # Blank
          /\ data[e].at # "null" =>
               /\ RecordCell(e) \in 1..Cells /\ RecordCell(e) + Size(e) <= Cells + 1
               /\ BlankBetween(CellsOf(active), RecordCell(e), RecordCell(e) + Size(e) - 1)
               /\ MetaCell < RecordCell(e) /\ data[e].at \in {"ram", "caller"}
      <3> HIDE DEF e
      <3>1. /\ MetaCell \in 1..Cells /\ RecordCell(e) > MetaCell + 2
            /\ RecordCell(e) \in 0..(Cells + 1)
        BY <1>4, <1>5, <1>8, PlaceIsFree
      <3>2. MetaCell < RecordCell(e)
        BY <3>1
      <3> QED BY <3>2, <1>4, <1>5, <1>8, PlaceIsFree
    <2>2. /\ k = MetaCell /\ PlaceFor(e).element = e
          /\ data[e].at = "null" => at = 0
          /\ data[e].at # "null" => at = RecordCell(e)
      <3>1. Size(e) # 0
        BY <1>5, StoreAssumption, SizeFacts
      <3> QED BY <3>1 DEF PlaceFor, RecordSize
    <2>3. Cells \in Nat /\ at \in 0..Cells /\ (at # 0 => at \in 1..Cells)
      <3> HIDE DEF at
      <3>1. Cells \in Nat
        BY StoreAssumption DEF StoreAssumption
      <3> QED BY <2>1, <2>2, <3>1
    <2>4. /\ w = [do |-> "meta", element |-> e, at |-> at, meta |-> k]
          /\ r = [do |-> "record", element |-> e, at |-> at, meta |-> k]
      BY <2>2 DEF Step
    <2> HIDE DEF e, at, k, r, w, t
    <2>5. w \in Steps /\ (at # 0 => r \in Steps)
      BY <2>1, <2>2, <2>3, <2>4, <1>5, StepKinds
    <2>6. /\ w.do = "meta" /\ w.element = e /\ w.at = at /\ w.meta = k
          /\ r.do = "record" /\ r.element = e /\ r.at = at /\ r.meta = k
      BY <2>4
    <2>7. /\ Allowed(w, TRUE) /\ w.do \notin Unfinished /\ w.do # "forgetOld"
          /\ w.do \notin FinalSteps /\ Allowed(r, TRUE) /\ r.do # "forgetOld"
          /\ r.do \notin FinalSteps /\ Follows(r, w, TRUE)
      BY <2>4, <2>6 DEF Allowed, StartSteps, Unfinished, FinalSteps, RoomSteps, Follows
    <2>8. t # <<>> => Follows(w, Head(t), TRUE)
      BY <1>1, <1>3, <1>4, <2>6, <2>7 DEF Follows, Unfinished
    <2>9. /\ Chain(u, TRUE) /\ u # <<>> /\ Head(u) = w
          /\ \A W : Has(u, W) => w.do \in W \/ Has(t, W)
      BY <1>3, <1>4, <2>5, <2>7, <2>8, ChainCons
    <2>10. at = 0 => todo' = u
      <3>1. at = 0 => todo' = (<<>> \o <<w>>) \o t
        BY <1>8 DEF Continue, at, w, e, t
      <3>2. <<>> \o <<w>> = <<w>>
        BY <2>5, PairOfSteps
      <3> QED BY <3>1, <3>2
    <2>11. at # 0 => todo' = <<r>> \o u
      <3>1. at # 0 => todo' = (<<r>> \o <<w>>) \o t
        BY <1>8 DEF Continue, at, r, w, e, t
      <3>2. at # 0 => <<r>> \in Seq(Steps) /\ <<w>> \in Seq(Steps)
        BY <2>5
      <3>3. at # 0 => (<<r>> \o <<w>>) \o t = <<r>> \o u
        BY <3>2, <1>3, StepsAssociate
      <3> QED BY <3>1, <3>3
    <2> HIDE DEF u
    <2>12. at # 0 => /\ Chain(<<r>> \o u, TRUE) /\ <<r>> \o u # <<>>
                     /\ Head(<<r>> \o u) = r
                     /\ \A W : Has(<<r>> \o u, W) => r.do \in W \/ Has(u, W)
      BY <2>5, <2>7, <2>9, ChainCons
    <2>13. /\ Chain(todo', TRUE) /\ todo' # <<>>
           /\ \/ at = 0 /\ Head(todo') = w
              \/ at # 0 /\ Head(todo') = r
           /\ \A W : Has(todo', W) => W \cap {"record", "meta"} # {} \/ Has(todo, W)
      <3>1. CASE at = 0
        BY <3>1, <2>6, <2>9, <2>10, <1>3
      <3>2. CASE at # 0
        <4>1. todo' = <<r>> \o u
          BY <3>2, <2>11
        <4>2. \A W : Has(todo', W) => "record" \in W \/ "meta" \in W \/ Has(todo, W)
          BY <3>2, <4>1, <2>6, <2>9, <2>12, <1>3
        <4> QED BY <3>2, <4>1, <4>2, <2>12
      <3> QED BY <3>1, <3>2
    <2>14. /\ ~ Copying /\ ~ Copying' /\ ~ Doing("top")' /\ ~ Doing("bottom")'
           /\ ~ Doing("top") /\ ~ Doing("bottom") /\ ~ Doing("erase")'
           /\ Doing("record")' => at # 0 /\ Now' = r
           /\ Doing("meta")' => at = 0 /\ Now' = w
           /\ Now'.element = e /\ Now'.at = at /\ Now'.meta = k
           /\ Head(todo').do \notin StartSteps
      BY <1>1, <2>6, <2>13 DEF Copying, Doing, Now, StartSteps
    <2>15. TypeOK'
      BY <1>2, <1>8 DEF NInv, TypeOK
    <2>16. TodoInv'
      <3>1. Has(todo', {"forgetOld"}) => erase.pending
        BY <2>13 DEF NInv, TodoInv
      <3>2. Has(todo', {"syncCopied"}) => erase.pending
        BY <1>1, <2>13 DEF NInv, TodoInv
      <3> QED BY <3>1, <3>2, <1>2, <1>4, <2>13 DEF TodoInv
    <2>17. QueueInv'
      <3>1. /\ Has(todo', RoomSteps \cup {"idleSaved"}) => Has(todo, RoomSteps \cup {"idleSaved"})
            /\ Has(todo', {"makeRoom"}) => Has(todo, {"makeRoom"})
            /\ Has(todo', RoomSteps \cup {"makeRoom"}) => Has(todo, RoomSteps \cup {"makeRoom"})
        BY <2>13 DEF RoomSteps
      <3> QED BY <3>1, <1>2 DEF NInv, QueueInv
    <2>18. PointerInv' /\ CopyInv'
      BY <1>2, <2>14, SamePointers DEF PointersKept
    <2>19. WriteInv'
      <3>1. at # 0 => /\ data[e].at \in {"ram", "caller"} /\ k < at
                      /\ at + Size(e) <= Cells + 1
                      /\ BlankBetween(flash[active].cell, at, at + Size(e) - 1)
        BY <2>1, <2>2 DEF CellsOf
      <3>2. /\ flash[active].cell[k] = Blank /\ lastMeta[active] < k
            /\ \A i \in (lastMeta[active] + 1)..(k - 1) : flash[active].cell[i] # Blank
        BY <2>1, <2>2 DEF CellsOf
      <3>3. ~ (data[e].at = "flash")
        BY <1>8 DEF IsFlash, e
      <3> QED BY <3>1, <3>2, <3>3, <1>2, <2>14 DEF WriteInv, CellsOf, IsFlash
    <2>20. EraseInv'
      BY <1>2, <2>14, SameErase
    <2>21. CounterInv'
      BY <1>2, <1>4, <2>14, SameCounters
    <2>22. FlashInv'
      BY <1>2, <1>3, <2>14, SameFlash DEF PointersKept
    <2> QED BY <2>15, <2>16, <2>17, <2>18, <2>19, <2>20, <2>21, <2>22 DEF NInv
  <1> QED BY <1>6, <1>7, <1>8

LEMMA CellProgrammed ==
  ASSUME TypeOK, NEW p \in Page, NEW k, NEW n, NEW x \in Cell,
         flash' = Programmed(p, k, n, x)
  PROVE  /\ flash' \in [Page -> [top : Nat, bottom : Nat, cell : Row]]
         /\ \A r \in Page : r # p => flash'[r] = flash[r]
         /\ \A r \in Page : flash'[r].top = flash[r].top /\ flash'[r].bottom = flash[r].bottom
         /\ flash'[p].cell = Programming(CellsOf(p), k, n, x)
  <1> DEFINE pg == flash[p]
             row == Programming(pg.cell, k, n, x)
             q == [pg EXCEPT !.cell = row]
  <1>1. /\ flash \in [Page -> [top : Nat, bottom : Nat, cell : Row]]
        /\ pg \in [top : Nat, bottom : Nat, cell : Row] /\ CellsOf(p) = pg.cell
    BY Types
  <1>2. flash' = [flash EXCEPT ![p] = q]
    BY DEF Programmed
  <1>3. pg.top \in Nat /\ pg.bottom \in Nat /\ pg.cell \in Row
    BY <1>1
  <1>4. row \in Row
    <2> HIDE DEF pg
    <2> QED BY <1>3, ProgrammingIs
  <1> HIDE DEF row
  <1>5. q = [top |-> pg.top, bottom |-> pg.bottom, cell |-> row]
    BY <1>1
  <1>6. /\ q \in [top : Nat, bottom : Nat, cell : Row]
        /\ q.top = pg.top /\ q.bottom = pg.bottom /\ q.cell = row
    BY <1>3, <1>4, <1>5
  <1> HIDE DEF q
  <1>7. /\ flash' \in [Page -> [top : Nat, bottom : Nat, cell : Row]]
        /\ flash'[p] = q /\ \A r \in Page : r # p => flash'[r] = flash[r]
    BY <1>1, <1>2, <1>6
  <1>8. \A r \in Page : flash'[r].top = flash[r].top /\ flash'[r].bottom = flash[r].bottom
    BY <1>6, <1>7
  <1> QED BY <1>1, <1>6, <1>7, <1>8 DEF row

\* Cells are programmed, but no counter.
LEMMA CountersKept ==
  ASSUME NInv, initialised, UNCHANGED <<initialised, active, counter, erase>>,
         \A r \in Page : flash'[r].top = flash[r].top /\ flash'[r].bottom = flash[r].bottom,
         ~ Doing("top"), ~ Doing("bottom"), ~ Doing("top")', ~ Doing("bottom")',
         ~ Doing("erase")', Copying' => Copying
  PROVE  EraseInv' /\ CounterInv'
  <1>1. active \in Page /\ Other(active) \in Page /\ 1 \in Page /\ 2 \in Page
    BY Types DEF NInv, Page
  <1>2. \A r \in Page : IsValidPage(r)' <=> IsValidPage(r)
    BY DEF IsValidPage
  <1>3. EraseInv'
    <2>1. erase.pending => /\ erase.page = Other(active)
                           /\ erase.sector > 1 => flash[erase.page].top = 0
      BY DEF NInv, EraseInv
    <2>2. erase.pending => (erase.sector > 1 => flash'[erase.page].top = 0)
      BY <2>1, <1>1
    <2> QED BY <2>1, <2>2 DEF EraseInv, Other
  <1>4. CounterInv'
    <2>1. counter # 0 /\ Older(Other(active)) /\ Current(active)
      BY DEF NInv, CounterInv
    <2>2. Older(Other(active))' /\ Current(active)'
      BY <2>1, <1>1 DEF Older, Current, IsValidPage, Other
    <2>3. Copying' => Erased(Other(active))'
      BY <1>1 DEF NInv, CounterInv, Erased, Other
    <2>4. IsValidPage(1)' /\ IsValidPage(2)' => flash'[1].top # flash'[2].top
      BY <1>1, <1>2 DEF NInv, CounterInv
    <2> QED BY <2>1, <2>2, <2>3, <2>4 DEF CounterInv
  <1> QED BY <1>3, <1>4

LEMMA ProgramRecordKeeps ==
  ASSUME NInv, ProgramRecord PROVE NInv'
  <1> DEFINE e == Now.element
             at == Now.at
             k == Now.meta
             n == Size(e)
             x == Record(data[e].value)
             c == CellsOf(active)
             d == flash'[active].cell
  <1>1. /\ todo # <<>> /\ Now.do = "record" /\ Now = Head(todo) /\ todo' = Tail(todo)
        /\ Doing("record")
    BY DEF ProgramRecord, Doing, Now, Return
  <1>2. UNCHANGED <<powered, initialised, active, counter, lastMeta, lastUnerased,
                    copyPending, erase, queue, head, data>>
    BY DEF ProgramRecord, moduleVars, queueVars
  <1>3. /\ powered /\ Now \in Steps /\ initialised \in BOOLEAN /\ Allowed(Now, initialised)
        /\ todo' # <<>> /\ Follows(Now, Head(todo'), initialised)
    BY <1>1, InCall DEF Second, Unfinished
  <1>4. initialised = TRUE
    BY <1>1, <1>3 DEF Allowed, StartSteps
  <1>5. e \in Element /\ at \in 1..Cells /\ k \in 1..Cells
    BY <1>1, <1>3, StepFields
  <1>6. Head(todo') = [do |-> "meta", element |-> e, at |-> at, meta |-> k]
    BY <1>1, <1>3 DEF Follows
  <1>7. /\ at + n <= Cells + 1 /\ BlankBetween(c, at, at + n - 1)
        /\ data[e].at \in {"ram", "caller"} /\ k < at
        /\ c[k] = Blank /\ lastMeta[active] < k
        /\ \A i \in (lastMeta[active] + 1)..(k - 1) : c[i] # Blank
    BY <1>1 DEF NInv, WriteInv
  <1>8. flash' = Programmed(active, at, n, x)
    BY DEF ProgramRecord
  <1>9. /\ active \in Page /\ c \in Row /\ data[e] \in Pointer
        /\ lastMeta[active] \in 0..Cells /\ Cells \in Nat /\ n \in Nat
    BY <1>5, Types, StoreAssumption, SizeFacts DEF NInv
  <1>10. data[e].value \in Value
    BY <1>7, <1>9, PointerFacts
  <1>11. x \in Cell /\ x # Blank /\ ~ IsMeta(x) /\ x.kind = "record"
    BY <1>10, CellFacts
  <1>25. PICK v \in Value : v = data[e].value /\ x = Record(v)
    BY <1>10
  <1> HIDE DEF e, at, k, x, n
  <1>12. /\ flash' \in [Page -> [top : Nat, bottom : Nat, cell : Row]]
         /\ \A r \in Page : r # active => flash'[r] = flash[r]
         /\ \A r \in Page : flash'[r].top = flash[r].top /\ flash'[r].bottom = flash[r].bottom
         /\ d = Programming(c, at, n, x)
    BY <1>8, <1>9, <1>11, CellProgrammed DEF NInv
  <1>13. Sound(c) /\ NewestMeta(c, lastMeta[active], lastUnerased[active])
    BY <1>4 DEF NInv, FlashInv
  <1>14. \A f \in Element : IsFlash(f) =>
           /\ data[f].page = active /\ PointsInto(c, f, data[f].cell)
           /\ data[f].cell \in 1..Cells
    BY <1>1, Types DEF NInv, PointerInv, Copying, PointerInto
  <1> HIDE DEF c, d
  <1>15. /\ Sound(d) /\ NewestMeta(d, lastMeta[active], lastUnerased[active])
         /\ \A f \in Element : IsFlash(f) => PointsInto(d, f, data[f].cell)
    BY <1>5, <1>7, <1>9, <1>11, <1>12, <1>13, <1>14, StoreAssumption, ProgramData
  <1>16. \A i \in 1..Cells : d[i] = IF i \in at..(at + n - 1) THEN x ELSE c[i]
    BY <1>9, <1>11, <1>12, ProgrammingIs
  <1>17. Now'.do = "meta" /\ Now'.element = e /\ Now'.at = at /\ Now'.meta = k
    BY <1>6 DEF Now
  <1>18. /\ ~ Copying /\ ~ Copying' /\ ~ Doing("top")' /\ ~ Doing("bottom")'
         /\ ~ Doing("top") /\ ~ Doing("bottom") /\ ~ Doing("erase")' /\ ~ Doing("record")'
         /\ ~ Doing("copyNext")' /\ ~ Doing("copyRecord")' /\ ~ Doing("copyMeta")'
    BY <1>1, <1>17 DEF Copying, Doing, Now
  <1>19. TypeOK'
    BY <1>2, <1>12 DEF NInv, TypeOK, Row
  <1>20. TodoInv' /\ QueueInv'
    <2>1. Has(todo, {"syncCopied"}) => erase.pending
      BY <1>1 DEF NInv, TodoInv
    <2> QED BY <2>1, <1>1, <1>2, Returns
  <1>21. PointerInv' /\ CopyInv'
    BY <1>2, <1>14, <1>15, <1>18 DEF PointerInv, CopyInv, PointerInto, CellsOf, IsFlash, d
  <1>22. WriteInv'
    <2>1. IsRecord(d, at, e) /\ d[k] = Blank
      <3>1. d = Programming(c, at, Size(e), Record(v)) /\ v \in Value \cup {Junk}
        BY <1>12, <1>25 DEF n
      <3>2. at + Size(e) <= Cells + 1
        BY <1>7 DEF n
      <3>3. IsRecord(d, at, e)
        BY <3>1, <3>2, <1>5, <1>9, StoreAssumption, RecordProgrammed
      <3>4. ~ (k \in at..(at + n - 1))
        BY <1>5, <1>7, <1>9
      <3> QED BY <3>3, <3>4, <1>5, <1>7, <1>16
    <2>2. \A i \in (lastMeta[active] + 1)..(k - 1) : d[i] # Blank
      <3> TAKE i \in (lastMeta[active] + 1)..(k - 1)
      <3>1. i \in 1..Cells
        BY <1>5, <1>9
      <3> QED BY <3>1, <1>7, <1>11, <1>16
    <2>3. ~ (data[e].at = "flash")
      BY <1>7
    <2> QED BY <2>1, <2>2, <2>3, <1>2, <1>7, <1>17, <1>18 DEF WriteInv, CellsOf, IsFlash, d
  <1>23. EraseInv' /\ CounterInv'
    BY <1>2, <1>4, <1>12, <1>18, CountersKept
  <1>24. FlashInv'
    <2>1. \A r \in Page : flash[r].top # 0 => Sound(flash[r].cell)
      BY DEF NInv, FlashInv, CellsOf
    <2>2. \A r \in Page : flash'[r].top # 0 => Sound(flash'[r].cell)
      BY <2>1, <1>12, <1>15 DEF d
    <2> QED BY <2>2, <1>2, <1>3, <1>4, <1>15 DEF FlashInv, CellsOf, d
  <1> QED BY <1>19, <1>20, <1>21, <1>22, <1>23, <1>24 DEF NInv

LEMMA ProgramMetaKeeps ==
  ASSUME NInv, ProgramMeta PROVE NInv'
  <1> DEFINE e == Now.element
             at == Now.at
             k == Now.meta
             x == Meta(e, at)
             m == lastMeta[active]
             u == lastUnerased[active]
             c == CellsOf(active)
             d == flash'[active].cell
  <1>1. /\ todo # <<>> /\ Now.do = "meta" /\ Now = Head(todo) /\ todo' = Tail(todo)
        /\ Doing("meta")
    BY DEF ProgramMeta, Doing, Now, Return
  <1>2. /\ UNCHANGED <<powered, initialised, active, counter, copyPending, erase, queue, head>>
        /\ lastMeta' = [lastMeta EXCEPT ![active] = k]
        /\ lastUnerased' = IF at = 0 THEN lastUnerased ELSE [lastUnerased EXCEPT ![active] = k]
        /\ data' = IF at = 0 THEN data ELSE [data EXCEPT ![e] = FlashPointer(active, at)]
    BY DEF ProgramMeta, queueVars
  <1>3. /\ powered /\ Now \in Steps /\ initialised \in BOOLEAN /\ Allowed(Now, initialised)
        /\ todo' # <<>> => Follows(Now, Head(todo'), initialised)
    BY <1>1, InCall DEF Second
  <1>4. initialised = TRUE
    BY <1>1, <1>3 DEF Allowed, StartSteps
  <1>5. e \in Element /\ at \in 0..Cells /\ k \in 1..Cells
    BY <1>1, <1>3, StepFields
  <1>6. todo' # <<>> => Quiet(Head(todo'))
    BY <1>1, <1>3
       DEF Follows, Quiet, Unfinished, ElementSteps, RoomSteps, PlainSteps, StartSteps
  <1>7. /\ at # 0 => IsRecord(c, at, e)
        /\ c[k] = Blank /\ m < k /\ \A i \in (m + 1)..(k - 1) : c[i] # Blank
        /\ ~ IsFlash(e)
    BY <1>1 DEF NInv, WriteInv
  <1>8. flash' = Programmed(active, k, 1, x)
    BY DEF ProgramMeta
  <1>9. /\ active \in Page /\ c \in Row /\ m \in 0..Cells /\ u \in 0..Cells /\ Cells \in Nat
        /\ lastMeta \in [Page -> 0..Cells] /\ lastUnerased \in [Page -> 0..Cells]
        /\ data \in [Element -> Pointer]
    BY Types, StoreAssumption DEF NInv, StoreAssumption, TypeOK
  <1>10. x \in Cell
    BY <1>5, CellFacts
  <1>11. Sound(c) /\ NewestMeta(c, m, u)
    BY <1>4 DEF NInv, FlashInv
  <1>12. \A f \in Element : IsFlash(f) =>
           /\ data[f].page = active /\ PointsInto(c, f, data[f].cell)
           /\ data[f].cell \in 1..Cells
    BY <1>1, Types DEF NInv, PointerInv, Copying, PointerInto
  <1> HIDE DEF e, at, k, m, u, c
  <1>13. /\ flash' \in [Page -> [top : Nat, bottom : Nat, cell : Row]]
         /\ \A r \in Page : r # active => flash'[r] = flash[r]
         /\ \A r \in Page : flash'[r].top = flash[r].top /\ flash'[r].bottom = flash[r].bottom
         /\ d = Programming(c, k, 1, x)
    <2> HIDE DEF x
    <2> QED BY <1>5, <1>8, <1>9, <1>10, CellProgrammed DEF NInv, c
  <1> HIDE DEF d
  <1>14. /\ Sound(d) /\ NewestMeta(d, k, IF at = 0 THEN u ELSE k)
         /\ at # 0 => PointsInto(d, e, at)
         /\ \A f, a : f # e /\ a \in 1..Cells /\ PointsInto(c, f, a) => PointsInto(d, f, a)
    <2>1. \A i \in (m + 1)..(k - 1) : c[i] # Blank
      BY <1>7
    <2>2. /\ d = Programming(c, k, 1, Meta(e, at))
          /\ c \in Row /\ m \in 0..Cells /\ Sound(c) /\ NewestMeta(c, m, u)
          /\ k \in 1..Cells /\ c[k] = Blank /\ m < k /\ e \in Element /\ at \in 0..Cells
          /\ at # 0 => IsRecord(c, at, e)
      BY <1>5, <1>7, <1>9, <1>11, <1>13
    <2> HIDE DEF x
    <2> QED BY <2>1, <2>2, StoreAssumption, ProgramNextMeta
  <1>15. /\ lastMeta' \in [Page -> 0..Cells] /\ lastMeta'[active] = k
         /\ lastUnerased' \in [Page -> 0..Cells]
         /\ lastUnerased'[active] = IF at = 0 THEN u ELSE k
    <2>1. k \in 0..Cells
      BY <1>5, <1>9
    <2>2. lastMeta' \in [Page -> 0..Cells] /\ lastMeta'[active] = k
      BY <2>1, <1>2, <1>9
    <2>3. CASE at = 0
      BY <2>2, <2>3, <1>2, <1>9 DEF u
    <2>4. CASE at # 0
      BY <2>1, <2>2, <2>4, <1>2, <1>9
    <2> QED BY <2>3, <2>4
  <1>16. /\ data' \in [Element -> Pointer]
         /\ \A f \in Element : data'[f] = IF f = e /\ at # 0 THEN FlashPointer(active, at)
                                                            ELSE data[f]
    <2>1. at # 0 => FlashPointer(active, at) \in Pointer
      <3>1. at # 0 => at \in 1..Cells
        BY <1>5, <1>9
      <3> QED BY <3>1, <1>9, PointerFacts
    <2> QED BY <2>1, <1>2, <1>5, <1>9
  <1>17. /\ ~ Copying /\ ~ Copying' /\ ~ Doing("top")' /\ ~ Doing("bottom")'
         /\ ~ Doing("top") /\ ~ Doing("bottom") /\ ~ Doing("erase")' /\ ~ Doing("record")'
         /\ ~ Doing("copyNext")' /\ ~ Doing("copyRecord")' /\ ~ Doing("copyMeta")'
         /\ ~ Doing("meta")'
    BY <1>1, <1>6 DEF Copying, Doing, Now, Quiet
  <1>18. TypeOK'
    BY <1>2, <1>13, <1>15, <1>16 DEF NInv, TypeOK, Row
  <1>19. TodoInv' /\ QueueInv'
    <2>1. Has(todo, {"syncCopied"}) => erase.pending
      BY <1>1 DEF NInv, TodoInv
    <2> QED BY <2>1, <1>1, <1>2, Returns
  <1>20. ASSUME NEW f \in Element, data'[f].at = "flash"
         PROVE  data'[f].page = active /\ PointsInto(d, f, data'[f].cell)
    <2>1. CASE f = e /\ at # 0
      BY <2>1, <1>14, <1>16, PointerFacts
    <2>2. CASE ~ (f = e /\ at # 0)
      <3>1. data'[f] = data[f] /\ IsFlash(f)
        BY <2>2, <1>16, <1>20 DEF IsFlash
      <3>2. f # e
        BY <3>1, <1>7
      <3> QED BY <3>1, <3>2, <1>12, <1>14
    <2> QED BY <2>1, <2>2
  <1>21. PointerInv' /\ CopyInv'
    BY <1>2, <1>17, <1>20 DEF PointerInv, CopyInv, PointerInto, CellsOf, IsFlash, d
  <1>22. WriteInv'
    BY <1>17 DEF WriteInv
  <1>23. EraseInv' /\ CounterInv'
    BY <1>2, <1>4, <1>13, <1>17, CountersKept
  <1>24. FlashInv'
    <2>1. \A r \in Page : flash[r].top # 0 => Sound(flash[r].cell)
      BY DEF NInv, FlashInv, CellsOf
    <2>2. \A r \in Page : flash'[r].top # 0 => Sound(flash'[r].cell)
      BY <2>1, <1>13, <1>14 DEF d
    <2> QED BY <2>2, <1>2, <1>3, <1>4, <1>14, <1>15 DEF FlashInv, CellsOf, d
  <1> QED BY <1>18, <1>19, <1>21, <1>22, <1>23, <1>24 DEF NInv

-----------------------------------------------------------------------------
(* The records of a page copy. *)

\* A cell of the page copied to is programmed.
LEMMA PageFilled ==
  ASSUME NInv, initialised, Copying, Copying', data' \in [Element -> Pointer],
         UNCHANGED <<powered, initialised, active, counter, lastMeta, lastUnerased,
                     copyPending, erase, queue, head>>,
         NEW k, NEW n, NEW x \in Cell, flash' = Programmed(Other(active), k, n, x)
  PROVE  /\ TypeOK' /\ PointerInv' /\ WriteInv' /\ EraseInv' /\ CounterInv' /\ FlashInv'
         /\ flash'[active].cell = flash[active].cell
         /\ flash'[Other(active)].cell = Programming(CellsOf(Other(active)), k, n, x)
  <1>1. active \in Page /\ Other(active) \in Page /\ Other(active) # active
        /\ \A p \in Page : p = active \/ p = Other(active)
    BY Types DEF NInv
  <1>2. /\ flash' \in [Page -> [top : Nat, bottom : Nat, cell : Row]]
        /\ \A r \in Page : r # Other(active) => flash'[r] = flash[r]
        /\ \A r \in Page : flash'[r].top = flash[r].top /\ flash'[r].bottom = flash[r].bottom
        /\ flash'[Other(active)].cell = Programming(CellsOf(Other(active)), k, n, x)
    BY <1>1, CellProgrammed DEF NInv
  <1>3. /\ ~ Doing("top") /\ ~ Doing("bottom") /\ ~ Doing("top")' /\ ~ Doing("bottom")'
        /\ ~ Doing("erase")' /\ ~ Doing("record")' /\ ~ Doing("meta")' /\ todo # <<>>
        /\ todo' # <<>>
    BY DEF Copying, Doing, Now
  <1>4. flash'[active] = flash[active]
    BY <1>1, <1>2
  <1>5. TypeOK'
    BY <1>2 DEF NInv, TypeOK, Row
  <1>6. PointerInv' /\ WriteInv'
    BY <1>3 DEF PointerInv, WriteInv
  <1>7. EraseInv' /\ CounterInv'
    BY <1>2, <1>3, CountersKept
  <1>8. FlashInv'
    <2>1. flash[Other(active)].top = 0
      BY DEF NInv, CounterInv, Erased
    <2>2. \A p \in Page : flash[p].top # 0 => Sound(flash[p].cell)
      BY DEF NInv, FlashInv, CellsOf
    <2>3. \A p \in Page : flash'[p].top # 0 => Sound(flash'[p].cell)
      BY <2>1, <2>2, <1>1, <1>2, <1>4
    <2>4. /\ Sound(flash'[active].cell)
          /\ NewestMeta(flash'[active].cell, lastMeta[active], lastUnerased[active])
      BY <1>4 DEF NInv, FlashInv, CellsOf
    <2>5. powered
      BY <1>3, InCall
    <2> QED BY <2>3, <2>4, <2>5 DEF FlashInv, CellsOf
  <1> QED BY <1>2, <1>4, <1>5, <1>6, <1>7, <1>8

LEMMA CopyRecordKeeps ==
  ASSUME NInv, CopyRecord PROVE NInv'
  <1> DEFINE o == Other(active)
             e == Now.element
             at == Now.at
             n == Second.meta - 1
             from == Third.from
             v == Now.value
             x == Record(v)
             c == CellsOf(o)
             d == flash'[o].cell
  <1>1. /\ todo # <<>> /\ Now.do = "copyRecord" /\ Now = Head(todo) /\ todo' = Tail(todo)
        /\ Doing("copyRecord")
    BY DEF CopyRecord, Doing, Now, Return
  <1>2. UNCHANGED <<powered, initialised, active, counter, lastMeta, lastUnerased,
                    copyPending, erase, queue, head, data>>
    BY DEF CopyRecord, moduleVars, queueVars
  <1>3. /\ powered /\ Now \in Steps /\ initialised \in BOOLEAN /\ Allowed(Now, initialised)
        /\ todo' # <<>> /\ Follows(Now, Second, initialised) /\ Chain(todo', initialised)
    BY <1>1, InCall DEF Unfinished
  <1>4. initialised = TRUE
    BY <1>1, <1>3 DEF Allowed, StartSteps
  <1>5. /\ Second \in Steps /\ Second = Head(todo') /\ Second.do = "copyMeta"
        /\ Second.at = at /\ Second.element = e
    BY <1>1, <1>3, ChainTail DEF Second, Follows
  <1>6. Now' = Second /\ Second' = Third
    BY <1>1 DEF Now, Second, Third
  <1>7. /\ v \in Value \cup {Junk} /\ Second.meta \in 1..Cells /\ e \in Element
        /\ at \in 1..Cells
    BY <1>1, <1>3, <1>5, StepFields
  <1>8. /\ Cells \in Nat /\ n \in 0..Cells /\ active \in Page /\ o \in Page /\ c \in Row
        /\ data \in [Element -> Pointer]
    BY <1>7, Types, StoreAssumption DEF NInv, StoreAssumption
  <1>9. /\ n + 1 < at /\ at + Size(e) <= Cells + 1
        /\ Filling(c, n, n + 1, at + Size(e) - 1) /\ ~ Copied(c, e, n)
        /\ ReachesTo(c, n, at + Size(e))
        /\ PointersWhileCopying(n, from, {e})
    <2>1. /\ n + 1 < Now.at /\ Now.at + Size(Now.element) <= Cells + 1
          /\ Filling(c, n, n + 1, (Now.at + Size(Now.element)) - 1)
          /\ ReachesTo(c, n, Now.at + Size(Now.element))
          /\ ~ Copied(c, Second.element, n)
          /\ PointersWhileCopying(n, Third.from, {Second.element})
      BY <1>1, Zenon DEF NInv, CopyInv
    <2>2. Second.element = e
      BY <1>5
    <2>3. (at + Size(e)) - 1 = at + Size(e) - 1
      <3>1. at \in Nat /\ Size(e) \in Nat
        BY <1>7, SizeFacts, StoreAssumption
      <3> HIDE DEF at, e
      <3> QED BY <3>1
    <2> HIDE DEF n, c
    <2> QED BY <2>1, <2>2, <2>3
  <1>10. flash' = Programmed(o, at, Size(e), x)
    BY DEF CopyRecord
  <1>11. x \in Cell
    BY <1>7, CellFacts
  <1>12. Copying /\ Copying'
    BY <1>1, <1>3, <1>5, <1>6 DEF Copying
  <1>13. /\ TypeOK' /\ PointerInv' /\ WriteInv' /\ EraseInv' /\ CounterInv' /\ FlashInv'
         /\ flash'[active].cell = flash[active].cell
         /\ d = Programming(c, at, Size(e), x)
    <2> HIDE DEF n, x, at, e
    <2> QED BY <1>2, <1>4, <1>8, <1>10, <1>11, <1>12, PageFilled
  <1>14. \A f \in Element : IsFlash(f) => data[f].cell \in 1..Cells
    BY Types DEF NInv
  <1> HIDE DEF n, c, d, v, at, e
  <1>15. /\ Filling(d, n, n + 1, at - 1) /\ IsRecord(d, at, e)
         /\ \A f : Copied(d, f, n) <=> Copied(c, f, n)
         /\ CopiedIn(d, n) = CopiedIn(c, n)
         /\ \A f, a : a \in 1..Cells /\ PointsInto(c, f, a) => PointsInto(d, f, a)
    BY <1>7, <1>8, <1>9, <1>13, StoreAssumption, CopyRecordCells
  <1>16. ASSUME NEW f \in Element, IsFlash(f)
         PROVE  IF Copied(d, f, n) THEN data[f].page = o /\ PointsInto(d, f, data[f].cell)
                ELSE /\ data[f].page = active /\ PointsInto(flash[active].cell, f, data[f].cell)
                     /\ \/ f \in {e}
                        \/ \E i \in 1..from : MetaOf(flash[active].cell, i, f)
    BY <1>9, <1>14, <1>15, <1>16 DEF PointersWhileCopying, PointerInto, CellsOf, c
  <1>20. ReachesTo(d, n, at + Size(e)) /\ ~ Copied(d, e, n)
    BY <1>9, <1>15 DEF ReachesTo
  <1>18. /\ ~ Doing("copyNext")' /\ ~ Doing("copyRecord")'
         /\ Now'.meta - 1 = n /\ Now'.at = at /\ Now'.element = e /\ Second'.from = from
    BY <1>5, <1>6 DEF Doing, Now, n
  <1> HIDE DEF from
  <1>19. CopyInv'
    <2> DEFINE k == Now'.meta - 1
    <2>1. PointersWhileCopying(Now.meta - 1, Second.from, {Now.element})'
      BY <1>2, <1>13, <1>16, <1>18
         DEF PointersWhileCopying, PointerInto, CellsOf, Other, IsFlash, d
    <2>2. CellsOf(Other(active))' = d
      BY <1>2 DEF CellsOf, Other, d
    <2>3. /\ k + 1 < Now'.at /\ Filling(d, k, k + 1, Now'.at - 1)
          /\ IsRecord(d, Now'.at, Now'.element)
          /\ ReachesTo(d, k, Now'.at + Size(Now'.element)) /\ ~ Copied(d, Now'.element, k)
      BY <1>9, <1>15, <1>18, <1>20
    <2> QED BY <2>1, <2>2, <2>3, <1>18 DEF CopyInv
  <1>17. TodoInv' /\ QueueInv'
    <2>1. Head(todo').do = "copyMeta"
      BY <1>5
    <2> QED BY <2>1, <1>1, <1>2, <1>3, Returns
  <1> QED BY <1>13, <1>17, <1>19 DEF NInv

LEMMA CopyMetaKeeps ==
  ASSUME NInv, CopyMeta PROVE NInv'
  <1> DEFINE o == Other(active)
             n == Now.meta - 1
             e == Now.element
             at == Now.at
             from == Second.from
             x == Meta(e, at)
             c == CellsOf(o)
             d == flash'[o].cell
  <1>1. /\ todo # <<>> /\ Now.do = "copyMeta" /\ Now = Head(todo) /\ todo' = Tail(todo)
        /\ Doing("copyMeta")
    BY DEF CopyMeta, Doing, Now, Return
  <1>2. /\ UNCHANGED <<powered, initialised, active, counter, lastMeta, lastUnerased,
                       copyPending, erase, queue, head>>
        /\ data' = IF IsFlash(e) THEN [data EXCEPT ![e] = FlashPointer(o, at)] ELSE data
    BY DEF CopyMeta, moduleVars, queueVars
  <1>3. /\ powered /\ Now \in Steps /\ initialised \in BOOLEAN /\ Allowed(Now, initialised)
        /\ todo' # <<>> /\ Follows(Now, Second, initialised)
    BY <1>1, InCall DEF Unfinished
  <1>4. initialised = TRUE
    BY <1>1, <1>3 DEF Allowed, StartSteps
  <1>5. /\ Now' = Second /\ Second.do = "copyNext" /\ Second.meta = Now.meta + 1
        /\ Second.at = at
    BY <1>1, <1>3 DEF Now, Second, Follows
  <1>7. Now.meta \in 1..Cells /\ e \in Element /\ at \in 0..Cells
    BY <1>1, <1>3, StepFields
  <1>8. /\ Cells \in Nat /\ n \in 0..Cells /\ active \in Page /\ o \in Page /\ c \in Row
        /\ data \in [Element -> Pointer]
    BY <1>7, Types, StoreAssumption DEF NInv, StoreAssumption
  <1>9. /\ n + 1 < at /\ Filling(c, n, n + 1, at - 1) /\ IsRecord(c, at, e)
        /\ ReachesTo(c, n, at + Size(e)) /\ ~ Copied(c, e, n)
        /\ PointersWhileCopying(n, from, {e})
    BY <1>1 DEF NInv, CopyInv
  <1>10. /\ flash' = Programmed(o, n + 1, 1, x) /\ at \in 1..Cells /\ n + 1 = Now.meta
    <2>1. n + 1 = Now.meta /\ at \in 1..Cells
      BY <1>7, <1>8, <1>9
    <2> QED BY <2>1 DEF CopyMeta
  <1>11. x \in Cell
    BY <1>7, CellFacts
  <1>12. Copying /\ Copying'
    BY <1>1, <1>3, <1>5 DEF Copying
  <1>14. /\ \A f \in Element : IsFlash(f) => data[f].cell \in 1..Cells
    BY Types DEF NInv
  <1> HIDE DEF n, e, x, at
  <1>16. /\ data' \in [Element -> Pointer]
         /\ \A f \in Element : data'[f] = IF f = e /\ IsFlash(f) THEN FlashPointer(o, at)
                                                                ELSE data[f]
    <2>1. FlashPointer(o, at) \in Pointer
      BY <1>8, <1>10, PointerFacts
    <2>2. CASE IsFlash(e)
      <3>1. data' = [data EXCEPT ![e] = FlashPointer(o, at)]
        BY <2>2, <1>2, <1>9
      <3> HIDE DEF o
      <3> QED BY <3>1, <2>1, <2>2, <1>7, <1>8
    <2>3. CASE ~ IsFlash(e)
      BY <2>3, <1>2, <1>8
    <2> QED BY <2>2, <2>3
  <1>13. /\ TypeOK' /\ PointerInv' /\ WriteInv' /\ EraseInv' /\ CounterInv' /\ FlashInv'
         /\ flash'[active].cell = flash[active].cell
         /\ d = Programming(c, n + 1, 1, x)
    BY <1>2, <1>4, <1>10, <1>11, <1>12, <1>16, PageFilled
  <1> HIDE DEF c, d
  <1>15. /\ n + 1 \in 0..Cells /\ Filling(d, n + 1, n + 2, at - 1)
         /\ ReachesTo(d, n + 1, at)
         /\ \A f : Copied(d, f, n + 1) <=> f = e \/ Copied(c, f, n)
         /\ PointsInto(d, e, at)
         /\ \A f, a : f # e /\ a \in 1..Cells /\ PointsInto(c, f, a) => PointsInto(d, f, a)
    <2>1. d = Programming(c, n + 1, 1, Meta(e, at))
      BY <1>13 DEF x
    <2> QED BY <2>1, <1>7, <1>8, <1>9, <1>10, StoreAssumption, CopyMetaCell
  <1>17. ASSUME NEW f \in Element, IsFlash(f)
         PROVE  IF Copied(c, f, n) THEN data[f].page = o /\ PointsInto(c, f, data[f].cell)
                ELSE /\ data[f].page = active /\ PointsInto(flash[active].cell, f, data[f].cell)
                     /\ f = e \/ \E i \in 1..from : MetaOf(flash[active].cell, i, f)
    BY <1>9, <1>17 DEF PointersWhileCopying, PointerInto, CellsOf, c
  <1> HIDE DEF from
  <1>18. ASSUME NEW f \in Element, data'[f].at = "flash"
         PROVE  IF Copied(d, f, n + 1)
                THEN data'[f].page = o /\ PointsInto(d, f, data'[f].cell)
                ELSE /\ data'[f].page = active
                     /\ PointsInto(flash[active].cell, f, data'[f].cell)
                     /\ \E i \in 1..from : MetaOf(flash[active].cell, i, f)
    <2>1. CASE f = e
      <3>1. IsFlash(f) /\ data'[f] = FlashPointer(o, at)
        BY <2>1, <1>16, <1>18 DEF IsFlash
      <3>2. data'[f].page = o /\ data'[f].cell = at
        BY <3>1, PointerFacts
      <3> QED BY <3>2, <2>1, <1>15
    <2>2. CASE f # e
      <3>1. IsFlash(f) /\ data'[f] = data[f] /\ data[f].cell \in 1..Cells
        BY <2>2, <1>14, <1>16, <1>18 DEF IsFlash
      <3> QED BY <3>1, <2>2, <1>15, <1>17
    <2> QED BY <2>1, <2>2
  <1>19. TodoInv' /\ QueueInv'
    <2>1. Head(todo').do = "copyNext"
      BY <1>1, <1>5 DEF Second
    <2> QED BY <2>1, <1>1, <1>2, <1>3, Returns
  <1>20. /\ ~ Doing("copyMeta")' /\ ~ Doing("copyRecord")'
         /\ Now'.meta - 1 = n + 1 /\ Now'.at = at /\ (n + 1) + 1 = n + 2
         /\ Now'.from = from
    <2>1. Now'.meta - 1 = n + 1
      BY <1>5, <1>7 DEF n
    <2>2. Now'.at = at /\ (n + 1) + 1 = n + 2
      BY <1>5, <1>8 DEF at
    <2> QED BY <2>1, <2>2, <1>5 DEF Doing, Now, from
  <1>21. CopyInv'
    <2> DEFINE k == Now'.meta - 1
    <2>1. k = n + 1 /\ Now'.from = from /\ Now'.at = at
          /\ Filling(d, k, k + 1, at - 1) /\ ReachesTo(d, k, at)
      BY <1>15, <1>20
    <2>2. \A f \in Element : data'[f].at = "flash" =>
            IF Copied(d, f, k)
            THEN data'[f].page = o /\ PointsInto(d, f, data'[f].cell)
            ELSE /\ data'[f].page = active
                 /\ PointsInto(flash'[active].cell, f, data'[f].cell)
                 /\ \E i \in 1..Now'.from : MetaOf(flash'[active].cell, i, f)
      BY <2>1, <1>13, <1>18
    <2>3. PointersWhileCopying(Now.meta - 1, Now.from, {})'
      BY <2>2, <1>2 DEF PointersWhileCopying, PointerInto, CellsOf, Other, IsFlash, d
    <2> QED BY <2>1, <2>3, <1>2, <1>20 DEF CopyInv, CellsOf, Other, d
  <1> QED BY <1>13, <1>19, <1>21 DEF NInv

LEMMA ReadRecordType ==
  ASSUME TypeOK, NEW p \in Page, NEW at \in Int, NEW e \in Element
  PROVE  ReadRecord(p, at, e) \in Value \cup {Junk}
  <1>1. ASSUME NEW x \in Cell, x.kind = "record"
        PROVE  x.value \in Value \cup {Junk}
    BY <1>1 DEF Cell, Blank, Torn, Record, Meta
  <1>2. flash[p].cell \in Row
    BY Types DEF CellsOf
  <1>3. HoldsRecord(flash[p].cell, at, Size(e)) =>
          at \in 1..Cells /\ flash[p].cell[at].kind = "record"
    BY <1>2, StoreAssumption, RecordFacts DEF IsRecord
  <1> QED BY <1>1, <1>2, <1>3 DEF ReadRecord, Row

\* A record to copy: its three steps come before the rest of the call.
CopySteps(a, b, c) ==
  /\ a \in Steps /\ b \in Steps /\ c \in Steps
  /\ a.do = "copyRecord" /\ b.do = "copyMeta" /\ c.do = "copyNext"
  /\ b.at = a.at /\ b.element = a.element /\ c.at = b.at /\ c.meta = b.meta + 1
Three(a, b, c) == <<a, b, c>>

BeginsWith(w, a, b, c, t) ==
  /\ w # <<>> /\ Tail(w) # <<>>
  /\ Head(w) = a /\ Head(Tail(w)) = b /\ Head(Tail(Tail(w))) = c
  /\ \A W : Has(w, W) =>
              Has(t, W) \/ "copyRecord" \in W \/ "copyMeta" \in W \/ "copyNext" \in W

LEMMA CopyChain ==
  ASSUME NEW init \in BOOLEAN, NEW t, Chain(t, init),
         NEW a, NEW b, NEW c, CopySteps(a, b, c),
         Allowed(a, init), Allowed(b, init), Allowed(c, init),
         t # <<>> => Follows(c, Head(t), init)
  PROVE  /\ Chain(Three(a, b, c) \o t, init)
         /\ BeginsWith(Three(a, b, c) \o t, a, b, c, t)
  <1> DEFINE u == <<c>> \o t
             v == <<b>> \o u
  <1>0. /\ a \in Steps /\ b \in Steps /\ c \in Steps
        /\ a.do = "copyRecord" /\ b.do = "copyMeta" /\ c.do = "copyNext"
        /\ b.at = a.at /\ b.element = a.element /\ c.at = b.at /\ c.meta = b.meta + 1
    BY DEF CopySteps
  <1>1. Three(a, b, c) \o t = <<a>> \o v
    <2>1. t \in Seq(Steps)
      BY DEF Chain
    <2> QED BY <2>1, <1>0, StepsInARow DEF Three
  <1>2. /\ a.do \notin FinalSteps /\ b.do \notin FinalSteps /\ c.do \notin FinalSteps
        /\ c.do \notin Unfinished
    BY <1>0 DEF FinalSteps, RoomSteps, Unfinished
  <1>4. Follows(b, c, init)
    BY <1>0 DEF Follows, Unfinished
  <1>5. Follows(a, b, init)
    BY <1>0 DEF Follows, Unfinished
  <1>6. /\ Chain(u, init) /\ u # <<>> /\ Head(u) = c
        /\ \A W : Has(u, W) => c.do \in W \/ Has(t, W)
    BY <1>0, <1>2, ChainCons
  <1> HIDE DEF u
  <1>7. /\ Chain(v, init) /\ v # <<>> /\ Head(v) = b /\ Tail(v) = u
        /\ \A W : Has(v, W) => b.do \in W \/ Has(u, W)
    BY <1>0, <1>2, <1>4, <1>6, ChainCons
  <1> HIDE DEF v
  <1>8. /\ Chain(<<a>> \o v, init) /\ <<a>> \o v # <<>> /\ Head(<<a>> \o v) = a
        /\ Tail(<<a>> \o v) = v
        /\ \A W : Has(<<a>> \o v, W) => a.do \in W \/ Has(v, W)
    BY <1>0, <1>2, <1>5, <1>7, ChainCons
  <1> DEFINE w == <<a>> \o v
  <1>9. Chain(w, init) /\ w # <<>> /\ Head(w) = a /\ Tail(w) = v
        /\ \A W : Has(w, W) => a.do \in W \/ Has(v, W)
    BY <1>8
  <1> HIDE DEF w
  <1>10. BeginsWith(w, a, b, c, t)
    BY <1>0, <1>6, <1>7, <1>9 DEF BeginsWith
  <1> QED BY <1>1, <1>9, <1>10 DEF w

LEMMA CopyNextKeeps ==
  ASSUME NInv, CopyNext PROVE NInv'
  <1> DEFINE o == Other(active)
             n == Now.meta - 1
             from == Now.from
             S == {i \in 1..from : ToCopy(i)}
             m == Newest(S)
             e == CellsOf(active)[m].element
             c == CellsOf(o)
             t == Tail(todo)
             at == Now.at - Size(e)
             r == [do |-> "copyRecord", element |-> e, at |-> at,
                   value |-> ReadRecord(active, CellsOf(active)[m].at, e)]
             q == [do |-> "copyMeta", element |-> e, at |-> at, meta |-> n + 1]
             s == [do |-> "copyNext", from |-> m - 1, meta |-> n + 2, at |-> at]
  <1>1. /\ todo # <<>> /\ Now.do = "copyNext" /\ Now = Head(todo) /\ m # 0
        /\ Doing("copyNext")
    BY DEF CopyNext, Doing, Now
  <1>2. UNCHANGED <<flash, powered, initialised, active, counter, lastMeta, lastUnerased,
                    copyPending, erase, queue, head, data>>
    BY DEF CopyNext, moduleVars, queueVars
  <1>3. /\ powered /\ Now \in Steps /\ initialised \in BOOLEAN /\ Allowed(Now, initialised)
        /\ Chain(t, initialised)
        /\ t # <<>> => Follows(Now, Head(t), initialised)
        /\ \A W : Has(t, W) => Has(todo, W)
    BY <1>1, InCall DEF Second
  <1>4. initialised = TRUE
    BY <1>1, <1>3 DEF Allowed, StartSteps
  <1>5. /\ from \in 0..Cells /\ Now.meta \in 1..(Cells + 1) /\ Now.at \in 1..(Cells + 1)
    BY <1>1, <1>3, StepFields
  <1>6. /\ Filling(c, n, n + 1, Now.at - 1) /\ ReachesTo(c, n, Now.at)
        /\ PointersWhileCopying(n, from, {})
    BY <1>1 DEF NInv, CopyInv
  <1>7. /\ Cells \in Nat /\ n \in 0..Cells /\ Now.meta = n + 1
        /\ active \in Page /\ o \in Page /\ c \in Row
        /\ CellsOf(active) \in Row
    BY <1>5, Types, StoreAssumption DEF NInv, StoreAssumption
  <1>8. /\ n + 1 < Now.at /\ Now.at - 1 \in 0..Cells /\ n <= Now.at - 1
        /\ \A f \in Element : ~ Copied(c, f, n) => Size(f) \in Nat /\ n + 1 < Now.at - Size(f)
    <2>1. /\ n + 1 < Now.at
          /\ \A f \in Element : ~ Copied(c, f, n) =>
                                Size(f) \in Nat /\ n + 1 < Now.at - Size(f)
      <3> HIDE DEF n, c
      <3> QED BY <1>6, <1>7, StoreAssumption, FillingRoom
    <2> QED BY <2>1, <1>5, <1>7
  <1>9. /\ m \in 0..from /\ m \in S /\ \A y \in S : y <= m
    <2>1. S \in SUBSET (1..from) /\ from \in Nat
      BY <1>5, <1>7
    <2> HIDE DEF S, from
    <2> QED BY <2>1, <1>1, LastPlace
  <1>10. m \in 1..from /\ m \in 1..Cells /\ ToCopy(m)
    BY <1>5, <1>7, <1>9
  <1> HIDE DEF m
  <1>11. IsMeta(CellsOf(active)[m]) /\ MetasOf(o, e) = {} /\ e \in Element
    <2>1. IsMeta(CellsOf(active)[m]) /\ MetasOf(o, e) = {}
      BY <1>10 DEF ToCopy, CellsOf
    <2> QED BY <2>1, <1>7, <1>10, CellFacts DEF Row
  \* The metas of the other page.
  <1>12. \A f : MetasOf(o, f) = {} <=> ~ Copied(c, f, n)
    <2>1. Sound(c) /\ \A i \in 1..Cells : IsMeta(c[i]) => i \in 1..n
      <3> HIDE DEF n, c
      <3> QED BY <1>6, <1>7, <1>8, StoreAssumption, FillingIsSound
    <2>2. \A f : MetasOf(o, f) = {i \in 1..Cells : MetaOf(c, i, f)}
      <3> HIDE DEF o
      <3> QED BY <2>1, <1>7, StoreAssumption, SoundMetas DEF NInv
    <2>3. \A i \in 1..n : i \in 1..Cells
      BY <1>7
    <2> HIDE DEF n, c, o
    <2> QED BY <2>1, <2>2, <2>3 DEF Copied, MetaOf
  <1>13. ~ Copied(c, e, n)
    BY <1>11, <1>12
  <1>30. /\ n + 1 < at /\ at + Size(e) = Now.at /\ at \in 1..Cells /\ at \in 0..Cells
         /\ at \in 1..(Cells + 1)
    <2>1. Size(e) \in Nat /\ Size(e) >= 1
      BY <1>11, StoreAssumption, SizeFacts
    <2>2. n + 1 < Now.at - Size(e)
      BY <1>8, <1>11, <1>13
    <2> HIDE DEF e, n
    <2> QED BY <2>1, <2>2, <1>5, <1>7
  <1>14. r \in Steps /\ q \in Steps /\ s \in Steps
    <2>1. n + 1 \in 1..Cells /\ n + 2 \in 1..(Cells + 1) /\ m - 1 \in 0..Cells
      BY <1>7, <1>10, <1>30
    <2>2. ReadRecord(active, CellsOf(active)[m].at, e) \in Value \cup {Junk}
      <3>1. CellsOf(active)[m].at \in Int
        BY <1>7, <1>10, <1>11, CellFacts DEF Row
      <3> HIDE DEF e
      <3> QED BY <3>1, <1>7, <1>11, ReadRecordType DEF NInv
    <2> HIDE DEF n, e, at
    <2> QED BY <2>1, <2>2, <1>11, <1>30, StepKinds
  <1>15. todo' = <<r, q, s>> \o t
    <2>1. Now.meta = n + 1 /\ Now.meta + 1 = n + 2
      BY <1>7
    <2>2. todo' = <<[do |-> "copyRecord", element |-> e, at |-> at,
                     value |-> ReadRecord(active, CellsOf(active)[m].at, e)],
                    [do |-> "copyMeta", element |-> e, at |-> at, meta |-> Now.meta],
                    [do |-> "copyNext", from |-> m - 1,
                     meta |-> Now.meta + 1, at |-> at]>> \o t
      BY DEF CopyNext, Continue, Step, CellsOf, m
    <2> HIDE DEF n, e, at
    <2> QED BY <2>1, <2>2
  <1>16. /\ r.do = "copyRecord" /\ q.do = "copyMeta" /\ s.do = "copyNext" /\ q.at = r.at
         /\ s.at = q.at /\ s.meta = q.meta + 1 /\ r.at = at /\ q.meta = n + 1
         /\ q.element = e /\ r.element = e /\ s.from = m - 1
    <2>1. n + 2 = (n + 1) + 1
      BY <1>7
    <2> HIDE DEF n, e, at
    <2> QED BY <2>1
  <1>17. t # <<>> => Head(t).do \in (ElementSteps \cup RoomSteps \cup PlainSteps) \ {"forgetOld"}
    BY <1>1, <1>3 DEF Follows, Unfinished
  <1> HIDE DEF r, q, s, t, at
  <1>29. t # <<>> => Follows(s, Head(t), initialised)
    BY <1>16, <1>17 DEF Follows, Unfinished
  <1>18. /\ Chain(todo', initialised) /\ todo' # <<>>
         /\ Head(todo') = r /\ Head(Tail(todo')) = q /\ Head(Tail(Tail(todo'))) = s
         /\ \A W : Has(todo', W) =>
                     Has(t, W) \/ "copyRecord" \in W \/ "copyMeta" \in W \/ "copyNext" \in W
    <2> DEFINE w == Three(r, q, s) \o t
    <2>1. CopySteps(r, q, s)
      BY <1>14, <1>16 DEF CopySteps
    <2>3. initialised \in BOOLEAN /\ Chain(t, initialised)
      BY <1>3
    <2>4. Allowed(r, initialised) /\ Allowed(q, initialised) /\ Allowed(s, initialised)
      BY <1>4, <1>16 DEF Allowed, StartSteps
    <2>2. todo' = w
      BY <1>15 DEF Three
    <2>5. Chain(w, initialised) /\ BeginsWith(w, r, q, s, t)
      BY <2>1, <2>3, <2>4, <1>29, CopyChain
    <2> HIDE DEF w
    <2>6. Chain(todo', initialised) /\ BeginsWith(todo', r, q, s, t)
      BY <2>2, <2>5
    <2> QED BY <2>6 DEF BeginsWith
  <1>19. Now' = r /\ Second' = q /\ Third' = s
    BY <1>18 DEF Now, Second, Third
  <1>20. /\ Copying /\ Copying' /\ ~ Doing("top") /\ ~ Doing("bottom")
         /\ ~ Doing("top")' /\ ~ Doing("bottom")' /\ ~ Doing("erase")' /\ ~ Doing("record")'
         /\ ~ Doing("meta")' /\ ~ Doing("copyMeta")' /\ ~ Doing("copyNext")'
    BY <1>1, <1>16, <1>18, <1>19 DEF Copying, Doing
  <1>21. TypeOK'
    BY <1>2 DEF NInv, TypeOK
  <1>22. TodoInv'
    <2>1. Has(todo', {"forgetOld"}) => erase.pending
      BY <1>3, <1>18 DEF NInv, TodoInv
    <2> QED BY <2>1, <1>2, <1>4, <1>16, <1>18, <1>19 DEF TodoInv
  <1>23. QueueInv'
    <2>1. /\ Has(todo', RoomSteps \cup {"idleSaved"}) => Has(todo, RoomSteps \cup {"idleSaved"})
          /\ Has(todo', {"makeRoom"}) => Has(todo, {"makeRoom"})
          /\ Has(todo', RoomSteps \cup {"makeRoom"}) => Has(todo, RoomSteps \cup {"makeRoom"})
      BY <1>3, <1>18 DEF RoomSteps
    <2> QED BY <2>1, <1>2 DEF NInv, QueueInv
  <1>24. PointerInv' /\ WriteInv'
    BY <1>20 DEF PointerInv, WriteInv
  <1>25. EraseInv' /\ CounterInv'
    BY <1>2, <1>4, <1>20, CountersKept
  <1>26. FlashInv'
    BY <1>2, <1>3, <1>20, SameFlash DEF PointersKept
  <1>27. ASSUME NEW f \in Element, IsFlash(f)
         PROVE  IF Copied(c, f, n) THEN PointerInto(o, f)
                ELSE /\ PointerInto(active, f)
                     /\ \/ f \in {e}
                        \/ \E i \in 1..(m - 1) : MetaOf(CellsOf(active), i, f)
    <2>1. CASE Copied(c, f, n)
      BY <2>1, <1>6, <1>27 DEF PointersWhileCopying
    <2>2. CASE ~ Copied(c, f, n)
      <3>1. PointerInto(active, f)
        BY <2>2, <1>6, <1>27 DEF PointersWhileCopying
      <3>2. PICK i \in 1..from : MetaOf(CellsOf(active), i, f)
        BY <2>2, <1>6, <1>27 DEF PointersWhileCopying
      <3>3. data[f] # NullPointer
        BY <1>27, PointerFacts DEF IsFlash
      <3>4. MetasOf(o, f) = {}
        BY <2>2, <1>12
      <3>5. i \in S
        BY <3>2, <3>3, <3>4 DEF ToCopy, MetaOf, CellsOf
      <3>6. i <= m /\ i \in Nat
        BY <3>5, <1>5, <1>9
      <3>7. i = m => f = e
        BY <3>2 DEF MetaOf
      <3>8. i # m => i \in 1..(m - 1)
        BY <3>6, <1>5, <1>10
      <3> QED BY <2>2, <3>1, <3>2, <3>7, <3>8
    <2> QED BY <2>1, <2>2
  <1>28. CopyInv'
    <2> DEFINE k == Second'.meta - 1
    <2>1. /\ k = n /\ Third'.from = m - 1 /\ Second'.element = e
          /\ Now'.at = at /\ Now'.element = e /\ k + 1 < Now'.at
          /\ Now'.at + Size(Now'.element) = Now.at /\ Now.at <= Cells + 1
      BY <1>5, <1>7, <1>16, <1>19, <1>30
    <2>2. /\ Filling(c, k, k + 1, Now.at - 1) /\ ReachesTo(c, k, Now.at)
          /\ ~ Copied(c, Second'.element, k)
      BY <2>1, <1>6, <1>13
    <2>3. \A f \in Element : IsFlash(f) =>
            IF Copied(c, f, k) THEN PointerInto(o, f)
            ELSE /\ PointerInto(active, f)
                 /\ \/ f \in {Second'.element}
                    \/ \E i \in 1..Third'.from : MetaOf(CellsOf(active), i, f)
      BY <2>1, <1>27
    <2>4. PointersWhileCopying(Second.meta - 1, Third.from, {Second.element})'
      BY <2>3, <1>2 DEF PointersWhileCopying, PointerInto, CellsOf, Other, IsFlash
    <2> QED BY <2>1, <2>2, <2>4, <1>2, <1>20 DEF CopyInv, CellsOf, Other
  <1> QED BY <1>21, <1>22, <1>23, <1>24, <1>25, <1>26, <1>28 DEF NInv

LEMMA SwitchPageKeeps ==
  ASSUME NInv, SwitchPage PROVE NInv'
  <1> DEFINE o == Other(active)
             n == Now.meta - 1
             from == Now.from
             c == CellsOf(o)
             t == Tail(todo)
             u == CounterSteps(o) \o t
  <1>1. /\ todo # <<>> /\ Now.do = "copyNext" /\ Now = Head(todo)
        /\ Doing("copyNext") /\ todo' = u
    BY DEF SwitchPage, Doing, Now, Continue
  <1>2. /\ UNCHANGED <<flash, powered, initialised, copyPending, queue, head, data>>
        /\ erase' = [pending |-> TRUE, page |-> active, sector |-> 1]
        /\ active' = o /\ counter' = counter + 1
        /\ lastMeta' = [lastMeta EXCEPT ![o] = n]
        /\ lastUnerased' = [lastUnerased EXCEPT ![o] = n]
        /\ \A i \in 1..from : ~ ToCopy(i)
    BY DEF SwitchPage, queueVars
  <1>3. /\ powered /\ Now \in Steps /\ initialised \in BOOLEAN /\ Allowed(Now, initialised)
        /\ Chain(t, initialised)
        /\ t # <<>> => Follows(Now, Head(t), initialised)
        /\ \A W : Has(t, W) => Has(todo, W)
    BY <1>1, InCall DEF Second
  <1>4. initialised = TRUE
    BY <1>1, <1>3 DEF Allowed, StartSteps
  <1>5. Now.meta \in 1..(Cells + 1) /\ Now.at \in 1..(Cells + 1)
    BY <1>1, <1>3, StepFields
  <1>6. /\ Filling(c, n, n + 1, Now.at - 1) /\ ReachesTo(c, n, Now.at)
        /\ PointersWhileCopying(n, from, {})
    BY <1>1 DEF NInv, CopyInv
  <1>7. /\ Cells \in Nat /\ n \in 0..Cells /\ active \in Page /\ o \in Page /\ c \in Row
        /\ Other(o) = active /\ o # active
        /\ lastMeta \in [Page -> 0..Cells] /\ lastUnerased \in [Page -> 0..Cells]
        /\ counter \in Nat /\ c = flash[o].cell
    <2>1. Cells \in Nat /\ n \in 0..Cells
      BY <1>5, StoreAssumption DEF StoreAssumption
    <2>2. /\ active \in Page /\ o \in Page /\ c \in Row /\ c = flash[o].cell
          /\ Other(o) = active /\ o # active
      BY Types DEF NInv
    <2>3. /\ lastMeta \in [Page -> 0..Cells] /\ lastUnerased \in [Page -> 0..Cells]
          /\ counter \in Nat
      BY DEF NInv, TypeOK
    <2> HIDE DEF n, o, c
    <2> QED BY <2>1, <2>2, <2>3
  <1>8. /\ Sound(c) /\ NewestMeta(c, n, n)
        /\ \A i \in 1..Cells : IsMeta(c[i]) => i \in 1..n
    <2> HIDE DEF n, c
    <2>1. n + 1 < Now.at
      BY <1>6, <1>7, StoreAssumption, FillingRoom
    <2>2. Now.at - 1 \in 0..Cells /\ n <= Now.at - 1
      BY <2>1, <1>5, <1>7
    <2> QED BY <2>2, <1>6, <1>7, StoreAssumption, FillingIsSound
  <1>9. \A f : MetasOf(o, f) = {} <=> ~ Copied(c, f, n)
    <2>1. \A f : MetasOf(o, f) = {i \in 1..Cells : MetaOf(c, i, f)}
      <3> HIDE DEF o
      <3> QED BY <1>7, <1>8, StoreAssumption, SoundMetas DEF NInv
    <2>2. \A i \in 1..n : i \in 1..Cells
      BY <1>7
    <2> HIDE DEF n, c, o
    <2> QED BY <2>1, <2>2, <1>8 DEF Copied, MetaOf
  <1>10. ASSUME NEW f \in Element, IsFlash(f)
         PROVE  PointerInto(o, f)
    <2>1. CASE Copied(c, f, n)
      BY <2>1, <1>6, <1>10 DEF PointersWhileCopying
    <2>2. CASE ~ Copied(c, f, n)
      <3>1. PICK i \in 1..from : MetaOf(CellsOf(active), i, f)
        BY <2>2, <1>6, <1>10 DEF PointersWhileCopying
      <3>2. data[f] # NullPointer
        BY <1>10, PointerFacts DEF IsFlash
      <3>3. MetasOf(o, f) = {}
        BY <2>2, <1>9
      <3>4. ToCopy(i)
        BY <3>1, <3>2, <3>3 DEF ToCopy, MetaOf, CellsOf
      <3> QED BY <3>1, <3>4, <1>2
    <2> QED BY <2>1, <2>2
  <1>11. t # <<>> => Follows([do |-> "bottom", page |-> o], Head(t), initialised)
    <2>1. t # <<>> => Head(t).do \in (ElementSteps \cup RoomSteps \cup PlainSteps) \ {"forgetOld"}
      BY <1>1, <1>3 DEF Follows, Unfinished
    <2> QED BY <2>1 DEF Follows
  <1>12. /\ Chain(u, initialised) /\ u # <<>> /\ Head(u) = [do |-> "top", page |-> o]
         /\ \A W : Has(u, W) => "top" \in W \/ "bottom" \in W \/ Has(t, W)
    <2> HIDE DEF t
    <2> QED BY <1>3, <1>7, <1>11, CounterChain
  <1> HIDE DEF u, t, n, c
  <1>13. Now' = [do |-> "top", page |-> o] /\ todo' # <<>>
    BY <1>1, <1>12 DEF Now
  <1>14. /\ ~ Copying' /\ Doing("top")' /\ ~ Doing("bottom")' /\ ~ Doing("erase")'
         /\ ~ Doing("record")' /\ ~ Doing("meta")' /\ ~ Doing("copyMeta")'
         /\ ~ Doing("copyNext")' /\ ~ Doing("copyRecord")' /\ Now'.page = o /\ Copying
    BY <1>1, <1>13 DEF Copying, Doing, Now
  <1>15. /\ lastMeta' \in [Page -> 0..Cells] /\ lastMeta'[o] = n
         /\ lastUnerased' \in [Page -> 0..Cells] /\ lastUnerased'[o] = n
    BY <1>2, <1>7
  <1>16. TypeOK'
    <2>1. erase' \in [pending : BOOLEAN, page : Page, sector : 1..3]
      BY <1>2, <1>7
    <2>2. counter' \in Nat
      BY <1>2, <1>7
    <2> HIDE DEF o
    <2> QED BY <2>1, <2>2, <1>2, <1>7, <1>15 DEF NInv, TypeOK
  <1>17. TodoInv'
    <2>1. erase'.pending
      BY <1>2
    <2> QED BY <2>1, <1>1, <1>2, <1>12 DEF TodoInv
  <1>18. QueueInv'
    <2>1. /\ Has(todo', RoomSteps \cup {"idleSaved"}) => Has(todo, RoomSteps \cup {"idleSaved"})
          /\ Has(todo', {"makeRoom"}) => Has(todo, {"makeRoom"})
          /\ Has(todo', RoomSteps \cup {"makeRoom"}) => Has(todo, RoomSteps \cup {"makeRoom"})
      BY <1>1, <1>3, <1>12 DEF RoomSteps
    <2> QED BY <2>1, <1>2 DEF NInv, QueueInv
  <1>19. CopyInv' /\ WriteInv'
    BY <1>14 DEF CopyInv, WriteInv
  <1>20. PointerInv'
    BY <1>2, <1>10 DEF PointerInv, PointerInto, CellsOf, IsFlash
  <1>21. EraseInv'
    <2>1. erase'.page = Other(active)' /\ ~ (erase'.sector > 1)
      BY <1>2, <1>7 DEF Other
    <2> QED BY <2>1, <1>2, <1>4, <1>14 DEF EraseInv
  <1>22. CounterInv'
    <2>1. Current(active) /\ Erased(o)
      <3>1. ~ Doing("top") /\ ~ Doing("bottom")
        BY <1>1 DEF Doing, Now
      <3> QED BY <3>1, <1>4, <1>14 DEF NInv, CounterInv
    <2>2. counter' # 0 /\ Older(Other(active))'
      BY <2>1, <1>2, <1>7 DEF Older, Current, Other, IsValidPage
    <2>3. Erased(active)'
      BY <2>1, <1>2 DEF Erased
    <2>4. IsValidPage(1)' /\ IsValidPage(2)' => flash'[1].top # flash'[2].top
      BY <1>2 DEF NInv, CounterInv, IsValidPage
    <2> QED BY <2>2, <2>3, <2>4, <1>2, <1>4, <1>14 DEF CounterInv
  <1>23. FlashInv'
    <2>1. \A p \in Page : flash'[p].top # 0 => Sound(flash'[p].cell)
      BY <1>2 DEF NInv, FlashInv, CellsOf
    <2>2. /\ Sound(flash'[o].cell)
          /\ NewestMeta(flash'[o].cell, lastMeta'[o], lastUnerased'[o])
      BY <1>2, <1>7, <1>8, <1>15
    <2> QED BY <2>1, <2>2, <1>2, <1>3, <1>4 DEF FlashInv, CellsOf
  <1> QED BY <1>16, <1>17, <1>18, <1>19, <1>20, <1>21, <1>22, <1>23 DEF NInv

-----------------------------------------------------------------------------
(* The start of the module. *)

\* All that may be left to do before the module is initialised.
LEMMA StartChain ==
  ASSUME NEW t, NEW init \in BOOLEAN, ~ init, Chain(t, init)
  PROVE  \A W : Has(t, W) => W \cap (StartSteps \cup {"erase", "top", "bottom"}) # {}
  BY DEF Chain, Has, Allowed

\* NvInternalFormat begins.
LEMMA FormatStarts ==
  ASSUME NInv, ~ initialised, powered',
         UNCHANGED <<flash, initialised, lastMeta, lastUnerased, copyPending, erase,
                     queue, head, data>>,
         active' = 1, counter' = 1,
         Chain(todo', initialised), todo' # <<>>,
         Head(todo') = [do |-> "erase", page |-> 1, sector |-> 1]
  PROVE  NInv'
  <1>1. Now' = [do |-> "erase", page |-> 1, sector |-> 1]
    BY DEF Now
  <1>2. /\ ~ Copying' /\ ~ Doing("top")' /\ ~ Doing("bottom")' /\ ~ Doing("record")'
        /\ ~ Doing("meta")' /\ ~ Doing("copyMeta")' /\ ~ Doing("copyNext")'
        /\ ~ Doing("copyRecord")' /\ Now'.page = 1 /\ Now'.sector = 1 /\ Now'.do = "erase"
    BY <1>1 DEF Copying, Doing, Now
  <1>3. initialised \in BOOLEAN /\ initialised = FALSE /\ ~ erase.pending
    BY DEF NInv, TypeOK, EraseInv
  <1>4. \A W : Has(todo', W) => W \cap (StartSteps \cup {"erase", "top", "bottom"}) # {}
    BY <1>3, StartChain
  <1>5. TypeOK'
    BY DEF NInv, TypeOK, Page
  <1>6. TodoInv'
    <2>1. ~ Has(todo', {"forgetOld"}) /\ ~ Has(todo', {"syncCopied"})
      BY <1>4 DEF StartSteps
    <2> QED BY <2>1 DEF TodoInv
  <1>7. QueueInv'
    <2>1. /\ ~ Has(todo', RoomSteps \cup {"idleSaved"}) /\ ~ Has(todo', {"makeRoom"})
          /\ ~ Has(todo', RoomSteps \cup {"makeRoom"})
      BY <1>4 DEF StartSteps, RoomSteps
    <2> QED BY <2>1 DEF NInv, QueueInv
  <1>8. CopyInv' /\ WriteInv'
    BY <1>2 DEF CopyInv, WriteInv
  <1>9. PointerInv'
    BY DEF NInv, FlashInv, PointerInv, IsFlash
  <1>10. EraseInv'
    BY <1>2, <1>3 DEF EraseInv
  <1>11. CounterInv'
    <2>1. ~ (Now'.do \in StartSteps \cup {"top", "bottom"})
      BY <1>2 DEF StartSteps
    <2>2. IsValidPage(1)' /\ IsValidPage(2)' => flash'[1].top # flash'[2].top
      BY DEF NInv, CounterInv, IsValidPage
    <2> QED BY <2>1, <2>2, <1>2 DEF CounterInv
  <1>12. FlashInv'
    BY <1>2 DEF NInv, FlashInv, CellsOf, IsFlash
  <1> QED BY <1>5, <1>6, <1>7, <1>8, <1>9, <1>10, <1>11, <1>12 DEF NInv

LEMMA StartWithoutMetaKeeps ==
  ASSUME NInv, StartWithoutMeta
  PROVE  NInv' /\ todo' # <<>> /\ Head(todo').do = "erase"
  <1> DEFINE lost == ~ HasEnd(active)
             w == FormatSteps(lost) \o <<>>
  <1>1. /\ todo # <<>> /\ Now.do = "start" /\ Now = Head(todo)
        /\ todo' = FormatSteps(lost) \o Tail(todo)
    BY DEF StartWithoutMeta, Doing, Now, Continue
  <1>2. /\ UNCHANGED <<flash, powered, initialised, lastMeta, lastUnerased, copyPending, erase,
                       queue, head, data>>
        /\ active' = 1 /\ counter' = 1
    BY DEF StartWithoutMeta, queueVars
  <1>3. powered /\ Allowed(Now, initialised) /\ initialised \in BOOLEAN /\ Tail(todo) = <<>>
    BY <1>1, InCall DEF FinalSteps
  <1>4. ~ initialised
    BY <1>1, <1>3 DEF Allowed, StartSteps
  <1>5. Chain(<<>>, initialised)
    BY ChainEmpty
  <1>8. lost \in BOOLEAN
    BY DEF HasEnd
  <1> HIDE DEF lost
  <1>6. /\ Chain(w, initialised) /\ w # <<>>
        /\ Head(w) = [do |-> "erase", page |-> 1, sector |-> 1]
    BY <1>3, <1>4, <1>5, <1>8, FormatChain
  <1>7. todo' = w
    BY <1>1, <1>3
  <1> HIDE DEF w
  <1> QED BY <1>2, <1>3, <1>4, <1>6, <1>7, FormatStarts

LEMMA NvModuleInitKeeps ==
  ASSUME NInv, NvModuleInit
  PROVE  NInv' /\ todo' # <<>> /\ Head(todo').do \in {"erase", "start"}
  <1> DEFINE s == Call("start")
             q == Call("estimate")
             t == <<q>> \o <<s>>
             w == FormatSteps(FALSE) \o t
  <1>1. /\ UNCHANGED <<flash, initialised, lastMeta, lastUnerased, copyPending, erase,
                       queue, head, data>>
        /\ powered' = TRUE
        /\ active' = IF StartPage = 0 THEN 1 ELSE StartPage
        /\ counter' = IF StartPage = 0 THEN 1 ELSE flash[StartPage].top
    BY DEF NvModuleInit, queueVars
  <1>2. ~ initialised /\ initialised \in BOOLEAN /\ initialised = FALSE /\ ~ erase.pending
    BY DEF NvModuleInit, NInv, FlashInv, TypeOK, EraseInv
  <1>3. s \in Steps /\ q \in Steps /\ s.do = "start" /\ q.do = "estimate"
    BY StepKinds DEF PlainSteps, StartSteps
  <1>4. StartPage # 0 => todo' = <<>> \o <<s>>
    BY DEF NvModuleInit
  <1>5. StartPage = 0 => todo' = (FormatSteps(FALSE) \o <<q>>) \o <<s>>
    BY DEF NvModuleInit
  <1> HIDE DEF s, q
  <1>6. /\ Chain(<<s>>, initialised) /\ <<s>> # <<>> /\ Head(<<s>>) = s
        /\ <<>> \o <<s>> = <<s>>
    <2>1. Chain(<<>>, initialised) /\ <<s>> \o <<>> = <<s>> /\ Len(<<>>) = 0
          /\ <<>> \o <<s>> = <<s>>
      BY <1>3, ChainEmpty, ConcatEmptySeq, PairOfSteps
    <2>2. Allowed(s, initialised) /\ s.do # "forgetOld" /\ s.do \notin Unfinished
      BY <1>2, <1>3 DEF Allowed, StartSteps, Unfinished
    <2>3. Chain(<<s>> \o <<>>, initialised)
      BY <2>1, <2>2, <1>2, <1>3, ChainCons
    <2> QED BY <2>1, <2>3
  <1>7. Chain(t, initialised) /\ t # <<>> /\ Head(t) = q
    <2>1. Allowed(q, initialised) /\ q.do # "forgetOld" /\ q.do \notin FinalSteps
      BY <1>2, <1>3 DEF Allowed, StartSteps, FinalSteps, RoomSteps
    <2>2. Follows(q, s, initialised)
      BY <1>3 DEF Follows, Unfinished, PlainSteps, StartSteps
    <2> DEFINE r == <<s>>
    <2>3. Chain(r, initialised) /\ r # <<>> /\ Head(r) = s
      BY <1>6
    <2> HIDE DEF r
    <2>4. Chain(<<q>> \o r, initialised) /\ <<q>> \o r # <<>> /\ Head(<<q>> \o r) = q
      BY <2>1, <2>2, <2>3, <1>2, <1>3, ChainCons
    <2> QED BY <2>4 DEF r
  <1>8. (FormatSteps(FALSE) \o <<q>>) \o <<s>> = w
    <2>1. FormatSteps(FALSE) \in Seq(Steps)
      <3> DEFINE a == EraseSteps(1)
                 b == EraseSteps(2)
                 c == CounterSteps(1)
                 f == FormattedStep(FALSE)
                 d == <<f>>
                 ab == a \o b
                 abc == ab \o c
      <3>4. f \in Steps /\ FormatSteps(FALSE) = abc \o d
        BY StepKinds DEF FormatSteps
      <3> HIDE DEF f
      <3>1. a \in Seq(Steps) /\ b \in Seq(Steps) /\ c \in Seq(Steps) /\ d \in Seq(Steps)
        BY <3>4, StepKinds DEF EraseSteps, CounterSteps, Page
      <3> HIDE DEF a, b, c, d
      <3>2. ab \in Seq(Steps)
        BY <3>1, StepsAssociate
      <3> HIDE DEF ab
      <3>3. abc \in Seq(Steps)
        BY <3>1, <3>2, StepsAssociate
      <3> HIDE DEF abc
      <3>5. abc \o d \in Seq(Steps)
        BY <3>1, <3>3, StepsAssociate
      <3> QED BY <3>4, <3>5, Zenon
    <2>2. <<q>> \in Seq(Steps) /\ <<s>> \in Seq(Steps)
      BY <1>3
    <2> DEFINE f == FormatSteps(FALSE)
               x == <<q>>
               y == <<s>>
    <2>3. f \in Seq(Steps) /\ x \in Seq(Steps) /\ y \in Seq(Steps)
      BY <2>1, <2>2
    <2> HIDE DEF f, x, y
    <2>4. (f \o x) \o y = f \o (x \o y)
      BY <2>3, StepsAssociate
    <2> QED BY <2>4 DEF f, x, y
  <1> HIDE DEF t
  <1>9. CASE StartPage = 0
    <2>1. q.do \in StartSteps
      BY <1>3 DEF StartSteps
    <2>2. /\ Chain(w, initialised) /\ w # <<>>
          /\ Head(w) = [do |-> "erase", page |-> 1, sector |-> 1]
      BY <2>1, <1>2, <1>7, FormatChain
    <2>3. todo' = w
      BY <1>5, <1>8, <1>9
    <2> HIDE DEF w
    <2> QED BY <2>2, <2>3, <1>1, <1>2, <1>9, FormatStarts
  <1>10. CASE StartPage # 0
    <2> DEFINE r == <<s>>
    <2>1. Chain(r, initialised) /\ r # <<>> /\ Head(r) = s /\ todo' = r
      BY <1>4, <1>6, <1>10
    <2> HIDE DEF r
    <2>2. Now' = s /\ todo' # <<>> /\ Chain(todo', initialised)
      BY <2>1 DEF Now
    <2>3. \A W : Has(todo', W) => W \cap (StartSteps \cup {"erase", "top", "bottom"}) # {}
      BY <2>2, <1>2, StartChain
    <2>4. /\ ~ Copying' /\ ~ Doing("top")' /\ ~ Doing("bottom")' /\ ~ Doing("record")'
          /\ ~ Doing("meta")' /\ ~ Doing("copyMeta")' /\ ~ Doing("copyNext")'
          /\ ~ Doing("copyRecord")' /\ ~ Doing("erase")'
      BY <2>2, <1>3 DEF Copying, Doing, Now
    <2>5. /\ active' \in Page /\ counter' = flash[active'].top /\ IsValidPage(active')
          /\ active' = StartPage
      BY <1>1, <1>10 DEF StartPage, Page
    <2>6. TypeOK'
      <3>1. counter' \in Nat
        BY <2>5, Types DEF NInv
      <3> QED BY <3>1, <2>5, <1>1 DEF NInv, TypeOK
    <2>7. TodoInv'
      <3>1. ~ Has(todo', {"forgetOld"}) /\ ~ Has(todo', {"syncCopied"})
        BY <2>3 DEF StartSteps
      <3> QED BY <3>1, <2>2, <1>1 DEF TodoInv
    <2>8. QueueInv'
      <3>1. /\ ~ Has(todo', RoomSteps \cup {"idleSaved"}) /\ ~ Has(todo', {"makeRoom"})
            /\ ~ Has(todo', RoomSteps \cup {"makeRoom"})
        BY <2>3 DEF StartSteps, RoomSteps
      <3> QED BY <3>1, <1>1 DEF NInv, QueueInv
    <2>9. CopyInv' /\ WriteInv'
      BY <2>4 DEF CopyInv, WriteInv
    <2>10. PointerInv'
      BY <1>1, <1>2 DEF NInv, FlashInv, PointerInv, IsFlash
    <2>11. EraseInv'
      BY <2>4, <1>1, <1>2 DEF EraseInv
    <2>12. CounterInv'
      <3>1. IsValidPage(1) /\ IsValidPage(2) => flash[1].top # flash[2].top
        BY DEF NInv, CounterInv
      <3>2. flash[1].top \in Nat /\ flash[2].top \in Nat
        BY Types DEF NInv, Page
      <3>3. counter' # 0 /\ flash[active'].top = counter' /\ flash[active'].bottom = counter'
        BY <2>5 DEF IsValidPage
      <3>4. IsValidPage(Other(active')) => flash[Other(active')].top < counter'
        BY <2>5, <3>1, <3>2, <1>10 DEF StartPage, Other
      <3>5. (counter # 0 /\ Older(Other(active)) /\ Current(active))'
        BY <3>3, <3>4, <1>1 DEF Older, Current, Other, IsValidPage
      <3>6. IsValidPage(1)' /\ IsValidPage(2)' => flash'[1].top # flash'[2].top
        BY <3>1, <1>1 DEF IsValidPage
      <3>7. ~ (Now'.do \in {"erase", "top", "bottom"})
        BY <2>2, <1>3
      <3> QED BY <2>4, <3>5, <3>6, <3>7 DEF CounterInv
    <2>13. FlashInv'
      BY <2>4, <1>1, <1>2 DEF NInv, FlashInv, CellsOf, IsFlash
    <2>14. Head(todo').do = "start"
      BY <2>2, <1>3 DEF Now
    <2> QED BY <2>2, <2>6, <2>7, <2>8, <2>9, <2>10, <2>11, <2>12, <2>13, <2>14 DEF NInv
  <1> QED BY <1>9, <1>10

\* A walk over a sound page finds its newest meta.
LEMMA WalkFindsNewest ==
  ASSUME TypeOK, NEW p \in Page, Sound(CellsOf(p))
  PROVE  /\ LastMeta(p) \in 0..Cells /\ LastUnerased(p) \in 0..Cells
         /\ NewestMeta(CellsOf(p), LastMeta(p), LastUnerased(p))
  <1> DEFINE c == CellsOf(p)
             m == LastMeta(p)
             M == Metas(p)
             U == {i \in 1..m : RecordOffset(c[i]) # 0}
             u == LastUnerased(p)
  <1>1. c \in Row /\ Cells \in Nat /\ c = flash[p].cell
    BY Types, StoreAssumption DEF StoreAssumption
  <1>2. /\ MetaEnd(p) \in 0..Cells
        /\ \A i \in 1..MetaEnd(p) : c[i] # Blank
        /\ M = {i \in 1..Cells : IsMeta(c[i])}
    BY StoreAssumption, SoundMetas
  <1>3. m = Newest(M) /\ u = Newest(U)
    BY <1>1 DEF LastMeta, LastUnerased
  <1>4. M \in SUBSET (1..Cells)
    BY <1>2
  <1> HIDE DEF M, c
  <1>5. /\ m \in 0..Cells /\ (m # 0 => m \in M) /\ \A y \in M : y <= m
    <2> HIDE DEF m
    <2> QED BY <1>1, <1>3, <1>4, LastPlace
  <1>6. m \in Nat
    BY <1>1, <1>5
  <1> HIDE DEF m
  <1>7. /\ u \in 0..m /\ (u # 0 => u \in U) /\ \A y \in U : y <= u
    <2>1. U \in SUBSET (1..m)
      OBVIOUS
    <2> HIDE DEF U, u
    <2> QED BY <2>1, <1>3, <1>6, LastPlace
  <1> HIDE DEF u
  <1>8. u \in 0..Cells
    BY <1>1, <1>5, <1>7
  <1>9. \A i \in 1..m : c[i] # Blank
    <2> SUFFICES ASSUME NEW i \in 1..m PROVE c[i] # Blank
      OBVIOUS
    <2>1. m \in 1..Cells /\ IsMeta(c[m])
      BY <1>1, <1>2, <1>5, <1>6
    <2>2. \A j \in 1..(m - 1) : c[j] # Blank
      BY <2>1 DEF Sound, c
    <2>3. i = m \/ i \in 1..(m - 1)
      BY <1>6
    <2> QED BY <2>1, <2>2, <2>3, <1>1, CellFacts
  <1>10. \A i \in 1..Cells : IsMeta(c[i]) => i <= m
    BY <1>2, <1>5
  <1>11. m # 0 => IsMeta(c[m]) /\ (c[m].at # 0 => u = m)
    <2> SUFFICES ASSUME m # 0 PROVE IsMeta(c[m]) /\ (c[m].at # 0 => u = m)
      OBVIOUS
    <2>1. IsMeta(c[m]) /\ m \in 1..m
      BY <1>2, <1>5, <1>6
    <2>2. c[m].at # 0 => m \in U
      BY <2>1 DEF RecordOffset
    <2> QED BY <2>1, <2>2, <1>6, <1>7
  <1>12. NewestMeta(c, m, u)
    BY <1>9, <1>10, <1>11 DEF NewestMeta
  <1> QED BY <1>5, <1>8, <1>12 DEF c, m, u

LEMMA StartWithMetasKeeps ==
  ASSUME NInv, StartWithMetas PROVE NInv'
  <1> DEFINE s == Call("measure")
             r == <<s>> \o <<>>
             m == LastMeta(active)
             u == LastUnerased(active)
  <1>1. /\ todo # <<>> /\ Now.do = "start" /\ Now = Head(todo)
        /\ todo' = <<s>> \o Tail(todo)
    BY DEF StartWithMetas, Doing, Now, Continue
  <1>2. /\ UNCHANGED <<flash, powered, active, counter, copyPending, erase, queue, head, data>>
        /\ initialised' = TRUE
        /\ lastMeta' = [lastMeta EXCEPT ![active] = m]
        /\ lastUnerased' = [lastUnerased EXCEPT ![active] = u]
    BY DEF StartWithMetas, queueVars
  <1>3. powered /\ Allowed(Now, initialised) /\ initialised \in BOOLEAN /\ Tail(todo) = <<>>
    BY <1>1, InCall DEF FinalSteps
  <1>4. ~ initialised /\ initialised = FALSE /\ ~ erase.pending
    BY <1>1, <1>3 DEF Allowed, StartSteps, NInv, EraseInv
  <1>5. /\ counter # 0 /\ Older(Other(active)) /\ Current(active)
        /\ (IsValidPage(1) /\ IsValidPage(2) => flash[1].top # flash[2].top)
    <2>1. ~ Doing("top") /\ ~ Doing("bottom") /\ Now.do \in StartSteps
      BY <1>1 DEF Doing, Now, StartSteps
    <2> QED BY <2>1, <1>1 DEF NInv, CounterInv
  <1>6. active \in Page
    BY Types DEF NInv
  <1>7. Sound(CellsOf(active))
    BY <1>5, <1>6 DEF NInv, FlashInv, Current
  <1>8. /\ m \in 0..Cells /\ u \in 0..Cells /\ NewestMeta(CellsOf(active), m, u)
    BY <1>6, <1>7, WalkFindsNewest DEF NInv
  <1>9. /\ s \in Steps /\ s.do = "measure" /\ s.do \notin Unfinished /\ s.do # "forgetOld"
        /\ s.do \notin StartSteps
    BY StepKinds DEF PlainSteps, StartSteps, Unfinished
  <1>10. todo' = r
    BY <1>1, <1>3
  <1> HIDE DEF s, m, u
  <1>11. initialised' \in BOOLEAN /\ Allowed(s, initialised')
    BY <1>2, <1>9 DEF Allowed
  <1>12. /\ Chain(r, initialised') /\ r # <<>> /\ Head(r) = s
         /\ \A W : Has(r, W) => s.do \in W
    BY <1>9, <1>11, OneStep
  <1> HIDE DEF r
  <1>13. /\ Now' = s /\ todo' # <<>> /\ Chain(todo', initialised')
         /\ \A W : Has(todo', W) => "measure" \in W
    BY <1>9, <1>10, <1>12 DEF Now
  <1>14. /\ ~ Copying' /\ ~ Doing("top")' /\ ~ Doing("bottom")' /\ ~ Doing("record")'
         /\ ~ Doing("meta")' /\ ~ Doing("copyMeta")' /\ ~ Doing("copyNext")'
         /\ ~ Doing("copyRecord")' /\ ~ Doing("erase")'
    BY <1>9, <1>13 DEF Copying, Doing, Now
  <1>15. /\ lastMeta' \in [Page -> 0..Cells] /\ lastUnerased' \in [Page -> 0..Cells]
         /\ lastMeta'[active] = m /\ lastUnerased'[active] = u
    BY <1>2, <1>6, <1>8 DEF NInv, TypeOK
  <1>16. TypeOK'
    BY <1>2, <1>11, <1>15 DEF NInv, TypeOK
  <1>17. TodoInv'
    <2>1. ~ Has(todo', {"forgetOld"}) /\ ~ Has(todo', {"syncCopied"})
      BY <1>13
    <2> QED BY <2>1, <1>13 DEF TodoInv
  <1>18. QueueInv'
    <2>1. /\ ~ Has(todo', RoomSteps \cup {"idleSaved"}) /\ ~ Has(todo', {"makeRoom"})
          /\ ~ Has(todo', RoomSteps \cup {"makeRoom"})
      BY <1>13 DEF RoomSteps
    <2> QED BY <2>1, <1>2 DEF NInv, QueueInv
  <1>19. CopyInv' /\ WriteInv'
    BY <1>14 DEF CopyInv, WriteInv
  <1>20. PointerInv'
    BY <1>2, <1>4 DEF NInv, FlashInv, PointerInv, IsFlash
  <1>21. EraseInv'
    BY <1>2, <1>4, <1>14 DEF EraseInv
  <1>22. CounterInv'
    BY <1>2, <1>5, <1>14 DEF CounterInv, Older, Current, Other, IsValidPage
  <1>23. FlashInv'
    <2>1. \A p \in Page : flash'[p].top # 0 => Sound(flash'[p].cell)
      BY <1>2 DEF NInv, FlashInv, CellsOf
    <2>2. Sound(flash'[active'].cell)
          /\ NewestMeta(flash'[active'].cell, lastMeta'[active'], lastUnerased'[active'])
      BY <1>2, <1>7, <1>8, <1>15 DEF CellsOf
    <2> QED BY <2>1, <2>2, <1>2, <1>3 DEF FlashInv, CellsOf
  <1> QED BY <1>16, <1>17, <1>18, <1>19, <1>20, <1>21, <1>22, <1>23 DEF NInv

\* What a restart reads of an element of a sound page.
LEMMA NewestPointer ==
  ASSUME TypeOK, NEW p \in Page, Sound(CellsOf(p)), NEW e \in Element,
         NEW m, m = Newest(MetasOf(p, e)), m # 0, flash[p].cell[m].at # 0
  PROVE  /\ flash[p].cell[m].at \in 1..Cells
         /\ PointsInto(CellsOf(p), e, flash[p].cell[m].at)
  <1> DEFINE c == CellsOf(p)
             S == MetasOf(p, e)
  <1>1. c \in Row /\ Cells \in Nat /\ c = flash[p].cell
    BY Types, StoreAssumption DEF StoreAssumption
  <1>2. S = {i \in 1..Cells : MetaOf(c, i, e)}
    BY StoreAssumption, SoundMetas
  <1>3. S \in SUBSET (1..Cells)
    BY <1>2
  <1> HIDE DEF S, c
  <1>4. m \in S /\ \A y \in S : y <= m
    BY <1>1, <1>3, LastPlace DEF S
  <1>5. m \in 1..Cells /\ MetaOf(c, m, e) /\ IsMeta(c[m])
    BY <1>2, <1>4 DEF MetaOf
  <1>6. c[m].at \in 0..Cells /\ c[m].at # 0
    BY <1>1, <1>5, CellFacts DEF Row
  <1>7. IsRecord(c, c[m].at, e)
    BY <1>5, <1>6 DEF Sound, MetaOf, c
  <1>8. \A j \in (m + 1)..Cells : ~ MetaOf(c, j, e)
    <2> SUFFICES ASSUME NEW j \in (m + 1)..Cells, MetaOf(c, j, e) PROVE FALSE
      OBVIOUS
    <2>1. j \in 1..Cells /\ j > m
      BY <1>1, <1>5
    <2>2. j \in S
      BY <2>1, <1>2
    <2> QED BY <2>1, <2>2, <1>4, <1>5
  <1>9. PointsInto(c, e, c[m].at)
    BY <1>5, <1>7, <1>8 DEF PointsInto
  <1> QED BY <1>1, <1>6, <1>9 DEF c

LEMMA RestoreUnmirroredKeeps ==
  ASSUME NInv, RestoreUnmirrored PROVE NInv'
  <1>1. /\ todo # <<>> /\ Now.do = "restore" /\ Now.do \in FinalSteps
    BY DEF RestoreUnmirrored, Doing, Now, FinalSteps
  <1>2. powered /\ initialised /\ Tail(todo) = <<>> /\ Quiet(Head(todo))
    BY <1>1, AtFinalStep
  <1>3. /\ todo' = <<>>
        /\ UNCHANGED <<flash, powered, initialised, active, counter, lastMeta, lastUnerased,
                       copyPending, erase, queue, head>>
        /\ data' = [e \in Element |->
                      LET m == Newest(MetasOf(active, e))
                          at == flash[active].cell[m].at
                      IN  IF m = 0 \/ at = 0 THEN NullPointer
                          ELSE FlashPointer(active, at)]
    BY <1>2 DEF RestoreUnmirrored, Return, moduleVars, queueVars
  <1>4. active \in Page /\ Sound(CellsOf(active))
    BY <1>2, Types DEF NInv, FlashInv
  <1>5. ASSUME NEW e \in Element
        PROVE  /\ data'[e] \in Pointer
               /\ data'[e].at = "flash" =>
                    data'[e].page = active /\ PointsInto(CellsOf(active), e, data'[e].cell)
    <2> DEFINE m == Newest(MetasOf(active, e))
               at == flash[active].cell[m].at
    <2>1. data'[e] = IF m = 0 \/ at = 0 THEN NullPointer ELSE FlashPointer(active, at)
      BY <1>3
    <2>2. m # 0 /\ at # 0 => at \in 1..Cells /\ PointsInto(CellsOf(active), e, at)
      <3>1. m = Newest(MetasOf(active, e)) /\ at = flash[active].cell[m].at
        OBVIOUS
      <3> HIDE DEF m, at
      <3> QED BY <3>1, <1>4, NewestPointer DEF NInv
    <2> HIDE DEF m, at
    <2>3. CASE m = 0 \/ at = 0
      BY <2>1, <2>3, PointerFacts
    <2>4. CASE m # 0 /\ at # 0
      BY <2>1, <2>2, <2>4, <1>4, PointerFacts
    <2> QED BY <2>3, <2>4
  <1>6. initialised' \in BOOLEAN
    BY <1>3 DEF NInv, TypeOK
  <1>7. TodoInv' /\ \A W : ~ Has(todo', W)
    BY <1>3, <1>6, CallEnds
  <1>8. TypeOK'
    <2>1. data' \in [Element -> Pointer]
      BY <1>3, <1>5
    <2> QED BY <2>1, <1>3 DEF NInv, TypeOK
  <1>9. QueueInv'
    BY <1>3, <1>7 DEF NInv, QueueInv
  <1>10. /\ ~ Copying' /\ ~ Doing("top")' /\ ~ Doing("bottom")' /\ ~ Doing("record")'
         /\ ~ Doing("meta")' /\ ~ Doing("copyMeta")' /\ ~ Doing("copyNext")'
         /\ ~ Doing("copyRecord")' /\ ~ Doing("erase")'
         /\ ~ Doing("top") /\ ~ Doing("bottom")
    BY <1>1, <1>3 DEF Copying, Doing, Now
  <1>11. CopyInv' /\ WriteInv'
    BY <1>10 DEF CopyInv, WriteInv
  <1>12. PointerInv'
    BY <1>3, <1>5 DEF PointerInv, PointerInto, IsFlash, CellsOf
  <1>13. EraseInv'
    BY <1>3, <1>10, SameErase
  <1>14. CounterInv'
    BY <1>3, <1>10, SameCounters
  <1>15. FlashInv'
    BY <1>2, <1>3, <1>10 DEF NInv, FlashInv, CellsOf
  <1> QED BY <1>8, <1>7, <1>9, <1>11, <1>12, <1>13, <1>14, <1>15 DEF NInv

-----------------------------------------------------------------------------
(* Power loss. *)


\* The cells that are being programmed, and that a power loss may leave torn, are blank.
LEMMA ProgrammedPlace ==
  ASSUME NInv, NEW x \in Tearing
  PROVE  /\ x.page \in Page /\ x.at \in 1..Cells /\ x.size \in Nat
         /\ BlankBetween(CellsOf(x.page), x.at, x.at + x.size - 1)
  <1>1. active \in Page /\ Other(active) \in Page /\ Cells \in Nat
    BY Types, StoreAssumption DEF NInv, StoreAssumption
  <1>2. /\ todo # <<>> => Now \in Steps
        /\ \A e \in Element : Size(e) \in Nat /\ Size(e) >= 1
    BY InCall, SizeFacts, StoreAssumption
  <1>3. CASE Doing("record")
    <2>1. todo # <<>> /\ Now.do = "record" /\ Now.at \in 1..Cells /\ Now.element \in Element
      BY <1>2, <1>3, StepFields DEF Doing, Now
    <2>2. PICK n \in 1..Size(Now.element) : x = Cut(active, Now.at, n)
      BY <1>3 DEF Tearing
    <2>3. x.page = active /\ x.at = Now.at /\ x.size = n
      BY <2>2 DEF Cut
    <2>4. BlankBetween(CellsOf(active), Now.at, Now.at + Size(Now.element) - 1)
      BY <1>3 DEF NInv, WriteInv
    <2>5. BlankBetween(CellsOf(active), Now.at, Now.at + n - 1)
      <3> DEFINE at == Now.at
                 size == Size(Now.element)
      <3>1. at \in Int /\ size \in Int /\ n \in Int /\ n <= size
        BY <2>1, <2>2, <1>2
      <3>2. BlankBetween(CellsOf(active), at, at + size - 1)
        BY <2>4
      <3> HIDE DEF at, size
      <3>3. BlankBetween(CellsOf(active), at, at + n - 1)
        BY <3>1, <3>2 DEF BlankBetween
      <3> QED BY <3>3 DEF at
    <2>6. n \in Nat
      BY <1>2, <2>1, <2>2
    <2> QED BY <2>1, <2>3, <2>5, <2>6, <1>1
  <1>4. CASE Doing("meta")
    <2>1. ~ Doing("record") /\ Now.do = "meta" /\ todo # <<>>
      BY <1>4 DEF Doing, Now
    <2>2. x = Cut(active, Now.meta, 1)
      BY <2>1, <1>4 DEF Tearing
    <2>3. x.page = active /\ x.at = Now.meta /\ x.size = 1
      BY <2>2 DEF Cut
    <2>4. Now.meta \in 1..Cells /\ CellsOf(active)[Now.meta] = Blank
      BY <2>1, <1>2, <1>4, StepFields DEF NInv, WriteInv
    <2>5. BlankBetween(CellsOf(active), Now.meta, Now.meta + 1 - 1)
      BY <2>4 DEF BlankBetween
    <2> QED BY <2>3, <2>4, <2>5, <1>1
  <1>5. CASE Doing("copyRecord")
    <2> DEFINE k == Second.meta - 1
               above == Now.at + Size(Now.element)
               c == CellsOf(Other(active))
    <2>1. ~ Doing("record") /\ ~ Doing("meta") /\ Now.do = "copyRecord" /\ todo # <<>>
      BY <1>5 DEF Doing, Now
    <2>2. Now.at \in 1..Cells /\ Now.element \in Element
      BY <2>1, <1>2, StepFields
    <2>3. PICK n \in 1..Size(Now.element) : x = Cut(Other(active), Now.at, n)
      BY <2>1, <1>5 DEF Tearing
    <2>4. x.page = Other(active) /\ x.at = Now.at /\ x.size = n
      BY <2>3 DEF Cut
    <2>5. k + 1 < Now.at /\ Filling(c, k, k + 1, above - 1)
      BY <1>5, Zenon DEF NInv, CopyInv
    <2>6. k \in Int
      <3>1. Tail(todo) # <<>> /\ Follows(Now, Second, initialised) /\ Second \in Steps
        BY <2>1, InCall, ChainTail DEF Unfinished, Second
      <3>2. Second.do = "copyMeta"
        BY <2>1, <3>1 DEF Follows
      <3>3. Second.meta \in 1..Cells
        BY <3>1, <3>2, StepFields
      <3> QED BY <3>3
    <2>7. BlankBetween(c, Now.at, Now.at + n - 1) /\ n \in Nat
      <3> DEFINE at == Now.at
                 size == Size(Now.element)
      <3>1. at \in Int /\ size \in Int /\ n \in Nat /\ n <= size /\ above = at + size
        BY <2>2, <2>3, <1>2
      <3>2. k + 1 < at /\ BlankBetween(c, k + 1, above - 1)
        BY <2>5 DEF Filling
      <3> HIDE DEF at, size, k, above, c
      <3>3. BlankBetween(c, at, at + n - 1)
        BY <3>1, <3>2, <2>6 DEF BlankBetween
      <3> QED BY <3>1, <3>3 DEF at
    <2> QED BY <2>2, <2>4, <2>7, <1>1
  <1>6. CASE Doing("copyMeta")
    <2> DEFINE k == Now.meta
               c == CellsOf(Other(active))
    <2>1. /\ ~ Doing("record") /\ ~ Doing("meta") /\ ~ Doing("copyRecord")
          /\ Now.do = "copyMeta" /\ todo # <<>>
      BY <1>6 DEF Doing, Now
    <2>2. x = Cut(Other(active), k, 1) /\ k \in 1..Cells /\ Now.at \in 0..Cells
      BY <2>1, <1>2, <1>6, StepFields DEF Tearing
    <2>3. x.page = Other(active) /\ x.at = k /\ x.size = 1
      BY <2>2 DEF Cut
    <2>4. /\ (k - 1) + 1 < Now.at
          /\ Filling(c, k - 1, (k - 1) + 1, Now.at - 1)
      BY <1>6, Zenon DEF NInv, CopyInv
    <2> HIDE DEF k, c
    <2>5. BlankBetween(c, k, k + 1 - 1)
      BY <2>2, <2>4, <1>1 DEF BlankBetween, Filling
    <2> QED BY <2>2, <2>3, <2>5, <1>1 DEF c
  <1> QED BY <1>3, <1>4, <1>5, <1>6 DEF Tearing

\* What a power loss leaves in flash.
FlashKept ==
  /\ flash' \in [Page -> [top : Nat, bottom : Nat, cell : Row]]
  /\ \A p \in Page : flash'[p].top = flash[p].top /\ flash'[p].bottom = flash[p].bottom
  /\ \A p \in Page : flash[p].top # 0 => Sound(flash'[p].cell)

LEMMA FlashAfterLoss ==
  ASSUME NInv, PowerLoss PROVE FlashKept
  <1>1. /\ flash \in [Page -> [top : Nat, bottom : Nat, cell : Row]]
        /\ \A p \in Page : CellsOf(p) = flash[p].cell /\ CellsOf(p) \in Row
    BY Types DEF NInv
  <1>2. \A p \in Page : flash[p].top # 0 => Sound(flash[p].cell)
    BY DEF NInv, FlashInv, CellsOf
  <1>3. CASE UNCHANGED flash
    BY <1>1, <1>2, <1>3 DEF FlashKept
  <1>4. CASE \E x \in Tearing : flash' = Programmed(x.page, x.at, x.size, Torn)
    <2>1. PICK x \in Tearing : flash' = Programmed(x.page, x.at, x.size, Torn)
      BY <1>4
    <2> DEFINE p == x.page
               k == x.at
               n == x.size
    <2>2. /\ p \in Page /\ k \in 1..Cells /\ n \in Nat
          /\ BlankBetween(CellsOf(p), k, k + n - 1)
      BY ProgrammedPlace
    <2>3. flash' = Programmed(p, k, n, Torn)
      BY <2>1
    <2> HIDE DEF p, k, n
    <2>4. Torn \in Cell /\ Torn # Blank /\ ~ IsMeta(Torn)
      BY CellFacts
    <2>5. /\ flash' \in [Page -> [top : Nat, bottom : Nat, cell : Row]]
          /\ \A r \in Page : r # p => flash'[r] = flash[r]
          /\ \A r \in Page : flash'[r].top = flash[r].top /\ flash'[r].bottom = flash[r].bottom
          /\ flash'[p].cell = Programming(CellsOf(p), k, n, Torn)
      BY <2>2, <2>3, <2>4, CellProgrammed DEF NInv
    <2>6. flash[p].top # 0 => Sound(flash'[p].cell)
      <3> SUFFICES ASSUME flash[p].top # 0 PROVE Sound(flash'[p].cell)
        OBVIOUS
      <3>1. Sound(CellsOf(p)) /\ CellsOf(p) \in Row
        BY <2>2, <1>1, <1>2
      <3> DEFINE c == CellsOf(p)
                 d == flash'[p].cell
      <3>2. BlankBetween(c, k, k + n - 1) /\ Sound(c) /\ c \in Row /\ d = Programming(c, k, n, Torn)
        BY <3>1, <2>2, <2>5
      <3> HIDE DEF c, d
      <3>3. Sound(d)
        BY <3>2, <2>2, <2>4, StoreAssumption, ProgramData
      <3> QED BY <3>3 DEF d
    <2> QED BY <2>5, <2>6, <1>2 DEF FlashKept
  <1> QED BY <1>3, <1>4 DEF PowerLoss

\* Whatever is in flash, RAM at start satisfies the invariant.
PowerOff ==
  /\ flash \in [Page -> [top : Nat, bottom : Nat, cell : Row]] /\ powered = FALSE
  /\ RamAtStart
  /\ \A p \in Page : flash[p].top # 0 => Sound(flash[p].cell)
  /\ IsValidPage(1) /\ IsValidPage(2) => flash[1].top # flash[2].top

LEMMA PowerOffInv ==
  PowerOff => NInv
  <1> SUFFICES ASSUME PowerOff PROVE NInv
    OBVIOUS
  <1>0. /\ flash \in [Page -> [top : Nat, bottom : Nat, cell : Row]] /\ powered = FALSE
        /\ RamAtStart
        /\ \A p \in Page : flash[p].top # 0 => Sound(flash[p].cell)
        /\ IsValidPage(1) /\ IsValidPage(2) => flash[1].top # flash[2].top
    BY DEF PowerOff
  <1>1. /\ initialised = FALSE /\ active = 1 /\ counter = 0
        /\ lastMeta = [p \in Page |-> 0] /\ lastUnerased = [p \in Page |-> 0]
        /\ copyPending = FALSE
        /\ erase = [pending |-> FALSE, page |-> 1, sector |-> 1]
        /\ queue = <<>> /\ head = 0
        /\ data = [e \in Element |-> NullPointer]
        /\ todo = <<>>
    BY <1>0 DEF RamAtStart
  <1>2. /\ Cells \in Nat /\ QueueSize \in Nat \ {0} /\ 1 \in Page
        /\ NullPointer \in Pointer /\ NullPointer.at = "null"
    BY StoreAssumption, PointerFacts DEF StoreAssumption, Page
  <1>3. <<>> \in Seq(Element \cup {Cancelled}) /\ Len(<<>>) = 0
    BY EmptySeq
  <1>4. TypeOK
    <2>1. erase \in [pending : BOOLEAN, page : Page, sector : 1..3] /\ ~ erase.pending
      BY <1>1, <1>2
    <2>2. data \in [Element -> Pointer]
      BY <1>1, <1>2
    <2>3. lastMeta \in [Page -> 0..Cells] /\ lastUnerased \in [Page -> 0..Cells]
      BY <1>1, <1>2
    <2>4. queue \in Seq(Element \cup {Cancelled}) /\ Len(queue) <= QueueSize
          /\ head \in 0..(QueueSize - 1)
      BY <1>1, <1>2, <1>3
    <2> QED BY <2>1, <2>2, <2>3, <2>4, <1>0, <1>1, <1>2 DEF TypeOK, Row
  <1>5. \A e \in Element : ~ IsFlash(e)
    BY <1>1, <1>2 DEF IsFlash
  <1>6. Chain(todo, initialised) /\ \A W : ~ Has(todo, W)
    BY <1>1, ChainEmpty
  <1>7. TodoInv
    BY <1>6 DEF TodoInv
  <1>8. QueueInv
    BY <1>4, <1>6 DEF TypeOK, QueueInv
  <1>9. CopyInv /\ WriteInv /\ PointerInv
    BY <1>1, <1>5 DEF CopyInv, WriteInv, PointerInv, Doing
  <1>10. EraseInv
    BY <1>1 DEF EraseInv, Doing
  <1>11. CounterInv
    BY <1>0, <1>1 DEF CounterInv, Copying
  <1>12. FlashInv
    BY <1>0, <1>1, <1>5 DEF FlashInv, CellsOf, Doing
  <1> QED BY <1>4, <1>7, <1>8, <1>9, <1>10, <1>11, <1>12 DEF NInv

LEMMA PowerLossKeeps ==
  ASSUME NInv, PowerLoss PROVE NInv'
  <1>1. FlashKept
    BY FlashAfterLoss
  <1>2. RamAtStart' /\ powered' = FALSE
    BY DEF PowerLoss, RamAtStart
  <1>3. IsValidPage(1)' /\ IsValidPage(2)' => flash'[1].top # flash'[2].top
    BY <1>1 DEF FlashKept, IsValidPage, NInv, CounterInv, Page
  <1>4. PowerOff'
    BY <1>1, <1>2, <1>3 DEF FlashKept, PowerOff
  <1> QED BY <1>4, PowerOffInv, PTL

-----------------------------------------------------------------------------
(* The invariant, and what follows from it. *)

LEMMA StutterKeeps ==
  ASSUME NInv, UNCHANGED vars PROVE NInv'
  <1>1. UNCHANGED <<flash, powered, initialised, active, counter, lastMeta, lastUnerased,
                    copyPending, erase, queue, head, data, todo>>
    BY DEF vars, moduleVars, queueVars
  <1>2. \A what : Doing(what)' <=> Doing(what)
    BY <1>1 DEF Doing
  <1>3. Now' = Now /\ Second' = Second /\ Third' = Third /\ (Copying' <=> Copying)
    BY <1>1 DEF Now, Second, Third, Copying
  <1>4. TypeOK' /\ TodoInv' /\ QueueInv'
    BY <1>1, <1>3 DEF NInv, TypeOK, TodoInv, QueueInv
  <1>5. CopyInv'
    BY <1>1, <1>2, <1>3 DEF NInv, CopyInv, CellsOf, Other, PointersWhileCopying, PointerInto, IsFlash
  <1>6. PointerInv' /\ WriteInv'
    BY <1>1, <1>2, <1>3 DEF NInv, PointerInv, WriteInv, CellsOf, PointerInto, IsFlash
  <1>7. EraseInv'
    BY <1>1, <1>2, <1>3 DEF NInv, EraseInv, CellsOf, Other, Erased
  <1>8. CounterInv' /\ FlashInv'
    BY <1>1, <1>2, <1>3
       DEF NInv, CounterInv, FlashInv, CellsOf, Other, Erased, Older, Current, IsValidPage, IsFlash
  <1> QED BY <1>4, <1>5, <1>6, <1>7, <1>8 DEF NInv

LEMMA WorkKeeps ==
  ASSUME NInv, Work PROVE NInv'
  BY EraseSectorInitialised, EraseSectorFormatting, WriteTopCounterKeeps, WriteBottomCounterKeeps,
     NvWriteRecordKeeps, ProgramRecordKeeps, ProgramMetaKeeps, NvCopyPageKeeps, CopyNextKeeps,
     CopyRecordKeeps, CopyMetaKeeps, SwitchPageKeeps, SyncSavedKeeps, SyncCopiedKeeps,
     ForgetOldPageKeeps, MakeRoomKeeps, RoomMadeKeeps, RoomCopiedKeeps, RoomRetriedKeeps,
     IdleCopiedKeeps, IdleEraseKeeps, IdleSaveKeeps, IdleSavedKeeps, StartWithoutMetaKeeps,
     StartWithMetasKeeps, MeasureFreeSpaceKeeps, RestoreUnmirroredKeeps, FormattedKeeps,
     EstimateSizeKeeps
  DEF Work

LEMMA NextKeeps ==
  ASSUME NInv, [Next]_vars PROVE NInv'
  <1>1. CASE Work
    BY <1>1, WorkKeeps
  <1>2. CASE Application
    BY <1>2, WriteElementKeeps, WriteElementSyncKeeps, EraseElementKeeps DEF Application
  <1>3. CASE NvIdle \/ NvModuleInit \/ PowerLoss
    BY <1>3, NvIdleKeeps, NvModuleInitKeeps, PowerLossKeeps
  <1>4. CASE UNCHANGED vars
    BY <1>4, StutterKeeps
  <1> QED BY <1>1, <1>2, <1>3, <1>4 DEF Next, Processor

LEMMA InitHolds ==
  ASSUME Init PROVE NInv
  <1> DEFINE row == [i \in 1..Cells |-> Blank]
             pg == [top |-> 0, bottom |-> 0, cell |-> row]
  <1>1. flash = [p \in Page |-> pg] /\ powered = FALSE /\ RamAtStart
    BY DEF Init
  <1>2. row \in Row /\ Blank \in Cell
    BY CellFacts DEF Row
  <1> HIDE DEF row
  <1>3. pg \in [top : Nat, bottom : Nat, cell : Row] /\ pg.top = 0
    BY <1>2
  <1> HIDE DEF pg
  <1>4. flash \in [Page -> [top : Nat, bottom : Nat, cell : Row]] /\ \A p \in Page : flash[p].top = 0
    BY <1>1, <1>3
  <1>5. PowerOff
    BY <1>1, <1>4 DEF PowerOff, IsValidPage, Page
  <1> QED BY <1>5, PowerOffInv

(* NInv is an invariant: for every number of elements, cells, queue places,  *)
(* requests and power losses.                                               *)
THEOREM NvmInductive == Spec => []NInv
  <1>1. Init => NInv
    BY InitHolds
  <1>2. NInv /\ [Next]_vars => NInv'
    BY NextKeeps
  <1> QED BY <1>1, <1>2, PTL DEF Spec

(* Every variable keeps its type; in particular each pointer is one of the   *)
(* forms the application is told of, and the queue stays within its ring.   *)
THEOREM NvmTypeCorrect == Spec => []TypeOK
  <1>1. NInv => TypeOK
    BY DEF NInv
  <1> QED BY <1>1, NvmInductive, PTL

\* The pointers of a copy under way lead to one page or the other.
LEMMA PointerIntoSomePage ==
  ASSUME NInv, NEW e \in Element, IsFlash(e)
  PROVE  PointerInto(active, e) \/ PointerInto(Other(active), e)
  <1>1. CASE ~ Copying
    BY <1>1 DEF NInv, PointerInv
  <1>2. CASE Copying
    <2>1. Doing("copyRecord") \/ Doing("copyMeta") \/ Doing("copyNext")
      BY <1>2 DEF Copying, Doing, Now
    <2>2. \E n, from, moving : PointersWhileCopying(n, from, moving)
      BY <2>1 DEF NInv, CopyInv
    <2> QED BY <2>2 DEF PointersWhileCopying
  <1> QED BY <1>1, <1>2

(* A pointer into flash points to a record at every moment, for pages of     *)
(* any size and any number of elements: while a page is copied, while the   *)
(* old one is erased and after a power loss during either (NvCopyPage,      *)
(* NvIdle, __NvmRestoreUnmirrored).                                         *)
THEOREM PointersLeadToRecords == Spec => []PointsToRecord
  <1>1. NInv => PointsToRecord
    <2> SUFFICES ASSUME NInv, NEW e \in Element, IsFlash(e)
                 PROVE  HoldsRecord(flash[data[e].page].cell, data[e].cell, Size(e))
      BY DEF PointsToRecord
    <2>1. PICK p : PointerInto(p, e)
      BY PointerIntoSomePage
    <2> QED BY <2>1 DEF PointerInto, PointsInto, IsRecord, CellsOf
  <1> QED BY <1>1, NvmInductive, PTL

\* The newest of some places is the one no other is above.
LEMMA NewestIs ==
  ASSUME NEW S \in SUBSET (1..Cells), NEW m \in Nat, m = 0 \/ m \in S, \A y \in S : y <= m
  PROVE  Newest(S) = m
  <1>1. Cells \in Nat
    BY StoreAssumption DEF StoreAssumption
  <1> DEFINE x == Newest(S)
  <1>2. x \in 0..Cells /\ (x # 0 => x \in S) /\ \A y \in S : y <= x
    <2> HIDE DEF x
    <2>1. x = Newest(S)
      BY DEF x
    <2> QED BY <1>1, <2>1, LastPlace
  <1>3. S \subseteq Nat
    BY <1>1
  <1> HIDE DEF x
  <1>4. x = m
    BY <1>1, <1>2, <1>3
  <1> QED BY <1>4 DEF x

LEMMA PointsToNewest ==
  ASSUME TypeOK, NEW p \in Page, Sound(CellsOf(p)), NEW e \in Element, NEW at,
         PointsInto(CellsOf(p), e, at)
  PROVE  MetasOf(p, e) # {} /\ at = flash[p].cell[Newest(MetasOf(p, e))].at
  <1> DEFINE c == CellsOf(p)
             S == MetasOf(p, e)
  <1>1. Cells \in Nat /\ c = flash[p].cell
    BY Types, StoreAssumption DEF StoreAssumption
  <1>2. S = {i \in 1..Cells : MetaOf(c, i, e)}
    BY StoreAssumption, SoundMetas
  <1>3. PICK m \in 1..Cells : /\ MetaOf(c, m, e) /\ c[m].at = at
                              /\ \A j \in (m + 1)..Cells : ~ MetaOf(c, j, e)
    BY DEF PointsInto
  <1> HIDE DEF c
  <1>4. m \in S /\ S \in SUBSET (1..Cells)
    BY <1>2, <1>3
  <1>5. \A y \in S : y <= m
    <2> SUFFICES ASSUME NEW y \in S, ~ (y <= m) PROVE FALSE
      OBVIOUS
    <2>1. y \in 1..Cells /\ MetaOf(c, y, e)
      BY <1>2
    <2>2. y \in (m + 1)..Cells
      BY <2>1, <1>1
    <2> QED BY <2>1, <2>2, <1>3
  <1> HIDE DEF S
  <1>6. m \in Nat
    BY <1>1
  <1>7. Newest(S) = m
    BY <1>4, <1>5, <1>6, NewestIs
  <1> QED BY <1>1, <1>3, <1>4, <1>7 DEF S

(* Between two calls a restart would find what the module knows: the active  *)
(* page, its counter, its newest meta, and the record of each element in    *)
(* flash (NvInitStorageSystem, NvUpdateLastMetaInfoAddress,                 *)
(* __NvmRestoreUnmirrored).                                                 *)
THEOREM ModuleAgreesWithFlash == Spec => []AgreesWithFlash
  <1>1. NInv => AgreesWithFlash
    <2> SUFFICES ASSUME NInv, initialised, todo = <<>>
                 PROVE  /\ active = StartPage /\ counter = flash[active].top
                        /\ lastMeta[active] = Newest(Metas(active))
                        /\ \A e \in Element : IsFlash(e) =>
                             /\ data[e].page = active
                             /\ MetasOf(active, e) # {}
                             /\ data[e].cell =
                                  flash[active].cell[Newest(MetasOf(active, e))].at
      BY DEF AgreesWithFlash
    <2>1. /\ ~ Copying /\ ~ Doing("top") /\ ~ Doing("bottom")
      BY DEF Copying, Doing
    <2>2. counter # 0 /\ Older(Other(active)) /\ Current(active)
      BY <2>1 DEF NInv, CounterInv
    <2>3. /\ active \in Page /\ counter \in Nat /\ Cells \in Nat
          /\ lastMeta[active] \in 0..Cells
          /\ flash[1].top \in Nat /\ flash[2].top \in Nat
      BY Types, StoreAssumption DEF NInv, TypeOK, StoreAssumption, Page
    <2>4. active = StartPage
      <3>1. IsValidPage(active)
        BY <2>2 DEF Current, IsValidPage
      <3>2. CASE active = 1
        <4>1. IsValidPage(2) => flash[2].top < flash[1].top
          BY <2>2, <3>2 DEF Older, Current, Other
        <4> QED BY <4>1, <3>1, <3>2, <2>3 DEF StartPage
      <3>3. CASE active = 2
        <4>1. IsValidPage(1) => flash[1].top < flash[2].top
          BY <2>2, <3>3 DEF Older, Current, Other
        <4> QED BY <4>1, <3>1, <3>3, <2>3 DEF StartPage
      <3> QED BY <3>2, <3>3, <2>3 DEF Page
    <2>5. /\ Sound(CellsOf(active))
          /\ NewestMeta(CellsOf(active), lastMeta[active], lastUnerased[active])
      BY DEF NInv, FlashInv
    <2>6. lastMeta[active] = Newest(Metas(active))
      <3> DEFINE c == CellsOf(active)
                 m == lastMeta[active]
                 M == Metas(active)
      <3>1. M = {i \in 1..Cells : IsMeta(c[i])}
        BY <2>3, <2>5, StoreAssumption, SoundMetas DEF NInv
      <3>2. /\ \A i \in 1..Cells : IsMeta(c[i]) => i <= m
            /\ m # 0 => IsMeta(c[m])
            /\ m \in 0..Cells
        BY <2>3, <2>5 DEF NewestMeta
      <3> HIDE DEF c, m
      <3>3. M \in SUBSET (1..Cells) /\ (m = 0 \/ m \in M) /\ \A y \in M : y <= m
        BY <3>1, <3>2, <2>3
      <3>4. m \in Nat
        BY <3>2, <2>3
      <3> HIDE DEF M
      <3>5. Newest(M) = m
        BY <3>3, <3>4, NewestIs
      <3> QED BY <3>5 DEF M, m
    <2>7. ASSUME NEW e \in Element, IsFlash(e)
          PROVE  /\ data[e].page = active
                 /\ MetasOf(active, e) # {}
                 /\ data[e].cell = flash[active].cell[Newest(MetasOf(active, e))].at
      <3>1. PointerInto(active, e)
        BY <2>1, <2>7 DEF NInv, PointerInv
      <3>2. data[e].page = active /\ PointsInto(CellsOf(active), e, data[e].cell)
        BY <3>1 DEF PointerInto
      <3> QED BY <3>2, <2>3, <2>5, PointsToNewest DEF NInv
    <2> QED BY <2>2, <2>4, <2>6, <2>7 DEF Current
  <1> QED BY <1>1, NvmInductive, PTL

-----------------------------------------------------------------------------
(* What a step may do to a cell. *)

CellsKept ==
  \A p \in Page, i \in 1..Cells :
    \/ flash'[p].cell[i] = flash[p].cell[i]
    \/ Blank \in {flash[p].cell[i], flash'[p].cell[i]}

LEMMA ProgramKeepsCells ==
  ASSUME NInv, NEW x \in Tearing, NEW y \in Cell, flash' = Programmed(x.page, x.at, x.size, y)
  PROVE  CellsKept
  <1> DEFINE p == x.page
             k == x.at
             n == x.size
  <1>1. /\ p \in Page /\ k \in 1..Cells /\ n \in Nat
        /\ BlankBetween(CellsOf(p), k, k + n - 1)
    BY ProgrammedPlace
  <1>2. flash' = Programmed(p, k, n, y)
    OBVIOUS
  <1> HIDE DEF p, k, n
  <1>3. /\ \A r \in Page : r # p => flash'[r] = flash[r]
        /\ flash'[p].cell = Programming(CellsOf(p), k, n, y)
    BY <1>1, <1>2, CellProgrammed DEF NInv
  <1>4. CellsOf(p) \in Row /\ CellsOf(p) = flash[p].cell
    BY <1>1, Types DEF NInv
  <1>5. \A i \in 1..Cells : flash'[p].cell[i] = flash[p].cell[i] \/ flash[p].cell[i] = Blank
    BY <1>1, <1>3, <1>4, ProgrammingIs DEF BlankBetween
  <1> QED BY <1>1, <1>3, <1>4, <1>5 DEF CellsKept

LEMMA EraseKeepsCells ==
  ASSUME NInv, NEW p \in Page, NEW s \in {1, 2},
         flash' = [flash EXCEPT ![p] = WithSectorErased(@, s)]
  PROVE  CellsKept
  <1> DEFINE q == WithSectorErased(flash[p], s)
  <1>1. /\ flash \in [Page -> [top : Nat, bottom : Nat, cell : Row]]
        /\ flash[p] \in [top : Nat, bottom : Nat, cell : Row]
    BY Types DEF NInv
  <1>2. flash' = [flash EXCEPT ![p] = q]
    OBVIOUS
  <1>3. q = WithSectorErased(flash[p], s)
    OBVIOUS
  <1> HIDE DEF q
  <1>4. \A i \in 1..Cells : q.cell[i] = flash[p].cell[i] \/ q.cell[i] = Blank
    BY <1>1, <1>3, StoreAssumption, SectorErased
  <1>5. flash'[p] = q /\ \A r \in Page : r # p => flash'[r] = flash[r]
    BY <1>1, <1>2
  <1> QED BY <1>4, <1>5 DEF CellsKept

LEMMA CounterKeepsCells ==
  ASSUME NInv, NEW p \in Page,
         \/ flash' = [flash EXCEPT ![p].top = counter]
         \/ flash' = [flash EXCEPT ![p].bottom = counter]
  PROVE  CellsKept
  <1>1. /\ flash \in [Page -> [top : Nat, bottom : Nat, cell : Row]]
        /\ flash[p] \in [top : Nat, bottom : Nat, cell : Row]
    BY Types DEF NInv
  <1>2. /\ flash'[p].cell = flash[p].cell
        /\ \A r \in Page : r # p => flash'[r] = flash[r]
    BY <1>1
  <1>3. \A r \in Page : flash'[r].cell = flash[r].cell
    BY <1>2
  <1> QED BY <1>3 DEF CellsKept

LEMMA WorkKeepsCells ==
  ASSUME NInv, Work PROVE CellsKept
  <1>1. CASE UNCHANGED flash
    BY <1>1 DEF CellsKept
  <1>2. todo # <<>> => Now \in Steps
    BY InCall
  <1>3. /\ erase.pending => erase.page \in Page /\ erase.sector \in 1..3
    BY DEF NInv, TypeOK
  <1>4. CASE EraseSector
    <2>1. /\ Now.page \in Page /\ Now.sector \in {1, 2}
      BY <1>2, <1>4, StepFields DEF EraseSector, Doing, Now
    <2>2. flash' = [flash EXCEPT ![Now.page] = WithSectorErased(@, Now.sector)]
      BY <1>4 DEF EraseSector
    <2> QED BY <2>1, <2>2, EraseKeepsCells
  <1>5. CASE IdleErase
    <2>1. CASE erase.sector > 2
      BY <2>1, <1>1, <1>5 DEF IdleErase
    <2>2. CASE ~ (erase.sector > 2)
      <3>1. erase.page \in Page /\ erase.sector \in {1, 2}
        BY <2>2, <1>3, <1>5 DEF IdleErase
      <3>2. flash' = [flash EXCEPT ![erase.page] = WithSectorErased(@, erase.sector)]
        BY <2>2, <1>5 DEF IdleErase
      <3> QED BY <3>1, <3>2, EraseKeepsCells
    <2> QED BY <2>1, <2>2
  <1>6. CASE WriteTopCounter \/ WriteBottomCounter
    <2>1. Now.page \in Page
      BY <1>2, <1>6, StepFields DEF WriteTopCounter, WriteBottomCounter, Doing, Now
    <2> QED BY <2>1, <1>6, CounterKeepsCells DEF WriteTopCounter, WriteBottomCounter
  <1>7. CASE ProgramRecord
    <2>1. Doing("record") /\ todo # <<>> /\ Now.do = "record"
      BY <1>7 DEF ProgramRecord, Doing, Now
    <2>2. Now.element \in Element
      BY <2>1, <1>2, StepFields
    <2>3. data[Now.element].value \in Value
      BY <2>1, <2>2, Types, PointerFacts DEF NInv, WriteInv
    <2> DEFINE x == Cut(active, Now.at, Size(Now.element))
               y == Record(data[Now.element].value)
    <2>4. x \in Tearing /\ y \in Cell
      BY <2>1, <2>2, <2>3, CellFacts, SizeFacts, StoreAssumption DEF Tearing
    <2>5. flash' = Programmed(x.page, x.at, x.size, y)
      BY <1>7 DEF ProgramRecord, Cut
    <2> HIDE DEF x, y
    <2> QED BY <2>4, <2>5, ProgramKeepsCells
  <1>8. CASE ProgramMeta
    <2>1. Doing("meta") /\ ~ Doing("record") /\ todo # <<>> /\ Now.do = "meta"
      BY <1>8 DEF ProgramMeta, Doing, Now
    <2>2. Now.element \in Element /\ Now.at \in 0..Cells
      BY <2>1, <1>2, StepFields
    <2> DEFINE x == Cut(active, Now.meta, 1)
               y == Meta(Now.element, Now.at)
    <2>3. x \in Tearing /\ y \in Cell
      BY <2>1, <2>2, CellFacts DEF Tearing
    <2>4. flash' = Programmed(x.page, x.at, x.size, y)
      BY <1>8 DEF ProgramMeta, Cut
    <2> HIDE DEF x, y
    <2> QED BY <2>3, <2>4, ProgramKeepsCells
  <1>9. CASE CopyRecord
    <2>1. /\ Doing("copyRecord") /\ ~ Doing("record") /\ ~ Doing("meta")
          /\ todo # <<>> /\ Now.do = "copyRecord"
      BY <1>9 DEF CopyRecord, Doing, Now
    <2>2. Now.value \in Value \cup {Junk} /\ Now.element \in Element
      BY <2>1, <1>2, StepFields
    <2> DEFINE x == Cut(Other(active), Now.at, Size(Now.element))
               y == Record(Now.value)
    <2>3. x \in Tearing /\ y \in Cell
      BY <2>1, <2>2, CellFacts, SizeFacts, StoreAssumption DEF Tearing
    <2>4. flash' = Programmed(x.page, x.at, x.size, y)
      BY <1>9 DEF CopyRecord, Cut
    <2> HIDE DEF x, y
    <2> QED BY <2>3, <2>4, ProgramKeepsCells
  <1>10. CASE CopyMeta
    <2>1. /\ Doing("copyMeta") /\ ~ Doing("record") /\ ~ Doing("meta")
          /\ ~ Doing("copyRecord") /\ todo # <<>> /\ Now.do = "copyMeta"
      BY <1>10 DEF CopyMeta, Doing, Now
    <2>2. Now.element \in Element /\ Now.at \in 0..Cells
      BY <2>1, <1>2, StepFields
    <2> DEFINE x == Cut(Other(active), Now.meta, 1)
               y == Meta(Now.element, Now.at)
    <2>3. x \in Tearing /\ y \in Cell
      BY <2>1, <2>2, CellFacts DEF Tearing
    <2>4. flash' = Programmed(x.page, x.at, x.size, y)
      BY <1>10 DEF CopyMeta, Cut
    <2> HIDE DEF x, y
    <2> QED BY <2>3, <2>4, ProgramKeepsCells
  <1>11. NvWriteRecord \/ NvCopyPage \/ CopyNext \/ SwitchPage => UNCHANGED flash
    BY DEF NvWriteRecord, NvCopyPage, CopyNext, SwitchPage
  <1>12. SyncSaved \/ SyncCopied \/ ForgetOldPage \/ MakeRoom \/ RoomMade \/ RoomCopied
           \/ RoomRetried => UNCHANGED flash
    BY DEF SyncSaved, SyncCopied, ForgetOldPage, MakeRoom, RoomMade, RoomCopied, RoomRetried
  <1>13. IdleCopied \/ IdleSave \/ IdleSaved \/ StartWithoutMeta \/ StartWithMetas
           \/ MeasureFreeSpace \/ RestoreUnmirrored \/ Formatted \/ EstimateSize
         => UNCHANGED flash
    BY DEF IdleCopied, IdleSave, IdleSaved, StartWithoutMeta, StartWithMetas, MeasureFreeSpace,
           RestoreUnmirrored, Formatted, EstimateSize
  <1> QED BY <1>1, <1>4, <1>5, <1>6, <1>7, <1>8, <1>9, <1>10, <1>11, <1>12, <1>13 DEF Work

(* Flash is programmed only where it is blank, whatever earlier power losses *)
(* left in the page (NvIsMemoryAreaAvailable, NvVirtualPageBlankCheck).     *)
THEOREM OnlyBlankCellsProgrammed == Spec => ProgramsBlankCells
  <1>1. NInv /\ [Next]_vars => CellsKept
    <2> SUFFICES ASSUME NInv, [Next]_vars PROVE CellsKept
      OBVIOUS
    <2>1. CASE Work
      BY <2>1, WorkKeepsCells
    <2>2. CASE Application \/ NvIdle \/ NvModuleInit \/ UNCHANGED vars
      <3>1. UNCHANGED flash
        BY <2>2 DEF Application, WriteElement, WriteElementSync, EraseElement, NvIdle,
                    NvModuleInit, vars
      <3> QED BY <3>1 DEF CellsKept
    <2>3. CASE PowerLoss
      <3>1. CASE UNCHANGED flash
        BY <3>1 DEF CellsKept
      <3>2. CASE \E x \in Tearing : flash' = Programmed(x.page, x.at, x.size, Torn)
        <4>1. PICK x \in Tearing : flash' = Programmed(x.page, x.at, x.size, Torn)
          BY <3>2
        <4> QED BY <4>1, CellFacts, ProgramKeepsCells
      <3> QED BY <2>3, <3>1, <3>2 DEF PowerLoss
    <2> QED BY <2>1, <2>2, <2>3 DEF Next, Processor
  <1>2. CellsKept => [\A p \in Page, i \in 1..Cells :
                        \/ flash'[p].cell[i] = flash[p].cell[i]
                        \/ Blank \in {flash[p].cell[i], flash'[p].cell[i]}]_vars
    BY DEF CellsKept
  <1> QED BY <1>1, <1>2, NvmInductive, PTL DEF Spec, ProgramsBlankCells

-----------------------------------------------------------------------------
(* A start that formats. *)

\* What NvInternalFormat leaves: an empty page 1, the only one with counters.
Fresh ==
  /\ flash[1].top = 1 /\ flash[1].bottom = 1 /\ AllBlank(CellsOf(1))
  /\ Erased(2)

\* Formatting leads there, and nothing else is done before the next start.
StartInv ==
  powered /\ ~ initialised =>
    /\ todo = <<>> \/ Doing("formatted") \/ Doing("estimate") => Fresh
    /\ Doing("top") => Erased(2)
    /\ Doing("bottom") => Erased(2) /\ AllBlank(CellsOf(1))

FormatStep ==
  EraseSector \/ WriteTopCounter \/ WriteBottomCounter \/ Formatted \/ EstimateSize

\* Work of a module that is initialised leaves it so; before that it is formatting or starting.
LEMMA StartingWork ==
  ASSUME NInv, Work
  PROVE  initialised' \/ FormatStep \/ StartWithoutMeta
  <1> SUFFICES ASSUME ~ FormatStep, ~ StartWithoutMeta PROVE initialised'
    OBVIOUS
  <1>1. CASE StartWithMetas
    BY <1>1 DEF StartWithMetas
  <1>2. CASE ~ StartWithMetas
    <2>1. ASSUME NvWriteRecord \/ ProgramRecord \/ ProgramMeta \/ NvCopyPage
          PROVE  initialised' = initialised /\ Doing(Now.do) /\ Now.do \notin StartSteps \cup {"erase", "top", "bottom"}
      BY <2>1 DEF NvWriteRecord, ProgramRecord, ProgramMeta, NvCopyPage, moduleVars, Doing, Now, StartSteps
    <2>2. ASSUME CopyNext \/ CopyRecord \/ CopyMeta \/ SwitchPage
          PROVE  initialised' = initialised /\ Doing(Now.do) /\ Now.do \notin StartSteps \cup {"erase", "top", "bottom"}
      BY <2>2 DEF CopyNext, CopyRecord, CopyMeta, SwitchPage, moduleVars, Doing, Now, StartSteps
    <2>3. ASSUME SyncSaved \/ SyncCopied \/ ForgetOldPage \/ MakeRoom \/ RoomMade
          PROVE  initialised' = initialised /\ Doing(Now.do) /\ Now.do \notin StartSteps \cup {"erase", "top", "bottom"}
      BY <2>3 DEF SyncSaved, SyncCopied, ForgetOldPage, MakeRoom, RoomMade, moduleVars, Doing, Now, StartSteps
    <2>4. ASSUME RoomCopied \/ RoomRetried \/ IdleCopied \/ IdleErase \/ IdleSave \/ IdleSaved
          PROVE  initialised' = initialised /\ Doing(Now.do) /\ Now.do \notin StartSteps \cup {"erase", "top", "bottom"}
      BY <2>4 DEF RoomCopied, RoomRetried, IdleCopied, IdleErase, IdleSave, IdleSaved, moduleVars,
                  Doing, Now, StartSteps
    <2>5. ASSUME MeasureFreeSpace \/ RestoreUnmirrored
          PROVE  initialised' = initialised /\ Doing(Now.do) /\ Now.do \notin StartSteps \cup {"erase", "top", "bottom"}
      BY <2>5 DEF MeasureFreeSpace, RestoreUnmirrored, moduleVars, Doing, Now, StartSteps
    <2>6. initialised' = initialised /\ Doing(Now.do) /\ Now.do \notin StartSteps \cup {"erase", "top", "bottom"}
      BY <1>2, <2>1, <2>2, <2>3, <2>4, <2>5 DEF Work, FormatStep
    <2>7. Allowed(Now, initialised)
      BY <2>6, InCall DEF Doing
    <2> QED BY <2>6, <2>7 DEF Allowed
  <1> QED BY <1>1, <1>2

LEMMA FormatStepKeeps ==
  ASSUME NInv, StartInv, ~ initialised, FormatStep PROVE StartInv'
  <1>1. CASE EraseSector
    <2> DEFINE s == Now.sector
               p == Now.page
               q == WithSectorErased(flash[p], s)
    <2>1. /\ todo # <<>> /\ Now.do = "erase" /\ todo' = Tail(todo)
          /\ flash' = [flash EXCEPT ![p] = q]
      BY <1>1 DEF EraseSector, Doing, Now, Return
    <2>2. /\ Now \in Steps /\ todo' # <<>> /\ Follows(Now, Second, FALSE) /\ Second = Head(todo')
      BY <2>1, InCall DEF Unfinished, Second, NInv, TypeOK
    <2>3. s \in {1, 2} /\ p \in {1, 2}
      BY <2>1, <2>2, StepFields DEF Page
    <2>4. \/ s = 1 /\ Second = [do |-> "erase", page |-> p, sector |-> 2]
          \/ s = 2 /\ p = 1 /\ Second = [do |-> "erase", page |-> 2, sector |-> 1]
          \/ s = 2 /\ p = 2 /\ Second = [do |-> "top", page |-> 1]
      BY <2>1, <2>2, <2>3 DEF Follows
    <2>5. s = 2 => flash[p].top = 0
      BY <2>1 DEF NInv, EraseInv, Doing, Now
    <2>6. flash[p] \in [top : Nat, bottom : Nat, cell : Row] /\ flash'[p] = q
      BY <2>1, <2>3, Types DEF NInv, Page
    <2>7. s = 2 => q.top = 0 /\ q.bottom = 0
      <3> DEFINE pg == flash[p]
      <3>1. pg \in [top : Nat, bottom : Nat, cell : Row] /\ q = WithSectorErased(pg, s) /\ pg = flash[p]
        BY <2>6
      <3> HIDE DEF pg, s, p, q
      <3> QED BY <3>1, <2>3, <2>5, StoreAssumption, SectorErased
    <2> HIDE DEF q, s, p
    <2>8. Doing("top")' => flash'[2].top = 0 /\ flash'[2].bottom = 0
      BY <2>2, <2>4, <2>6, <2>7 DEF Doing
    <2>9. ~ Doing("formatted")' /\ ~ Doing("estimate")' /\ ~ Doing("bottom")'
      BY <2>2, <2>4 DEF Doing
    <2> QED BY <2>2, <2>8, <2>9 DEF StartInv, Erased
  <1>2. CASE WriteTopCounter
    <2>1. /\ todo # <<>> /\ Doing("top") /\ todo' = Tail(todo) /\ UNCHANGED active
          /\ flash' = [flash EXCEPT ![Now.page].top = counter] /\ Now.do = "top"
      BY <1>2 DEF WriteTopCounter, Doing, Now, Return, moduleVars
    <2>2. Now.page = 1 /\ powered
      BY <2>1, InCall DEF NInv, CounterInv
    <2>3. AllBlank(CellsOf(1)) /\ Erased(2)
      BY <2>1, <2>2 DEF NInv, FlashInv, StartInv
    <2>4. flash \in [Page -> [top : Nat, bottom : Nat, cell : Row]]
      BY Types DEF NInv
    <2>5. flash'[1].cell = flash[1].cell /\ flash'[2] = flash[2]
      BY <2>1, <2>2, <2>4 DEF Page
    <2>6. AllBlank(CellsOf(1))' /\ Erased(2)'
      BY <2>3, <2>5 DEF AllBlank, BlankBetween, CellsOf, Erased
    <2>7. /\ todo' # <<>> /\ Head(todo') = [do |-> "bottom", page |-> 1]
      BY <2>1, <2>2, InCall DEF Unfinished, Follows, Second
    <2>8. ~ Doing("formatted")' /\ ~ Doing("estimate")'
      BY <2>7 DEF Doing
    <2> QED BY <2>6, <2>7, <2>8 DEF StartInv
  <1>3. CASE WriteBottomCounter
    <2>1. /\ todo # <<>> /\ Doing("bottom") /\ ~ Doing("top") /\ todo' = Tail(todo)
          /\ flash' = [flash EXCEPT ![Now.page].bottom = counter] /\ Now.do = "bottom"
      BY <1>3 DEF WriteBottomCounter, Doing, Now, Return
    <2>2. /\ active = 1 /\ counter = 1 /\ Now.page = 1 /\ powered
          /\ flash[1].top = 1
      BY <2>1, InCall DEF NInv, CounterInv
    <2>3. AllBlank(CellsOf(1)) /\ Erased(2)
      BY <2>1, <2>2 DEF StartInv
    <2>4. flash \in [Page -> [top : Nat, bottom : Nat, cell : Row]]
      BY Types DEF NInv
    <2>5. /\ flash'[1].cell = flash[1].cell /\ flash'[2] = flash[2]
          /\ flash'[1].top = 1 /\ flash'[1].bottom = 1
      BY <2>1, <2>2, <2>4 DEF Page
    <2>6. Fresh'
      BY <2>3, <2>5 DEF Fresh, AllBlank, BlankBetween, CellsOf, Erased
    <2>7. todo' # <<>> => Head(todo').do \notin {"top", "bottom"}
      BY <2>1, InCall
         DEF Follows, Second, Unfinished, ElementSteps, RoomSteps, PlainSteps, StartSteps
    <2> QED BY <2>6, <2>7 DEF StartInv, Doing, Fresh
  <1>4. CASE Formatted \/ EstimateSize
    <2>1. UNCHANGED flash /\ todo # <<>> /\ (Doing("formatted") \/ Doing("estimate"))
      BY <1>4 DEF Formatted, EstimateSize, Doing
    <2>2. powered
      BY <2>1, InCall
    <2>3. Fresh
      BY <2>1, <2>2 DEF StartInv
    <2>4. Fresh'
      BY <2>1, <2>3 DEF Fresh, AllBlank, BlankBetween, CellsOf, Erased
    <2> QED BY <2>4 DEF StartInv, Fresh
  <1> QED BY <1>1, <1>2, <1>3, <1>4 DEF FormatStep

LEMMA StartInvKept ==
  ASSUME NInv, StartInv, [Next]_vars PROVE StartInv'
  <1>1. CASE Work
    <2>1. CASE FormatStep /\ ~ initialised
      BY <2>1, FormatStepKeeps
    <2>2. CASE FormatStep /\ initialised
      <3>1. UNCHANGED initialised
        BY <2>2 DEF FormatStep, EraseSector, WriteTopCounter, WriteBottomCounter, Formatted,
                    EstimateSize, moduleVars
      <3> QED BY <2>2, <3>1 DEF StartInv
    <2>3. CASE StartWithoutMeta
      BY <2>3, StartWithoutMetaKeeps DEF StartInv, Doing
    <2>4. CASE initialised'
      BY <2>4 DEF StartInv
    <2> QED BY <1>1, <2>1, <2>2, <2>3, <2>4, StartingWork
  <1>2. CASE Application
    <2>1. UNCHANGED <<flash, powered, initialised>> /\ todo = <<>>
      BY <1>2 DEF Application, EraseElement, WriteElement, WriteElementSync, Request, moduleVars
    <2>2. ~ initialised => todo' = <<>>
      <3> SUFFICES ASSUME ~ initialised PROVE todo' = <<>>
        OBVIOUS
      <3>1. PICK e \in Element :
              EraseElement(e) \/ \E v \in Value : WriteElement(e, v) \/ WriteElementSync(e, v)
        BY <1>2 DEF Application
      <3>2. ~ IsFlash(e)
        BY DEF NInv, FlashInv
      <3>3. EraseElement(e) => todo' = <<>>
        BY <3>2 DEF EraseElement
      <3>4. ASSUME NEW v \in Value, WriteElement(e, v) PROVE todo' = <<>>
        BY <2>1, <3>4 DEF WriteElement
      <3>5. ASSUME NEW v \in Value, WriteElementSync(e, v) PROVE todo' = <<>>
        BY <3>5 DEF WriteElementSync
      <3> QED BY <3>1, <3>3, <3>4, <3>5
    <2>3. powered /\ ~ initialised => Fresh'
      BY <2>1 DEF StartInv, Fresh, AllBlank, BlankBetween, CellsOf, Erased
    <2> QED BY <2>1, <2>2, <2>3 DEF StartInv, Doing
  <1>3. CASE NvIdle
    BY <1>3 DEF NvIdle, moduleVars, StartInv
  <1>4. CASE NvModuleInit
    BY <1>4, NvModuleInitKeeps DEF StartInv, Doing
  <1>5. CASE PowerLoss
    BY <1>5 DEF PowerLoss, StartInv
  <1>6. CASE UNCHANGED vars
    <2>1. UNCHANGED <<flash, powered, initialised, todo>>
      BY <1>6 DEF vars, moduleVars
    <2> QED BY <2>1 DEF StartInv, Fresh, AllBlank, BlankBetween, CellsOf, Erased, Doing
  <1> QED BY <1>1, <1>2, <1>3, <1>4, <1>5, <1>6 DEF Next, Processor

(* A start that formatted the storage and left the module uninitialised is   *)
(* not repeated, after any history of power losses: the next one finds an   *)
(* empty page and succeeds (__NvModuleInit, NvInternalFormat).              *)
THEOREM NextStartIsGood == Spec => []NextStartSucceeds
  <1>1. Init => StartInv
    BY DEF Init, StartInv
  <1>2. NInv /\ StartInv => NextStartSucceeds
    <2> SUFFICES ASSUME NInv, StartInv, powered, todo = <<>>, ~ initialised
                 PROVE  StartPage # 0 /\ MetaEnd(StartPage) = 0
      BY DEF NextStartSucceeds
    <2>1. Fresh
      BY DEF StartInv
    <2>2. StartPage = 1
      BY <2>1 DEF Fresh, Erased, StartPage, IsValidPage
    <2>3. Cells \in Nat /\ 1 \in 1..Cells /\ 1 <= Cells + 1
      <3>1. 1 \in Element
        BY StoreAssumption DEF StoreAssumption, Element
      <3> QED BY <3>1, SizeFacts, StoreAssumption
    <2> DEFINE S == {i \in 1..Cells : flash[1].cell[i] = Blank}
               x == Min(S \cup {Cells + 1})
    <2>4. S \in SUBSET (1..Cells) /\ 1 \in S
      BY <2>1, <2>3 DEF Fresh, AllBlank, BlankBetween, CellsOf
    <2>5. MetaEnd(1) = x - 1
      BY DEF MetaEnd
    <2> HIDE DEF S
    <2>6. x \in 1..(Cells + 1) /\ \A y \in S : x <= y
      BY <2>3, <2>4, FirstPlace
    <2> HIDE DEF x
    <2>7. x = 1
      BY <2>3, <2>4, <2>6
    <2> QED BY <2>2, <2>5, <2>7
  <1>3. NInv /\ StartInv /\ [Next]_vars => StartInv'
    BY StartInvKept
  <1> QED BY <1>1, <1>2, <1>3, NvmInductive, PTL DEF Spec

=============================================================================

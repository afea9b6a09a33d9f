----------------------- MODULE NonVolatileMemory_store -----------------------
(***************************************************************************)
(* The proof that the non-volatile memory implements RecordStore, through   *)
(* any number of power losses and for records of any size.                  *)
(*                                                                         *)
(* Only two steps change what a restart would restore, as long as it can    *)
(* read what is stored: programming a meta (Save) and the bottom counter of *)
(* a page that has been copied to.  For the second, SInv says what each     *)
(* copied record is worth (Wanted), that nothing is left behind (Searched), *)
(* and that no page without metas hides an older one with records           *)
(* (EmptyNewer).  A start that cannot read what is stored formats the       *)
(* storage, and then the elements are lost as the pages go (Losing).        *)
(***************************************************************************)
EXTENDS NonVolatileMemory_proofs

\* What the newest meta of the element among the cells c says of it.
Kept(c, e) ==
  LET m == Newest({i \in 1..Cells : MetaOf(c, i, e)})
  IN  IF m = 0 THEN None
      ELSE IF c[m].at = 0 THEN None ELSE c[c[m].at].value

InRam(e) == data[e].at \in {"ram", "caller"}

\* The value that a copy of the element from the cells c is to have: an
\* element that was erased and is written anew is copied as junk.
Wanted(c, e, v) ==
  \/ Kept(c, e) # None /\ v = Kept(c, e)
  \/ Kept(c, e) = None /\ v = Junk /\ InRam(e)

\* NvIsRecordErased, for an element that is erased now.
Gone(i, e) ==
  data[e] = NullPointer /\ \E k \in i..Cells : /\ MetaOf(CellsOf(active), k, e)
                                              /\ CellsOf(active)[k].at = 0

\* The metas above `from' have been dealt with, n of them copied.
Searched(n, from, moving) ==
  \A e \in Element : \A i \in (from + 1)..Cells : MetaOf(CellsOf(active), i, e) =>
    Copied(CellsOf(Other(active)), e, n) \/ e \in moving \/ Gone(i, e)

CopiedWell(n) ==
  \A e \in Element : Copied(CellsOf(Other(active)), e, n) =>
    Wanted(CellsOf(active), e, Kept(CellsOf(Other(active)), e))

CopyValues ==
  /\ Doing("copyNext") => Searched(Now.meta - 1, Now.from, {}) /\ CopiedWell(Now.meta - 1)
  /\ Doing("copyRecord") =>
       /\ Searched(Second.meta - 1, Third.from, {Second.element})
       /\ CopiedWell(Second.meta - 1)
       /\ Wanted(CellsOf(active), Second.element, Now.value)
  /\ Doing("copyMeta") =>
       /\ Searched(Now.meta - 1, Second.from, {Now.element})
       /\ CopiedWell(Now.meta - 1)
       /\ Wanted(CellsOf(active), Now.element, CellsOf(Other(active))[Now.at].value)

\* The page copied to, once the copy is complete.
SwitchInv ==
  initialised /\ (Doing("top") \/ Doing("bottom")) =>
    /\ IsValidPage(Other(active))
    /\ \A e \in Element :
         LET old == Kept(CellsOf(Other(active)), e)
             new == Kept(CellsOf(active), e)
         IN  new = old \/ (old = None /\ new = Junk /\ InRam(e))

\* The record that a meta is about to be programmed for.
MetaInv ==
  Doing("meta") => IF Now.at = 0 THEN data[Now.element] = NullPointer
                   ELSE /\ InRam(Now.element)
                        /\ CellsOf(active)[Now.at].value = data[Now.element].value

\* A start reads the pages, and no write is made for the application before
\* it is through.
Loading == {"start", "measure", "restore"}
Writing == {"write", "record", "meta"}
LoadInv ==
  /\ Has(todo, Loading) => ~ Has(todo, Writing)
  /\ Has(todo, {"measure"}) => Doing("measure")

NullInv == ~ Restored => \A e \in Element : data[e] = NullPointer

AllErased(p) == \A e \in Element : Kept(CellsOf(p), e) = None

EmptyNewer ==
  \A p \in Page :
    /\ IsValidPage(p) /\ IsValidPage(Other(p)) /\ flash[Other(p)].top < flash[p].top
    /\ \A i \in 1..Cells : ~ IsMeta(CellsOf(p)[i])
    => AllErased(Other(p))

\* Unless elements are being lost, the storage is formatted, or has been,
\* only when there is nothing to lose.
FormatInv ==
  ~ initialised /\ todo # <<>> /\ Now.do # "start" /\ ~ Losing =>
    /\ \A p \in Page : IsValidPage(p) => AllErased(p)
    /\ Doing("bottom") => AllBlank(CellsOf(1))

MeasureInv ==
  Doing("measure") /\ lastUnerased[active] = 0 =>
    \A i \in 1..Cells : IsMeta(CellsOf(active)[i]) => CellsOf(active)[i].at = 0

SInv == /\ CopyValues /\ SwitchInv /\ MetaInv /\ LoadInv /\ NullInv
        /\ EmptyNewer /\ FormatInv /\ MeasureInv


-----------------------------------------------------------------------------
(* What the metas of a page say. *)

\* The records that metas lead to are there.
Leads(c) == \A i \in 1..Cells :
  IsMeta(c[i]) /\ c[i].at # 0 => IsRecord(c, c[i].at, c[i].element)

\* m is the newest meta of the element, 0 for none.
NewestOf(c, e, m) ==
  /\ m \in 0..Cells
  /\ m # 0 => MetaOf(c, m, e)
  /\ \A i \in 1..Cells : MetaOf(c, i, e) => i <= m

LEMMA KeptIs ==
  ASSUME NEW c, NEW e, NEW m, NewestOf(c, e, m)
  PROVE  Kept(c, e) = IF m = 0 THEN None
                      ELSE IF c[m].at = 0 THEN None ELSE c[c[m].at].value
  <1> DEFINE S == {i \in 1..Cells : MetaOf(c, i, e)}
  <1>1. Cells \in Nat
    BY StoreAssumption DEF StoreAssumption
  <1>2. m \in Nat /\ (m # 0 => m \in 1..Cells)
    BY <1>1 DEF NewestOf
  <1>3. S \in SUBSET (1..Cells) /\ (m = 0 \/ m \in S) /\ \A y \in S : y <= m
    BY <1>2 DEF NewestOf
  <1>4. Newest(S) = m
    <2> HIDE DEF S
    <2> QED BY <1>2, <1>3, NewestIs
  <1> QED BY <1>4 DEF Kept

LEMMA SomeNewest ==
  ASSUME NEW c, NEW e
  PROVE  \E m : NewestOf(c, e, m)
  <1> DEFINE S == {i \in 1..Cells : MetaOf(c, i, e)}
             m == Newest(S)
  <1>1. Cells \in Nat /\ S \in SUBSET (1..Cells)
    BY StoreAssumption DEF StoreAssumption
  <1>2. m \in 0..Cells /\ (m # 0 => m \in S) /\ \A y \in S : y <= m
    <2> HIDE DEF S
    <2> QED BY <1>1, LastPlace
  <1>3. NewestOf(c, e, m)
    <2> HIDE DEF m
    <2> QED BY <1>2 DEF NewestOf
  <1> QED BY <1>3

\* No metas, no record.
LEMMA KeptNothing ==
  ASSUME NEW c, NEW e, \A i \in 1..Cells : ~ MetaOf(c, i, e)
  PROVE  Kept(c, e) = None
  <1>1. NewestOf(c, e, 0)
    BY StoreAssumption DEF NewestOf, StoreAssumption
  <1> QED BY <1>1, KeptIs

\* What is kept is a value, except for an element whose newest meta says it
\* was erased.
LEMMA KeptValue ==
  ASSUME NEW c \in Row, Leads(c), NEW e, NEW m, NewestOf(c, e, m)
  PROVE  /\ Kept(c, e) \in Value \cup {Junk, None}
         /\ Kept(c, e) = None <=> m = 0 \/ c[m].at = 0
  <1>1. ASSUME NEW x \in Cell, x.kind = "record"
        PROVE  x.value \in Value \cup {Junk}
    BY <1>1 DEF Cell, Blank, Torn, Record, Meta
  <1>2. None \notin Value \cup {Junk}
    BY ValueAssumption DEF ValueAssumption, None, Junk
  <1>3. Cells \in Nat
    BY StoreAssumption DEF StoreAssumption
  <1>4. ASSUME m # 0, c[m].at # 0
        PROVE  c[c[m].at].value \in Value \cup {Junk}
    <2>1. m \in 1..Cells /\ IsMeta(c[m])
      BY <1>3, <1>4 DEF NewestOf, MetaOf
    <2>2. c[m].at \in 1..Cells
      BY <2>1, <1>3, <1>4, CellFacts DEF Row
    <2>3. IsRecord(c, c[m].at, c[m].element) /\ c[c[m].at] \in Cell
      BY <2>1, <2>2, <1>4 DEF Leads, Row
    <2>4. c[m].element \in Element /\ c[m].at \in Int
      BY <2>1, <2>2, CellFacts DEF Row
    <2>5. c[c[m].at].kind = "record"
      BY <2>3, <2>4, StoreAssumption, RecordFacts
    <2> QED BY <2>3, <2>5, <1>1
  <1> QED BY <1>2, <1>4, KeptIs

\* A pointer's record is the one kept.
LEMMA PointsIntoKept ==
  ASSUME NEW c, NEW e, NEW at \in 1..Cells, PointsInto(c, e, at)
  PROVE  /\ Kept(c, e) = c[at].value
         /\ c \in Row => Kept(c, e) \in Value \cup {Junk} /\ Kept(c, e) # None
  <1>1. PICK m \in 1..Cells : /\ MetaOf(c, m, e) /\ c[m].at = at
                              /\ \A j \in (m + 1)..Cells : ~ MetaOf(c, j, e)
    BY DEF PointsInto
  <1>2. Cells \in Nat
    BY StoreAssumption DEF StoreAssumption
  <1>3. NewestOf(c, e, m)
    <2>1. \A i \in 1..Cells : i <= m \/ i \in (m + 1)..Cells
      BY <1>2
    <2>2. m \in 0..Cells
      BY <1>2
    <2> QED BY <2>1, <2>2, <1>1 DEF NewestOf
  <1>4. m # 0 /\ at # 0
    BY <1>2
  <1>5. Kept(c, e) = c[at].value
    BY <1>1, <1>3, <1>4, KeptIs
  <1>6. ASSUME NEW x \in Cell, x.kind = "record"
        PROVE  x.value \in Value \cup {Junk}
    BY <1>6 DEF Cell, Blank, Torn, Record, Meta
  <1>7. None \notin Value \cup {Junk}
    BY ValueAssumption DEF ValueAssumption, None, Junk
  <1>8. ASSUME c \in Row PROVE c[at].value \in Value \cup {Junk}
    <2>1. c[m] \in Cell /\ IsMeta(c[m]) /\ c[m].element = e /\ c[at] \in Cell
      BY <1>1, <1>8 DEF MetaOf, Row
    <2>2. e \in Element
      BY <2>1, CellFacts
    <2>3. IsRecord(c, at, e) /\ at \in Int
      BY DEF PointsInto
    <2>4. c[at].kind = "record"
      BY <1>8, <2>2, <2>3, StoreAssumption, RecordFacts
    <2> QED BY <2>1, <2>4, <1>6
  <1> QED BY <1>5, <1>7, <1>8

\* Cells that are not blank stay, and the element gets no new meta.
LEMMA KeptSame ==
  ASSUME NEW c \in Row, NEW d, Leads(c), NEW e,
         \A i \in 1..Cells : c[i] # Blank => d[i] = c[i],
         \A i \in 1..Cells : MetaOf(d, i, e) => MetaOf(c, i, e)
  PROVE  Kept(d, e) = Kept(c, e)
  <1>1. PICK m : NewestOf(c, e, m)
    BY SomeNewest
  <1>2. Cells \in Nat
    BY StoreAssumption DEF StoreAssumption
  <1>3. m # 0 => m \in 1..Cells /\ IsMeta(c[m]) /\ c[m].at \in 0..Cells /\ d[m] = c[m]
    <2> SUFFICES ASSUME m # 0
                 PROVE  m \in 1..Cells /\ IsMeta(c[m]) /\ c[m].at \in 0..Cells /\ d[m] = c[m]
      OBVIOUS
    <2>1. m \in 1..Cells /\ IsMeta(c[m])
      BY <1>1, <1>2 DEF NewestOf, MetaOf
    <2>2. c[m] \in Cell
      BY <2>1 DEF Row
    <2> QED BY <2>1, <2>2, CellFacts
  <1>4. NewestOf(d, e, m)
    BY <1>1, <1>3 DEF NewestOf, MetaOf
  <1>5. m # 0 /\ c[m].at # 0 => d[c[m].at] = c[c[m].at]
    <2> SUFFICES ASSUME m # 0, c[m].at # 0 PROVE d[c[m].at] = c[c[m].at]
      OBVIOUS
    <2>1. c[m].at \in 1..Cells /\ IsRecord(c, c[m].at, c[m].element)
      BY <1>2, <1>3 DEF Leads
    <2>2. c[m].element \in Element /\ c[m].at \in Int
      BY <1>3, <2>1, CellFacts DEF Row
    <2>3. c[c[m].at] # Blank
      BY <2>1, <2>2, StoreAssumption, RecordFacts
    <2> QED BY <2>1, <2>3
  <1> QED BY <1>1, <1>3, <1>4, <1>5, KeptIs

\* Blank cells programmed with anything but a meta.
LEMMA DataKeeps ==
  ASSUME NEW c \in Row, Leads(c), NEW k \in 1..Cells, NEW n \in Nat,
         BlankBetween(c, k, k + n - 1),
         NEW x \in Cell, ~ IsMeta(x), NEW d, d = Programming(c, k, n, x)
  PROVE  /\ \A e : Kept(d, e) = Kept(c, e)
         /\ \A i \in 1..Cells : IsMeta(d[i]) <=> IsMeta(c[i])
         /\ \A i \in 1..Cells : IsMeta(c[i]) => d[i] = c[i]
  <1>1. /\ \A i \in 1..Cells : d[i] = IF i \in k..(k + n - 1) THEN x ELSE c[i]
        /\ \A i \in k..(k + n - 1) : c[i] = Blank
    BY ProgrammingIs DEF BlankBetween
  <1>2. /\ \A i \in 1..Cells : c[i] # Blank => d[i] = c[i]
        /\ \A i \in 1..Cells : IsMeta(d[i]) <=> IsMeta(c[i])
        /\ \A i \in 1..Cells : IsMeta(c[i]) => d[i] = c[i]
    BY <1>1, CellFacts
  <1>3. \A e : \A i \in 1..Cells : MetaOf(d, i, e) => MetaOf(c, i, e)
    BY <1>2 DEF MetaOf
  <1> QED BY <1>2, <1>3, KeptSame

\* A meta programmed above those of its element.
LEMMA MetaKeeps ==
  ASSUME NEW c \in Row, Leads(c), NEW k \in 1..Cells, c[k] = Blank,
         NEW e \in Element, NEW at \in 0..Cells, NEW d, d = Programming(c, k, 1, Meta(e, at)),
         \A i \in 1..Cells : MetaOf(c, i, e) => i < k,
         at # 0 => IsRecord(c, at, e)
  PROVE  /\ Kept(d, e) = IF at = 0 THEN None ELSE c[at].value
         /\ \A f : f # e => Kept(d, f) = Kept(c, f)
  <1> DEFINE x == Meta(e, at)
  <1>1. IsMeta(x) /\ x.element = e /\ x.at = at
    BY CellFacts
  <1>0. x \in Cell
    BY CellFacts
  <1>2. \A i \in 1..Cells : d[i] = IF i = k THEN x ELSE c[i]
    <2> HIDE DEF x
    <2> QED BY <1>0, OneCellIs DEF x
  <1> HIDE DEF x
  <1>3. Cells \in Nat
    BY StoreAssumption DEF StoreAssumption
  <1>4. NewestOf(d, e, k)
    <2>1. k \in 0..Cells /\ MetaOf(d, k, e)
      BY <1>1, <1>2, <1>3 DEF MetaOf
    <2>2. ASSUME NEW i \in 1..Cells, MetaOf(d, i, e) PROVE i <= k
      <3>1. CASE i = k
        BY <3>1
      <3>2. CASE i # k
        <4>1. MetaOf(c, i, e)
          BY <3>2, <2>2, <1>2 DEF MetaOf
        <4>2. i < k
          BY <4>1
        <4> QED BY <4>2, <1>3
      <3> QED BY <3>1, <3>2
    <2> QED BY <2>1, <2>2 DEF NewestOf
  <1>5. d[k] = x /\ k # 0
    BY <1>2, <1>3
  <1>6. at # 0 => d[at] = c[at]
    <2>1. at # 0 => at \in 1..Cells /\ c[at] # Blank
      <3>1. at \in Int
        BY <1>3
      <3> QED BY <3>1, StoreAssumption, RecordFacts
    <2> QED BY <2>1, <1>2
  <1>7. Kept(d, e) = IF at = 0 THEN None ELSE c[at].value
    BY <1>1, <1>4, <1>5, <1>6, KeptIs
  <1>8. ASSUME NEW f, f # e PROVE Kept(d, f) = Kept(c, f)
    <2>1. \A i \in 1..Cells : c[i] # Blank => d[i] = c[i]
      BY <1>2
    <2>2. \A i \in 1..Cells : MetaOf(d, i, f) => MetaOf(c, i, f)
      BY <1>1, <1>2, <1>8 DEF MetaOf
    <2> QED BY <2>1, <2>2, KeptSame
  <1> QED BY <1>7, <1>8

LEMMA SoundLeads ==
  ASSUME NEW c, Sound(c) PROVE Leads(c)
  BY DEF Sound, Leads

\* The metas of a page that is copied to.
LEMMA FillingLeads ==
  ASSUME NEW c \in Row, NEW n \in 0..Cells, NEW hi \in 0..Cells, Filling(c, n, n + 1, hi)
  PROVE  /\ Leads(c)
         /\ \A i \in 1..Cells : IsMeta(c[i]) => i \in 1..n
  <1>1. Cells \in Nat
    BY StoreAssumption DEF StoreAssumption
  <1>2. \A i \in 1..n : IsRecord(c, c[i].at, c[i].element)
    BY DEF Filling
  <1>3. \A i \in 1..Cells : IsMeta(c[i]) => i \in 1..n
    <2> SUFFICES ASSUME NEW i \in 1..Cells, IsMeta(c[i]), ~ (i \in 1..n) PROVE FALSE
      OBVIOUS
    <2>1. i \in (n + 1)..hi \/ i \in (hi + 1)..Cells
      BY <1>1
    <2>2. i \in (n + 1)..hi => c[i] = Blank
      BY DEF Filling, BlankBetween
    <2>3. i \in (hi + 1)..Cells => c[i].kind = "record"
      BY DEF Filling
    <2> QED BY <2>1, <2>2, <2>3, CellFacts DEF Row
  <1> QED BY <1>2, <1>3 DEF Leads

\* What StoredIn reads.
LEMMA StoredIsKept ==
  ASSUME TypeOK, NEW p \in Page, Sound(CellsOf(p)), NEW e
  PROVE  StoredIn(p, e) = Kept(CellsOf(p), e)
  <1> DEFINE c == CellsOf(p)
             m == Newest(MetasOf(p, e))
  <1>1. c \in Row /\ c = flash[p].cell /\ Cells \in Nat
    BY Types, StoreAssumption DEF StoreAssumption
  <1>2. MetasOf(p, e) = {i \in 1..Cells : MetaOf(c, i, e)}
    BY StoreAssumption, SoundMetas
  <1>3. Leads(c)
    BY SoundLeads
  <1> HIDE DEF c
  <1>4. MetasOf(p, e) \in SUBSET (1..Cells)
    BY <1>2
  <1>5. m \in 0..Cells /\ (m # 0 => m \in MetasOf(p, e)) /\ \A y \in MetasOf(p, e) : y <= m
    BY <1>1, <1>4, LastPlace
  <1> HIDE DEF m
  <1>6. NewestOf(c, e, m)
    BY <1>2, <1>5 DEF NewestOf
  <1>7. ASSUME m # 0, c[m].at # 0
        PROVE  ReadRecord(p, c[m].at, e) = c[c[m].at].value
    <2>1. m \in 1..Cells /\ IsMeta(c[m]) /\ c[m].element = e
      BY <1>1, <1>5, <1>6, <1>7 DEF NewestOf, MetaOf
    <2>2. IsRecord(c, c[m].at, e)
      BY <2>1, <1>3, <1>7 DEF Leads
    <2> QED BY <2>2, <1>1 DEF ReadRecord, IsRecord
  <1>8. StoredIn(p, e) = IF m = 0 \/ c[m].at = 0 THEN None ELSE ReadRecord(p, c[m].at, e)
    BY <1>1 DEF StoredIn, m
  <1>9. Kept(c, e) = IF m = 0 THEN None ELSE IF c[m].at = 0 THEN None ELSE c[c[m].at].value
    BY <1>6, KeptIs
  <1> QED BY <1>7, <1>8, <1>9 DEF c

-----------------------------------------------------------------------------
(* What a restart would restore, and what the application sees. *)

Rest(e) == IF StartPage = 0 THEN None ELSE Kept(CellsOf(StartPage), e)
Seen == [e \in Element |-> IF Restored THEN Held(e) ELSE Stored(e)]
Saved == [e \in Element |-> Stored(e)]

LEMMA StartIs ==
  ASSUME TypeOK, NEW p \in Page, IsValidPage(p),
         IsValidPage(Other(p)) => flash[Other(p)].top < flash[p].top
  PROVE  StartPage = p
  <1>1. flash[1].top \in Nat /\ flash[2].top \in Nat /\ (p = 1 \/ p = 2)
    BY Types DEF Page
  <1>2. CASE p = 1
    BY <1>1, <1>2 DEF StartPage, Other
  <1>3. CASE p = 2
    BY <1>1, <1>3 DEF StartPage, Other
  <1> QED BY <1>1, <1>2, <1>3

LEMMA StartFacts ==
  /\ StartPage \in {0, 1, 2}
  /\ StartPage # 0 => StartPage \in Page /\ IsValidPage(StartPage)
  /\ StartPage = 0 => \A p \in Page : ~ IsValidPage(p)
  BY DEF StartPage, Page

\* Everywhere but between the counters of a page the active page is the one
\* that counts.
LEMMA ActiveCounts ==
  ASSUME NInv, ~ Doing("top"), ~ Doing("bottom"),
         initialised \/ (todo # <<>> /\ Now.do \in StartSteps)
  PROVE  /\ StartPage = active /\ IsValidPage(active) /\ active \in Page /\ active # 0
         /\ IsValidPage(Other(active)) => flash[Other(active)].top < flash[active].top
         /\ Current(active) /\ counter # 0 /\ Sound(CellsOf(active)) /\ CellsOf(active) \in Row
  <1>1. counter # 0 /\ Older(Other(active)) /\ Current(active)
    BY DEF NInv, CounterInv
  <1>2. IsValidPage(active) /\ flash[active].top # 0
    BY <1>1 DEF Current, IsValidPage
  <1>3. IsValidPage(Other(active)) => flash[Other(active)].top < flash[active].top
    BY <1>1 DEF Older, Current
  <1>4. TypeOK /\ active \in Page /\ active # 0 /\ CellsOf(active) \in Row
    BY Types DEF NInv, Page
  <1>5. Sound(CellsOf(active))
    BY <1>2, <1>4 DEF NInv, FlashInv
  <1> QED BY <1>1, <1>2, <1>3, <1>4, <1>5, StartIs

\* The page that is copied from counts until the new one has its counters.
LEMMA OldPageCounts ==
  ASSUME NInv, SwitchInv, initialised, Doing("top") \/ Doing("bottom")
  PROVE  /\ StartPage = Other(active) /\ IsValidPage(Other(active)) /\ ~ IsValidPage(active)
         /\ Other(active) \in Page /\ active \in Page /\ Other(active) # active
         /\ counter # 0 /\ flash[Other(active)].top < counter
  <1>1. /\ counter # 0 /\ Older(Other(active))
        /\ Doing("top") => Erased(active)
        /\ Doing("bottom") /\ ~ Doing("top") => flash[active].top = counter /\ flash[active].bottom = 0
    BY DEF NInv, CounterInv
  <1>2. ~ IsValidPage(active)
    BY <1>1 DEF Erased, IsValidPage
  <1>3. IsValidPage(Other(active))
    BY DEF SwitchInv
  <1>4. TypeOK /\ active \in Page /\ Other(active) \in Page /\ Other(Other(active)) = active
        /\ Other(active) # active
    BY Types DEF NInv
  <1>5. flash[Other(active)].top < counter
    BY <1>1, <1>3 DEF Older
  <1> QED BY <1>1, <1>2, <1>3, <1>4, <1>5, StartIs

\* Stored, without its cases.
LEMMA StoredOnPage ==
  /\ StartPage = 0 => \A e : Stored(e) = None
  /\ StartPage # 0 => \A e : Stored(e) = StoredIn(StartPage, e)
  <1>1. CASE StartPage = 0
    BY <1>1 DEF Stored
  <1>2. CASE StartPage = 1
    BY <1>2 DEF Stored
  <1>3. CASE StartPage = 2
    BY <1>3 DEF Stored
  <1> QED BY <1>1, <1>2, <1>3, StartFacts

LEMMA StoredIsRest ==
  NInv => \A f : Stored(f) = Rest(f)
  <1> SUFFICES ASSUME NInv, NEW e PROVE Stored(e) = Rest(e)
    OBVIOUS
  <1>1. CASE StartPage = 0
    BY <1>1, StoredOnPage DEF Rest
  <1>2. CASE StartPage # 0
    <2>1. StartPage \in Page /\ flash[StartPage].top # 0
      BY <1>2, StartFacts DEF IsValidPage
    <2>2. TypeOK /\ Sound(CellsOf(StartPage))
      BY <2>1 DEF NInv, FlashInv
    <2>3. StoredIn(StartPage, e) = Kept(CellsOf(StartPage), e)
      BY <2>1, <2>2, StoredIsKept
    <2> QED BY <1>2, <2>3, StoredOnPage DEF Rest
  <1> QED BY <1>1, <1>2

\* The same page counts, and it says the same.
LEMMA StoredSame ==
  ASSUME NInv, NInv', NEW p \in Page,
         StartPage = p, StartPage' = p,
         NEW e, Kept(CellsOf(p)', e) = Kept(CellsOf(p), e)
  PROVE  Stored(e)' = Stored(e)
  <1>1. Stored(e) = Rest(e)
    BY StoredIsRest
  <1>2. Stored(e)' = Rest(e)'
    <2>1. (NInv => \A f : Stored(f) = Rest(f))'
      BY StoredIsRest, PTL
    <2> QED BY <2>1
  <1>3. p # 0
    BY DEF Page
  <1>4. Rest(e) = Kept(CellsOf(p), e)
    BY <1>3 DEF Rest
  <1>5. Rest(e)' = Kept(CellsOf(p)', e)
    BY <1>3 DEF Rest, CellsOf
  <1> QED BY <1>1, <1>2, <1>4, <1>5

LEMMA NothingStored ==
  NInv /\ (\A p \in Page : IsValidPage(p) => AllErased(p)) => \A e \in Element : Stored(e) = None
  <1> SUFFICES ASSUME NInv, \A p \in Page : IsValidPage(p) => AllErased(p), NEW e \in Element
               PROVE  Stored(e) = None
    OBVIOUS
  <1>1. CASE StartPage = 0
    BY <1>1, StoredOnPage
  <1>2. CASE StartPage # 0
    <2>1. StartPage \in Page /\ IsValidPage(StartPage)
      BY <1>2, StartFacts
    <2>2. TypeOK /\ Sound(CellsOf(StartPage)) /\ Kept(CellsOf(StartPage), e) = None
      BY <2>1 DEF NInv, FlashInv, IsValidPage, AllErased
    <2>3. StoredIn(StartPage, e) = None
      BY <2>1, <2>2, StoredIsKept
    <2> QED BY <1>2, <2>3, StoredOnPage
  <1> QED BY <1>1, <1>2

LEMMA FlashSame ==
  ASSUME flash' = flash
  PROVE  /\ \A e : Stored(e)' = Stored(e)
         /\ StartPage' = StartPage
         /\ \A p : CellsOf(p)' = CellsOf(p) /\ IsValidPage(p)' = IsValidPage(p)
  <1>1. StartPage' = StartPage
    BY DEF StartPage, IsValidPage
  <1>2. \A p : CellsOf(p)' = CellsOf(p) /\ IsValidPage(p)' = IsValidPage(p)
    BY DEF CellsOf, IsValidPage
  <1>3. \A p, e : MetasOf(p, e)' = MetasOf(p, e)
    BY DEF MetasOf, Metas, MetaEnd
  <1>4. \A p, e : StoredIn(p, e)' = StoredIn(p, e)
    BY <1>3 DEF StoredIn, ReadRecord
  <1>5. \A e : Stored(e)' = Stored(e)
    BY <1>1, <1>4 DEF Stored
  <1> QED BY <1>1, <1>2, <1>5

LEMMA RestoredIs ==
  /\ Restored <=> powered /\ ~ Losing /\ ~ Has(todo, Loading)
  /\ Restored' <=> powered' /\ ~ Losing' /\ ~ Has(todo', Loading)
  BY DEF Restored, Has, Loading

LEMMA HeldInFlash ==
  NInv => \A e \in Element, p \in Page : IsFlash(e) /\ PointerInto(p, e) =>
            /\ Held(e) = Kept(CellsOf(p), e) /\ Held(e) = CellsOf(p)[data[e].cell].value
            /\ Held(e) \in Value \cup {Junk} /\ Held(e) # None
  <1> SUFFICES ASSUME NInv, NEW e \in Element, NEW p \in Page, IsFlash(e), PointerInto(p, e)
               PROVE  /\ Held(e) = Kept(CellsOf(p), e) /\ Held(e) = CellsOf(p)[data[e].cell].value
                      /\ Held(e) \in Value \cup {Junk} /\ Held(e) # None
    OBVIOUS
  <1>1. data[e].cell \in 1..Cells /\ CellsOf(p) \in Row /\ CellsOf(p) = flash[p].cell
    BY Types DEF NInv
  <1>2. data[e].page = p /\ PointsInto(CellsOf(p), e, data[e].cell)
    BY DEF PointerInto
  <1>3. IsRecord(CellsOf(p), data[e].cell, e)
    BY <1>2 DEF PointsInto
  <1>4. Held(e) = CellsOf(p)[data[e].cell].value
    BY <1>1, <1>2, <1>3 DEF Held, ReadRecord, IsFlash, IsRecord
  <1> QED BY <1>1, <1>2, <1>4, PointsIntoKept

LEMMA HeldInRam ==
  NInv => \A e \in Element :
            /\ data[e] = NullPointer => Held(e) = None
            /\ InRam(e) => Held(e) = data[e].value /\ Held(e) \in Value /\ Held(e) # None
  <1> SUFFICES ASSUME NInv, NEW e \in Element
               PROVE  /\ data[e] = NullPointer => Held(e) = None
                      /\ InRam(e) => /\ Held(e) = data[e].value
                                     /\ Held(e) \in Value /\ Held(e) # None
    OBVIOUS
  <1>1. data[e] \in Pointer
    BY Types DEF NInv
  <1>2. data[e] = NullPointer => Held(e) = None
    BY PointerFacts DEF Held
  <1>3. InRam(e) => data[e].value \in Value
    BY <1>1, PointerFacts DEF InRam
  <1>4. InRam(e) => Held(e) = data[e].value
    BY DEF InRam, Held
  <1> QED BY <1>2, <1>3, <1>4, ValueAssumption DEF ValueAssumption

\* The record that a pointer leads to stays as it is.
RecordStays(p, at, e) ==
  \A i \in 1..Cells : i \in at..(at + Size(e) - 1) => flash'[p].cell[i] = flash[p].cell[i]

LEMMA ReadSame ==
  ASSUME NEW p, NEW e \in Element, NEW at \in 1..Cells, RecordStays(p, at, e)
  PROVE  ReadRecord(p, at, e)' = ReadRecord(p, at, e)
  <1> DEFINE c == flash[p].cell
             d == flash'[p].cell
  <1>1. Cells \in Nat /\ Size(e) \in Nat /\ Size(e) >= 1
    BY StoreAssumption, SizeFacts
  <1>2. at \in at..(at + Size(e) - 1)
    BY <1>1
  <1>3. \A i \in 1..Cells : i \in at..(at + Size(e) - 1) => d[i] = c[i]
    BY DEF RecordStays
  <1>4. d[at] = c[at]
    BY <1>2, <1>3
  <1>5. HoldsRecord(d, at, Size(e)) <=> HoldsRecord(c, at, Size(e))
    <2>1. CASE at + Size(e) - 1 <= Cells
      <3>1. \A i \in at..(at + Size(e) - 1) : i \in 1..Cells
        BY <1>1, <2>1
      <3>2. \A i \in at..(at + Size(e) - 1) : d[i] = c[i]
        BY <1>3, <3>1
      <3> QED BY <1>4, <3>2 DEF HoldsRecord
    <2>2. CASE ~ (at + Size(e) - 1 <= Cells)
      BY <2>2 DEF HoldsRecord
    <2> QED BY <2>1, <2>2
  <1> QED BY <1>4, <1>5 DEF ReadRecord

LEMMA HeldSame ==
  ASSUME NInv, NEW e \in Element, data'[e] = data[e],
         IsFlash(e) => RecordStays(data[e].page, data[e].cell, e)
  PROVE  Held(e)' = Held(e)
  <1>1. data[e] \in Pointer /\ data[e].at \in {"null", "ram", "caller", "flash"}
    BY Types, PointerFacts DEF NInv
  <1>2. CASE data[e].at = "null"
    BY <1>2 DEF Held
  <1>3. CASE data[e].at \in {"ram", "caller"}
    BY <1>3 DEF Held
  <1>4. CASE data[e].at = "flash"
    <2>1. data[e].cell \in 1..Cells
      BY <1>1, <1>4, PointerFacts
    <2> DEFINE p == data[e].page
               at == data[e].cell
    <2>2. RecordStays(p, at, e)
      BY <1>4 DEF IsFlash
    <2>3. (IF HoldsRecord(flash'[p].cell, at, Size(e)) THEN flash'[p].cell[at].value ELSE Junk)
            = ReadRecord(p, at, e)
      <3> HIDE DEF p, at
      <3>1. PICK q, k : q = p /\ k = at
        OBVIOUS
      <3>2. ReadRecord(q, k, e)' = ReadRecord(q, k, e)
        BY <2>1, <2>2, <3>1, ReadSame DEF at
      <3> QED BY <3>1, <3>2 DEF ReadRecord
    <2>4. Held(e) = ReadRecord(p, at, e)
      BY <1>4 DEF Held
    <2>5. Held(e)' = IF HoldsRecord(flash'[p].cell, at, Size(e)) THEN flash'[p].cell[at].value ELSE Junk
      BY <1>4 DEF Held, ReadRecord
    <2> QED BY <2>3, <2>4, <2>5
  <1> QED BY <1>1, <1>2, <1>3, <1>4

\* What is read of an element is the same in the same flash.
LEMMA HeldInSameFlash ==
  ASSUME NInv, flash' = flash, NEW e \in Element, data'[e] = data[e]
  PROVE  Held(e)' = Held(e)
  <1>1. \A p, at : RecordStays(p, at, e)
    BY DEF RecordStays
  <1> QED BY <1>1, HeldSame

LEMMA NothingSeen ==
  ASSUME \A e \in Element : Stored(e)' = Stored(e), Restored' <=> Restored,
         Restored => \A e \in Element : Held(e)' = Held(e)
  PROVE  UNCHANGED <<Seen, Saved>>
  <1>1. Saved' = Saved
    BY DEF Saved
  <1>2. Seen' = Seen
    <2>1. CASE Restored
      BY <2>1 DEF Seen
    <2>2. CASE ~ Restored
      BY <2>2 DEF Seen
    <2> QED BY <2>1, <2>2
  <1> QED BY <1>1, <1>2

-----------------------------------------------------------------------------
(* Steps that neither write flash nor set a pointer. *)

LEMMA HasHead ==
  ASSUME NEW t \in Seq(Steps), t # <<>>, NEW W
  PROVE  Has(t, W) <=> Head(t).do \in W \/ Has(Tail(t), W)
  <1>1. Len(t) \in Nat \ {0} /\ Head(t) = t[1]
    BY EmptySeq
  <1>2. Len(Tail(t)) = Len(t) - 1 /\ \A i \in 1..Len(Tail(t)) : Tail(t)[i] = t[i + 1]
    BY HeadTailProperties
  <1>3. ASSUME Has(t, W) PROVE Head(t).do \in W \/ Has(Tail(t), W)
    <2>1. PICK i \in 1..Len(t) : t[i].do \in W
      BY <1>3 DEF Has
    <2>2. CASE i = 1
      BY <2>1, <2>2, <1>1
    <2>3. CASE i # 1
      <3>1. i - 1 \in 1..Len(Tail(t)) /\ i = (i - 1) + 1
        BY <2>3, <1>1, <1>2
      <3>2. Tail(t)[i - 1] = t[i]
        BY <3>1, <1>2
      <3> QED BY <2>1, <3>1, <3>2 DEF Has
    <2> QED BY <2>2, <2>3
  <1>4. ASSUME Head(t).do \in W \/ Has(Tail(t), W) PROVE Has(t, W)
    <2>1. CASE Head(t).do \in W
      <3>1. 1 \in 1..Len(t)
        BY <1>1
      <3> QED BY <2>1, <3>1, <1>1 DEF Has
    <2>2. CASE Has(Tail(t), W)
      <3>1. PICK i \in 1..Len(Tail(t)) : Tail(t)[i].do \in W
        BY <2>2 DEF Has
      <3>2. i + 1 \in 1..Len(t) /\ t[i + 1] = Tail(t)[i]
        BY <1>1, <1>2
      <3> QED BY <3>1, <3>2 DEF Has
    <2> QED BY <1>4, <2>1, <2>2
  <1> QED BY <1>3, <1>4

LEMMA HasJoined ==
  ASSUME NEW s \in Seq(Steps), NEW t \in Seq(Steps), NEW W
  PROVE  /\ s \o t \in Seq(Steps)
         /\ Has(s \o t, W) <=> Has(s, W) \/ Has(t, W)
         /\ s # <<>> => s \o t # <<>> /\ Head(s \o t) = Head(s)
  <1> DEFINE u == s \o t
  <1>1. /\ u \in Seq(Steps) /\ Len(u) = Len(s) + Len(t)
        /\ \A i \in 1..Len(u) : u[i] = IF i <= Len(s) THEN s[i] ELSE t[i - Len(s)]
        /\ Len(s) \in Nat /\ Len(t) \in Nat
    BY ConcatProperties, LenProperties
  <1> HIDE DEF u
  <1>2. ASSUME Has(u, W) PROVE Has(s, W) \/ Has(t, W)
    <2>1. PICK i \in 1..Len(u) : u[i].do \in W
      BY <1>2 DEF Has
    <2>2. CASE i <= Len(s)
      <3>1. i \in 1..Len(s) /\ u[i] = s[i]
        BY <2>2, <1>1
      <3> QED BY <2>1, <3>1 DEF Has
    <2>3. CASE ~ (i <= Len(s))
      <3>1. i - Len(s) \in 1..Len(t) /\ u[i] = t[i - Len(s)]
        BY <2>3, <1>1
      <3> QED BY <2>1, <3>1 DEF Has
    <2> QED BY <2>2, <2>3
  <1>3. ASSUME Has(s, W) PROVE Has(u, W)
    <2>1. PICK i \in 1..Len(s) : s[i].do \in W
      BY <1>3 DEF Has
    <2>2. i \in 1..Len(u) /\ u[i] = s[i]
      BY <1>1
    <2> QED BY <2>1, <2>2 DEF Has
  <1>4. ASSUME Has(t, W) PROVE Has(u, W)
    <2>1. PICK i \in 1..Len(t) : t[i].do \in W
      BY <1>4 DEF Has
    <2>2. i + Len(s) \in 1..Len(u) /\ (i + Len(s)) - Len(s) = i /\ ~ (i + Len(s) <= Len(s))
      BY <1>1
    <2>3. u[i + Len(s)] = t[i]
      BY <1>1, <2>2
    <2> QED BY <2>1, <2>2, <2>3 DEF Has
  <1>5. ASSUME s # <<>> PROVE u # <<>> /\ Head(u) = Head(s)
    <2>1. Len(s) # 0
      BY <1>1, <1>5, EmptySeq
    <2>2. 1 \in 1..Len(u) /\ Len(u) # 0 /\ 1 <= Len(s)
      BY <2>1, <1>1
    <2>3. u[1] = s[1]
      BY <2>2, <1>1
    <2> QED BY <2>2, <2>3, <1>1, EmptySeq
  <1> QED BY <1>1, <1>2, <1>3, <1>4, <1>5 DEF u

LEMMA FewSteps ==
  /\ \A a : /\ <<a>> \o <<>> # <<>> /\ Head(<<a>> \o <<>>) = a /\ Tail(<<a>> \o <<>>) = <<>>
            /\ \A W : Has(<<a>> \o <<>>, W) <=> a.do \in W
  /\ \A a, b : /\ <<a, b>> \o <<>> # <<>> /\ Head(<<a, b>> \o <<>>) = a
               /\ Tail(<<a, b>> \o <<>>) = <<b>>
               /\ \A W : Has(<<a, b>> \o <<>>, W) <=> a.do \in W \/ b.do \in W
  <1>1. ASSUME NEW a PROVE <<a>> \o <<>> = <<a>>
    <2>1. <<a>> \in Seq({a})
      OBVIOUS
    <2> QED BY <2>1, ConcatEmptySeq
  <1>2. ASSUME NEW a, NEW b PROVE <<a, b>> \o <<>> = <<a, b>>
    <2>1. <<a, b>> \in Seq({a, b})
      OBVIOUS
    <2> QED BY <2>1, ConcatEmptySeq
  <1>3. \A a : /\ <<a>> # <<>> /\ Head(<<a>>) = a /\ Tail(<<a>>) = <<>>
               /\ Len(<<a>>) = 1 /\ <<a>>[1] = a
    OBVIOUS
  <1>4. \A a, b : /\ <<a, b>> # <<>> /\ Head(<<a, b>>) = a /\ Tail(<<a, b>>) = <<b>>
                  /\ Len(<<a, b>>) = 2 /\ <<a, b>>[1] = a /\ <<a, b>>[2] = b
    OBVIOUS
  <1>5. \A i : (i \in 1..1 <=> i = 1) /\ (i \in 1..2 <=> i = 1 \/ i = 2)
    OBVIOUS
  <1>6. \A a, W : Has(<<a>>, W) <=> a.do \in W
    BY <1>3, <1>5 DEF Has
  <1>7. \A a, b, W : Has(<<a, b>>, W) <=> a.do \in W \/ b.do \in W
    BY <1>4, <1>5 DEF Has
  <1> QED BY <1>1, <1>2, <1>3, <1>4, <1>6, <1>7

\* The elements are being lost: the storage is being formatted.
LosesIn(t) == \E i \in 1..Len(t) : t[i].do = "formatted" /\ t[i].lost

LEMMA LosingIs ==
  /\ Losing <=> LosesIn(todo)
  /\ Losing' <=> LosesIn(todo')
  BY DEF Losing, LosesIn

LEMMA LosingHead ==
  ASSUME NEW t \in Seq(Steps), t # <<>>, Head(t).do # "formatted"
  PROVE  LosesIn(Tail(t)) <=> LosesIn(t)
  <1>1. Len(t) \in Nat \ {0} /\ Head(t) = t[1]
    BY EmptySeq
  <1>2. Len(Tail(t)) = Len(t) - 1 /\ \A i \in 1..Len(Tail(t)) : Tail(t)[i] = t[i + 1]
    BY HeadTailProperties
  <1>3. ASSUME LosesIn(t) PROVE LosesIn(Tail(t))
    <2>1. PICK i \in 1..Len(t) : t[i].do = "formatted" /\ t[i].lost
      BY <1>3 DEF LosesIn
    <2>2. i # 1
      BY <2>1, <1>1
    <2>3. i - 1 \in 1..Len(Tail(t)) /\ i = (i - 1) + 1
      BY <2>2, <1>1, <1>2
    <2>4. Tail(t)[i - 1] = t[i]
      BY <2>3, <1>2
    <2> QED BY <2>1, <2>3, <2>4 DEF LosesIn
  <1>4. ASSUME LosesIn(Tail(t)) PROVE LosesIn(t)
    <2>1. PICK i \in 1..Len(Tail(t)) : Tail(t)[i].do = "formatted" /\ Tail(t)[i].lost
      BY <1>4 DEF LosesIn
    <2>2. i + 1 \in 1..Len(t) /\ t[i + 1] = Tail(t)[i]
      BY <1>1, <1>2
    <2> QED BY <2>1, <2>2 DEF LosesIn
  <1> QED BY <1>3, <1>4

\* Formatting is all that a module does that is not initialised.
LEMMA NotLosing ==
  NInv => (initialised \/ todo = <<>> => ~ Losing)
  <1> SUFFICES ASSUME NInv, initialised \/ todo = <<>>, Losing PROVE FALSE
    OBVIOUS
  <1>1. PICK i \in 1..Len(todo) : todo[i].do = "formatted"
    BY DEF Losing
  <1>2. CASE todo = <<>>
    BY <1>1, <1>2, EmptySeq
  <1>3. CASE initialised
    <2>1. Allowed(todo[i], TRUE)
      BY <1>3 DEF NInv, TodoInv, Chain, TypeOK
    <2> QED BY <1>1, <2>1 DEF Allowed, StartSteps
  <1> QED BY <1>2, <1>3

LEMMA NotLosingNext ==
  ASSUME NInv', initialised' \/ todo' = <<>> PROVE ~ Losing'
  <1>1. (NInv => (initialised \/ todo = <<>> => ~ Losing))'
    BY NotLosing, PTL
  <1> QED BY <1>1

\* A step that is not part of a start, between two others.
LEMMA NotLoading ==
  ASSUME ~ Has(todo, Loading), ~ Has(todo', Loading), powered' = powered, Losing' <=> Losing
  PROVE  LoadInv' /\ (Restored' <=> Restored)
  <1>1. Has(todo', {"measure"}) => Has(todo', Loading)
    BY DEF Has, Loading
  <1> QED BY <1>1, RestoredIs DEF LoadInv

LEMMA Pops ==
  ASSUME NInv, LoadInv, todo # <<>>, Now.do \notin Loading \cup {"formatted"},
         powered' = powered, todo' = Tail(todo)
  PROVE  LoadInv' /\ (Restored' <=> Restored) /\ (Losing' <=> Losing)
  <1>1. todo \in Seq(Steps) /\ Now = Head(todo)
    BY InCall
  <1>2. \A W : Has(todo, W) <=> Now.do \in W \/ Has(todo', W)
    BY <1>1, HasHead
  <1>3. ~ Has(todo', {"measure"})
    <2>1. ~ Doing("measure")
      BY <1>1 DEF Doing, Loading
    <2> QED BY <2>1, <1>2 DEF LoadInv
  <1>4. (Has(todo, Loading) <=> Has(todo', Loading)) /\ (Has(todo', Writing) => Has(todo, Writing))
    BY <1>2
  <1>5. Losing' <=> Losing
    BY <1>1, LosingHead, LosingIs
  <1> QED BY <1>3, <1>4, <1>5, RestoredIs DEF LoadInv

Special == {"copyNext", "copyRecord", "copyMeta", "top", "bottom", "meta", "measure"}

\* Nothing that SInv speaks of changes.
LEMMA CalmInv ==
  ASSUME SInv, flash' = flash, LoadInv', NullInv', FormatInv',
         todo' # <<>> => Head(todo').do \notin Special
  PROVE  SInv'
  <1>1. \A n \in Special : ~ Doing(n)'
    BY DEF Doing
  <1>2. CopyValues' /\ SwitchInv' /\ MetaInv' /\ MeasureInv'
    BY <1>1 DEF CopyValues, SwitchInv, MetaInv, MeasureInv, Special
  <1>3. \A p : (AllErased(p)' <=> AllErased(p)) /\ (IsValidPage(p)' <=> IsValidPage(p))
    BY FlashSame DEF AllErased
  <1>4. \A p \in Page : /\ CellsOf(p)' = CellsOf(p) /\ flash'[p].top = flash[p].top
                        /\ flash'[Other(p)].top = flash[Other(p)].top
    BY DEF CellsOf
  <1>5. EmptyNewer'
    BY <1>3, <1>4 DEF SInv, EmptyNewer, Other
  <1> QED BY <1>2, <1>5 DEF SInv

LEMMA CalmStep ==
  ASSUME NInv, SInv, UNCHANGED <<flash, powered, initialised, active, data>>,
         LoadInv', Restored' <=> Restored, Losing' <=> Losing,
         todo' # <<>> => Head(todo').do \notin Special,
         ~ initialised /\ todo' # <<>> /\ Head(todo').do # "start" => todo # <<>> /\ Now.do # "start"
  PROVE  SInv' /\ UNCHANGED <<Seen, Saved>>
  <1>1. ~ Doing("bottom")' /\ (todo' # <<>> => Now' = Head(todo'))
    BY DEF Doing, Now, Special
  <1>2. NullInv'
    BY DEF SInv, NullInv
  <1>3. \A p : (AllErased(p)' <=> AllErased(p)) /\ (IsValidPage(p)' <=> IsValidPage(p))
    BY FlashSame DEF AllErased
  <1>4. FormatInv'
    BY <1>1, <1>3 DEF SInv, FormatInv
  <1>5. SInv'
    BY <1>2, <1>4, CalmInv
  <1>6. UNCHANGED <<Seen, Saved>>
    <2>1. \A e \in Element : Held(e)' = Held(e)
      BY HeldInSameFlash
    <2> QED BY <2>1, FlashSame, NothingSeen
  <1> QED BY <1>5, <1>6

\* The last step of a call ends it, or goes on with one or two steps.
GoesOn ==
  \/ todo' = Tail(todo)
  \/ \E a : todo' = <<a>> \o Tail(todo) /\ a.do \notin Special \cup Loading
  \/ \E a, b : /\ todo' = <<a, b>> \o Tail(todo)
               /\ a.do \notin Special \cup Loading /\ b.do \notin Loading

LEMMA FinalShape ==
  ASSUME NInv, todo # <<>>, Now.do \in FinalSteps \ Loading, GoesOn
  PROVE  /\ ~ Has(todo, Loading) /\ ~ Has(todo', Loading)
         /\ todo' # <<>> => Head(todo').do \notin Special
  <1>1. Tail(todo) = <<>> /\ todo \in Seq(Steps) /\ Now = Head(todo)
    BY InCall
  <1>2. \A W : ~ Has(<<>>, W)
    BY EmptySeq DEF Has
  <1>3. ~ Has(todo, Loading)
    BY <1>1, <1>2, HasHead
  <1>4. CASE todo' = Tail(todo)
    BY <1>1, <1>2, <1>3, <1>4
  <1>5. CASE \E a : todo' = <<a>> \o Tail(todo) /\ a.do \notin Special \cup Loading
    <2>1. PICK a : todo' = <<a>> \o <<>> /\ a.do \notin Special \cup Loading
      BY <1>1, <1>5
    <2> QED BY <1>3, <2>1, FewSteps
  <1>6. CASE \E a, b : /\ todo' = <<a, b>> \o Tail(todo)
                       /\ a.do \notin Special \cup Loading /\ b.do \notin Loading
    <2>1. PICK a, b : /\ todo' = <<a, b>> \o <<>>
                      /\ a.do \notin Special \cup Loading /\ b.do \notin Loading
      BY <1>1, <1>6
    <2> QED BY <1>3, <2>1, FewSteps
  <1> QED BY <1>4, <1>5, <1>6 DEF GoesOn

LEMMA FromFinal ==
  ASSUME NInv, NInv', SInv, todo # <<>>, Now.do \in FinalSteps \ Loading, GoesOn,
         UNCHANGED <<flash, powered, initialised, active, data>>
  PROVE  SInv' /\ UNCHANGED <<Seen, Saved>>
  <1>1. Allowed(Now, initialised)
    BY InCall
  <1>2. /\ ~ Has(todo, Loading) /\ ~ Has(todo', Loading)
        /\ todo' # <<>> => Head(todo').do \notin Special
    BY FinalShape
  <1>3. initialised
    BY <1>1 DEF Allowed, StartSteps, FinalSteps, RoomSteps, Loading
  <1>4. ~ Losing /\ ~ Losing'
    BY <1>3, NotLosing, NotLosingNext
  <1>5. LoadInv' /\ (Restored' <=> Restored)
    BY <1>2, <1>4, NotLoading
  <1> QED BY <1>2, <1>3, <1>4, <1>5, CalmStep


Openings == {"copy", "idle", "drain", "write", "makeRoom"}
Endings == {"syncCopied", "roomMade", "roomCopied", "roomRetried", "idleSaved"}

\* How a call ends or goes on, when the step is its last.
QuietlyOn ==
  \/ todo' = Tail(todo)
  \/ \E a : todo' = <<a>> \o Tail(todo) /\ a.do \in Openings
  \/ \E a, b : /\ todo' = <<a, b>> \o Tail(todo)
               /\ a.do \in Openings /\ b.do \in Endings

LEMMA QuietEnd ==
  ASSUME todo' = Tail(todo) PROVE QuietlyOn
  BY DEF QuietlyOn

LEMMA QuietOne ==
  ASSUME NEW a, todo' = <<a>> \o Tail(todo), a.do \in Openings
  PROVE  QuietlyOn
  BY DEF QuietlyOn

LEMMA QuietTwo ==
  ASSUME NEW a, NEW b, todo' = <<a, b>> \o Tail(todo), a.do \in Openings, b.do \in Endings
  PROVE  QuietlyOn
  BY DEF QuietlyOn

LEMMA QuietShape ==
  ASSUME NInv,
         \/ SyncSaved \/ MakeRoom \/ RoomMade \/ RoomCopied \/ RoomRetried
         \/ IdleCopied \/ IdleSave \/ IdleSaved
  PROVE  /\ todo # <<>> /\ Now.do \in FinalSteps \ Loading
         /\ UNCHANGED <<flash, powered, initialised, active, data, lastUnerased, losses>>
         /\ QuietlyOn
  <1>1. /\ todo # <<>> /\ Now.do \in FinalSteps \ Loading
        /\ UNCHANGED <<flash, powered, initialised, active, data, lastUnerased, losses>>
    <2>1. CASE SyncSaved \/ MakeRoom
      BY <2>1 DEF SyncSaved, MakeRoom, Doing, Now, moduleVars, queueVars, bounds, FinalSteps, Loading
    <2>2. CASE RoomMade \/ RoomCopied \/ RoomRetried
      BY <2>2 DEF RoomMade, RoomCopied, RoomRetried, Doing, Now, moduleVars, queueVars, bounds, FinalSteps,
                  RoomSteps, Loading
    <2>3. CASE IdleCopied \/ IdleSave \/ IdleSaved
      BY <2>3 DEF IdleCopied, IdleSave, IdleSaved, Doing, Now, moduleVars, queueVars, bounds, FinalSteps, Loading
    <2> QED BY <2>1, <2>2, <2>3
  <1>2. Now \in Steps
    BY <1>1, InCall
  <1>3. \A n : Call(n).do = n
    BY DEF Call
  <1>4. CASE SyncSaved
    <2> DEFINE a == Call("copy")
               b == [do |-> "syncCopied", element |-> Now.element]
    <2>1. todo' = Tail(todo) \/ todo' = <<a, b>> \o Tail(todo)
      BY <1>4 DEF SyncSaved, Continue, Return
    <2>2. a.do = "copy" /\ b.do = "syncCopied"
      BY <1>3
    <2> HIDE DEF a, b
    <2> QED BY <1>1, <2>1, <2>2, QuietEnd, QuietOne, QuietTwo DEF Openings, Endings
  <1>5. CASE MakeRoom
    <2> DEFINE a == [do |-> "write", element |-> Head(queue)]
               b == [do |-> "roomMade", first |-> Head(queue), element |-> Now.element]
    <2>1. todo' = <<a, b>> \o Tail(todo)
      BY <1>5 DEF MakeRoom, Continue
    <2>2. a.do = "write" /\ b.do = "roomMade"
      OBVIOUS
    <2> HIDE DEF a, b
    <2> QED BY <1>1, <2>1, <2>2, QuietEnd, QuietOne, QuietTwo DEF Openings, Endings
  <1>6. CASE RoomMade
    <2> DEFINE a == Call("copy")
               b == [Now EXCEPT !.do = "roomCopied"]
    <2>1. todo' = Tail(todo) \/ todo' = <<a, b>> \o Tail(todo)
      BY <1>6 DEF RoomMade, Continue, Return
    <2>2. Now = [do |-> "roomMade", first |-> Now.first, element |-> Now.element]
      BY <1>2, <1>6 DEF RoomMade, Doing, Now, Steps, ElementSteps, RoomSteps, PlainSteps, StartSteps
    <2>3. a.do = "copy" /\ b.do = "roomCopied"
      BY <2>2, <1>3
    <2> HIDE DEF a, b
    <2> QED BY <1>1, <2>1, <2>3, QuietEnd, QuietOne, QuietTwo DEF Openings, Endings
  <1>7. CASE RoomCopied
    <2> DEFINE a == [do |-> "write", element |-> Now.first]
               b == [Now EXCEPT !.do = "roomRetried"]
    <2>1. todo' = <<a, b>> \o Tail(todo)
      BY <1>7 DEF RoomCopied, Continue
    <2>2. Now = [do |-> "roomCopied", first |-> Now.first, element |-> Now.element]
      BY <1>2, <1>7 DEF RoomCopied, Doing, Now, Steps, ElementSteps, RoomSteps, PlainSteps, StartSteps
    <2>3. a.do = "write" /\ b.do = "roomRetried"
      BY <2>2
    <2> HIDE DEF a, b
    <2> QED BY <1>1, <2>1, <2>3, QuietEnd, QuietOne, QuietTwo DEF Openings, Endings
  <1>8. CASE RoomRetried
    <2> DEFINE a == [do |-> "makeRoom", element |-> Now.element]
    <2>1. todo' = Tail(todo) \/ todo' = <<a>> \o Tail(todo)
      BY <1>8 DEF RoomRetried, Continue, Return
    <2>2. a.do = "makeRoom"
      OBVIOUS
    <2> HIDE DEF a
    <2> QED BY <1>1, <2>1, <2>2, QuietEnd, QuietOne, QuietTwo DEF Openings, Endings
  <1>9. CASE IdleCopied
    <2> DEFINE a == Call("idle")
    <2>1. todo' = <<a>> \o Tail(todo) /\ a.do = "idle"
      BY <1>3, <1>9 DEF IdleCopied, Continue
    <2> HIDE DEF a
    <2> QED BY <1>1, <2>1, QuietEnd, QuietOne, QuietTwo DEF Openings, Endings
  <1>10. CASE IdleSave
    <2> DEFINE a == [do |-> "write", element |-> Head(queue)]
               b == [do |-> "idleSaved", element |-> Head(queue)]
               d == Call("drain")
    <2>1. \/ todo' = Tail(todo) \/ todo' = <<d>> \o Tail(todo)
          \/ todo' = <<a, b>> \o Tail(todo)
      BY <1>10 DEF IdleSave, Continue, Return
    <2>2. a.do = "write" /\ b.do = "idleSaved" /\ d.do = "drain"
      BY <1>3
    <2> HIDE DEF a, b, d
    <2> QED BY <1>1, <2>1, <2>2, QuietEnd, QuietOne, QuietTwo DEF Openings, Endings
  <1>11. CASE IdleSaved
    <2> DEFINE d == Call("drain")
    <2>1. (todo' = Tail(todo) \/ todo' = <<d>> \o Tail(todo)) /\ d.do = "drain"
      BY <1>3, <1>11 DEF IdleSaved, Continue, Return
    <2> HIDE DEF d
    <2> QED BY <1>1, <2>1, QuietEnd, QuietOne, QuietTwo DEF Openings, Endings
  <1> QED BY <1>1, <1>4, <1>5, <1>6, <1>7, <1>8, <1>9, <1>10, <1>11

LEMMA QuietWork ==
  ASSUME NInv, NInv', SInv,
         \/ SyncSaved \/ MakeRoom \/ RoomMade \/ RoomCopied \/ RoomRetried
         \/ IdleCopied \/ IdleSave \/ IdleSaved
  PROVE  SInv' /\ UNCHANGED <<Seen, Saved>>
  <1>1. /\ todo # <<>> /\ Now.do \in FinalSteps \ Loading
        /\ UNCHANGED <<flash, powered, initialised, active, data>> /\ QuietlyOn
    BY QuietShape
  <1>2. \A n \in Openings : n \notin Special \cup Loading
    BY DEF Openings, Special, Loading
  <1>3. \A n \in Endings : n \notin Loading
    BY DEF Endings, Loading
  <1>4. GoesOn
    BY <1>1, <1>2, <1>3 DEF QuietlyOn, GoesOn
  <1> QED BY <1>1, <1>4, FromFinal

LEMMA SyncCopiedSame ==
  ASSUME NInv, NInv', SInv, SyncCopied
  PROVE  SInv' /\ UNCHANGED <<Seen, Saved>>
  <1> DEFINE w == <<Call("forgetOld"), [do |-> "write", element |-> Now.element]>>
             v == EraseSteps(erase.page)
             u == v \o w
  <1>1. /\ todo # <<>> /\ Now.do = "syncCopied" /\ "syncCopied" \in FinalSteps
        /\ UNCHANGED <<flash, powered, initialised, active, data>>
        /\ todo' = u \o Tail(todo)
    BY DEF SyncCopied, Doing, Now, FinalSteps, Continue
  <1>2. /\ Tail(todo) = <<>> /\ todo \in Seq(Steps) /\ Now = Head(todo) /\ Now \in Steps
        /\ powered /\ initialised
    BY <1>1, InCall, AtFinalStep
  <1>3. erase.page \in Page
    BY DEF NInv, TypeOK
  <1>4. /\ w \in Seq(Steps) /\ ~ Has(w, Loading)
    <2>1. Now.element \in Element
      BY <1>1, <1>2, StepFields DEF ElementSteps
    <2> DEFINE a == Call("forgetOld")
               b == [do |-> "write", element |-> Now.element]
    <2>2. a \in Steps /\ b \in Steps /\ a.do = "forgetOld" /\ b.do = "write"
      BY <2>1, StepKinds DEF PlainSteps, ElementSteps
    <2> HIDE DEF a, b
    <2>3. <<a, b>> \in Seq(Steps) /\ <<a, b>> \o <<>> = <<a, b>>
      BY <2>2, ConcatEmptySeq
    <2>4. ~ Has(<<a, b>>, Loading)
      BY <2>2, <2>3, FewSteps DEF Loading
    <2> QED BY <2>3, <2>4 DEF a, b
  <1>5. /\ v \in Seq(Steps) /\ ~ Has(v, Loading) /\ v # <<>> /\ Head(v).do = "erase"
    <2> DEFINE a == [do |-> "erase", page |-> erase.page, sector |-> 1]
               b == [do |-> "erase", page |-> erase.page, sector |-> 2]
    <2>2. a \in Steps /\ b \in Steps /\ a.do = "erase" /\ b.do = "erase" /\ v = <<a, b>>
      BY <1>3, StepKinds DEF EraseSteps
    <2> HIDE DEF a, b, v
    <2>3. <<a, b>> \in Seq(Steps) /\ <<a, b>> \o <<>> = <<a, b>>
      BY <2>2, ConcatEmptySeq
    <2>4. ~ Has(<<a, b>>, Loading)
      BY <2>2, <2>3, FewSteps DEF Loading
    <2> QED BY <2>2, <2>3, <2>4
  <1> HIDE DEF v, w
  <1>6. u \in Seq(Steps) /\ ~ Has(u, Loading) /\ u # <<>> /\ Head(u).do = "erase"
    BY <1>4, <1>5, HasJoined
  <1> HIDE DEF u
  <1>7. <<>> \in Seq(Steps) /\ ~ Has(<<>>, Loading)
    BY EmptySeq DEF Has
  <1>8. ~ Has(todo', Loading) /\ Head(todo').do = "erase" /\ todo' # <<>>
    BY <1>1, <1>2, <1>6, <1>7, HasJoined
  <1>9. ~ Has(todo, Loading)
    BY <1>1, <1>2, <1>7, HasHead DEF Loading
  <1>10. ~ Losing /\ ~ Losing'
    BY <1>1, <1>2, NotLosing, NotLosingNext
  <1>11. LoadInv' /\ (Restored' <=> Restored)
    BY <1>1, <1>8, <1>9, <1>10, NotLoading
  <1> QED BY <1>1, <1>2, <1>8, <1>10, <1>11, CalmStep DEF Special

LEMMA ForgetOldPageSame ==
  ASSUME NInv, NInv', SInv, ForgetOldPage
  PROVE  SInv' /\ UNCHANGED <<Seen, Saved>>
  <1>1. /\ todo # <<>> /\ Now.do = "forgetOld" /\ todo' = Tail(todo)
        /\ UNCHANGED <<flash, powered, initialised, active, data>>
    BY DEF ForgetOldPage, Doing, Now, Return
  <1>2. todo' # <<>> /\ Head(todo').do = "write" /\ Allowed(Now, initialised)
    BY <1>1, InCall DEF Follows, Second
  <1>3. LoadInv' /\ (Restored' <=> Restored) /\ (Losing' <=> Losing)
    BY <1>1, Pops DEF SInv, Loading
  <1>4. initialised
    BY <1>1, <1>2 DEF Allowed, StartSteps
  <1> QED BY <1>1, <1>2, <1>3, <1>4, CalmStep DEF Special

LEMMA NvIdleSame ==
  ASSUME NInv, NInv', SInv, NvIdle
  PROVE  SInv' /\ UNCHANGED <<Seen, Saved>>
  <1>1. /\ todo = <<>> /\ initialised
        /\ UNCHANGED <<flash, powered, initialised, active, data>>
        /\ todo' = <<Call("copy"), Call("idleCopied")>> \/ todo' = <<Call("idle")>>
    BY DEF NvIdle, moduleVars
  <1>2. /\ \A n : Call(n).do = n
        /\ \A a : <<a>> \o <<>> = <<a>>
        /\ \A a, b : <<a, b>> \o <<>> = <<a, b>>
    <2>1. \A a : <<a>> \in Seq({a})
      OBVIOUS
    <2>2. \A a, b : <<a, b>> \in Seq({a, b})
      OBVIOUS
    <2> QED BY <2>1, <2>2, ConcatEmptySeq DEF Call
  <1>3. ~ Has(todo', Loading) /\ (todo' # <<>> => Head(todo').do \notin Special)
    <2>1. CASE todo' = <<Call("copy"), Call("idleCopied")>>
      <3>1. todo' = <<Call("copy"), Call("idleCopied")>> \o <<>>
        BY <2>1, <1>2
      <3> QED BY <3>1, <1>2, FewSteps DEF Loading, Special
    <2>2. CASE todo' = <<Call("idle")>>
      <3>1. todo' = <<Call("idle")>> \o <<>>
        BY <2>2, <1>2
      <3> QED BY <3>1, <1>2, FewSteps DEF Loading, Special
    <2> QED BY <1>1, <2>1, <2>2
  <1>4. ~ Has(todo, Loading)
    BY <1>1, EmptySeq DEF Has
  <1>5. ~ Losing /\ ~ Losing'
    BY <1>1, NotLosing, NotLosingNext
  <1>6. LoadInv' /\ (Restored' <=> Restored)
    BY <1>1, <1>3, <1>4, <1>5, NotLoading
  <1> QED BY <1>1, <1>3, <1>5, <1>6, CalmStep

-----------------------------------------------------------------------------
(* The start of the module. *)

\* The application may look at the elements: there is nothing to be seen.
LEMMA Loaded ==
  ASSUME NInv, SInv, UNCHANGED <<flash, data>>, Restored', \A e \in Element : Stored(e) = None
  PROVE  UNCHANGED <<Seen, Saved>>
  <1>1. \A e \in Element : Held(e)' = Held(e)
    BY HeldInSameFlash
  <1>2. ~ Restored => \A e \in Element : Held(e) = None
    BY HeldInRam DEF SInv, NullInv
  <1>3. Saved' = Saved
    BY FlashSame DEF Saved
  <1>4. \A e \in Element : Held(e)' = IF Restored THEN Held(e) ELSE Stored(e)
    BY <1>1, <1>2
  <1>5. Seen' = [e \in Element |-> Held(e)']
    BY DEF Seen
  <1>6. Seen' = Seen
    BY <1>4, <1>5 DEF Seen
  <1> QED BY <1>3, <1>6

LEMMA ActiveErased ==
  ASSUME NInv, StartPage = active, AllErased(active), Sound(CellsOf(active))
  PROVE  \A e \in Element : Stored(e) = None
  <1> TAKE e \in Element
  <1>1. active \in Page
    BY Types DEF NInv
  <1>2. StoredIn(active, e) = None
    BY <1>1, StoredIsKept DEF NInv, AllErased
  <1>3. StartPage # 0
    BY <1>1 DEF Page
  <1> QED BY <1>2, <1>3, StoredOnPage

\* After formatting there is nothing.
LEMMA FreshEmpty ==
  Fresh => AllBlank(CellsOf(1)) /\ \A p \in Page : IsValidPage(p) => AllErased(p)
  <1> SUFFICES ASSUME Fresh, NEW p \in Page, IsValidPage(p) PROVE AllErased(p)
    BY DEF Fresh
  <1>1. ~ IsValidPage(2)
    BY DEF Fresh, Erased, IsValidPage
  <1>2. p = 1
    BY <1>1 DEF Page
  <1>3. \A i \in 1..Cells : CellsOf(1)[i] = Blank
    BY DEF Fresh, AllBlank, BlankBetween
  <1>4. \A i \in 1..Cells : \A e \in Element : ~ MetaOf(CellsOf(1), i, e)
    BY <1>3, CellFacts DEF MetaOf
  <1> QED BY <1>2, <1>4, KeptNothing DEF AllErased

LEMMA LosingTail ==
  ASSUME NEW t \in Seq(Steps), t # <<>>, LosesIn(Tail(t))
  PROVE  LosesIn(t)
  <1>1. PICK i \in 1..Len(Tail(t)) : Tail(t)[i].do = "formatted" /\ Tail(t)[i].lost
    BY DEF LosesIn
  <1>2. Len(t) \in Nat \ {0} /\ Len(Tail(t)) = Len(t) - 1 /\ Tail(t)[i] = t[i + 1]
    BY EmptySeq, HeadTailProperties
  <1>3. i + 1 \in 1..Len(t)
    BY <1>2
  <1> QED BY <1>1, <1>2, <1>3 DEF LosesIn

LEMMA FormattedSame ==
  ASSUME NInv, SInv, StartInv, Formatted
  PROVE  SInv' /\ UNCHANGED <<Seen, Saved>>
  <1>1. /\ todo # <<>> /\ Now.do = "formatted" /\ todo' = Tail(todo) /\ Doing("formatted")
        /\ UNCHANGED <<flash, powered, initialised, active, data>>
    BY DEF Formatted, Doing, Now, Return
  <1>2. /\ Allowed(Now, initialised) /\ Chain(Tail(todo), initialised) /\ initialised \in BOOLEAN
        /\ powered /\ todo \in Seq(Steps) /\ Now = Head(todo)
    BY <1>1, InCall
  <1>3. ~ initialised
    BY <1>1, <1>2 DEF Allowed, StartSteps
  <1>4. todo' # <<>> => Head(todo').do \in StartSteps
    <2> SUFFICES ASSUME todo' # <<>> PROVE Head(todo').do \in StartSteps
      OBVIOUS
    <2>1. Allowed(Head(todo'), initialised)
      BY <1>1, <1>2, ChainTail
    <2>2. Follows(Now, Second, initialised)
      BY <1>1, InCall
    <2> QED BY <2>1, <2>2, <1>1, <1>3 DEF Allowed, Follows, Second, Unfinished, StartSteps,
                                          ElementSteps, RoomSteps, PlainSteps
  <1>5. \A W : Has(todo, W) <=> "formatted" \in W \/ Has(todo', W)
    BY <1>1, <1>2, HasHead
  <1>6. LoadInv'
    <2>1. ~ Has(todo', {"measure"})
      BY <1>1, <1>5 DEF SInv, LoadInv, Doing
    <2> QED BY <2>1, <1>5 DEF SInv, LoadInv
  <1>7. Restored => Restored'
    <2>1. Losing' => Losing
      BY <1>1, <1>2, LosingTail, LosingIs
    <2> QED BY <2>1, <1>1, <1>5, RestoredIs
  <1>8. NullInv'
    BY <1>1, <1>7 DEF SInv, NullInv
  <1>9. \A p \in Page : IsValidPage(p) => AllErased(p)
    BY <1>1, <1>2, <1>3, FreshEmpty DEF StartInv
  <1>10. FormatInv'
    <2>1. ~ Doing("bottom")'
      BY <1>4 DEF Doing, StartSteps
    <2>2. \A p : (AllErased(p)' <=> AllErased(p)) /\ (IsValidPage(p)' <=> IsValidPage(p))
      BY <1>1, FlashSame DEF AllErased
    <2> QED BY <1>9, <2>1, <2>2 DEF FormatInv
  <1>11. todo' # <<>> => Head(todo').do \notin Special
    <2>1. ASSUME todo' # <<>> PROVE Head(todo').do # "measure"
      <3>1. ASSUME Head(todo').do = "measure" PROVE FALSE
        <4>1. Doing("measure")'
          BY <2>1, <3>1 DEF Doing
        <4>2. Has(todo', {"measure"})
          BY <1>1, <1>2, <2>1, <3>1, HasHead, HeadTailProperties
        <4> QED BY <1>1, <1>5, <4>2 DEF SInv, LoadInv, Doing
      <3> QED BY <3>1
    <2> QED BY <2>1, <1>4 DEF Special, StartSteps
  <1>12. SInv'
    BY <1>1, <1>6, <1>8, <1>10, <1>11, CalmInv
  <1>13. CASE Restored'
    <2>1. \A e \in Element : Stored(e) = None
      BY <1>9, NothingStored
    <2> QED BY <1>1, <1>12, <1>13, <2>1, Loaded
  <1>14. CASE ~ Restored'
    <2>1. ~ Restored
      BY <1>7, <1>14
    <2>2. \A e \in Element : Stored(e)' = Stored(e)
      BY <1>1, FlashSame
    <2> QED BY <1>12, <1>14, <2>1, <2>2, NothingSeen
  <1> QED BY <1>13, <1>14

LEMMA EstimateSizeSame ==
  ASSUME NInv, NInv', SInv, StartInv, EstimateSize
  PROVE  SInv' /\ UNCHANGED <<Seen, Saved>>
  <1>1. /\ todo # <<>> /\ Now.do = "estimate" /\ (todo' = Tail(todo) \/ todo' = <<>>)
        /\ Doing("estimate")
        /\ UNCHANGED <<flash, powered, initialised, active, data>>
    BY DEF EstimateSize, Doing, Now, Return, moduleVars
  <1>2. /\ Allowed(Now, initialised) /\ Chain(Tail(todo), initialised) /\ initialised \in BOOLEAN
        /\ powered
    BY <1>1, InCall
  <1>3. ~ initialised
    BY <1>1, <1>2 DEF Allowed, StartSteps
  <1>4. CASE todo' = Tail(todo)
    <2>1. todo' # <<>> => Head(todo').do \in StartSteps
      <3> SUFFICES ASSUME todo' # <<>> PROVE Head(todo').do \in StartSteps
        OBVIOUS
      <3>1. Allowed(Head(todo'), initialised)
        BY <1>2, <1>4, ChainTail
      <3>2. Follows(Now, Second, initialised)
        BY <1>1, <1>4, InCall
      <3> QED BY <3>1, <3>2, <1>1, <1>3, <1>4 DEF Allowed, Follows, Second, Unfinished, StartSteps,
                                                  ElementSteps, RoomSteps, PlainSteps
    <2>2. LoadInv' /\ (Restored' <=> Restored) /\ (Losing' <=> Losing)
      BY <1>1, <1>4, Pops DEF SInv, Loading
    <2> QED BY <1>1, <2>1, <2>2, CalmStep DEF Special, StartSteps
  <1>5. CASE todo' = <<>>
    <2>1. \A W : ~ Has(todo', W)
      BY <1>5, EmptySeq DEF Has
    <2>2. LoadInv' /\ Restored'
      BY <1>1, <1>2, <1>5, <2>1, RestoredIs, NotLosingNext DEF LoadInv
    <2>3. NullInv' /\ FormatInv'
      BY <1>5, <2>2 DEF NullInv, FormatInv
    <2>4. SInv'
      BY <1>1, <1>5, <2>2, <2>3, CalmInv
    <2>5. \A p \in Page : IsValidPage(p) => AllErased(p)
      BY <1>1, <1>2, <1>3, FreshEmpty DEF StartInv
    <2> QED BY <1>1, <2>2, <2>4, <2>5, NothingStored, Loaded
  <1> QED BY <1>1, <1>4, <1>5

LEMMA StartWithMetasSame ==
  ASSUME NInv, SInv, StartWithMetas
  PROVE  SInv' /\ UNCHANGED <<Seen, Saved>>
  <1>1. /\ todo # <<>> /\ Now.do = "start" /\ "start" \in FinalSteps /\ "start" \in StartSteps
        /\ initialised' = TRUE /\ UNCHANGED <<flash, powered, active, data>>
        /\ lastUnerased' = [lastUnerased EXCEPT ![active] = LastUnerased(active)]
        /\ todo' = <<Call("measure")>> \o Tail(todo)
    BY DEF StartWithMetas, Doing, Now, FinalSteps, StartSteps, Continue
  <1>2. /\ Tail(todo) = <<>> /\ todo \in Seq(Steps) /\ Now = Head(todo) /\ powered
    BY <1>1, InCall
  <1>3. /\ todo' # <<>> /\ Head(todo').do = "measure" /\ \A W : Has(todo', W) <=> "measure" \in W
    <2> DEFINE a == Call("measure")
    <2>1. a.do = "measure" /\ todo' = <<a>> \o <<>>
      BY <1>1, <1>2 DEF Call
    <2> HIDE DEF a
    <2> QED BY <2>1, FewSteps
  <1>4. Has(todo, Loading)
    BY <1>1, <1>2, HasHead DEF Loading
  <1>5. ~ Restored /\ ~ Restored' /\ LoadInv'
    BY <1>3, <1>4, RestoredIs DEF Loading, LoadInv, Writing, Doing
  <1>6. Now' = Head(todo') /\ \A n : Doing(n)' => n = "measure"
    BY <1>3 DEF Now, Doing
  <1>7. CopyValues' /\ SwitchInv' /\ MetaInv'
    BY <1>6 DEF CopyValues, SwitchInv, MetaInv
  <1>8. NullInv' /\ FormatInv'
    BY <1>1, <1>5 DEF SInv, NullInv, FormatInv
  <1>9. EmptyNewer'
    <2>1. \A p : (AllErased(p)' <=> AllErased(p)) /\ (IsValidPage(p)' <=> IsValidPage(p))
      BY <1>1, FlashSame DEF AllErased
    <2>2. \A p \in Page : /\ CellsOf(p)' = CellsOf(p) /\ flash'[p].top = flash[p].top
                          /\ flash'[Other(p)].top = flash[Other(p)].top
      BY <1>1 DEF CellsOf
    <2> QED BY <2>1, <2>2 DEF SInv, EmptyNewer, Other
  <1>10. MeasureInv'
    <2>1. ~ Doing("top") /\ ~ Doing("bottom")
      BY <1>1 DEF Doing, Now
    <2>2. /\ active \in Page /\ Sound(CellsOf(active)) /\ TypeOK /\ CellsOf(active) = flash[active].cell
      BY <1>1, <2>1, ActiveCounts, Types DEF NInv
    <2>3. /\ LastMeta(active) \in 0..Cells
          /\ NewestMeta(CellsOf(active), LastMeta(active), LastUnerased(active))
      BY <2>2, WalkFindsNewest
    <2>4. lastUnerased'[active] = LastUnerased(active)
      BY <1>1, <2>2 DEF NInv, TypeOK
    <2> DEFINE n == LastMeta(active)
               S == {i \in 1..n : RecordOffset(flash[active].cell[i]) # 0}
    <2>5. S \in SUBSET (1..n) /\ n \in Nat /\ LastUnerased(active) = Newest(S)
      BY <2>3, StoreAssumption DEF LastUnerased, StoreAssumption
    <2>6. \A i \in 1..Cells : IsMeta(CellsOf(active)[i]) => i \in 1..n
      <3> HIDE DEF n
      <3>1. \A i \in 1..Cells : IsMeta(CellsOf(active)[i]) => i <= n
        BY <2>3 DEF NewestMeta, n
      <3> QED BY <3>1, <2>5, StoreAssumption DEF StoreAssumption
    <2>7. LastUnerased(active) = 0 => S = {}
      <3> HIDE DEF S, n
      <3> QED BY <2>5, LastPlace
    <2>8. LastUnerased(active) = 0 =>
            \A i \in 1..Cells : IsMeta(CellsOf(active)[i]) => CellsOf(active)[i].at = 0
      BY <2>2, <2>6, <2>7 DEF RecordOffset
    <2> QED BY <1>1, <2>4, <2>8 DEF MeasureInv, CellsOf
  <1>11. UNCHANGED <<Seen, Saved>>
    BY <1>1, <1>5, FlashSame, NothingSeen
  <1> QED BY <1>5, <1>7, <1>8, <1>9, <1>10, <1>11 DEF SInv

LEMMA MeasureFreeSpaceSame ==
  ASSUME NInv, NInv', SInv, MeasureFreeSpace
  PROVE  SInv' /\ UNCHANGED <<Seen, Saved>>
  <1>1. /\ todo # <<>> /\ Now.do = "measure" /\ "measure" \in FinalSteps
        /\ Doing("measure") /\ ~ Doing("top") /\ ~ Doing("bottom")
        /\ UNCHANGED <<flash, powered, initialised, active, data>>
    BY DEF MeasureFreeSpace, Doing, Now, FinalSteps, moduleVars
  <1>2. powered /\ initialised /\ Tail(todo) = <<>> /\ todo \in Seq(Steps) /\ Now = Head(todo)
    BY <1>1, AtFinalStep, InCall
  <1>3. ~ Restored
    <2>1. Has(todo, Loading)
      BY <1>1, <1>2, HasHead DEF Loading
    <2> QED BY <2>1, RestoredIs
  <1> DEFINE a == Call("copy")
             b == Call("restore")
  <1>4. a.do = "copy" /\ b.do = "restore"
    BY DEF Call
  <1>5. \/ todo' = <<>> /\ lastUnerased[active] = 0
        \/ todo' = <<a, b>> \o <<>> \/ todo' = <<b>> \o <<>>
    <2>1. a \in Steps /\ b \in Steps
      BY StepKinds DEF PlainSteps
    <2>2. <<a>> \o <<b>> = <<a, b>> /\ <<>> \o <<b>> = <<b>>
      <3> HIDE DEF a, b
      <3> QED BY <2>1, PairOfSteps
    <2> QED BY <1>2, <2>2 DEF MeasureFreeSpace, Continue, Return
  <1> HIDE DEF a, b
  <1>6. CASE todo' = <<>> /\ lastUnerased[active] = 0
    <2>1. \A W : ~ Has(todo', W)
      BY <1>6, EmptySeq DEF Has
    <2>2. LoadInv' /\ Restored'
      BY <1>1, <1>2, <1>6, <2>1, RestoredIs, NotLosingNext DEF LoadInv
    <2>3. NullInv' /\ FormatInv'
      BY <1>6, <2>2 DEF NullInv, FormatInv
    <2>4. SInv'
      BY <1>1, <1>6, <2>2, <2>3, CalmInv
    <2>5. StartPage = active /\ Sound(CellsOf(active))
      BY <1>1, <1>2, ActiveCounts
    <2>6. \A i \in 1..Cells : IsMeta(CellsOf(active)[i]) => CellsOf(active)[i].at = 0
      BY <1>1, <1>6 DEF SInv, MeasureInv
    <2>7. AllErased(active)
      <3> SUFFICES ASSUME NEW e \in Element PROVE Kept(CellsOf(active), e) = None
        BY DEF AllErased
      <3> DEFINE c == CellsOf(active)
      <3>1. PICK m : NewestOf(c, e, m)
        BY SomeNewest
      <3>2. m # 0 => m \in 1..Cells /\ IsMeta(c[m])
        BY <3>1, StoreAssumption DEF NewestOf, MetaOf, StoreAssumption
      <3>3. m # 0 => c[m].at = 0
        BY <2>6, <3>2
      <3> HIDE DEF c
      <3>4. Kept(c, e) = None
        BY <3>1, <3>3, KeptIs
      <3> QED BY <3>4 DEF c
    <2> QED BY <1>1, <2>2, <2>4, <2>5, <2>7, ActiveErased, Loaded
  <1>7. CASE todo' = <<a, b>> \o <<>> \/ todo' = <<b>> \o <<>>
    <2>1. /\ todo' # <<>> /\ Head(todo').do \notin Special
          /\ Has(todo', {"restore"}) /\ ~ Has(todo', Writing) /\ ~ Has(todo', {"measure"})
          /\ Has(todo', Loading)
      <3>1. CASE todo' = <<a, b>> \o <<>>
        BY <3>1, <1>4, FewSteps DEF Special, Writing, Loading
      <3>2. CASE todo' = <<b>> \o <<>>
        BY <3>2, <1>4, FewSteps DEF Special, Writing, Loading
      <3> QED BY <1>7, <3>1, <3>2
    <2>2. LoadInv' /\ (Restored' <=> Restored)
      BY <1>3, <2>1, RestoredIs DEF LoadInv
    <2>3. ~ Losing /\ ~ Losing'
      BY <1>1, <1>2, NotLosing, NotLosingNext
    <2> QED BY <1>1, <1>2, <2>1, <2>2, <2>3, CalmStep
  <1> QED BY <1>5, <1>6, <1>7

\* Each pointer is set to what was stored.
LEMMA RestoreUnmirroredSame ==
  ASSUME NInv, NInv', SInv, RestoreUnmirrored
  PROVE  SInv' /\ UNCHANGED <<Seen, Saved>>
  <1>1. /\ todo # <<>> /\ Now.do = "restore" /\ "restore" \in FinalSteps
        /\ ~ Doing("top") /\ ~ Doing("bottom")
        /\ UNCHANGED <<flash, powered, initialised, active>>
    BY DEF RestoreUnmirrored, Doing, Now, FinalSteps, moduleVars
  <1>2. powered /\ initialised /\ Tail(todo) = <<>> /\ todo \in Seq(Steps) /\ Now = Head(todo)
    BY <1>1, AtFinalStep, InCall
  <1>3. /\ todo' = <<>>
        /\ data' = [e \in Element |->
                      LET m == Newest(MetasOf(active, e))
                          at == flash[active].cell[m].at
                      IN  IF m = 0 \/ at = 0 THEN NullPointer
                          ELSE FlashPointer(active, at)]
    BY <1>2 DEF RestoreUnmirrored, Return
  <1>4. ~ Restored
    <2>1. Has(todo, Loading)
      BY <1>1, <1>2, HasHead DEF Loading
    <2> QED BY <2>1, RestoredIs
  <1>5. \A W : ~ Has(todo', W)
    BY <1>3, EmptySeq DEF Has
  <1>6. LoadInv' /\ Restored'
    BY <1>1, <1>2, <1>3, <1>5, RestoredIs, NotLosingNext DEF LoadInv
  <1>7. NullInv' /\ FormatInv'
    BY <1>3, <1>6 DEF NullInv, FormatInv
  <1>8. SInv'
    BY <1>1, <1>3, <1>6, <1>7, CalmInv
  <1>9. ASSUME NEW e \in Element PROVE Held(e)' = Stored(e)
    <2>1. Stored(e) = StoredIn(active, e)
      <3>1. StartPage = active /\ active # 0
        BY <1>1, <1>2, ActiveCounts
      <3> QED BY <3>1, StoredOnPage
    <2> DEFINE m == Newest(MetasOf(active, e))
               at == flash[active].cell[m].at
    <2>2. data'[e] = IF m = 0 \/ at = 0 THEN NullPointer ELSE FlashPointer(active, at)
      BY <1>3
    <2>3. Stored(e) = IF m = 0 \/ at = 0 THEN None ELSE ReadRecord(active, at, e)
      BY <2>1 DEF StoredIn
    <2> HIDE DEF m, at
    <2>4. CASE m = 0 \/ at = 0
      <3>1. data'[e].at = "null"
        BY <2>2, <2>4, PointerFacts
      <3> QED BY <2>3, <2>4, <3>1 DEF Held
    <2>5. CASE ~ (m = 0 \/ at = 0)
      <3>1. /\ data'[e].at = "flash" /\ data'[e].page = active /\ data'[e].cell = at
        BY <2>2, <2>5, PointerFacts
      <3>2. Held(e)' = ReadRecord(active, at, e)
        BY <3>1, <1>1 DEF Held, ReadRecord
      <3> QED BY <2>3, <2>5, <3>2
    <2> QED BY <2>4, <2>5
  <1>10. Seen' = [e \in Element |-> Held(e)'] /\ Seen = [e \in Element |-> Stored(e)]
    BY <1>4, <1>6 DEF Seen
  <1>11. Seen' = Seen
    BY <1>9, <1>10
  <1>12. Saved' = Saved
    BY <1>1, FlashSame DEF Saved
  <1> QED BY <1>8, <1>11, <1>12

LEMMA LosingJoined ==
  ASSUME NEW s \in Seq(Steps), NEW t \in Seq(Steps), LosesIn(t)
  PROVE  LosesIn(s \o t)
  <1> DEFINE u == s \o t
  <1>1. /\ Len(u) = Len(s) + Len(t) /\ Len(s) \in Nat /\ Len(t) \in Nat
        /\ \A i \in 1..Len(u) : u[i] = IF i <= Len(s) THEN s[i] ELSE t[i - Len(s)]
    BY ConcatProperties, LenProperties
  <1>2. PICK i \in 1..Len(t) : t[i].do = "formatted" /\ t[i].lost
    BY DEF LosesIn
  <1> HIDE DEF u
  <1>3. i + Len(s) \in 1..Len(u) /\ (i + Len(s)) - Len(s) = i /\ ~ (i + Len(s) <= Len(s))
    BY <1>1
  <1>4. u[i + Len(s)] = t[i]
    BY <1>1, <1>3
  <1>5. LosesIn(u)
    BY <1>2, <1>3, <1>4 DEF LosesIn
  <1> QED BY <1>5 DEF u

LEMMA FormatLoses ==
  ASSUME NEW l \in BOOLEAN, l
  PROVE  LosesIn(FormatSteps(l) \o <<>>)
  <1> DEFINE e1 == EraseSteps(1)
             e2 == EraseSteps(2)
             k == CounterSteps(1)
             f == FormattedStep(l)
             g == <<f>> \o <<>>
  <1>1. FormatSteps(l) \o <<>> = e1 \o (e2 \o (k \o g))
    <2>1. <<>> \in Seq(Steps)
      OBVIOUS
    <2> QED BY <2>1, FormatInARow
  <1>2. f \in Steps /\ f.do = "formatted" /\ f.lost
    BY StepKinds DEF FormattedStep
  <1>3. e1 \in Seq(Steps) /\ e2 \in Seq(Steps) /\ k \in Seq(Steps)
    BY StepKinds DEF EraseSteps, CounterSteps, Page, PlainSteps, StartSteps
  <1> HIDE DEF e1, e2, k, f
  <1>4. g \in Seq(Steps) /\ LosesIn(g)
    <2>1. g = <<f>> /\ <<f>> \in Seq(Steps)
      BY <1>2, ConcatEmptySeq
    <2>2. Len(<<f>>) = 1 /\ <<f>>[1] = f /\ 1 \in 1..1
      OBVIOUS
    <2> HIDE DEF g
    <2> QED BY <1>2, <2>1, <2>2 DEF LosesIn
  <1> HIDE DEF g
  <1>5. k \o g \in Seq(Steps) /\ LosesIn(k \o g)
    BY <1>3, <1>4, LosingJoined, HasJoined
  <1> DEFINE h == k \o g
  <1>6. h \in Seq(Steps) /\ LosesIn(h)
    BY <1>5
  <1> HIDE DEF h
  <1>7. e2 \o h \in Seq(Steps) /\ LosesIn(e2 \o h)
    BY <1>3, <1>6, LosingJoined, HasJoined
  <1> DEFINE j == e2 \o h
  <1>8. j \in Seq(Steps) /\ LosesIn(j)
    BY <1>7
  <1> HIDE DEF j
  <1>9. LosesIn(e1 \o j)
    BY <1>3, <1>8, LosingJoined
  <1> QED BY <1>1, <1>9 DEF j, h

\* A start that formats: either nothing was stored that could be lost, or
\* the elements are being lost from here on.
LEMMA StartWithoutMetaSame ==
  ASSUME NInv, SInv, StartWithoutMeta
  PROVE  SInv' /\ UNCHANGED <<Seen, Saved>>
  <1> DEFINE l == ~ HasEnd(active)
             w == FormatSteps(l) \o <<>>
  <1>1. /\ todo # <<>> /\ Now.do = "start" /\ Now = Head(todo)
        /\ UNCHANGED <<flash, powered, initialised, data>>
        /\ todo' = FormatSteps(l) \o Tail(todo)
    BY DEF StartWithoutMeta, Doing, Now, Continue
  <1>0. l \in BOOLEAN /\ (~ l => Metas(active) = {}) /\ (~ l => HasEnd(active))
    BY DEF StartWithoutMeta, HasEnd
  <1> HIDE DEF l
  <1>2. /\ powered /\ Allowed(Now, initialised) /\ initialised \in BOOLEAN /\ Tail(todo) = <<>>
        /\ todo \in Seq(Steps)
    BY <1>1, InCall DEF FinalSteps
  <1>3. ~ initialised
    BY <1>1, <1>2 DEF Allowed, StartSteps
  <1>4. Chain(<<>>, initialised) /\ \A W : ~ Has(<<>>, W)
    BY ChainEmpty
  <1>5. /\ w \in Seq(Steps) /\ w # <<>> /\ Head(w).do = "erase"
        /\ \A W : Has(w, W) => W \cap {"erase", "top", "bottom", "formatted"} # {}
    <2>1. /\ FormatSteps(l) \o <<>> \in Seq(Steps) /\ FormatSteps(l) \o <<>> # <<>>
          /\ Head(FormatSteps(l) \o <<>>) = [do |-> "erase", page |-> 1, sector |-> 1]
          /\ \A W : Has(FormatSteps(l) \o <<>>, W) =>
                      Has(<<>>, W) \/ W \cap {"erase", "top", "bottom", "formatted"} # {}
      BY <1>0, <1>2, <1>3, <1>4, FormatChain
    <2> QED BY <2>1, <1>4
  <1>6. todo' = w /\ (l => LosesIn(w))
    BY <1>0, <1>1, <1>2, FormatLoses
  <1> HIDE DEF w
  <1>7. LoadInv'
    BY <1>5, <1>6 DEF Loading, Writing, LoadInv
  <1>8. ~ Restored
    <2>1. Has(todo, Loading)
      BY <1>1, <1>2, HasHead DEF Loading
    <2> QED BY <2>1, RestoredIs
  <1>9. /\ StartPage = active /\ active \in Page /\ active # 0 /\ IsValidPage(active)
        /\ IsValidPage(Other(active)) => flash[Other(active)].top < flash[active].top
        /\ Sound(CellsOf(active)) /\ TypeOK
    <2>1. ~ Doing("top") /\ ~ Doing("bottom") /\ Now.do \in StartSteps
      BY <1>1 DEF Doing, Now, StartSteps
    <2> QED BY <2>1, <1>1, ActiveCounts DEF NInv
  <1>10. NullInv'
    BY <1>1, <1>8 DEF SInv, NullInv
  <1>11. ASSUME ~ l
         PROVE  AllErased(active) /\ \A p \in Page : IsValidPage(p) => AllErased(p)
    <2>1. \A i \in 1..Cells : ~ IsMeta(CellsOf(active)[i])
      <3>1. Metas(active) = {i \in 1..Cells : IsMeta(CellsOf(active)[i])}
        BY <1>9, StoreAssumption, SoundMetas
      <3> QED BY <1>0, <1>11, <3>1
    <2>2. AllErased(active)
      <3>1. \A e \in Element : \A i \in 1..Cells : ~ MetaOf(CellsOf(active), i, e)
        BY <2>1 DEF MetaOf
      <3> QED BY <3>1, KeptNothing DEF AllErased
    <2>3. IsValidPage(Other(active)) => AllErased(Other(active))
      BY <1>9, <2>1 DEF SInv, EmptyNewer
    <2> QED BY <1>9, <2>2, <2>3, Types
  <1>12. FormatInv'
    <2>1. CASE l
      <3>1. Losing'
        BY <1>6, <2>1, LosingIs
      <3> QED BY <3>1 DEF FormatInv
    <2>2. CASE ~ l
      <3>1. ~ Doing("bottom")'
        BY <1>5, <1>6 DEF Doing
      <3>2. \A p : (AllErased(p)' <=> AllErased(p)) /\ (IsValidPage(p)' <=> IsValidPage(p))
        BY <1>1, FlashSame DEF AllErased
      <3> QED BY <2>2, <3>1, <3>2, <1>11 DEF FormatInv
    <2> QED BY <2>1, <2>2
  <1>13. SInv'
    BY <1>1, <1>5, <1>6, <1>7, <1>10, <1>12, CalmInv DEF Special
  <1>14. CASE Restored'
    <2>1. ~ l
      BY <1>6, <1>14, LosingIs, RestoredIs
    <2>2. \A e \in Element : Stored(e) = None
      BY <1>9, <1>11, <2>1, ActiveErased
    <2> QED BY <1>1, <1>13, <1>14, <2>2, Loaded
  <1>15. CASE ~ Restored'
    <2>1. \A e \in Element : Stored(e)' = Stored(e)
      BY <1>1, FlashSame
    <2> QED BY <1>8, <1>13, <1>15, <2>1, NothingSeen
  <1> QED BY <1>14, <1>15

LEMMA NvModuleInitSame ==
  ASSUME NInv, NInv', SInv, NvModuleInit
  PROVE  SInv' /\ UNCHANGED <<Seen, Saved>>
  <1> DEFINE l == FALSE
             fs == FormatSteps(l)
  <1>1. UNCHANGED <<flash, initialised, data>> /\ ~ powered
    BY DEF NvModuleInit
  <1>2. ~ initialised /\ todo = <<>> /\ ~ Restored
    BY <1>1, RestoredIs DEF NInv, FlashInv
  <1>3. todo' # <<>> /\ Head(todo').do \in {"erase", "start"}
    BY NvModuleInitKeeps
  <1>4. Chain(todo', initialised')
    BY DEF NInv, TodoInv
  <1>5. initialised' = FALSE /\ initialised' \in BOOLEAN /\ ~ initialised'
    BY <1>1, <1>2 DEF NInv, TypeOK
  <1>6. ~ Has(todo', Writing) /\ ~ Has(todo', {"measure"})
    <2>1. \A W : Has(todo', W) => W \cap (StartSteps \cup {"erase", "top", "bottom"}) # {}
      BY <1>4, <1>5, StartChain
    <2> QED BY <2>1 DEF Writing, StartSteps
  <1>7. Has(todo', Loading)
    <2> DEFINE s == Call("start")
               u == IF StartPage = 0 THEN fs \o <<Call("estimate")>> ELSE <<>>
    <2>1. todo' = u \o <<s>>
      BY DEF NvModuleInit
    <2>2. s.do = "start" /\ s \in Steps
      BY StepKinds DEF PlainSteps, StartSteps
    <2>3. u \in Seq(Steps)
      <3>1. CASE StartPage # 0
        BY <3>1
      <3>2. CASE StartPage = 0
        <4> DEFINE q == Call("estimate")
        <4>1. q \in Steps /\ q.do = "estimate"
          BY StepKinds DEF PlainSteps, StartSteps
        <4>2. u = fs \o <<q>>
          BY <3>2
        <4> HIDE DEF q, u
        <4>3. Chain(<<>>, initialised) /\ <<q>> \o <<>> = <<q>> /\ Len(<<>>) = 0
          BY <4>1, ChainEmpty, ConcatEmptySeq
        <4>4. <<q>> \in Seq(Steps)
          BY <4>1
        <4>5. fs \o <<q>> = EraseSteps(1) \o (EraseSteps(2) \o (CounterSteps(1)
                                       \o (<<FormattedStep(l)>> \o <<q>>)))
          BY <4>4, FormatInARow
        <4> DEFINE e1 == EraseSteps(1)
                   e2 == EraseSteps(2)
                   k == CounterSteps(1)
                   f == <<FormattedStep(l)>>
                   x == <<q>>
        <4>6. /\ e1 \in Seq(Steps) /\ e2 \in Seq(Steps) /\ k \in Seq(Steps) /\ f \in Seq(Steps)
              /\ x \in Seq(Steps)
          <5>1. FormattedStep(l) \in Steps
            BY StepKinds
          <5>2. \A g \in Steps : <<g>> \in Seq(Steps)
            OBVIOUS
          <5>3. f \in Seq(Steps)
            BY <5>1, <5>2, Zenon
          <5> HIDE DEF f
          <5> QED BY <4>4, <5>3, StepKinds DEF EraseSteps, CounterSteps, Page, PlainSteps, StartSteps
        <4>7. u = e1 \o (e2 \o (k \o (f \o x)))
          BY <4>2, <4>5
        <4> HIDE DEF e1, e2, k, f, x
        <4>8. f \o x \in Seq(Steps)
          BY <4>6, HasJoined
        <4>9. k \o (f \o x) \in Seq(Steps)
          BY <4>6, <4>8, HasJoined
        <4>10. e2 \o (k \o (f \o x)) \in Seq(Steps)
          BY <4>6, <4>9, HasJoined
        <4>11. e1 \o (e2 \o (k \o (f \o x))) \in Seq(Steps)
          BY <4>6, <4>10, HasJoined
        <4> QED BY <4>7, <4>11
      <3> QED BY <3>1, <3>2
    <2> HIDE DEF s, u
    <2>4. <<s>> \in Seq(Steps) /\ Has(<<s>>, Loading)
      <3>1. Has(<<s>> \o <<>>, Loading)
        BY <2>2, FewSteps DEF Loading
      <3>2. <<s>> \in Seq(Steps) /\ <<s>> \o <<>> = <<s>>
        BY <2>2, ConcatEmptySeq
      <3> QED BY <3>1, <3>2
    <2> DEFINE z == <<s>>
    <2>5. z \in Seq(Steps) /\ Has(z, Loading) /\ todo' = u \o z
      BY <2>1, <2>4
    <2> HIDE DEF z
    <2> QED BY <2>3, <2>5, HasJoined
  <1>8. LoadInv' /\ ~ Restored'
    BY <1>6, <1>7, RestoredIs DEF LoadInv
  <1>9. NullInv'
    BY <1>1, <1>2 DEF SInv, NullInv
  <1>10. FormatInv'
    <2>1. CASE Head(todo').do = "start"
      BY <2>1 DEF FormatInv, Now
    <2>2. CASE Head(todo').do # "start"
      <3>1. StartPage = 0
        <4> SUFFICES ASSUME StartPage # 0 PROVE FALSE
          OBVIOUS
        <4> DEFINE s == Call("start")
        <4>1. todo' = <<>> \o <<s>> /\ s.do = "start" /\ s \in Steps
          BY StepKinds DEF NvModuleInit, PlainSteps, StartSteps
        <4> HIDE DEF s
        <4>2. todo' = <<s>> \o <<>>
          BY <4>1, PairOfSteps, ConcatEmptySeq
        <4> QED BY <4>1, <4>2, <2>2, FewSteps
      <3>2. \A p \in Page : ~ IsValidPage(p)
        BY <3>1, StartFacts
      <3>3. \A p \in Page : ~ IsValidPage(p)'
        BY <3>2, <1>1, FlashSame
      <3>4. ~ Doing("bottom")'
        BY <1>3 DEF Doing
      <3> QED BY <3>3, <3>4 DEF FormatInv
    <2> QED BY <2>1, <2>2
  <1>11. SInv'
    BY <1>1, <1>3, <1>8, <1>9, <1>10, CalmInv DEF Special
  <1> QED BY <1>1, <1>2, <1>8, <1>11, FlashSame, NothingSeen

-----------------------------------------------------------------------------
(* Sectors erased and counters written. *)

LEMMA ActiveCountsNow ==
  NInv /\ ~ Doing("top") /\ ~ Doing("bottom") /\ initialised =>
    /\ StartPage = active /\ IsValidPage(active) /\ active \in Page
    /\ IsValidPage(Other(active)) => flash[Other(active)].top < flash[active].top
    /\ Sound(CellsOf(active)) /\ CellsOf(active) \in Row
  BY ActiveCounts

LEMMA ActiveCountsNext ==
  ASSUME NInv', ~ Doing("top")', ~ Doing("bottom")', initialised'
  PROVE  (/\ StartPage = active /\ IsValidPage(active) /\ active \in Page
          /\ IsValidPage(Other(active)) => flash[Other(active)].top < flash[active].top
          /\ Sound(CellsOf(active)) /\ CellsOf(active) \in Row)'
  <1>1. (NInv /\ ~ Doing("top") /\ ~ Doing("bottom") /\ initialised =>
          /\ StartPage = active /\ IsValidPage(active) /\ active \in Page
          /\ IsValidPage(Other(active)) => flash[Other(active)].top < flash[active].top
          /\ Sound(CellsOf(active)) /\ CellsOf(active) \in Row)'
    BY ActiveCountsNow, PTL
  <1> QED BY <1>1

LEMMA OldPageCountsNow ==
  NInv /\ SwitchInv /\ initialised /\ (Doing("top") \/ Doing("bottom")) =>
    /\ StartPage = Other(active) /\ IsValidPage(Other(active)) /\ ~ IsValidPage(active)
    /\ Other(active) \in Page /\ active \in Page /\ Other(active) # active
  BY OldPageCounts

LEMMA OldPageCountsNext ==
  ASSUME NInv', SwitchInv', initialised', Doing("top")' \/ Doing("bottom")'
  PROVE  (/\ StartPage = Other(active) /\ IsValidPage(Other(active)) /\ ~ IsValidPage(active)
          /\ Other(active) \in Page /\ active \in Page /\ Other(active) # active)'
  <1>1. (NInv /\ SwitchInv /\ initialised /\ (Doing("top") \/ Doing("bottom")) =>
          /\ StartPage = Other(active) /\ IsValidPage(Other(active)) /\ ~ IsValidPage(active)
          /\ Other(active) \in Page /\ active \in Page /\ Other(active) # active)'
    BY OldPageCountsNow, PTL
  <1> QED BY <1>1

\* The page that is not active is erased.
LEMMA OtherErasedSame ==
  ASSUME NInv, NInv', SInv, initialised,
         ~ Doing("top"), ~ Doing("bottom"), ~ Copying, NEW s \in {1, 2},
         flash' = [flash EXCEPT ![Other(active)] = WithSectorErased(@, s)],
         UNCHANGED <<powered, initialised, active, data>>,
         LoadInv', Restored' <=> Restored, CopyValues',
         todo' # <<>> => Head(todo').do \notin Special \ {"copyNext"}
  PROVE  SInv' /\ UNCHANGED <<Seen, Saved>>
  <1>1. /\ ~ Doing("top")' /\ ~ Doing("bottom")' /\ ~ Doing("meta")' /\ ~ Doing("measure")'
    BY DEF Doing, Special
  <1>2. /\ active \in Page /\ Other(active) \in Page /\ Other(active) # active
        /\ \A p \in Page : p = active \/ p = Other(active)
        /\ Other(Other(active)) = active
    BY Types DEF NInv
  <1>3. flash'[active] = flash[active] /\ ~ IsValidPage(Other(active))'
    <2>1. /\ flash'[active] = flash[active]
          /\ s = 1 => flash'[Other(active)].top = 0
          /\ s = 2 => flash'[Other(active)].bottom = 0
      BY OtherSectorErased
    <2> QED BY <2>1 DEF IsValidPage, Other
  <1>4. StartPage = active /\ StartPage' = active
    BY <1>1, ActiveCounts, ActiveCountsNext
  <1>5. CellsOf(active)' = CellsOf(active)
    BY <1>3 DEF CellsOf
  <1>6. \A e \in Element : Stored(e)' = Stored(e)
    BY <1>2, <1>4, <1>5, StoredSame DEF CellsOf
  <1>7. \A e \in Element : Held(e)' = Held(e)
    <2> TAKE e \in Element
    <2>1. IsFlash(e) => data[e].page = active
      BY DEF NInv, PointerInv, PointerInto
    <2>2. IsFlash(e) => RecordStays(data[e].page, data[e].cell, e)
      BY <2>1, <1>3 DEF RecordStays
    <2> QED BY <2>2, HeldSame
  <1>8. EmptyNewer'
    <2> SUFFICES ASSUME NEW p \in Page, IsValidPage(p)', IsValidPage(Other(p))' PROVE FALSE
      BY DEF EmptyNewer
    <2> QED BY <1>2, <1>3 DEF Other
  <1>9. NullInv' /\ FormatInv' /\ SwitchInv' /\ MetaInv' /\ MeasureInv'
    BY <1>1 DEF SInv, NullInv, FormatInv, SwitchInv, MetaInv, MeasureInv
  <1> QED BY <1>6, <1>7, <1>8, <1>9, NothingSeen DEF SInv

\* The storage is formatted: nothing is stored before or after.
LEMMA FormattingSame ==
  ASSUME NInv, NInv', SInv, ~ initialised, ~ Losing, UNCHANGED <<powered, initialised, data>>,
         todo # <<>>, Now.do \in {"erase", "top", "bottom"}, todo' = Tail(todo),
         todo' # <<>> => Head(todo').do \notin Special \ {"top", "bottom"},
         \A p \in Page : IsValidPage(p)' => AllErased(p)',
         Doing("bottom")' => AllBlank(CellsOf(1))'
  PROVE  SInv' /\ UNCHANGED <<Seen, Saved>>
  <1>1. LoadInv' /\ (Restored' <=> Restored)
    BY Pops DEF SInv, Loading
  <1>2. /\ ~ Doing("copyNext")' /\ ~ Doing("copyRecord")' /\ ~ Doing("copyMeta")'
        /\ ~ Doing("meta")' /\ ~ Doing("measure")'
    BY DEF Doing, Special
  <1>3. CopyValues' /\ SwitchInv' /\ MetaInv' /\ MeasureInv'
    BY <1>2 DEF CopyValues, SwitchInv, MetaInv, MeasureInv
  <1>4. NullInv' /\ FormatInv'
    BY <1>1 DEF SInv, NullInv, FormatInv
  <1>5. EmptyNewer'
    <2>1. \A p \in Page : Other(p) \in Page
      BY DEF Page, Other
    <2> QED BY <2>1 DEF EmptyNewer, Other
  <1>6. \A p \in Page : IsValidPage(p) => AllErased(p)
    <2>1. Now.do # "start"
      OBVIOUS
    <2> QED BY <2>1 DEF SInv, FormatInv
  <1>7. \A e \in Element : Stored(e) = None
    BY <1>6, NothingStored
  <1>8. \A e \in Element : Stored(e)' = None
    <2>1. (NInv /\ (\A p \in Page : IsValidPage(p) => AllErased(p)) =>
             \A e \in Element : Stored(e) = None)'
      BY NothingStored, PTL
    <2> QED BY <2>1
  <1>9. \A e \in Element : Held(e)' = Held(e)
    <2> TAKE e \in Element
    <2>1. ~ IsFlash(e)
      BY DEF NInv, FlashInv
    <2> QED BY <2>1, HeldSame
  <1> QED BY <1>1, <1>3, <1>4, <1>5, <1>7, <1>8, <1>9, NothingSeen DEF SInv

\* What a restart would restore is always something.
LEMMA ContentIs ==
  NInv => Saved \in [Element -> Value \cup {None, Junk}]
  <1> SUFFICES ASSUME NInv, NEW e \in Element PROVE Stored(e) \in Value \cup {None, Junk}
    BY DEF Saved
  <1>1. CASE StartPage = 0
    BY <1>1, StoredOnPage
  <1>2. CASE StartPage # 0
    <2> DEFINE c == CellsOf(StartPage)
    <2>1. StartPage \in Page /\ flash[StartPage].top # 0
      BY <1>2, StartFacts DEF IsValidPage
    <2>2. c \in Row /\ Leads(c)
      BY <2>1, Types, SoundLeads DEF NInv, FlashInv
    <2>3. Stored(e) = Kept(c, e)
      BY <1>2, StoredIsRest DEF Rest
    <2> HIDE DEF c
    <2>4. PICK m : NewestOf(c, e, m)
      BY SomeNewest
    <2>5. Kept(c, e) \in Value \cup {Junk, None}
      BY <2>2, <2>4, KeptValue
    <2> QED BY <2>3, <2>5
  <1> QED BY <1>1, <1>2

\* What was stored is lost, or an older page comes to light.
LossStep == Losing /\ Seen' = Saved' /\ Saved' \in [Element -> Value \cup {None, Junk}]

\* The storage is formatted, because a start could not read what is stored.
LEMMA LosingSame ==
  ASSUME NInv, NInv', SInv, ~ initialised, Losing, UNCHANGED <<powered, initialised, data>>,
         todo # <<>>, Now.do \in {"erase", "top", "bottom"}, todo' = Tail(todo),
         todo' # <<>> => Head(todo').do \notin Special \ {"top", "bottom"},
         NEW q \in Page, ~ IsValidPage(q)'
  PROVE  SInv' /\ LossStep
  <1>1. LoadInv' /\ (Restored' <=> Restored) /\ (Losing' <=> Losing)
    BY Pops DEF SInv, Loading
  <1>2. /\ ~ Doing("copyNext")' /\ ~ Doing("copyRecord")' /\ ~ Doing("copyMeta")'
        /\ ~ Doing("meta")' /\ ~ Doing("measure")'
    BY DEF Doing, Special
  <1>3. CopyValues' /\ SwitchInv' /\ MetaInv' /\ MeasureInv'
    BY <1>2 DEF CopyValues, SwitchInv, MetaInv, MeasureInv
  <1>4. ~ Restored /\ ~ Restored'
    BY <1>1, RestoredIs
  <1>5. NullInv' /\ FormatInv'
    BY <1>1, <1>4 DEF SInv, NullInv, FormatInv
  <1>6. EmptyNewer'
    <2> SUFFICES ASSUME NEW p \in Page, IsValidPage(p)', IsValidPage(Other(p))' PROVE FALSE
      BY DEF EmptyNewer
    <2>1. q = p \/ q = Other(p)
      BY DEF Page, Other
    <2>2. IsValidPage(Other(p))' <=> flash'[Other(p)].top = flash'[Other(p)].bottom /\ flash'[Other(p)].top # 0
      BY DEF IsValidPage, Other
    <2>3. \A r : IsValidPage(r)' <=> flash'[r].top = flash'[r].bottom /\ flash'[r].top # 0
      BY DEF IsValidPage
    <2> QED BY <2>1, <2>2, <2>3
  <1>7. Seen' = Saved'
    BY <1>4 DEF Seen, Saved
  <1>8. Saved' \in [Element -> Value \cup {None, Junk}]
    <2>1. (NInv => Saved \in [Element -> Value \cup {None, Junk}])'
      BY ContentIs, PTL
    <2> QED BY <2>1
  <1> QED BY <1>1, <1>3, <1>5, <1>6, <1>7, <1>8 DEF SInv, LossStep

LEMMA EraseSectorSame ==
  ASSUME NInv, NInv', SInv, EraseSector
  PROVE  SInv' /\ (UNCHANGED <<Seen, Saved>> \/ LossStep)
  <1> DEFINE s == Now.sector
  <1>1. /\ todo # <<>> /\ Now.do = "erase" /\ todo' = Tail(todo)
        /\ UNCHANGED <<powered, initialised, active, lastMeta, data>>
        /\ flash' = [flash EXCEPT ![Now.page] = WithSectorErased(@, s)]
    BY DEF EraseSector, Doing, Now, Return, moduleVars
  <1>2. /\ Now \in Steps /\ initialised \in BOOLEAN
        /\ todo' # <<>> /\ Follows(Now, Second, initialised) /\ Second = Head(todo')
    BY <1>1, InCall DEF Unfinished, Second
  <1>3. s \in {1, 2} /\ Now.page \in Page
    BY <1>1, <1>2, StepFields
  <1>4. CASE initialised
    <2>1. /\ Now.page = Other(active)
          /\ s = 2 /\ Second.do = "copyNext" => Second.from = lastMeta[active]
      BY <1>1, <1>4 DEF NInv, EraseInv, Doing, Now
    <2>2. \/ Second.do \in {"erase", "forgetOld"}
          \/ s = 2 /\ Second.do = "copyNext" /\ Second.meta = 1
      BY <1>1, <1>2, <1>3, <1>4 DEF Follows
    <2>3. LoadInv' /\ (Restored' <=> Restored)
      BY <1>1, Pops DEF SInv, Loading
    <2>4. CopyValues'
      <3>1. CASE Second.do \in {"erase", "forgetOld"}
        BY <3>1, <1>2 DEF CopyValues, Doing
      <3>2. CASE s = 2 /\ Second.do = "copyNext" /\ Second.meta = 1
        <4>1. Now'.do = "copyNext" /\ Now'.meta - 1 = 0 /\ Now'.from = lastMeta[active]
          BY <3>2, <2>1, <1>2 DEF Now
        <4>2. ~ Doing("copyRecord")' /\ ~ Doing("copyMeta")'
          BY <3>2, <1>2 DEF Doing
        <4>3. Searched(0, lastMeta[active], {})'
          <5>1. \A i \in 1..Cells : IsMeta(CellsOf(active)[i]) => i <= lastMeta[active]
            BY <1>4 DEF NInv, FlashInv, NewestMeta
          <5>2. CellsOf(active)' = CellsOf(active) /\ lastMeta[active] \in Nat
            <6>1. flash'[active] = flash[active]
              BY <1>1, <1>3, <2>1, OtherSectorErased
            <6>2. active \in Page /\ lastMeta[active] \in 0..Cells /\ Cells \in Nat
              BY Types, StoreAssumption DEF NInv, StoreAssumption
            <6> QED BY <6>1, <6>2, <1>1 DEF CellsOf
          <5>3. \A i \in (lastMeta[active] + 1)..Cells : ~ IsMeta(CellsOf(active)[i])
            <6> TAKE i \in (lastMeta[active] + 1)..Cells
            <6>1. i \in 1..Cells /\ ~ (i <= lastMeta[active])
              BY <5>2, StoreAssumption DEF StoreAssumption
            <6> QED BY <6>1, <5>1
          <5> QED BY <5>2, <5>3, <1>1 DEF Searched, MetaOf
        <4>4. CopiedWell(0)'
          BY DEF CopiedWell, Copied
        <4> QED BY <4>1, <4>2, <4>3, <4>4, <1>1 DEF CopyValues
      <3> QED BY <2>2, <3>1, <3>2
    <2>5. ~ Doing("top") /\ ~ Doing("bottom") /\ ~ Copying
      BY <1>1 DEF Doing, Now, Copying
    <2>6. Head(todo').do \notin Special \ {"copyNext"}
      BY <2>2, <1>2 DEF Special
    <2>7. flash' = [flash EXCEPT ![Other(active)] = WithSectorErased(@, s)]
      BY <1>1, <2>1
    <2> HIDE DEF s
    <2> QED BY <1>1, <1>3, <1>4, <2>3, <2>4, <2>5, <2>6, <2>7, OtherErasedSame
  <1>5. CASE ~ initialised
    <2>1. Second.do \in {"erase", "top"}
      BY <1>1, <1>2, <1>3, <1>5 DEF Follows
    <2>2. ~ Doing("bottom")' /\ Head(todo').do \notin Special \ {"top", "bottom"}
      BY <2>1, <1>2 DEF Doing, Special
    <2> DEFINE p == Now.page
               q == WithSectorErased(flash[p], s)
    <2>3. flash'[p] = q /\ \A r \in Page : r # p => flash'[r] = flash[r]
      BY <1>1, <1>3, Types DEF NInv
    <2>4. q.top = 0 \/ q.bottom = 0
      <3> DEFINE pg == flash[p]
      <3>1. pg \in [top : Nat, bottom : Nat, cell : Row] /\ q = WithSectorErased(pg, s)
            /\ s \in {1, 2}
        BY <1>3, Types DEF NInv
      <3> HIDE DEF pg, q, s
      <3> QED BY <3>1, StoreAssumption, SectorErased
    <2>5. p \in Page
      BY <1>3
    <2> HIDE DEF p, q, s
    <2>6. ~ (flash'[p].top = flash'[p].bottom /\ flash'[p].top # 0)
      BY <2>3, <2>4
    <2>7. PICK x \in Page : x = p
      BY <2>5
    <2>8. CASE Losing
      <3>1. ~ IsValidPage(x)'
        BY <2>6, <2>7 DEF IsValidPage
      <3> QED BY <1>1, <1>5, <2>2, <2>8, <3>1, LosingSame
    <2>9. CASE ~ Losing
      <3>1. \A r \in Page : IsValidPage(r) => AllErased(r)
        BY <1>1, <1>5, <2>9 DEF SInv, FormatInv
      <3>2. \A r \in Page : IsValidPage(r)' => AllErased(r)'
        <4> SUFFICES ASSUME NEW r \in Page, IsValidPage(r)' PROVE AllErased(r)'
          OBVIOUS
        <4>1. r # p /\ flash'[r] = flash[r]
          BY <2>3, <2>6 DEF IsValidPage
        <4>2. IsValidPage(r) /\ CellsOf(r)' = CellsOf(r)
          BY <4>1 DEF IsValidPage, CellsOf
        <4> QED BY <4>2, <3>1 DEF AllErased
      <3> QED BY <1>1, <1>5, <2>2, <2>9, <3>2, FormattingSame
    <2> QED BY <2>8, <2>9
  <1> QED BY <1>2, <1>4, <1>5

LEMMA IdleEraseSame ==
  ASSUME NInv, NInv', SInv, IdleErase
  PROVE  SInv' /\ UNCHANGED <<Seen, Saved>>
  <1>1. /\ todo # <<>> /\ Now.do = "idle" /\ "idle" \in FinalSteps /\ todo' = Tail(todo)
        /\ erase.pending
        /\ UNCHANGED <<powered, initialised, active, data>>
    BY DEF IdleErase, Doing, Now, Return, FinalSteps
  <1>2. powered /\ initialised /\ Tail(todo) = <<>>
    BY <1>1, AtFinalStep
  <1>3. LoadInv' /\ (Restored' <=> Restored) /\ (Losing' <=> Losing)
    BY <1>1, Pops DEF SInv, Loading
  <1>4. CASE erase.sector > 2
    <2>1. flash' = flash
      BY <1>4 DEF IdleErase
    <2> QED BY <2>1, <1>1, <1>2, <1>3, CalmStep
  <1>5. CASE ~ (erase.sector > 2)
    <2> DEFINE s == erase.sector
    <2>0. s \in 1..3 /\ erase.page = Other(active)
      BY <1>1 DEF NInv, EraseInv, TypeOK
    <2>1. /\ flash' = [flash EXCEPT ![erase.page] = WithSectorErased(@, s)]
          /\ erase.page = Other(active) /\ s \in {1, 2}
      BY <1>1, <1>5, <2>0 DEF IdleErase
    <2>2. ~ Doing("top") /\ ~ Doing("bottom") /\ ~ Copying
      BY <1>1 DEF Doing, Now, Copying
    <2>3. CopyValues'
      BY <1>1, <1>2 DEF CopyValues, Doing
    <2>4. flash' = [flash EXCEPT ![Other(active)] = WithSectorErased(@, s)]
      BY <2>1
    <2> HIDE DEF s
    <2> QED BY <1>1, <1>2, <1>3, <2>1, <2>2, <2>3, <2>4, OtherErasedSame
  <1> QED BY <1>4, <1>5

\* The element is taken for one that is stored while it is being rewritten.
SpoilStep ==
  /\ Seen' = Seen
  /\ \E S \in SUBSET {e \in Element : Saved[e] = None /\ Seen[e] # None} :
       S # {} /\ Saved' = [e \in Element |-> IF e \in S THEN Junk ELSE Saved[e]]

\* The counters of either page, whose cells stay.
LEMMA CounterFacts ==
  ASSUME NInv, todo # <<>>, Now.do \in {"top", "bottom"}, todo' = Tail(todo),
         UNCHANGED <<powered, initialised, active, counter, lastMeta, lastUnerased,
                     copyPending, erase, queue, head, data>>,
         flash' = [flash EXCEPT ![active].top = counter]
           \/ flash' = [flash EXCEPT ![active].bottom = counter]
  PROVE  /\ active \in Page /\ Other(active) \in Page /\ Other(active) # active
         /\ \A p \in Page : p = active \/ p = Other(active)
         /\ Other(Other(active)) = active
         /\ IsValidPage(Other(active))' <=> IsValidPage(Other(active))
         /\ \A p : CellsOf(p)' = flash'[p].cell
         /\ \A p \in Page : CellsOf(p)' = CellsOf(p) /\ (AllErased(p)' <=> AllErased(p))
         /\ \A e \in Element : Held(e)' = Held(e)
         /\ todo' # <<>> => Follows(Now, Head(todo'), initialised)
         /\ initialised \in BOOLEAN /\ powered
  <1>1. /\ powered /\ initialised \in BOOLEAN
        /\ \A p \in Page : p # active => flash'[p] = flash[p]
        /\ \A p \in Page : flash'[p].cell = flash[p].cell
        /\ todo' # <<>> => Follows(Now, Head(todo'), initialised)
    BY AtCounter
  <1>2. /\ active \in Page /\ Other(active) \in Page /\ Other(active) # active
        /\ \A p \in Page : p = active \/ p = Other(active)
        /\ Other(Other(active)) = active
        /\ \A e \in Element : IsFlash(e) => data[e].page \in Page
    BY Types DEF NInv
  <1>3. IsValidPage(Other(active))' <=> IsValidPage(Other(active))
    BY <1>1, <1>2 DEF IsValidPage, Other
  <1>4. \A p \in Page : CellsOf(p)' = CellsOf(p)
    BY <1>1 DEF CellsOf
  <1>5. \A p \in Page : AllErased(p)' <=> AllErased(p)
    BY <1>4 DEF AllErased
  <1>6. \A e \in Element : Held(e)' = Held(e)
    <2> TAKE e \in Element
    <2>1. IsFlash(e) => RecordStays(data[e].page, data[e].cell, e)
      BY <1>1, <1>2 DEF RecordStays
    <2> QED BY <2>1, HeldSame
  <1>7. \A p : CellsOf(p)' = flash'[p].cell
    BY DEF CellsOf
  <1> QED BY <1>1, <1>2, <1>3, <1>4, <1>5, <1>6, <1>7

LEMMA WriteTopCounterSame ==
  ASSUME NInv, NInv', SInv, StartInv, WriteTopCounter
  PROVE  SInv' /\ (UNCHANGED <<Seen, Saved>> \/ LossStep)
  <1>1. /\ todo # <<>> /\ Now.do = "top" /\ todo' = Tail(todo) /\ Doing("top")
        /\ UNCHANGED <<powered, initialised, active, counter, lastMeta, lastUnerased,
                       copyPending, erase, queue, head, data>>
        /\ flash' = [flash EXCEPT ![Now.page].top = counter]
    BY DEF WriteTopCounter, Doing, Now, Return, moduleVars, queueVars
  <1>2. Now.page = active /\ Erased(active) /\ counter # 0
    BY <1>1 DEF NInv, CounterInv
  <1>3. /\ active \in Page /\ Other(active) \in Page /\ Other(active) # active
        /\ \A p \in Page : p = active \/ p = Other(active)
        /\ Other(Other(active)) = active
        /\ IsValidPage(Other(active))' <=> IsValidPage(Other(active))
        /\ \A p \in Page : CellsOf(p)' = CellsOf(p) /\ (AllErased(p)' <=> AllErased(p))
        /\ \A e \in Element : Held(e)' = Held(e)
        /\ todo' # <<>> => Follows(Now, Head(todo'), initialised)
        /\ initialised \in BOOLEAN /\ powered
    BY <1>1, <1>2, CounterFacts
  <1>4. todo' # <<>>
    BY <1>1, InCall DEF Unfinished
  <1>5. Head(todo').do = "bottom"
    BY <1>1, <1>3, <1>4 DEF Follows
  <1>6. ~ IsValidPage(active)'
    <2>1. flash'[active].top = counter /\ flash'[active].bottom = 0
      BY <1>1, <1>2, <1>3, Types DEF NInv, Erased
    <2> QED BY <2>1, <1>1, <1>2 DEF IsValidPage
  <1>7. LoadInv' /\ (Restored' <=> Restored)
    BY <1>1, Pops DEF SInv, Loading
  <1>8. CASE initialised
    <2>1. SwitchInv'
      <3>1. CellsOf(Other(active))' = CellsOf(Other(active)) /\ CellsOf(active)' = CellsOf(active)
        BY <1>1, <1>3 DEF CellsOf, Other
      <3>2. SwitchInv /\ \A e : InRam(e)' <=> InRam(e)
        BY <1>1 DEF SInv, InRam
      <3> QED BY <3>1, <3>2, <1>1, <1>3, <1>8 DEF SwitchInv
    <2>2. StartPage = Other(active) /\ StartPage' = Other(active)
      <3>1. StartPage = Other(active)
        BY <1>1, <1>8, OldPageCounts DEF SInv
      <3>2. Doing("bottom")' /\ initialised'
        BY <1>1, <1>4, <1>5, <1>8 DEF Doing
      <3>3. StartPage' = Other(active)'
        BY <2>1, <3>2, OldPageCountsNext
      <3> QED BY <3>1, <3>3, <1>1 DEF Other
    <2>3. \A e \in Element : Stored(e)' = Stored(e)
      <3> DEFINE p == Other(active)
      <3>1. p \in Page /\ StartPage = p /\ StartPage' = p /\ CellsOf(p)' = CellsOf(p)
            /\ CellsOf(p)' = flash'[p].cell /\ flash'[p].cell = CellsOf(p)
        BY <1>1, <1>3, <2>2 DEF CellsOf, Other
      <3>2. PICK r \in Page : r = p
        BY <3>1
      <3>3. CellsOf(r)' = CellsOf(r) /\ StartPage = r /\ StartPage' = r
        BY <3>1, <3>2, <1>3
      <3> QED BY <3>3, StoredSame
    <2>4. EmptyNewer'
      <3> SUFFICES ASSUME NEW p \in Page, IsValidPage(p)', IsValidPage(Other(p))' PROVE FALSE
        BY DEF EmptyNewer
      <3> QED BY <1>1, <1>3, <1>6 DEF Other
    <2>5. CopyValues' /\ MetaInv' /\ MeasureInv' /\ FormatInv' /\ NullInv'
      BY <1>1, <1>4, <1>5, <1>7, <1>8
         DEF CopyValues, MetaInv, MeasureInv, FormatInv, NullInv, Doing, SInv
    <2> QED BY <1>3, <1>7, <2>1, <2>3, <2>4, <2>5, NothingSeen DEF SInv
  <1>9. CASE ~ initialised /\ Losing
    <2>1. Erased(2) /\ active = 1
      BY <1>1, <1>3, <1>9 DEF StartInv, NInv, CounterInv
    <2>2. 2 \in Page /\ 2 = Other(active)
      BY <2>1 DEF Page, Other
    <2>3. ~ IsValidPage(2)
      BY <2>1 DEF Erased, IsValidPage
    <2>4. ~ IsValidPage(2)'
      BY <2>2, <2>3, <1>1, <1>3 DEF Other
    <2> QED BY <1>1, <1>5, <1>9, <2>2, <2>4, LosingSame DEF Special
  <1>10. CASE ~ initialised /\ ~ Losing
    <2>1. active = 1 /\ AllBlank(CellsOf(1))
      BY <1>1, <1>10 DEF NInv, FlashInv, CounterInv
    <2>2. AllBlank(CellsOf(1))'
      BY <2>1, <1>3 DEF AllBlank, BlankBetween
    <2>3. \A p \in Page : IsValidPage(p)' => AllErased(p)'
      <3>1. \A r \in Page : IsValidPage(r) => AllErased(r)
        BY <1>1, <1>10 DEF SInv, FormatInv
      <3> SUFFICES ASSUME NEW p \in Page, IsValidPage(p)' PROVE AllErased(p)'
        OBVIOUS
      <3>2. p = Other(active)
        BY <1>1, <1>3, <1>6
      <3>3. IsValidPage(p)
        BY <3>2, <1>1, <1>3 DEF Other
      <3> QED BY <3>1, <3>3, <1>3
    <2> QED BY <1>1, <1>5, <1>10, <2>2, <2>3, FormattingSame DEF Special
  <1> QED BY <1>3, <1>8, <1>9, <1>10

\* The copied page takes over: elements that are being rewritten may be spoilt.
LEMMA WriteBottomCounterSame ==
  ASSUME NInv, NInv', SInv, StartInv, WriteBottomCounter
  PROVE  SInv' /\ (UNCHANGED <<Seen, Saved>> \/ SpoilStep \/ LossStep)
  <1>1. /\ todo # <<>> /\ Now.do = "bottom" /\ todo' = Tail(todo) /\ Doing("bottom")
        /\ ~ Doing("top")
        /\ UNCHANGED <<powered, initialised, active, counter, lastMeta, lastUnerased,
                       copyPending, erase, queue, head, data>>
        /\ flash' = [flash EXCEPT ![Now.page].bottom = counter]
    BY DEF WriteBottomCounter, Doing, Now, Return, moduleVars, queueVars
  <1>2. Now.page = active /\ flash[active].top = counter /\ counter # 0
    BY <1>1 DEF NInv, CounterInv
  <1>3. /\ active \in Page /\ Other(active) \in Page /\ Other(active) # active
        /\ \A p \in Page : p = active \/ p = Other(active)
        /\ Other(Other(active)) = active
        /\ IsValidPage(Other(active))' <=> IsValidPage(Other(active))
        /\ \A p \in Page : CellsOf(p)' = CellsOf(p) /\ (AllErased(p)' <=> AllErased(p))
        /\ \A e \in Element : Held(e)' = Held(e)
        /\ todo' # <<>> => Follows(Now, Head(todo'), initialised)
        /\ initialised \in BOOLEAN /\ powered
    BY <1>1, <1>2, CounterFacts
  <1>4. LoadInv' /\ (Restored' <=> Restored)
    BY <1>1, Pops DEF SInv, Loading
  <1>5. todo' # <<>> => Head(todo').do \notin Special
    <2> SUFFICES ASSUME todo' # <<>> PROVE Head(todo').do \notin Special
      OBVIOUS
    <2>1. Head(todo').do \in ElementSteps \cup RoomSteps \cup PlainSteps
      BY <1>1, <1>3 DEF Follows, Unfinished
    <2>2. Head(todo').do # "measure"
      <3>1. Head(todo').do = "measure" => Has(todo', {"measure"})
        <4>1. todo' \in Seq(Steps)
          BY <1>1, InCall
        <4> QED BY <4>1, HasHead
      <3>2. Has(todo', {"measure"}) => Has(todo, {"measure"})
        BY <1>1, InCall
      <3>3. ~ Doing("measure")
        BY <1>1 DEF Doing, Now
      <3> QED BY <3>1, <3>2, <3>3 DEF SInv, LoadInv
    <2> QED BY <2>1, <2>2 DEF Special, ElementSteps, RoomSteps, PlainSteps, StartSteps
  <1>6. CASE initialised
    <2>1. /\ ~ Doing("top")' /\ ~ Doing("bottom")'
      BY <1>5 DEF Doing, Special
    <2>2. /\ IsValidPage(Other(active))
          /\ \A e \in Element :
               LET old == Kept(CellsOf(Other(active)), e)
                   new == Kept(CellsOf(active), e)
               IN  new = old \/ (old = None /\ new = Junk /\ InRam(e))
      BY <1>1, <1>6 DEF SInv, SwitchInv
    <2>3. StartPage = Other(active)
      BY <1>1, <1>6, OldPageCounts DEF SInv
    <2>4. StartPage' = active /\ ((IsValidPage(Other(active)) => flash[Other(active)].top < flash[active].top)')
      BY <2>1, <1>1, <1>6, ActiveCountsNext
    <2>5. \A e \in Element : Stored(e) = Kept(CellsOf(Other(active)), e)
      <3>1. \A f : Stored(f) = Rest(f)
        BY StoredIsRest
      <3> QED BY <3>1, <2>3, <1>3 DEF Rest, Page
    <2>6. \A e \in Element : Stored(e)' = Kept(CellsOf(active), e)
      <3>1. (NInv => \A f : Stored(f) = Rest(f))'
        BY StoredIsRest, PTL
      <3>2. \A e \in Element : Rest(e)' = Kept(CellsOf(active), e)
        <4> TAKE e \in Element
        <4>1. CellsOf(active)' = CellsOf(active) /\ active # 0
          BY <1>1, <1>3 DEF Page, CellsOf
        <4> QED BY <4>1, <2>4, <1>1 DEF Rest, CellsOf
      <3> QED BY <3>1, <3>2
    <2>7. EmptyNewer'
      <3> SUFFICES ASSUME NEW p \in Page, IsValidPage(p)', IsValidPage(Other(p))',
                          flash'[Other(p)].top < flash'[p].top,
                          \A i \in 1..Cells : ~ IsMeta(CellsOf(p)[i])'
                   PROVE  AllErased(Other(p))'
        BY DEF EmptyNewer, Other
      <3>1. p = active
        <4> SUFFICES ASSUME p = Other(active) PROVE FALSE
          BY <1>3
        <4>1. flash'[active].top < flash'[p].top /\ flash'[p].top < flash'[active].top
          BY <2>4, <1>1, <1>3 DEF Other
        <4>2. flash'[active].top \in Nat /\ flash'[p].top \in Nat
          <5>1. \A r \in Page : flash'[r].top \in Nat
            BY DEF NInv, TypeOK
          <5> QED BY <5>1, <1>3
        <4> QED BY <4>1, <4>2
      <3>2. \A i \in 1..Cells : ~ IsMeta(CellsOf(active)[i])
        BY <3>1, <1>1, <1>3
      <3>3. \A e \in Element : Kept(CellsOf(active), e) = None
        BY <3>2, KeptNothing DEF MetaOf
      <3>4. \A e \in Element : Kept(CellsOf(Other(active)), e) = None
        BY <2>2, <3>3
      <3>5. AllErased(Other(active))
        BY <3>4 DEF AllErased
      <3> QED BY <3>1, <3>5, <1>1, <1>3 DEF Other
    <2>8. SInv'
      <3>1. \A n \in Special : ~ Doing(n)'
        BY <1>5 DEF Doing
      <3>2. CopyValues' /\ SwitchInv' /\ MetaInv' /\ MeasureInv'
        BY <3>1 DEF CopyValues, SwitchInv, MetaInv, MeasureInv, Special
      <3> QED BY <3>2, <2>7, <1>1, <1>4, <1>6 DEF SInv, FormatInv, NullInv
    <2>9. CASE ~ Restored
      <3>1. \A e \in Element : ~ InRam(e)
        BY <2>9, PointerFacts DEF SInv, NullInv, InRam
      <3>2. \A e \in Element : Stored(e)' = Stored(e)
        BY <2>2, <2>5, <2>6, <3>1
      <3> QED BY <3>2, <2>8, <1>3, <1>4, NothingSeen
    <2>10. CASE Restored
      <3> DEFINE S == {e \in Element : Stored(e)' # Stored(e)}
      <3>1. Seen' = Seen /\ \A e \in Element : Seen[e] = Held(e) /\ Saved[e] = Stored(e)
        BY <2>10, <1>3, <1>4 DEF Seen, Saved
      <3>2. \A e \in S : Saved[e] = None /\ Seen[e] # None /\ Stored(e)' = Junk
        BY <2>2, <2>5, <2>6, <3>1, HeldInRam
      <3>3. Saved' = [e \in Element |-> IF e \in S THEN Junk ELSE Saved[e]]
        BY <3>1, <3>2 DEF Saved
      <3>4. S \in SUBSET {e \in Element : Saved[e] = None /\ Seen[e] # None}
        BY <3>2
      <3>5. CASE S = {}
        <4>1. \A e \in Element : Stored(e)' = Stored(e)
          BY <3>5
        <4> QED BY <4>1, <2>8, <1>3, <1>4, NothingSeen
      <3>6. CASE S # {}
        <4> HIDE DEF S
        <4> QED BY <3>1, <3>3, <3>4, <3>6, <2>8 DEF SpoilStep
      <3> QED BY <3>5, <3>6
    <2> QED BY <2>9, <2>10
  <1>7. CASE ~ initialised /\ Losing
    <2>1. Erased(2) /\ active = 1
      BY <1>1, <1>3, <1>7 DEF StartInv, NInv, CounterInv
    <2>2. 2 \in Page /\ 2 = Other(active)
      BY <2>1 DEF Page, Other
    <2>3. ~ IsValidPage(2)
      BY <2>1 DEF Erased, IsValidPage
    <2>4. ~ IsValidPage(2)'
      BY <2>2, <2>3, <1>1, <1>3 DEF Other
    <2> QED BY <1>1, <1>5, <1>7, <2>2, <2>4, LosingSame
  <1>8. CASE ~ initialised /\ ~ Losing
    <2>1. active = 1 /\ AllBlank(CellsOf(1)) /\ \A r \in Page : IsValidPage(r) => AllErased(r)
      BY <1>1, <1>8 DEF SInv, FormatInv, NInv, CounterInv
    <2>2. ~ Doing("bottom")'
      BY <1>5 DEF Doing, Special
    <2>3. AllErased(1)
      <3>1. \A i \in 1..Cells : CellsOf(1)[i] = Blank
        BY <2>1 DEF AllBlank, BlankBetween
      <3>2. \A e \in Element : \A i \in 1..Cells : ~ MetaOf(CellsOf(1), i, e)
        BY <3>1, CellFacts DEF MetaOf
      <3> QED BY <3>2, KeptNothing DEF AllErased
    <2>4. \A p \in Page : IsValidPage(p)' => AllErased(p)'
      <3> SUFFICES ASSUME NEW p \in Page, IsValidPage(p)' PROVE AllErased(p)'
        OBVIOUS
      <3>1. CASE p = active
        BY <3>1, <2>1, <2>3, <1>3
      <3>2. CASE p = Other(active)
        <4>1. IsValidPage(p)
          BY <3>2, <1>1, <1>3 DEF Other
        <4> QED BY <4>1, <2>1, <1>3
      <3> QED BY <3>1, <3>2, <1>3
    <2> QED BY <1>1, <1>5, <1>8, <2>2, <2>4, FormattingSame
  <1> QED BY <1>3, <1>6, <1>7, <1>8

-----------------------------------------------------------------------------
(* A record is written. *)

\* What is left of the caller's call.
LEMMA PoppedHead ==
  ASSUME NInv, LoadInv, todo # <<>>, Now.do \notin Unfinished \cup {"measure"},
         todo' = Tail(todo)
  PROVE  todo' # <<>> => Head(todo').do \notin Special
  <1> SUFFICES ASSUME todo' # <<>> PROVE Head(todo').do \notin Special
    OBVIOUS
  <1>1. Head(todo').do \in ElementSteps \cup RoomSteps \cup PlainSteps
    <2>1. Follows(Now, Head(todo'), initialised)
      BY InCall DEF Second
    <2>2. CASE Now.do = "forgetOld"
      BY <2>1, <2>2 DEF Follows, ElementSteps
    <2>3. CASE Now.do # "forgetOld"
      BY <2>1, <2>3 DEF Follows
    <2> QED BY <2>2, <2>3
  <1>2. Head(todo').do # "measure"
    <2>1. Head(todo').do = "measure" => Has(todo', {"measure"})
      <3>1. todo' \in Seq(Steps)
        BY InCall
      <3> QED BY <3>1, HasHead
    <2>2. Has(todo', {"measure"}) => Has(todo, {"measure"})
      BY InCall
    <2>3. ~ Doing("measure")
      BY DEF Doing, Now
    <2> QED BY <2>1, <2>2, <2>3 DEF LoadInv
  <1> QED BY <1>1, <1>2 DEF Special, ElementSteps, RoomSteps, PlainSteps, StartSteps

LEMMA NewerSame ==
  ASSUME EmptyNewer,
         \A p \in Page : (IsValidPage(p)' => IsValidPage(p)) /\ flash'[p].top = flash[p].top,
         \A p \in Page : (\A i \in 1..Cells : ~ IsMeta(CellsOf(p)[i])') =>
                            \A i \in 1..Cells : ~ IsMeta(CellsOf(p)[i]),
         \A p \in Page : AllErased(p) => AllErased(p)'
  PROVE  EmptyNewer'
  <1> SUFFICES ASSUME NEW p \in Page, IsValidPage(p)', IsValidPage(Other(p))',
                      flash'[Other(p)].top < flash'[p].top,
                      \A i \in 1..Cells : ~ IsMeta(CellsOf(p)[i])'
               PROVE  AllErased(Other(p))'
    BY DEF EmptyNewer, Other
  <1>1. PICK q \in Page : q = Other(p)
    BY DEF Page, Other
  <1>2. IsValidPage(q)' /\ flash'[q].top < flash'[p].top
    BY <1>1 DEF Other
  <1>3. IsValidPage(p) /\ IsValidPage(q) /\ flash[q].top < flash[p].top
    BY <1>2
  <1>4. \A i \in 1..Cells : ~ IsMeta(CellsOf(p)[i])
    OBVIOUS
  <1>5. AllErased(q)
    BY <1>1, <1>3, <1>4 DEF EmptyNewer
  <1>6. AllErased(q)'
    BY <1>5
  <1> QED BY <1>1, <1>6 DEF Other

LEMMA NvWriteRecordSame ==
  ASSUME NInv, NInv', SInv, NvWriteRecord
  PROVE  SInv' /\ UNCHANGED <<Seen, Saved>>
  <1> DEFINE e == Now.element
             t == Tail(todo)
             place == PlaceFor(e)
             a == Step("record", place)
             b == Step("meta", place)
  <1>1. /\ todo # <<>> /\ Now.do = "write" /\ Now = Head(todo)
        /\ UNCHANGED <<flash, powered, initialised, active, data>>
    BY DEF NvWriteRecord, Doing, Now
  <1>2. /\ Now \in Steps /\ initialised \in BOOLEAN /\ Allowed(Now, initialised)
        /\ t \in Seq(Steps) /\ todo \in Seq(Steps)
    BY <1>1, InCall
  <1>3. initialised /\ ~ Losing /\ ~ Losing'
    <2>1. initialised
      BY <1>1, <1>2 DEF Allowed, StartSteps
    <2> QED BY <2>1, <1>1, NotLosing, NotLosingNext
  <1>4. e \in Element
    BY <1>1, <1>2, StepFields DEF ElementSteps
  <1>5. ~ Has(todo, Loading) /\ ~ Has(t, Loading)
    <2>1. Has(todo, Writing)
      BY <1>1, <1>2, HasHead DEF Writing
    <2> QED BY <2>1, <1>1, InCall DEF SInv, LoadInv
  <1>6. \/ todo' = t
        \/ /\ FitsFreeSpace(e) /\ ~ IsFlash(e) /\ LowestRecord # TornOffset /\ HasPlace(e)
           /\ todo' = ((IF place.at = 0 THEN <<>> ELSE <<a>>) \o <<b>>) \o t
    BY DEF NvWriteRecord, Return, Continue
  <1>7. CASE todo' = t
    <2>1. LoadInv' /\ (Restored' <=> Restored)
      BY <1>1, <1>7, Pops DEF SInv, Loading
    <2>2. todo' # <<>> => Head(todo').do \notin Special
      BY <1>1, <1>7, PoppedHead DEF SInv, Unfinished
    <2> QED BY <1>1, <1>3, <2>1, <2>2, CalmStep
  <1>8. CASE /\ FitsFreeSpace(e) /\ ~ IsFlash(e) /\ LowestRecord # TornOffset /\ HasPlace(e)
             /\ todo' = ((IF place.at = 0 THEN <<>> ELSE <<a>>) \o <<b>>) \o t
    <2>1. /\ MetaCell \in 1..Cells
          /\ data[e].at # "null" => RecordCell(e) \in 1..Cells
      <3> HIDE DEF e
      <3> QED BY <1>3, <1>4, <1>8, PlaceIsFree
    <2>2. /\ place.element = e /\ place.meta = MetaCell
          /\ place.at = IF data[e].at = "null" THEN 0 ELSE RecordCell(e)
      <3>1. Size(e) >= 1 /\ Size(e) \in Nat
        BY <1>4, StoreAssumption, SizeFacts
      <3>2. RecordSize(e) = 0 <=> data[e].at = "null"
        BY <3>1 DEF RecordSize
      <3> QED BY <3>2 DEF PlaceFor
    <2>3. /\ place.at \in 0..Cells /\ place.meta \in 1..Cells
          /\ place.at # 0 => place.at \in 1..Cells
          /\ place.at = 0 <=> data[e].at = "null"
      BY <2>1, <2>2, StoreAssumption DEF StoreAssumption
    <2>4. /\ b \in Steps /\ b.do = "meta" /\ b.at = place.at /\ b.element = e
          /\ place.at # 0 => a \in Steps /\ a.do = "record"
      BY <2>2, <2>3, <1>4, StepKinds DEF Step
    <2> DEFINE v == (IF place.at = 0 THEN <<>> ELSE <<a>>) \o <<b>>
    <2>5. /\ v \in Seq(Steps) /\ ~ Has(v, Loading) /\ v # <<>>
          /\ Head(v) = IF place.at = 0 THEN b ELSE a
      <3>1. CASE place.at = 0
        <4>0. v = <<>> \o <<b>>
          BY <3>1
        <4> HIDE DEF v, a, b, place
        <4>1. v = <<b>> \o <<>> /\ v = <<b>>
          BY <4>0, <2>4, PairOfSteps, ConcatEmptySeq
        <4>2. ~ Has(v, Loading) /\ v # <<>> /\ Head(v) = b
          BY <4>1, <2>4, FewSteps DEF Loading
        <4> QED BY <4>1, <4>2, <3>1, <2>4
      <3>2. CASE place.at # 0
        <4>0. v = <<a>> \o <<b>>
          BY <3>2
        <4> HIDE DEF v, a, b, place
        <4>1. v = <<a, b>> /\ v \in Seq(Steps)
          BY <4>0, <3>2, <2>4, PairOfSteps
        <4>2. v = <<a, b>> \o <<>>
          BY <4>1, ConcatEmptySeq
        <4>3. ~ Has(v, Loading) /\ v # <<>> /\ Head(v) = a
          BY <4>2, <3>2, <2>4, FewSteps DEF Loading
        <4> QED BY <4>1, <4>3, <3>2
      <3> QED BY <3>1, <3>2
    <2>6. todo' = v \o t
      BY <1>8
    <2> HIDE DEF v, a, b, t
    <2>7. ~ Has(todo', Loading) /\ todo' # <<>> /\ Head(todo') = IF place.at = 0 THEN b ELSE a
      BY <2>5, <2>6, <1>2, <1>5, HasJoined
    <2>8. LoadInv' /\ (Restored' <=> Restored)
      BY <1>1, <1>3, <1>5, <2>7, NotLoading
    <2>9. Head(todo').do \in {"record", "meta"} /\ Now' = Head(todo')
      BY <2>4, <2>7 DEF Now
    <2>10. MetaInv'
      <3>1. Doing("meta")' => Now'.at = 0 /\ Now'.element = e /\ data[e].at = "null"
        <4> SUFFICES ASSUME Doing("meta")'
                     PROVE  Now'.at = 0 /\ Now'.element = e /\ data[e].at = "null"
          OBVIOUS
        <4>1. Now'.do = "meta"
          BY DEF Doing, Now
        <4>2. place.at = 0
          BY <4>1, <2>4, <2>7, <2>9
        <4> QED BY <4>2, <2>3, <2>4, <2>7, <2>9
      <3>2. data[e].at = "null" => data[e] = NullPointer
        BY <1>4, PointerFacts, Types DEF NInv
      <3> HIDE DEF e
      <3> QED BY <3>1, <3>2, <1>1 DEF MetaInv
    <2>11. CopyValues' /\ SwitchInv' /\ MeasureInv'
      BY <2>9 DEF CopyValues, SwitchInv, MeasureInv, Doing
    <2>12. EmptyNewer'
      <3>1. \A p : /\ CellsOf(p)' = CellsOf(p) /\ (IsValidPage(p)' <=> IsValidPage(p))
                   /\ (AllErased(p)' <=> AllErased(p)) /\ flash'[p].top = flash[p].top
        BY <1>1, FlashSame DEF AllErased
      <3> QED BY <3>1, NewerSame DEF SInv
    <2>13. NullInv' /\ FormatInv'
      BY <1>1, <1>3, <2>8 DEF SInv, NullInv, FormatInv
    <2>14. \A f \in Element : Held(f)' = Held(f)
      BY <1>1, HeldInSameFlash
    <2> QED BY <1>1, <2>8, <2>10, <2>11, <2>12, <2>13, <2>14, FlashSame, NothingSeen DEF SInv
  <1> QED BY <1>6, <1>7, <1>8

\* Blank cells are programmed with anything but a meta.
LEMMA DataProgrammed ==
  ASSUME NInv, NEW p \in Page, Leads(CellsOf(p)), NEW k \in 1..Cells, NEW n \in Nat,
         BlankBetween(CellsOf(p), k, k + n - 1),
         NEW x \in Cell, ~ IsMeta(x), flash' = Programmed(p, k, n, x)
  PROVE  /\ StartPage' = StartPage
         /\ CellsOf(p)' = Programming(CellsOf(p), k, n, x)
         /\ \A r \in Page :
              /\ IsValidPage(r)' <=> IsValidPage(r)
              /\ flash'[r].top = flash[r].top
              /\ r # p => CellsOf(r)' = CellsOf(r)
              /\ \A e : Kept(CellsOf(r)', e) = Kept(CellsOf(r), e)
              /\ \A i \in 1..Cells : IsMeta(CellsOf(r)'[i]) <=> IsMeta(CellsOf(r)[i])
              /\ \A i \in 1..Cells : CellsOf(r)[i] # Blank => CellsOf(r)'[i] = CellsOf(r)[i]
              /\ AllErased(r) => AllErased(r)'
  <1> DEFINE c == CellsOf(p)
             d == flash'[p].cell
  <1>1. c \in Row /\ d = CellsOf(p)'
    BY Types DEF NInv, CellsOf
  <1>2. /\ \A r \in Page : r # p => flash'[r] = flash[r]
        /\ \A r \in Page : flash'[r].top = flash[r].top /\ flash'[r].bottom = flash[r].bottom
        /\ d = Programming(c, k, n, x)
    BY CellProgrammed DEF NInv
  <1>3. \A r \in Page : r # p => CellsOf(r)' = CellsOf(r)
    BY <1>2 DEF CellsOf
  <1>4. \A r \in Page : IsValidPage(r)' <=> IsValidPage(r)
    BY <1>2 DEF IsValidPage
  <1>5. StartPage' = StartPage
    <2>1. 1 \in Page /\ 2 \in Page
      BY DEF Page
    <2> QED BY <2>1, <1>2, <1>4 DEF StartPage
  <1>6. /\ \A e : Kept(d, e) = Kept(c, e)
        /\ \A i \in 1..Cells : IsMeta(d[i]) <=> IsMeta(c[i])
    <2>1. Leads(c) /\ BlankBetween(c, k, k + n - 1)
      OBVIOUS
    <2> HIDE DEF c, d
    <2> QED BY <2>1, <1>1, <1>2, DataKeeps
  <1>7. \A i \in 1..Cells : c[i] # Blank => d[i] = c[i]
    <2>1. BlankBetween(c, k, k + n - 1)
      OBVIOUS
    <2> HIDE DEF c, d
    <2>2. \A i \in 1..Cells : d[i] = IF i \in k..(k + n - 1) THEN x ELSE c[i]
      BY <1>1, <1>2, ProgrammingIs
    <2> QED BY <2>1, <2>2 DEF BlankBetween
  <1>8. ASSUME NEW r \in Page
        PROVE  /\ \A e : Kept(CellsOf(r)', e) = Kept(CellsOf(r), e)
               /\ \A i \in 1..Cells : IsMeta(CellsOf(r)'[i]) <=> IsMeta(CellsOf(r)[i])
               /\ \A i \in 1..Cells : CellsOf(r)[i] # Blank => CellsOf(r)'[i] = CellsOf(r)[i]
    <2>1. CASE r = p
      <3>1. CellsOf(r)' = d /\ CellsOf(r) = c
        BY <2>1 DEF CellsOf
      <3> HIDE DEF c, d
      <3> QED BY <3>1, <1>6, <1>7
    <2>2. CASE r # p
      BY <2>2, <1>3
    <2> QED BY <2>1, <2>2
  <1>9. \A r \in Page : AllErased(r) => AllErased(r)'
    BY <1>8 DEF AllErased, CellsOf
  <1> QED BY <1>1, <1>2, <1>3, <1>4, <1>5, <1>8, <1>9

\* The records that pointers lead to are not programmed.
LEMMA ProgrammedHeld ==
  ASSUME NInv, NEW p \in Page, NEW k \in 1..Cells, NEW n \in Nat,
         BlankBetween(CellsOf(p), k, k + n - 1), NEW x \in Cell,
         flash' = Programmed(p, k, n, x), NEW e \in Element, data'[e] = data[e]
  PROVE  Held(e)' = Held(e)
  <1>1. ASSUME IsFlash(e) PROVE RecordStays(data[e].page, data[e].cell, e)
    <2> DEFINE q == data[e].page
               at == data[e].cell
    <2>1. q \in Page /\ at \in 1..Cells /\ CellsOf(q) \in Row
      BY <1>1, Types DEF NInv
    <2>2. PointerInto(active, e) \/ PointerInto(Other(active), e)
      BY <1>1, PointerIntoSomePage
    <2>3. IsRecord(CellsOf(q), at, e)
      BY <2>2 DEF PointerInto, PointsInto
    <2>4. \A i \in at..(at + Size(e) - 1) : CellsOf(q)[i] # Blank
      <3> HIDE DEF q, at
      <3> QED BY <2>1, <2>3, StoreAssumption, RecordFacts
    <2>5. /\ flash'[p].cell = Programming(CellsOf(p), k, n, x)
          /\ \A r \in Page : r # p => flash'[r] = flash[r]
      BY CellProgrammed DEF NInv
    <2>6. \A i \in 1..Cells : CellsOf(p)[i] # Blank => flash'[p].cell[i] = CellsOf(p)[i]
      <3>1. CellsOf(p) \in Row
        BY Types DEF NInv
      <3>2. \A i \in 1..Cells :
              flash'[p].cell[i] = IF i \in k..(k + n - 1) THEN x ELSE CellsOf(p)[i]
        BY <2>5, <3>1, ProgrammingIs
      <3> QED BY <3>2 DEF BlankBetween
    <2> HIDE DEF q, at
    <2>7. RecordStays(q, at, e)
      BY <2>1, <2>4, <2>5, <2>6 DEF RecordStays, CellsOf
    <2> QED BY <2>7 DEF q, at
  <1> QED BY <1>1, HeldSame

LEMMA ProgramRecordSame ==
  ASSUME NInv, NInv', SInv, ProgramRecord
  PROVE  SInv' /\ UNCHANGED <<Seen, Saved>>
  <1> DEFINE e == Now.element
             at == Now.at
             n == Size(e)
             x == Record(data[e].value)
             c == CellsOf(active)
             d == CellsOf(active)'
  <1>1. /\ todo # <<>> /\ Now.do = "record" /\ Now = Head(todo) /\ todo' = Tail(todo)
        /\ Doing("record")
        /\ UNCHANGED <<powered, initialised, active, data>>
    BY DEF ProgramRecord, Doing, Now, Return, moduleVars
  <1>2. /\ Now \in Steps /\ initialised \in BOOLEAN /\ Allowed(Now, initialised)
        /\ todo' # <<>> /\ Follows(Now, Head(todo'), initialised)
    BY <1>1, InCall DEF Second, Unfinished
  <1>3. initialised
    BY <1>1, <1>2 DEF Allowed, StartSteps
  <1>4. e \in Element /\ at \in 1..Cells
    BY <1>1, <1>2, StepFields
  <1>5. BlankBetween(c, at, at + n - 1) /\ InRam(e) /\ n \in Nat /\ n >= 1
    <2>1. BlankBetween(c, at, at + n - 1) /\ InRam(e)
      BY <1>1 DEF NInv, WriteInv, InRam
    <2> HIDE DEF e
    <2> QED BY <2>1, <1>4, StoreAssumption, SizeFacts
  <1>6. flash' = Programmed(active, at, n, x)
    BY DEF ProgramRecord, Programmed
  <1>7. x \in Cell /\ ~ IsMeta(x) /\ x.value = data[e].value /\ active \in Page /\ c \in Row
    <2>1. data[e].value \in Value
      BY <1>4, <1>5, PointerFacts, Types DEF NInv, InRam
    <2>2. active \in Page /\ c \in Row
      BY Types DEF NInv
    <2> QED BY <2>1, <2>2, CellFacts DEF Record
  <1>8. /\ Now' = Head(todo') /\ Now'.do = "meta" /\ Now'.element = e /\ Now'.at = at
    BY <1>1, <1>2 DEF Follows, Now
  <1>9. ~ Doing("top") /\ ~ Doing("bottom") /\ ~ Doing("top")' /\ ~ Doing("bottom")'
        /\ \A s \in Special : Doing(s)' => s = "meta"
    BY <1>1, <1>8 DEF Doing, Now
  <1>10. StartPage = active /\ Leads(c)
    BY <1>3, <1>9, ActiveCounts, SoundLeads
  <1>11. /\ StartPage' = StartPage
         /\ d = Programming(c, at, n, x)
         /\ \A r \in Page :
              /\ IsValidPage(r)' <=> IsValidPage(r)
              /\ flash'[r].top = flash[r].top
              /\ \A f : Kept(CellsOf(r)', f) = Kept(CellsOf(r), f)
              /\ \A i \in 1..Cells : IsMeta(CellsOf(r)'[i]) <=> IsMeta(CellsOf(r)[i])
              /\ AllErased(r) => AllErased(r)'
    <2> DEFINE p == active
    <2>1. /\ p \in Page /\ Leads(CellsOf(p)) /\ BlankBetween(CellsOf(p), at, at + n - 1)
          /\ flash' = Programmed(p, at, n, x)
      BY <1>5, <1>6, <1>7, <1>10
    <2>2. PICK q \in Page : q = active
      BY <1>7
    <2> HIDE DEF at, x, e, n
    <2>3. /\ StartPage' = StartPage
          /\ CellsOf(q)' = Programming(CellsOf(q), at, n, x)
          /\ \A r \in Page :
               /\ IsValidPage(r)' <=> IsValidPage(r)
               /\ flash'[r].top = flash[r].top
               /\ \A f : Kept(CellsOf(r)', f) = Kept(CellsOf(r), f)
               /\ \A i \in 1..Cells : IsMeta(CellsOf(r)'[i]) <=> IsMeta(CellsOf(r)[i])
               /\ AllErased(r) => AllErased(r)'
      BY <1>4, <1>5, <1>7, <2>1, <2>2, DataProgrammed
    <2>4. d = CellsOf(q)' /\ c = CellsOf(q)
      BY <2>2, <1>1 DEF CellsOf
    <2> QED BY <2>3, <2>4
  <1>12. LoadInv' /\ (Restored' <=> Restored)
    BY <1>1, Pops DEF SInv, Loading
  <1>13. \A f \in Element : Stored(f)' = Stored(f)
    <2>1. PICK q \in Page : q = active
      BY <1>7
    <2>2. StartPage = q /\ StartPage' = q /\ \A f : Kept(CellsOf(q)', f) = Kept(CellsOf(q), f)
      BY <2>1, <1>10, <1>11
    <2> QED BY <2>2, StoredSame
  <1>14. \A f \in Element : Held(f)' = Held(f)
    <2> HIDE DEF at, x, e, n
    <2> QED BY <1>1, <1>4, <1>5, <1>6, <1>7, ProgrammedHeld
  <1>15. MetaInv'
    <2>1. d[at] = x
      <3>1. at \in at..(at + n - 1)
        BY <1>4, <1>5
      <3> HIDE DEF at, x, e, n, c, d
      <3> QED BY <3>1, <1>4, <1>7, <1>11, ProgrammingIs
    <2>2. at # 0 /\ InRam(e)
      BY <1>4, <1>5
    <2>3. d[at].value = data[e].value
      BY <2>1, <1>7
    <2> HIDE DEF at, x, e, c
    <2> QED BY <2>2, <2>3, <1>1, <1>8 DEF MetaInv, InRam
  <1>16. CopyValues' /\ SwitchInv' /\ MeasureInv'
    BY <1>9 DEF CopyValues, SwitchInv, MeasureInv, Special
  <1>17. EmptyNewer'
    <2>1. \A r \in Page : (\A i \in 1..Cells : ~ IsMeta(CellsOf(r)[i])') =>
                             \A i \in 1..Cells : ~ IsMeta(CellsOf(r)[i])
      BY <1>11 DEF IsMeta
    <2> QED BY <2>1, <1>11, NewerSame DEF SInv
  <1>18. NullInv' /\ FormatInv'
    BY <1>1, <1>3, <1>12 DEF SInv, NullInv, FormatInv
  <1> QED BY <1>12, <1>13, <1>14, <1>15, <1>16, <1>17, <1>18, NothingSeen DEF SInv

\* The element's new record is complete.
SaveStep ==
  /\ Seen' = Seen
  /\ \E e \in Element : Saved' = [Saved EXCEPT ![e] = Seen[e]]

LEMMA ProgramMetaSame ==
  ASSUME NInv, NInv', SInv, ProgramMeta
  PROVE  SInv' /\ SaveStep
  <1>a. PICK e, at, k, c : e = Now.element /\ at = Now.at /\ k = Now.meta /\ c = CellsOf(active)
    OBVIOUS
  <1> DEFINE x == Meta(e, at)
             d == flash'[active].cell
  <1>1. /\ todo # <<>> /\ Now.do = "meta" /\ Now = Head(todo) /\ todo' = Tail(todo)
        /\ Doing("meta") /\ UNCHANGED <<powered, initialised, active>>
        /\ data' = IF at = 0 THEN data ELSE [data EXCEPT ![e] = FlashPointer(active, at)]
    BY <1>a DEF ProgramMeta, Doing, Now, Return
  <1>2. /\ Now \in Steps /\ initialised \in BOOLEAN /\ Allowed(Now, initialised) /\ powered
        /\ todo \in Seq(Steps)
    BY <1>1, InCall
  <1>3. initialised /\ ~ Losing
    <2>1. initialised
      BY <1>1, <1>2 DEF Allowed, StartSteps
    <2> QED BY <2>1, NotLosing
  <1>4. e \in Element /\ at \in 0..Cells /\ k \in 1..Cells
    BY <1>a, <1>1, <1>2, StepFields
  <1>5. /\ at # 0 => IsRecord(c, at, e)
        /\ c[k] = Blank /\ lastMeta[active] < k /\ ~ IsFlash(e)
    BY <1>a, <1>1 DEF NInv, WriteInv
  <1>6. IF at = 0 THEN data[e] = NullPointer
                  ELSE InRam(e) /\ c[at].value = data[e].value
    BY <1>a, <1>1 DEF SInv, MetaInv
  <1>7. /\ active \in Page /\ c \in Row /\ lastMeta[active] \in 0..Cells /\ Cells \in Nat
        /\ data \in [Element -> Pointer] /\ x \in Cell /\ Other(active) \in Page
        /\ Other(active) # active /\ \A p \in Page : p = active \/ p = Other(active)
        /\ Other(Other(active)) = active
    BY <1>a, <1>4, CellFacts, Types, StoreAssumption DEF NInv, StoreAssumption
  <1>8. todo' # <<>> => Head(todo').do \notin Special
    BY <1>1, PoppedHead DEF SInv, Unfinished
  <1>9. ~ Doing("top") /\ ~ Doing("bottom") /\ \A n \in Special : ~ Doing(n)'
    BY <1>1, <1>8 DEF Doing, Now
  <1>10. StartPage = active /\ Leads(c)
    BY <1>a, <1>3, <1>9, ActiveCounts, SoundLeads
  <1>11. StartPage' = active /\ ((IsValidPage(Other(active)) => flash[Other(active)].top < flash[active].top)')
    BY <1>1, <1>3, <1>9, ActiveCountsNext DEF Special
  <1>12. LoadInv' /\ (Restored' <=> Restored) /\ Restored
    <2>1. Has(todo, Writing)
      BY <1>1, <1>2, HasHead DEF Writing
    <2> QED BY <2>1, <1>1, <1>2, <1>3, Pops, RestoredIs DEF SInv, LoadInv, Loading
  <1>13. flash' = Programmed(active, k, 1, x)
    BY <1>a DEF ProgramMeta, Programmed
  <1>14. \A i \in 1..Cells : IsMeta(c[i]) => i < k
    <2>1. \A i \in 1..Cells : IsMeta(c[i]) => i <= lastMeta[active]
      BY <1>a, <1>3 DEF NInv, FlashInv, NewestMeta
    <2>2. ASSUME NEW i \in 1..Cells, IsMeta(c[i]) PROVE i < k
      <3>1. i <= lastMeta[active]
        BY <2>1, <2>2
      <3> QED BY <3>1, <1>4, <1>5, <1>7
    <2> QED BY <2>2
  <1>15. /\ d = Programming(c, k, 1, x)
         /\ \A r \in Page : r # active => flash'[r] = flash[r]
         /\ \A r \in Page : flash'[r].top = flash[r].top
    <2> HIDE DEF x
    <2> QED BY <1>4, <1>7, <1>13, CellProgrammed, <1>a DEF NInv
  <1>16. /\ Kept(d, e) = IF at = 0 THEN None ELSE c[at].value
         /\ \A f : f # e => Kept(d, f) = Kept(c, f)
    <2>1. \A i \in 1..Cells : MetaOf(c, i, e) => i < k
      BY <1>14 DEF MetaOf
    <2>2. d = Programming(c, k, 1, Meta(e, at))
      BY <1>15
    <2> HIDE DEF d, x
    <2> QED BY <2>1, <2>2, <1>4, <1>5, <1>7, <1>10, MetaKeeps
  <1>17. /\ d[k] = x /\ IsMeta(d[k])
         /\ at # 0 => at \in 1..Cells /\ d[at] = c[at] /\ IsRecord(d, at, e)
    <2>1. \A i \in 1..Cells : d[i] = IF i = k THEN x ELSE c[i]
      <3> HIDE DEF d, x
      <3> QED BY <1>4, <1>7, <1>15, OneCellIs
    <2>2. IsMeta(x)
      BY CellFacts
    <2> HIDE DEF d, x
    <2>3. \A i \in 1..Cells : c[i].kind = "record" => d[i] = c[i]
      BY <2>1, <1>5, CellFacts
    <2>4. ASSUME at # 0 PROVE at \in 1..Cells /\ d[at] = c[at] /\ IsRecord(d, at, e)
      <3>1. at \in 1..Cells /\ at \in Int
        BY <2>4, <1>4, <1>7
      <3> QED BY <2>3, <2>4, <3>1, <1>4, <1>5, <1>7, StoreAssumption, RecordKept
    <2> QED BY <2>1, <2>2, <2>4, <1>4
  <1>18. Held(e) = Kept(d, e) /\ Held(e)' = Kept(d, e)
    <2>1. CASE at = 0
      <3>1. data[e] = NullPointer /\ data'[e] = NullPointer
        BY <2>1, <1>1, <1>6
      <3>2. Held(e) = None /\ Held(e)' = None
        BY <3>1, PointerFacts DEF Held
      <3> QED BY <2>1, <3>2, <1>16
    <2>2. CASE at # 0
      <3>1. Held(e) = c[at].value
        BY <2>2, <1>4, <1>6, HeldInRam
      <3>2. /\ data'[e].at = "flash" /\ data'[e].page = active /\ data'[e].cell = at
        BY <2>2, <1>1, <1>4, <1>7, PointerFacts
      <3>4. HoldsRecord(flash'[active].cell, at, Size(e)) /\ flash'[active].cell[at] = c[at]
        BY <2>2, <1>17 DEF IsRecord
      <3>5. Held(e)' = c[at].value
        BY <3>2, <3>4 DEF Held, ReadRecord
      <3> QED BY <2>2, <3>1, <3>5, <1>16
    <2> QED BY <2>1, <2>2
  <1>19. \A f \in Element : f # e => Held(f)' = Held(f)
    <2> SUFFICES ASSUME NEW f \in Element, f # e PROVE Held(f)' = Held(f)
      OBVIOUS
    <2>1. data'[f] = data[f]
      BY <1>1, <1>4, <1>7
    <2>2. BlankBetween(CellsOf(active), k, k + 1 - 1) /\ 1 \in Nat
      <3>1. \A i \in k..(k + 1 - 1) : i = k
        BY <1>4
      <3> QED BY <3>1, <1>5, <1>a DEF BlankBetween
    <2> HIDE DEF x
    <2> QED BY <2>1, <2>2, <1>4, <1>7, <1>13, ProgrammedHeld
  <1>20. /\ \A f \in Element : Stored(f) = Kept(c, f)
         /\ \A f \in Element : Stored(f)' = Kept(d, f)
    <2>1. \A f : Stored(f) = Rest(f)
      BY StoredIsRest
    <2>2. (NInv => \A f : Stored(f) = Rest(f))'
      BY StoredIsRest, PTL
    <2>3. active # 0
      BY <1>7 DEF Page
    <2>4. \A f : Rest(f) = Kept(c, f) /\ Rest(f)' = Kept(d, f)
      BY <1>a, <2>3, <1>10, <1>11 DEF Rest, CellsOf
    <2> QED BY <2>1, <2>2, <2>4
  <1>21. SaveStep
    <2>1. Seen' = Seen
      <3>1. \A f \in Element : Held(f)' = Held(f)
        BY <1>18, <1>19
      <3> QED BY <3>1, <1>12 DEF Seen
    <2>2. Saved' = [Saved EXCEPT ![e] = Seen[e]]
      <3>1. Seen[e] = Held(e)
        BY <1>4, <1>12 DEF Seen
      <3>2. \A f \in Element : Stored(f)' = IF f = e THEN Seen[e] ELSE Stored(f)
        BY <3>1, <1>16, <1>18, <1>20
      <3> QED BY <3>2, <1>4 DEF Saved
    <2> QED BY <2>1, <2>2, <1>4 DEF SaveStep
  <1>22. EmptyNewer'
    <2> SUFFICES ASSUME NEW p \in Page, IsValidPage(p)', IsValidPage(Other(p))',
                        flash'[Other(p)].top < flash'[p].top,
                        \A i \in 1..Cells : ~ IsMeta(CellsOf(p)[i])'
                 PROVE  FALSE
      BY DEF EmptyNewer, Other
    <2>1. CASE p = active
      <3>1. ~ IsMeta(CellsOf(p)[k])'
        BY <1>4 DEF CellsOf, IsMeta
      <3> QED BY <2>1, <3>1, <1>17 DEF CellsOf, IsMeta
    <2>2. CASE p = Other(active)
      <3>1. flash'[active].top < flash'[p].top /\ flash'[p].top < flash'[active].top
        BY <2>2, <1>1, <1>7, <1>11 DEF Other
      <3>2. \A r \in Page : flash'[r].top \in Nat
        BY DEF NInv, TypeOK
      <3> QED BY <3>1, <3>2, <1>7
    <2> QED BY <2>1, <2>2, <1>7
  <1>23. CopyValues' /\ SwitchInv' /\ MetaInv' /\ MeasureInv'
    BY <1>9 DEF CopyValues, SwitchInv, MetaInv, MeasureInv, Special
  <1>24. NullInv' /\ FormatInv'
    BY <1>1, <1>3, <1>12 DEF NullInv, FormatInv
  <1> QED BY <1>12, <1>21, <1>22, <1>23, <1>24 DEF SInv

-----------------------------------------------------------------------------
(* The copy of a page. *)

Onward == {s \in Steps : s.do \notin Loading \cup Writing}

\* A step followed by others that neither start nor write.
LEMMA Continues ==
  ASSUME NInv, LoadInv, todo # <<>>, Now.do \notin Loading, powered' = powered,
         NEW w \in Seq(Onward), todo' = w \o Tail(todo), Losing' <=> Losing
  PROVE  LoadInv' /\ (Restored' <=> Restored)
  <1>1. todo \in Seq(Steps) /\ Now = Head(todo)
    BY InCall
  <1>2. Tail(todo) \in Seq(Steps)
    BY <1>1, HeadTailProperties
  <1>3. w \in Seq(Steps)
    BY DEF Onward
  <1>4. ASSUME NEW W, W \subseteq Loading \cup Writing PROVE ~ Has(w, W)
    <2> SUFFICES ASSUME NEW i \in 1..Len(w) PROVE w[i].do \notin W
      BY DEF Has
    <2>1. w[i] \in Onward
      BY ElementOfSeq
    <2> QED BY <2>1, <1>4 DEF Onward
  <1>5. \A W : W \subseteq Loading \cup Writing => (Has(todo', W) <=> Has(Tail(todo), W))
    BY <1>2, <1>3, <1>4, HasJoined
  <1>6. \A W : Has(todo, W) <=> Now.do \in W \/ Has(Tail(todo), W)
    BY <1>1, HasHead
  <1>7. {"measure"} \subseteq Loading
    BY DEF Loading
  <1>8. (Has(todo, Loading) <=> Has(todo', Loading)) /\ (Has(todo', Writing) => Has(todo, Writing))
    BY <1>5, <1>6
  <1>9. ~ Has(todo', {"measure"})
    <2>1. Has(todo', {"measure"}) => Has(todo, {"measure"})
      BY <1>5, <1>6, <1>7
    <2>2. ~ Doing("measure")
      BY <1>1 DEF Doing, Loading
    <2> QED BY <2>1, <2>2 DEF LoadInv
  <1> QED BY <1>8, <1>9, RestoredIs DEF LoadInv

\* The copy goes on: only what it is about to do changes.
LEMMA CopyGoesOn ==
  ASSUME NInv, SInv, UNCHANGED <<flash, powered, initialised, active, data>>, initialised,
         LoadInv', Restored' <=> Restored, CopyValues',
         todo' # <<>>, Head(todo').do \in {"erase", "copyNext", "copyRecord"}
  PROVE  SInv' /\ UNCHANGED <<Seen, Saved>>
  <1>1. \A n \in {"top", "bottom", "meta", "measure"} : ~ Doing(n)'
    BY DEF Doing
  <1>2. SwitchInv' /\ MetaInv' /\ MeasureInv'
    BY <1>1 DEF SwitchInv, MetaInv, MeasureInv
  <1>3. NullInv' /\ FormatInv'
    BY DEF SInv, NullInv, FormatInv
  <1>4. EmptyNewer'
    <2>1. \A p : (AllErased(p)' <=> AllErased(p)) /\ (IsValidPage(p)' <=> IsValidPage(p))
      BY FlashSame DEF AllErased
    <2>2. \A p \in Page : /\ CellsOf(p)' = CellsOf(p) /\ flash'[p].top = flash[p].top
                          /\ flash'[Other(p)].top = flash[Other(p)].top
      BY DEF CellsOf
    <2> QED BY <2>1, <2>2 DEF SInv, EmptyNewer, Other
  <1>5. \A e \in Element : Held(e)' = Held(e)
    BY HeldInSameFlash
  <1> QED BY <1>2, <1>3, <1>4, <1>5, FlashSame, NothingSeen DEF SInv

LEMMA NvCopyPageSame ==
  ASSUME NInv, NInv', SInv, NvCopyPage
  PROVE  SInv' /\ UNCHANGED <<Seen, Saved>>
  <1> DEFINE t == Tail(todo)
             c == [do |-> "copyNext", from |-> lastMeta[active], meta |-> 1, at |-> Cells + 1]
             es == EraseSteps(Other(active))
             w == (IF IsBlankPage(Other(active)) THEN <<>> ELSE es) \o <<c>>
  <1>1. /\ todo # <<>> /\ Now.do = "copy" /\ Now = Head(todo) /\ todo' = w \o t
        /\ UNCHANGED <<flash, powered, initialised, active, lastMeta, data>>
    BY DEF NvCopyPage, Doing, Now, Continue, moduleVars
  <1>2. Allowed(Now, initialised) /\ initialised \in BOOLEAN /\ t \in Seq(Steps)
    BY <1>1, InCall
  <1>3. initialised /\ ~ Losing /\ ~ Losing'
    <2>1. initialised
      BY <1>1, <1>2 DEF Allowed, StartSteps
    <2> QED BY <2>1, <1>1, NotLosing, NotLosingNext
  <1>4. Other(active) \in Page /\ lastMeta[active] \in 0..Cells /\ Cells \in Nat
    BY Types, StoreAssumption DEF NInv, StoreAssumption
  <1>5. c \in Onward /\ c.do = "copyNext" /\ c.from = lastMeta[active] /\ c.meta = 1
    <2>1. 1 \in 1..(Cells + 1) /\ Cells + 1 \in 1..(Cells + 1)
      BY <1>4
    <2> QED BY <2>1, <1>4, StepKinds DEF Onward, Loading, Writing
  <1>6. es \in Seq(Onward) /\ es # <<>> /\ Head(es).do = "erase"
    <2> DEFINE a == [do |-> "erase", page |-> Other(active), sector |-> 1]
               b == [do |-> "erase", page |-> Other(active), sector |-> 2]
    <2>1. a \in Onward /\ b \in Onward /\ a.do = "erase" /\ es = <<a, b>>
      BY <1>4, StepKinds DEF EraseSteps, Onward, Loading, Writing
    <2> HIDE DEF a, b, es
    <2> QED BY <2>1
  <1> HIDE DEF c, es, t
  <1>7. /\ w \in Seq(Onward) /\ w # <<>>
        /\ Head(w) = c \/ Head(w).do = "erase"
    <2>1. CASE IsBlankPage(Other(active))
      <3>1. w = <<c>>
        <4>1. c \in Steps
          BY <1>5 DEF Onward
        <4>2. <<>> \o <<c>> = <<c>>
          BY <4>1, PairOfSteps
        <4> QED BY <4>2, <2>1
      <3>2. <<c>> \in Seq(Onward) /\ <<c>> # <<>> /\ Head(<<c>>) = c
        BY <1>5
      <3> HIDE DEF w
      <3> QED BY <3>1, <3>2
    <2>2. CASE ~ IsBlankPage(Other(active))
      <3>1. w = es \o <<c>>
        BY <2>2
      <3>2. \A s \in Onward : s \in Steps
        BY DEF Onward
      <3>3. <<c>> \in Seq(Onward) /\ <<c>> \in Seq(Steps) /\ es \in Seq(Steps)
        BY <1>5, <1>6, <3>2
      <3>4. es \o <<c>> # <<>> /\ Head(es \o <<c>>) = Head(es)
        BY <3>3, <1>6, HasJoined
      <3>5. es \o <<c>> \in Seq(Onward)
        BY <3>3, <1>6
      <3> QED BY <3>1, <3>4, <3>5, <1>6
    <2> QED BY <2>1, <2>2
  <1> HIDE DEF w
  <1>8. LoadInv' /\ (Restored' <=> Restored)
    BY <1>1, <1>3, <1>7, Continues DEF SInv, Loading, t
  <1>9. todo' # <<>> /\ Head(todo') = Head(w)
    <2>1. w \in Seq(Steps)
      BY <1>7 DEF Onward
    <2> QED BY <2>1, <1>1, <1>2, <1>7, HasJoined
  <1>10. Head(todo').do \in {"erase", "copyNext"}
    BY <1>5, <1>7, <1>9
  <1>11. CopyValues'
    <2>1. ~ Doing("copyRecord")' /\ ~ Doing("copyMeta")'
      BY <1>10 DEF Doing
    <2>2. ASSUME Doing("copyNext")'
          PROVE  Now'.meta - 1 = 0 /\ Now'.from = lastMeta[active]
      BY <2>2, <1>5, <1>7, <1>9 DEF Doing, Now
    <2>3. Searched(0, lastMeta[active], {})'
      <3>1. \A i \in 1..Cells : IsMeta(CellsOf(active)[i]) => i <= lastMeta[active]
        BY <1>3 DEF NInv, FlashInv, NewestMeta
      <3>2. \A i \in (lastMeta[active] + 1)..Cells : ~ IsMeta(CellsOf(active)[i])
        <4> TAKE i \in (lastMeta[active] + 1)..Cells
        <4>1. i \in 1..Cells /\ ~ (i <= lastMeta[active])
          BY <1>4
        <4> QED BY <4>1, <3>1
      <3>3. CellsOf(active)' = CellsOf(active)
        BY <1>1 DEF CellsOf
      <3> QED BY <3>2, <3>3, <1>1 DEF Searched, MetaOf
    <2>4. CopiedWell(0)'
      BY DEF CopiedWell, Copied
    <2> QED BY <2>1, <2>2, <2>3, <2>4, <1>1 DEF CopyValues
  <1> QED BY <1>1, <1>3, <1>8, <1>9, <1>10, <1>11, CopyGoesOn

\* What the other page says is in its first n metas.
LEMMA OtherPageMetas ==
  ASSUME NInv, NEW n \in 0..Cells, NEW hi \in 0..Cells, n <= hi,
         Filling(CellsOf(Other(active)), n, n + 1, hi)
  PROVE  /\ \A f : MetasOf(Other(active), f) = {} <=> ~ Copied(CellsOf(Other(active)), f, n)
         /\ \A i \in 1..Cells : IsMeta(CellsOf(Other(active))[i]) => i \in 1..n
  <1> DEFINE o == Other(active)
             c == CellsOf(o)
  <1>1. Cells \in Nat /\ o \in Page /\ c \in Row
    BY Types, StoreAssumption DEF NInv, StoreAssumption
  <1>2. Sound(c) /\ \A i \in 1..Cells : IsMeta(c[i]) => i \in 1..n
    <2> HIDE DEF c
    <2> QED BY <1>1, StoreAssumption, FillingIsSound DEF c
  <1>3. \A f : MetasOf(o, f) = {i \in 1..Cells : MetaOf(c, i, f)}
    <2> HIDE DEF o
    <2> QED BY <1>1, <1>2, StoreAssumption, SoundMetas DEF NInv
  <1>4. \A i \in 1..n : i \in 1..Cells
    BY <1>1
  <1>5. Copied(c, 0, n) = \E i \in 1..n : MetaOf(c, i, 0)
    BY DEF Copied
  <1> HIDE DEF c, o
  <1>6. \A f : MetasOf(o, f) = {} <=> ~ Copied(c, f, n)
    BY <1>2, <1>3, <1>4 DEF Copied, MetaOf
  <1> QED BY <1>2, <1>6 DEF c, o

\* The metas of the active page are all found.
LEMMA ActiveMetas ==
  ASSUME NInv, initialised, ~ Doing("top"), ~ Doing("bottom"), NEW m \in 1..Cells, NEW e
  PROVE  IsRecordErased(e, m) <=> \E k \in m..Cells : /\ MetaOf(CellsOf(active), k, e)
                                                     /\ CellsOf(active)[k].at = 0
  <1>1. Sound(CellsOf(active)) /\ active \in Page /\ TypeOK
    BY ActiveCounts DEF NInv
  <1>2. /\ MetaEnd(active) \in 0..Cells
        /\ Metas(active) = {i \in 1..Cells : IsMeta(CellsOf(active)[i])}
    BY <1>1, StoreAssumption, SoundMetas
  <1>3. \A i \in 1..Cells : IsMeta(CellsOf(active)[i]) => i <= MetaEnd(active)
    <2> TAKE i \in 1..Cells
    <2>1. IsMeta(CellsOf(active)[i]) => i \in Metas(active)
      BY <1>2
    <2> QED BY <2>1 DEF Metas
  <1>4. Cells \in Nat
    BY StoreAssumption DEF StoreAssumption
  <1>5. ASSUME IsRecordErased(e, m)
        PROVE  \E k \in m..Cells : MetaOf(CellsOf(active), k, e) /\ CellsOf(active)[k].at = 0
    <2>1. PICK k \in m..MetaEnd(active) : /\ IsMeta(CellsOf(active)[k])
                                          /\ CellsOf(active)[k].element = e
                                          /\ CellsOf(active)[k].at = 0
      BY <1>5 DEF IsRecordErased, CellsOf
    <2>2. k \in m..Cells
      BY <1>2, <1>4
    <2> QED BY <2>1, <2>2 DEF MetaOf
  <1>6. ASSUME NEW k \in m..Cells, MetaOf(CellsOf(active), k, e), CellsOf(active)[k].at = 0
        PROVE  IsRecordErased(e, m)
    <2>1. k \in 1..Cells
      BY <1>4
    <2>2. k <= MetaEnd(active)
      BY <2>1, <1>3, <1>6 DEF MetaOf
    <2>3. k \in m..MetaEnd(active)
      BY <2>2, <1>2, <1>4
    <2> QED BY <2>3, <1>6 DEF IsRecordErased, MetaOf, CellsOf
  <1> QED BY <1>5, <1>6

LEMMA FillingWhileCopying ==
  ASSUME NInv, Doing("copyNext"), NEW n \in 0..Cells, n = Now.meta - 1
  PROVE  \E hi \in 0..Cells : n <= hi /\ Filling(CellsOf(Other(active)), n, n + 1, hi)
  <1> DEFINE at == Now.at
             c == CellsOf(Other(active))
  <1>1. Filling(c, n, n + 1, at - 1) /\ ReachesTo(c, n, at)
    BY DEF NInv, CopyInv
  <1>2. c \in Row /\ Cells \in Nat
    BY Types, StoreAssumption DEF NInv, StoreAssumption
  <1> HIDE DEF c, at
  <1>3. at \in 1..(Cells + 1) /\ n + 1 < at
    BY <1>1, <1>2, StoreAssumption, FillingRoom
  <1>4. at - 1 \in 0..Cells /\ n <= at - 1
    BY <1>2, <1>3
  <1> QED BY <1>1, <1>4 DEF c

\* The metas that are not copied have been copied, or are of elements that
\* are gone.
LEMMA NotToCopy ==
  ASSUME NInv, initialised, Doing("copyNext"), NEW n \in 0..Cells, n = Now.meta - 1,
         NEW i \in 1..Cells, NEW f, MetaOf(CellsOf(active), i, f), ~ ToCopy(i)
  PROVE  Copied(CellsOf(Other(active)), f, n) \/ Gone(i, f)
  <1>1. PICK hi \in 0..Cells : n <= hi /\ Filling(CellsOf(Other(active)), n, n + 1, hi)
    BY FillingWhileCopying
  <1>2. ~ Doing("top") /\ ~ Doing("bottom")
    BY DEF Doing
  <1>3. MetasOf(Other(active), f) # {} \/ (data[f] = NullPointer /\ IsRecordErased(f, i))
    BY DEF ToCopy, MetaOf, CellsOf
  <1> QED BY <1>1, <1>2, <1>3, OtherPageMetas, ActiveMetas DEF Gone

\* The next record to copy is what the element's newest meta says.
LEMMA NextToCopy ==
  ASSUME NInv, SInv, initialised, Doing("copyNext"),
         NEW n \in 0..Cells, n = Now.meta - 1, NEW from \in 0..Cells, from = Now.from,
         NEW m \in 1..from, ToCopy(m), \A i \in (m + 1)..from : ~ ToCopy(i),
         NEW e \in Element, MetaOf(CellsOf(active), m, e)
  PROVE  /\ Searched(n, m - 1, {e})
         /\ Wanted(CellsOf(active), e, ReadRecord(active, CellsOf(active)[m].at, e))
  <1> DEFINE c == CellsOf(active)
             o == CellsOf(Other(active))
  <1>1. /\ c \in Row /\ Leads(c) /\ active \in Page
        /\ ~ Doing("top") /\ ~ Doing("bottom")
    <2>1. ~ Doing("top") /\ ~ Doing("bottom")
      BY DEF Doing
    <2> QED BY <2>1, ActiveCounts, SoundLeads
  <1>2. Cells \in Nat /\ m \in 1..Cells /\ from \in Nat
    BY StoreAssumption DEF StoreAssumption
  <1>3. PointersWhileCopying(n, from, {})
    BY DEF NInv, CopyInv
  <1>4. Searched(n, from, {})
    BY DEF SInv, CopyValues
  <1>5. ASSUME NEW f \in Element, NEW i \in (m + 1)..Cells, MetaOf(c, i, f)
        PROVE  Copied(o, f, n) \/ Gone(i, f)
    <2>1. i \in 1..Cells
      BY <1>2
    <2>2. CASE i <= from
      <3>1. i \in (m + 1)..from
        BY <2>2, <1>2
      <3>2. ~ ToCopy(i)
        BY <3>1
      <3> QED BY <3>2, <2>1, <1>5, NotToCopy
    <2>3. CASE ~ (i <= from)
      <3>1. i \in (from + 1)..Cells
        BY <2>1, <2>3, <1>2
      <3> QED BY <3>1, <1>4, <1>5 DEF Searched
    <2> QED BY <2>2, <2>3
  <1>6. Searched(n, m - 1, {e})
    <2> SUFFICES ASSUME NEW f \in Element, NEW i \in ((m - 1) + 1)..Cells, MetaOf(c, i, f)
                 PROVE  Copied(o, f, n) \/ f \in {e} \/ Gone(i, f)
      BY DEF Searched
    <2>1. CASE i = m
      BY <2>1 DEF MetaOf
    <2>2. CASE i # m
      <3>1. i \in (m + 1)..Cells
        BY <2>2, <1>2
      <3> QED BY <3>1, <1>5
    <2> QED BY <2>1, <2>2
  <1>7. ~ Copied(o, e, n) /\ ~ (data[e] = NullPointer /\ IsRecordErased(e, m))
    <2>1. MetasOf(Other(active), e) = {} /\ ~ (data[e] = NullPointer /\ IsRecordErased(e, m))
      BY DEF ToCopy, MetaOf, CellsOf
    <2>2. PICK hi \in 0..Cells : n <= hi /\ Filling(CellsOf(Other(active)), n, n + 1, hi)
      BY FillingWhileCopying
    <2> QED BY <2>1, <2>2, OtherPageMetas
  <1>8. ~ Gone(m, e)
    BY <1>1, <1>2, <1>7, ActiveMetas DEF Gone
  <1>9. NewestOf(c, e, m)
    <2>1. ASSUME NEW i \in 1..Cells, MetaOf(c, i, e) PROVE i <= m
      <3> SUFFICES ASSUME ~ (i <= m) PROVE FALSE
        OBVIOUS
      <3>1. i \in (m + 1)..Cells
        BY <1>2
      <3>2. Gone(i, e)
        BY <2>1, <3>1, <1>5, <1>7
      <3>3. \A k \in i..Cells : k \in m..Cells
        BY <3>1, <1>2
      <3> QED BY <3>2, <3>3, <1>8 DEF Gone
    <2>2. m \in 0..Cells
      BY <1>2
    <2> QED BY <2>1, <2>2 DEF NewestOf
  <1> DEFINE a == c[m].at
  <1>10. a \in 0..Cells /\ IsMeta(c[m])
    <2>1. IsMeta(c[m])
      BY DEF MetaOf
    <2> QED BY <2>1, <1>1, <1>2, CellFacts DEF Row
  <1>11. m # 0
    BY <1>2
  <1>12. CASE a # 0
    <2>1. Kept(c, e) = c[a].value /\ Kept(c, e) # None
      BY <1>1, <1>9, <1>11, <1>12, KeptIs, KeptValue
    <2>2. IsRecord(c, a, e)
      BY <1>1, <1>2, <1>10, <1>12 DEF Leads, MetaOf
    <2>3. ReadRecord(active, a, e) = c[a].value
      BY <2>2 DEF ReadRecord, IsRecord, CellsOf
    <2> QED BY <2>1, <2>3, <1>6 DEF Wanted
  <1>13. CASE a = 0
    <2>1. Kept(c, e) = None
      BY <1>9, <1>13, KeptIs
    <2>2. ReadRecord(active, a, e) = Junk
      BY <1>13, <1>2 DEF ReadRecord, HoldsRecord
    <2>3. data[e] # NullPointer
      <3>1. m \in m..Cells
        BY <1>2
      <3> QED BY <3>1, <1>8, <1>13 DEF Gone
    <2>4. ~ IsFlash(e)
      <3> SUFFICES ASSUME IsFlash(e) PROVE FALSE
        OBVIOUS
      <3>1. PointerInto(active, e)
        BY <1>3, <1>7 DEF PointersWhileCopying
      <3>2. data[e].cell \in 1..Cells /\ PointsInto(c, e, data[e].cell)
        BY <3>1, Types DEF NInv, PointerInto
      <3>3. Kept(c, e) # None
        BY <3>2, <1>1, PointsIntoKept
      <3> QED BY <3>3, <2>1
    <2>5. InRam(e)
      BY <2>3, <2>4, PointerFacts, Types DEF InRam, IsFlash, NInv
    <2> QED BY <2>1, <2>2, <2>5, <1>6 DEF Wanted
  <1> QED BY <1>12, <1>13

LEMMA CopyNextSame ==
  ASSUME NInv, NInv', SInv, CopyNext
  PROVE  SInv' /\ UNCHANGED <<Seen, Saved>>
  <1> DEFINE S == {i \in 1..Now.from : ToCopy(i)}
  <1>1. /\ todo # <<>> /\ Now.do = "copyNext" /\ Now = Head(todo)
        /\ Doing("copyNext") /\ Newest(S) # 0
        /\ UNCHANGED <<flash, powered, initialised, active, lastMeta, data>>
    BY DEF CopyNext, Doing, Now, moduleVars
  <1>2. /\ Now \in Steps /\ initialised \in BOOLEAN /\ Allowed(Now, initialised)
        /\ Tail(todo) \in Seq(Steps)
    BY <1>1, InCall
  <1>3. initialised /\ ~ Losing /\ ~ Losing'
    <2>1. initialised
      BY <1>1, <1>2 DEF Allowed, StartSteps
    <2> QED BY <2>1, <1>1, NotLosing, NotLosingNext
  <1>4. PICK n, from, m, t : /\ n = Now.meta - 1 /\ from = Now.from /\ m = Newest(S)
                             /\ t = Tail(todo)
    OBVIOUS
  <1>5. /\ Cells \in Nat /\ from \in 0..Cells /\ n \in 0..Cells /\ Now.meta = n + 1
        /\ active \in Page /\ CellsOf(active) \in Row
    <2>1. /\ Cells \in Nat /\ from \in 0..Cells /\ Now.meta \in 1..(Cells + 1)
          /\ active \in Page /\ CellsOf(active) \in Row /\ Now.at \in 1..(Cells + 1)
      BY <1>1, <1>2, <1>4, StepFields, Types, StoreAssumption DEF NInv, StoreAssumption
    <2>2. Now.meta = n + 1 /\ n \in 0..Cells
      BY <2>1, <1>4
    <2> QED BY <2>1, <2>2
  <1>6. m \in 1..from /\ m \in 1..Cells /\ ToCopy(m) /\ \A i \in (m + 1)..from : ~ ToCopy(i)
    <2>1. S \in SUBSET (1..from) /\ from \in Nat /\ S = {i \in 1..from : ToCopy(i)}
      BY <1>4, <1>5
    <2>2. m \in S /\ \A y \in S : y <= m
      <3> HIDE DEF S
      <3> QED BY <2>1, <1>1, <1>4, LastPlace
    <2>3. m \in 1..from /\ ToCopy(m)
      BY <2>1, <2>2
    <2>4. \A i \in (m + 1)..from : ~ ToCopy(i)
      <3> TAKE i \in (m + 1)..from
      <3>1. i \in 1..from /\ ~ (i <= m)
        BY <2>3, <1>5
      <3> QED BY <3>1, <2>1, <2>2
    <2>5. m \in 1..Cells
      BY <2>3, <1>5
    <2> QED BY <2>3, <2>4, <2>5
  <1>7. PICK e \in Element : e = CellsOf(active)[m].element /\ MetaOf(CellsOf(active), m, e)
    <2>1. IsMeta(CellsOf(active)[m])
      BY <1>6 DEF ToCopy, CellsOf
    <2> QED BY <2>1, <1>5, <1>6, CellFacts DEF Row, MetaOf
  <1>8. PICK v \in Value \cup {Junk} : v = ReadRecord(active, CellsOf(active)[m].at, e)
    <2>1. IsMeta(CellsOf(active)[m])
      BY <1>7 DEF MetaOf
    <2>2. CellsOf(active)[m].at \in Int
      BY <2>1, <1>5, <1>6, CellFacts DEF Row
    <2>3. ReadRecord(active, CellsOf(active)[m].at, e) \in Value \cup {Junk}
      BY <2>2, <1>5, ReadRecordType DEF NInv
    <2> QED BY <2>3
  <1>9. Searched(n, m - 1, {e}) /\ Wanted(CellsOf(active), e, v) /\ CopiedWell(n)
    <2>1. CopiedWell(n)
      BY <1>1, <1>4 DEF SInv, CopyValues
    <2> QED BY <2>1, <1>1, <1>3, <1>4, <1>5, <1>6, <1>7, <1>8, NextToCopy
  \* There is room for it.
  <1>16. PICK at \in 1..Cells : at = Now.at - Size(e) /\ n + 1 < at
    <2> DEFINE c == CellsOf(Other(active))
    <2>1. Filling(c, n, n + 1, Now.at - 1) /\ ReachesTo(c, n, Now.at) /\ c \in Row
      BY <1>1, <1>4, Types DEF NInv, CopyInv
    <2>2. ~ Copied(c, e, n)
      <3>1. MetasOf(Other(active), e) = {}
        BY <1>6, <1>7 DEF ToCopy, CellsOf
      <3>2. PICK hi \in 0..Cells : n <= hi /\ Filling(c, n, n + 1, hi)
        BY <1>1, <1>4, <1>5, FillingWhileCopying
      <3> QED BY <3>1, <3>2, <1>5, OtherPageMetas
    <2> HIDE DEF c
    <2>3. /\ Now.at \in 1..(Cells + 1) /\ n + 1 < Now.at - Size(e)
      BY <2>1, <2>2, <1>5, StoreAssumption, FillingRoom
    <2>4. Size(e) \in Nat /\ Size(e) >= 1
      BY StoreAssumption, SizeFacts
    <2>5. Now.at - Size(e) \in 1..Cells
      BY <2>3, <2>4, <1>5
    <2> QED BY <2>3, <2>5
  <1> DEFINE r == [do |-> "copyRecord", element |-> e, at |-> at, value |-> v]
             q == [do |-> "copyMeta", element |-> e, at |-> at, meta |-> n + 1]
             s == [do |-> "copyNext", from |-> m - 1, meta |-> n + 2, at |-> at]
  <1>10. r \in Onward /\ q \in Onward /\ s \in Onward
    <2>1. /\ at \in 1..Cells /\ at \in 0..Cells /\ at \in 1..(Cells + 1)
          /\ n + 1 \in 1..Cells /\ n + 2 \in 1..(Cells + 1) /\ m - 1 \in 0..Cells
      BY <1>5, <1>6, <1>16
    <2> QED BY <2>1, <1>7, <1>8, StepKinds DEF Onward, Loading, Writing
  <1>11. todo' = <<r, q, s>> \o t
    <2>1. /\ Now.meta = n + 1 /\ Now.meta + 1 = n + 2
      BY <1>5
    <2>2. todo' = <<[do |-> "copyRecord", element |-> CellsOf(active)[m].element,
                     at |-> Now.at - Size(CellsOf(active)[m].element),
                     value |-> ReadRecord(active, CellsOf(active)[m].at,
                                          CellsOf(active)[m].element)],
                    [do |-> "copyMeta", element |-> CellsOf(active)[m].element,
                     at |-> Now.at - Size(CellsOf(active)[m].element), meta |-> Now.meta],
                    [do |-> "copyNext", from |-> m - 1, meta |-> Now.meta + 1,
                     at |-> Now.at - Size(CellsOf(active)[m].element)]>> \o t
      BY <1>4 DEF CopyNext, Continue, Step, CellsOf
    <2> QED BY <2>1, <2>2, <1>7, <1>8, <1>16
  <1>12. /\ r.do = "copyRecord" /\ q.do = "copyMeta" /\ s.do = "copyNext"
         /\ r.value = v /\ q.element = e /\ q.meta = n + 1 /\ s.from = m - 1
    OBVIOUS
  <1> HIDE DEF r, q, s
  <1>13. LoadInv' /\ (Restored' <=> Restored)
    <2> DEFINE w == <<r, q, s>>
    <2>1. w \in Seq(Onward) /\ todo' = w \o Tail(todo)
      BY <1>4, <1>10, <1>11
    <2> HIDE DEF w
    <2> QED BY <2>1, <1>1, <1>3, Continues DEF SInv, Loading
  <1>14. /\ todo' # <<>> /\ Head(todo') = r /\ Head(Tail(todo')) = q
         /\ Head(Tail(Tail(todo'))) = s
    <2>1. r \in Steps /\ q \in Steps /\ s \in Steps /\ t \in Seq(Steps)
      BY <1>2, <1>4, <1>10 DEF Onward
    <2>2. todo' = <<r>> \o (<<q>> \o (<<s>> \o t))
      BY <2>1, <1>11, StepsInARow
    <2> DEFINE y == <<s>> \o t
               z == <<q>> \o y
    <2>3. <<s>> \in Seq(Steps) /\ <<q>> \in Seq(Steps) /\ <<r>> \in Seq(Steps)
      BY <2>1
    <2>4. y \in Seq(Steps) /\ y # <<>> /\ Head(y) = s
      BY <2>1, <2>3, HasJoined
    <2> HIDE DEF y
    <2>5. z \in Seq(Steps) /\ z # <<>> /\ Head(z) = q /\ Tail(z) = y
      BY <2>1, <2>3, <2>4, HasJoined
    <2> HIDE DEF z
    <2>6. <<r>> \o z # <<>> /\ Head(<<r>> \o z) = r /\ Tail(<<r>> \o z) = z
      BY <2>1, <2>3, <2>5, HasJoined
    <2> QED BY <2>2, <2>4, <2>5, <2>6 DEF y, z
  <1>15. CopyValues'
    <2>1. ~ Doing("copyNext")' /\ ~ Doing("copyMeta")'
      BY <1>12, <1>14 DEF Doing
    <2>2. Now' = r /\ Second' = q /\ Third' = s
      BY <1>14 DEF Now, Second, Third
    <2>3. Second'.meta - 1 = n /\ Third'.from = m - 1 /\ Second'.element = e /\ Now'.value = v
      BY <2>2, <1>5, <1>12
    <2>4. CellsOf(active)' = CellsOf(active) /\ CellsOf(Other(active))' = CellsOf(Other(active))
      BY <1>1 DEF CellsOf, Other
    <2>5. Searched(n, m - 1, {e})' /\ CopiedWell(n)' /\ Wanted(CellsOf(active), e, v)'
      BY <2>4, <1>1, <1>9 DEF Searched, CopiedWell, Wanted, Gone, InRam
    <2> QED BY <2>1, <2>3, <2>5 DEF CopyValues
  <1> QED BY <1>1, <1>3, <1>12, <1>13, <1>14, <1>15, CopyGoesOn

\* The page copied to does not count: only what was read through the
\* pointers could change.
LEMMA OtherPageFilled ==
  ASSUME NInv, NInv', SInv, initialised, Copying, Copying',
         UNCHANGED <<powered, initialised, active>>, NEW k, NEW n, NEW x \in Cell,
         flash' = Programmed(Other(active), k, n, x),
         LoadInv', Restored' <=> Restored, CopyValues',
         \A e \in Element : Held(e)' = Held(e),
         \A e \in Element : data[e] = NullPointer => data'[e] = NullPointer
  PROVE  SInv' /\ UNCHANGED <<Seen, Saved>>
  <1>1. PICK q \in Page, o \in Page : /\ q = active /\ o = Other(q) /\ o # q
                                      /\ \A p \in Page : p = q \/ p = o
                                      /\ Other(q) = o /\ Other(o) = q
    BY Types DEF NInv
  <1>2. \A s \in {"top", "bottom", "meta", "measure"} : ~ Doing(s) /\ ~ Doing(s)'
    BY DEF Copying, Doing, Now
  <1>3. StartPage = q /\ StartPage' = q
    BY <1>1, <1>2, ActiveCounts, ActiveCountsNext
  <1>4. flash'[q] = flash[q]
    BY <1>1, CellProgrammed DEF NInv
  <1>5. \A e \in Element : Stored(e)' = Stored(e)
    <2>1. CellsOf(q)' = CellsOf(q)
      BY <1>4 DEF CellsOf
    <2> QED BY <2>1, <1>1, <1>3, StoredSame
  <1>6. ~ IsValidPage(o)'
    <2>1. Erased(o)'
      BY <1>1 DEF NInv, CounterInv, Other
    <2> QED BY <2>1 DEF Erased, IsValidPage
  <1>7. EmptyNewer'
    <2> SUFFICES ASSUME NEW p \in Page, IsValidPage(p)', IsValidPage(Other(p))' PROVE FALSE
      BY DEF EmptyNewer
    <2>1. CASE p = o
      BY <2>1, <1>6
    <2>2. CASE p = q
      <3>1. IsValidPage(Other(q))'
        BY <2>2
      <3>2. IsValidPage(o)'
        BY <3>1, <1>1 DEF IsValidPage, Other
      <3> QED BY <3>2, <1>6
    <2> QED BY <2>1, <2>2, <1>1
  <1>8. NullInv' /\ FormatInv'
    BY DEF SInv, NullInv, FormatInv
  <1>9. SwitchInv' /\ MetaInv' /\ MeasureInv'
    BY <1>2 DEF SwitchInv, MetaInv, MeasureInv
  <1> QED BY <1>5, <1>7, <1>8, <1>9, NothingSeen DEF SInv

LEMMA CopyRecordSame ==
  ASSUME NInv, NInv', SInv, CopyRecord
  PROVE  SInv' /\ UNCHANGED <<Seen, Saved>>
  <1>1. /\ todo # <<>> /\ Now.do = "copyRecord" /\ Now = Head(todo) /\ todo' = Tail(todo)
        /\ Doing("copyRecord") /\ UNCHANGED <<powered, initialised, active, data>>
    BY DEF CopyRecord, Doing, Now, Return, moduleVars
  <1>2. /\ Now \in Steps /\ initialised \in BOOLEAN /\ Allowed(Now, initialised)
        /\ todo' # <<>> /\ Follows(Now, Second, initialised) /\ Chain(todo', initialised)
    BY <1>1, InCall DEF Unfinished
  <1>3. initialised
    BY <1>1, <1>2 DEF Allowed, StartSteps
  <1>4. /\ Second \in Steps /\ Second = Head(todo') /\ Second.do = "copyMeta"
        /\ Second.at = Now.at /\ Second.element = Now.element /\ Now' = Second /\ Second' = Third
    BY <1>1, <1>2, ChainTail DEF Second, Follows, Now, Third
  <1>5. PICK n, from, e, v, at, k : /\ n = Second.meta - 1 /\ from = Third.from
                             /\ e = Second.element /\ v = Now.value
                             /\ at = Now.at /\ k = Size(Second.element)
    OBVIOUS
  <1>6. /\ v \in Value \cup {Junk} /\ Second.meta \in 1..Cells /\ e \in Element
        /\ at \in 1..Cells /\ k \in Nat /\ k >= 1 /\ k = Size(e) /\ k = Size(Now.element)
    <2>1. /\ v \in Value \cup {Junk} /\ Second.meta \in 1..Cells /\ e \in Element
          /\ at \in 1..Cells
      BY <1>1, <1>2, <1>4, <1>5, StepFields
    <2> QED BY <2>1, <1>4, <1>5, StoreAssumption, SizeFacts
  <1>7. PICK q \in Page, o \in Page : /\ q = active /\ o = Other(q) /\ o # q
                                      /\ CellsOf(o) \in Row /\ Other(q) = o
    BY Types DEF NInv
  <1>8. /\ Cells \in Nat /\ n \in 0..Cells /\ Second.meta = n + 1
        /\ n + 1 < at /\ at + k <= Cells + 1
        /\ Filling(CellsOf(o), n, n + 1, at + k - 1)
    <2>1. Cells \in Nat /\ n \in 0..Cells /\ Second.meta = n + 1
      BY <1>5, <1>6, StoreAssumption DEF StoreAssumption
    <2>2. /\ n + 1 < at /\ at + k <= Cells + 1
          /\ Filling(CellsOf(o), n, n + 1, (at + k) - 1)
      BY <1>1, <1>4, <1>5, <1>7 DEF NInv, CopyInv
    <2>3. (at + k) - 1 = at + k - 1
      BY <1>6, <2>1
    <2> QED BY <2>1, <2>2, <2>3
  <1> DEFINE x == Record(v)
  <1>9. x \in Cell /\ ~ IsMeta(x) /\ x.value = v
    BY <1>6, CellFacts DEF Record
  <1>10. flash' = Programmed(o, at, k, x)
    BY <1>5, <1>6, <1>7 DEF CopyRecord, Programmed
  <1> HIDE DEF x
  <1>11. BlankBetween(CellsOf(o), at, at + k - 1) /\ Leads(CellsOf(o))
    <2>1. \A i \in at..(at + k - 1) : i \in (n + 1)..(at + k - 1)
      BY <1>6, <1>8
    <2>2. at + k - 1 \in 0..Cells
      BY <1>6, <1>8
    <2> QED BY <2>1, <2>2, <1>7, <1>8, FillingLeads DEF Filling, BlankBetween
  <1>12. /\ CellsOf(o)' = Programming(CellsOf(o), at, k, x)
         /\ \A r \in Page :
              /\ r # o => CellsOf(r)' = CellsOf(r)
              /\ \A f : Kept(CellsOf(r)', f) = Kept(CellsOf(r), f)
              /\ \A i \in 1..Cells : IsMeta(CellsOf(r)'[i]) <=> IsMeta(CellsOf(r)[i])
              /\ \A i \in 1..Cells : CellsOf(r)[i] # Blank => CellsOf(r)'[i] = CellsOf(r)[i]
    BY <1>6, <1>9, <1>10, <1>11, DataProgrammed
  <1>13. LoadInv' /\ (Restored' <=> Restored)
    BY <1>1, Pops DEF SInv, Loading
  <1>14. \A f \in Element : Held(f)' = Held(f)
    BY <1>1, <1>6, <1>9, <1>10, <1>11, ProgrammedHeld
  <1>15. CellsOf(q)' = CellsOf(q) /\ \A f : Copied(CellsOf(o)', f, n) <=> Copied(CellsOf(o), f, n)
    <2>1. \A i \in 1..n : i \in 1..Cells
      BY <1>8
    <2>2. \A i \in 1..n : /\ IsMeta(CellsOf(o)'[i]) <=> IsMeta(CellsOf(o)[i])
                          /\ IsMeta(CellsOf(o)[i]) => CellsOf(o)'[i] = CellsOf(o)[i]
      BY <2>1, <1>12, CellFacts
    <2>3. \A f : \A i \in 1..n : MetaOf(CellsOf(o)', i, f) <=> MetaOf(CellsOf(o), i, f)
      BY <2>2 DEF MetaOf
    <2> QED BY <2>3, <1>7, <1>12 DEF Copied
  <1>16. CopyValues'
    <2>1. ~ Doing("copyNext")' /\ ~ Doing("copyRecord")'
      BY <1>4 DEF Doing
    <2>2. /\ Searched(n, from, {e}) /\ CopiedWell(n)
          /\ Wanted(CellsOf(q), e, v)
      BY <1>1, <1>5, <1>7 DEF SInv, CopyValues
    <2>3. CellsOf(o)'[at].value = v
      <3>1. CellsOf(o)'[at] = x
        <4>1. at \in at..(at + k - 1)
          BY <1>6
        <4> QED BY <4>1, <1>6, <1>7, <1>9, <1>12, ProgrammingIs
      <3> QED BY <3>1, <1>9
    <2>4. /\ CellsOf(active)' = CellsOf(q)' /\ CellsOf(active) = CellsOf(q)
          /\ CellsOf(Other(active))' = CellsOf(o)' /\ CellsOf(Other(active)) = CellsOf(o)
      BY <1>1, <1>7 DEF CellsOf, Other
    <2>5. Searched(n, from, {e})'
      <3>1. PICK d : d = CellsOf(o)'
        OBVIOUS
      <3> SUFFICES ASSUME NEW f \in Element, NEW i \in (from + 1)..Cells,
                          MetaOf(CellsOf(active)', i, f)
                   PROVE  Copied(d, f, n) \/ f \in {e} \/ Gone(i, f)'
        BY <2>4, <3>1 DEF Searched, Copied, MetaOf
      <3>2. MetaOf(CellsOf(active), i, f)
        BY <2>4, <1>15
      <3>3. Copied(CellsOf(o), f, n) \/ f \in {e} \/ Gone(i, f)
        BY <3>2, <2>2, <2>4 DEF Searched
      <3>4. Gone(i, f) => Gone(i, f)'
        BY <2>4, <1>1, <1>15 DEF Gone, MetaOf
      <3>5. Copied(CellsOf(o), f, n) => Copied(d, f, n)
        BY <3>1, <1>15
      <3> QED BY <3>3, <3>4, <3>5
    <2>6. CopiedWell(n)'
      <3>1. \A f \in Element : Copied(CellsOf(o)', f, n) =>
              Wanted(CellsOf(q), f, Kept(CellsOf(o), f))'
        <4> SUFFICES ASSUME NEW f \in Element, Copied(CellsOf(o)', f, n)
                     PROVE  Wanted(CellsOf(q), f, Kept(CellsOf(o), f))'
          OBVIOUS
        <4>1. Wanted(CellsOf(q), f, Kept(CellsOf(o), f))
          BY <2>2, <2>4, <1>15 DEF CopiedWell
        <4> QED BY <4>1, <1>1, <1>7, <1>12, <1>15 DEF Wanted, InRam
      <3> QED BY <3>1, <2>4 DEF CopiedWell, Wanted, InRam
    <2>7. Wanted(CellsOf(active), e, v)'
      BY <2>2, <2>4, <1>1, <1>15 DEF Wanted, InRam
    <2>8. /\ Now'.meta - 1 = n /\ Now'.element = e /\ Second'.from = from
          /\ Now'.at = at /\ Now.at = at
      BY <1>4, <1>5, <1>8
    <2> QED BY <2>1, <2>3, <2>4, <2>5, <2>6, <2>7, <2>8 DEF CopyValues
  <1>17. Copying /\ Copying'
    BY <1>1, <1>2, <1>4 DEF Copying
  <1> QED BY <1>1, <1>3, <1>7, <1>9, <1>10, <1>13, <1>14, <1>16, <1>17, OtherPageFilled

LEMMA CopyMetaSame ==
  ASSUME NInv, NInv', SInv, CopyMeta
  PROVE  SInv' /\ UNCHANGED <<Seen, Saved>>
  <1>1. /\ todo # <<>> /\ Now.do = "copyMeta" /\ Now = Head(todo) /\ todo' = Tail(todo)
        /\ Doing("copyMeta") /\ UNCHANGED <<powered, initialised, active>>
    BY DEF CopyMeta, Doing, Now, Return, moduleVars
  <1>2. /\ Now \in Steps /\ initialised \in BOOLEAN /\ Allowed(Now, initialised)
        /\ todo' # <<>> /\ Follows(Now, Second, initialised)
    BY <1>1, InCall DEF Unfinished
  <1>3. initialised
    BY <1>1, <1>2 DEF Allowed, StartSteps
  <1>4. /\ Now' = Second /\ Second.do = "copyNext" /\ Second.meta = Now.meta + 1
        /\ Second = Head(todo')
    BY <1>1, <1>2 DEF Now, Second, Follows
  <1>5. PICK n, from, e, at : /\ n = Now.meta - 1 /\ from = Second.from
                              /\ e = Now.element /\ at = Now.at
    OBVIOUS
  <1>6. Now.meta \in 1..Cells /\ e \in Element /\ at \in 0..Cells
    BY <1>1, <1>2, <1>5, StepFields
  <1>7. PICK q \in Page, o \in Page : /\ q = active /\ o = Other(q) /\ o # q
                                      /\ CellsOf(o) \in Row /\ Other(q) = o
    BY Types DEF NInv
  <1>8. /\ Cells \in Nat /\ n \in 0..Cells /\ Now.meta = n + 1 /\ n + 1 \in 1..Cells
        /\ n + 1 < at /\ at \in 1..Cells /\ at \in 0..Cells /\ at # 0
        /\ Filling(CellsOf(o), n, n + 1, at - 1) /\ IsRecord(CellsOf(o), at, e)
        /\ ReachesTo(CellsOf(o), n, at + Size(e))
        /\ ~ Copied(CellsOf(o), e, n) /\ PointersWhileCopying(n, from, {e})
    <2>1. Cells \in Nat /\ n \in 0..Cells /\ Now.meta = n + 1 /\ n + 1 \in 1..Cells
      BY <1>5, <1>6, StoreAssumption DEF StoreAssumption
    <2>2. /\ n + 1 < at
          /\ Filling(CellsOf(o), n, n + 1, at - 1) /\ IsRecord(CellsOf(o), at, e)
          /\ ReachesTo(CellsOf(o), n, at + Size(e))
          /\ ~ Copied(CellsOf(o), e, n) /\ PointersWhileCopying(n, from, {e})
      BY <1>1, <1>5, <1>7 DEF NInv, CopyInv
    <2>3. at \in 1..Cells /\ at # 0
      BY <2>1, <2>2, <1>6
    <2> QED BY <2>1, <2>2, <2>3, <1>6
  <1> DEFINE x == Meta(e, at)
  <1>9. x \in Cell
    BY <1>6, <1>8, CellFacts
  <1>10. flash' = Programmed(o, n + 1, 1, x)
    BY <1>5, <1>7, <1>8 DEF CopyMeta, Programmed
  <1>11. \A f \in Element : data'[f] = IF f = e /\ IsFlash(f) THEN FlashPointer(o, at)
                                                               ELSE data[f]
    <2>1. data' = IF IsFlash(e) THEN [data EXCEPT ![e] = FlashPointer(o, at)] ELSE data
      BY <1>5, <1>7 DEF CopyMeta
    <2>2. data \in [Element -> Pointer]
      BY DEF NInv, TypeOK
    <2> QED BY <2>1, <2>2, <1>6
  <1>12. /\ CellsOf(o)' = Programming(CellsOf(o), n + 1, 1, x)
         /\ flash'[q] = flash[q] /\ CellsOf(q)' = CellsOf(q)
    <2> HIDE DEF x
    <2> QED BY <1>7, <1>8, <1>9, <1>10, CellProgrammed DEF NInv, CellsOf
  <1>13. /\ Leads(CellsOf(o)) /\ CellsOf(o)[n + 1] = Blank
         /\ \A i \in 1..Cells : IsMeta(CellsOf(o)[i]) => i \in 1..n
    <2>1. at - 1 \in 0..Cells /\ n + 1 \in (n + 1)..(at - 1)
      BY <1>8
    <2> QED BY <2>1, <1>7, <1>8, FillingLeads DEF Filling, BlankBetween
  <1>14. /\ Kept(CellsOf(o)', e) = CellsOf(o)[at].value
         /\ \A f : f # e => Kept(CellsOf(o)', f) = Kept(CellsOf(o), f)
    <2>1. \A i \in 1..Cells : MetaOf(CellsOf(o), i, e) => i < n + 1
      <3> SUFFICES ASSUME NEW i \in 1..Cells, MetaOf(CellsOf(o), i, e) PROVE i < n + 1
        OBVIOUS
      <3>1. i \in 1..n
        BY <1>13 DEF MetaOf
      <3> QED BY <3>1, <1>8
    <2> QED BY <2>1, <1>6, <1>7, <1>8, <1>12, <1>13, MetaKeeps
  <1>15. /\ \A f : Copied(CellsOf(o)', f, n + 1) <=> f = e \/ Copied(CellsOf(o), f, n)
    <2>1. CellsOf(o)' = Programming(CellsOf(o), n + 1, 1, Meta(e, at))
      BY <1>12
    <2> QED BY <2>1, <1>6, <1>7, <1>8, StoreAssumption, CopyMetaCell
  <1>16. CellsOf(o)'[at] = CellsOf(o)[at] /\ IsRecord(CellsOf(o)', at, e)
    <2>1. x.kind # "record" /\ Blank.kind # "record" /\ at \in Int
      BY <1>8, CellFacts DEF Meta, Blank
    <2> HIDE DEF x
    <2>2. \A i \in 1..Cells : CellsOf(o)'[i] = IF i = n + 1 THEN x ELSE CellsOf(o)[i]
      BY <1>7, <1>8, <1>9, <1>12, OneCellIs
    <2>3. \A i \in 1..Cells : CellsOf(o)[i].kind = "record" => CellsOf(o)'[i] = CellsOf(o)[i]
      BY <2>1, <2>2, <1>13
    <2>4. PICK c, d : c = CellsOf(o) /\ d = CellsOf(o)'
      OBVIOUS
    <2>5. /\ c \in Row /\ IsRecord(c, at, e)
          /\ \A i \in 1..Cells : c[i].kind = "record" => d[i] = c[i]
      BY <2>3, <2>4, <1>7, <1>8
    <2>6. d[at] = c[at] /\ IsRecord(d, at, e)
      BY <2>1, <2>5, <1>6, StoreAssumption, RecordKept
    <2> QED BY <2>4, <2>6 DEF IsRecord, HoldsRecord
  <1>17. LoadInv' /\ (Restored' <=> Restored)
    BY <1>1, Pops DEF SInv, Loading
  <1>18. /\ Searched(n, from, {e}) /\ CopiedWell(n)
         /\ Wanted(CellsOf(q), e, CellsOf(o)[at].value)
    BY <1>1, <1>5, <1>7 DEF SInv, CopyValues
  <1>19. ASSUME NEW f \in Element PROVE Held(f)' = Held(f)
    <2>1. CASE f = e /\ IsFlash(f)
      <3>1. PointerInto(q, e)
        BY <2>1, <1>7, <1>8 DEF PointersWhileCopying
      <3>2. Held(e) = Kept(CellsOf(q), e) /\ Held(e) # None
        BY <3>1, <2>1, <1>7, HeldInFlash
      <3>3. Held(e) = CellsOf(o)[at].value
        BY <3>2, <1>18 DEF Wanted
      <3>4. /\ data'[e].at = "flash" /\ data'[e].page = o /\ data'[e].cell = at
        BY <2>1, <1>7, <1>8, <1>11, PointerFacts
      <3>5. /\ flash'[o].cell[at] = CellsOf(o)[at]
            /\ HoldsRecord(flash'[o].cell, at, Size(e))
        BY <1>16 DEF CellsOf, IsRecord
      <3> QED BY <2>1, <3>3, <3>4, <3>5, <1>8 DEF Held, ReadRecord
    <2>2. CASE ~ (f = e /\ IsFlash(f))
      <3>1. data'[f] = data[f]
        BY <2>2, <1>11
      <3>2. BlankBetween(CellsOf(o), n + 1, n + 1 + 1 - 1) /\ 1 \in Nat
        <4>1. \A i \in (n + 1)..(n + 1 + 1 - 1) : i = n + 1
          BY <1>8
        <4> QED BY <4>1, <1>13 DEF BlankBetween
      <3> HIDE DEF x
      <3> QED BY <3>1, <3>2, <1>8, <1>9, <1>10, ProgrammedHeld
    <2> QED BY <2>1, <2>2
  <1>20. \A f \in Element : /\ data[f] = NullPointer => data'[f] = NullPointer
                            /\ InRam(f) => InRam(f)'
    BY <1>11, PointerFacts DEF InRam, IsFlash
  <1>21. CopyValues'
    <2>1. ~ Doing("copyMeta")' /\ ~ Doing("copyRecord")'
      BY <1>4 DEF Doing
    <2>4. /\ CellsOf(active)' = CellsOf(q)' /\ CellsOf(active) = CellsOf(q)
          /\ CellsOf(Other(active))' = CellsOf(o)' /\ CellsOf(Other(active)) = CellsOf(o)
      BY <1>1, <1>7 DEF CellsOf, Other
    <2>5. Searched(n + 1, from, {})'
      <3> SUFFICES ASSUME NEW f \in Element, NEW i \in (from + 1)..Cells,
                          MetaOf(CellsOf(active)', i, f)
                   PROVE  \/ Copied(CellsOf(Other(active))', f, n + 1)
                          \/ Gone(i, f)'
        BY DEF Searched, Copied, MetaOf
      <3>1. MetaOf(CellsOf(active), i, f)
        BY <2>4, <1>12
      <3>2. Copied(CellsOf(o), f, n) \/ f \in {e} \/ Gone(i, f)
        BY <3>1, <2>4, <1>18 DEF Searched
      <3>3. Gone(i, f) => Gone(i, f)'
        BY <2>4, <1>12, <1>20 DEF Gone, MetaOf
      <3> QED BY <3>2, <3>3, <2>4, <1>15
    <2>6. CopiedWell(n + 1)'
      <3> SUFFICES ASSUME NEW f \in Element, Copied(CellsOf(o)', f, n + 1)
                   PROVE  Wanted(CellsOf(q), f, Kept(CellsOf(o), f))'
        BY <2>4 DEF CopiedWell, Wanted, InRam
      <3>1. Wanted(CellsOf(q), f, Kept(CellsOf(o)', f))
        <4>1. CASE f = e
          BY <4>1, <1>14, <1>18
        <4>2. CASE f # e
          <5>1. Copied(CellsOf(o), f, n)
            BY <4>2, <1>15
          <5>2. Wanted(CellsOf(q), f, Kept(CellsOf(o), f))
            BY <5>1, <2>4, <1>18 DEF CopiedWell
          <5> QED BY <5>2, <4>2, <1>14
        <4> QED BY <4>1, <4>2
      <3> QED BY <3>1, <1>12, <1>20 DEF Wanted
    <2>7. Now'.meta - 1 = n + 1 /\ Now'.from = from
      BY <1>4, <1>5, <1>8
    <2> QED BY <2>1, <2>5, <2>6, <2>7 DEF CopyValues
  <1>22. Copying /\ Copying'
    BY <1>1, <1>2, <1>4 DEF Copying
  <1> HIDE DEF x
  <1> QED BY <1>1, <1>3, <1>7, <1>8, <1>9, <1>10, <1>17, <1>19, <1>20, <1>21, <1>22,
             OtherPageFilled

\* The copy is complete.
LEMMA SwitchPageSame ==
  ASSUME NInv, NInv', SInv, SwitchPage
  PROVE  SInv' /\ UNCHANGED <<Seen, Saved>>
  <1>1. /\ todo # <<>> /\ Now.do = "copyNext" /\ Now = Head(todo)
        /\ Doing("copyNext") /\ todo' = CounterSteps(Other(active)) \o Tail(todo)
        /\ UNCHANGED <<flash, powered, initialised, data>> /\ active' = Other(active)
        /\ \A i \in 1..Now.from : ~ ToCopy(i)
    BY DEF SwitchPage, Doing, Now, Continue
  <1>2. /\ Now \in Steps /\ initialised \in BOOLEAN /\ Allowed(Now, initialised)
        /\ Tail(todo) \in Seq(Steps)
    BY <1>1, InCall
  <1>3. initialised /\ ~ Losing /\ ~ Losing'
    <2>1. initialised
      BY <1>1, <1>2 DEF Allowed, StartSteps
    <2> QED BY <2>1, <1>1, NotLosing, NotLosingNext
  <1>4. PICK n, from : n = Now.meta - 1 /\ from = Now.from
    OBVIOUS
  <1>5. Now.meta \in 1..(Cells + 1) /\ from \in 0..Cells
    BY <1>1, <1>2, <1>4, StepFields
  <1>6. PICK q \in Page, o \in Page : /\ q = active /\ o = Other(q) /\ Other(o) = q /\ o # q
    BY Types DEF NInv
  <1>7. /\ Cells \in Nat /\ n \in 0..Cells
        /\ Searched(n, from, {}) /\ CopiedWell(n)
    <2>1. Cells \in Nat /\ n \in 0..Cells
      BY <1>4, <1>5, StoreAssumption DEF StoreAssumption
    <2>2. Searched(n, from, {}) /\ CopiedWell(n)
      BY <1>1, <1>4, <1>6 DEF SInv, CopyValues
    <2> QED BY <2>1, <2>2
  <1>8. IsValidPage(q) /\ Leads(CellsOf(q)) /\ CellsOf(q) \in Row
    <2>1. ~ Doing("top") /\ ~ Doing("bottom")
      BY <1>1 DEF Doing
    <2> QED BY <2>1, <1>3, <1>6, ActiveCounts, SoundLeads
  <1>9. ASSUME NEW e \in Element
        PROVE  LET old == Kept(CellsOf(q), e)
                   new == Kept(CellsOf(o), e)
               IN  new = old \/ (old = None /\ new = Junk /\ InRam(e))
    <2>1. CASE Copied(CellsOf(o), e, n)
      BY <2>1, <1>6, <1>7 DEF CopiedWell, Wanted
    <2>2. CASE ~ Copied(CellsOf(o), e, n)
      <3>1. Kept(CellsOf(o), e) = None
        <4>1. \A i \in 1..Cells : ~ MetaOf(CellsOf(o), i, e)
          <5>1. PICK hi \in 0..Cells : n <= hi /\ Filling(CellsOf(o), n, n + 1, hi)
            BY <1>1, <1>4, <1>6, <1>7, FillingWhileCopying
          <5> QED BY <5>1, <2>2, <1>6, <1>7, OtherPageMetas DEF Copied, MetaOf
        <4> QED BY <4>1, KeptNothing
      <3>2. ASSUME NEW i \in 1..Cells, MetaOf(CellsOf(q), i, e) PROVE Gone(i, e)
        <4>1. CASE i <= from
          <5>1. i \in 1..from
            BY <4>1, <1>5
          <5>2. ~ ToCopy(i)
            BY <5>1, <1>1, <1>4
          <5> QED BY <5>2, <3>2, <2>2, <1>1, <1>3, <1>4, <1>6, <1>7, NotToCopy
        <4>2. CASE ~ (i <= from)
          <5>1. i \in (from + 1)..Cells
            BY <4>2, <1>5, <1>7
          <5> QED BY <5>1, <3>2, <2>2, <1>6, <1>7 DEF Searched
        <4> QED BY <4>1, <4>2
      <3>3. PICK m : NewestOf(CellsOf(q), e, m)
        BY SomeNewest
      <3>4. CASE m = 0
        BY <3>1, <3>3, <3>4, KeptIs
      <3>5. CASE m # 0
        <4>1. m \in 1..Cells /\ MetaOf(CellsOf(q), m, e)
          BY <3>3, <3>5, <1>7 DEF NewestOf
        <4>2. PICK k \in m..Cells : MetaOf(CellsOf(q), k, e) /\ CellsOf(q)[k].at = 0
          BY <4>1, <3>2, <1>6 DEF Gone
        <4>3. k \in 1..Cells
          BY <4>1, <1>7
        <4>4. k <= m
          BY <4>2, <4>3, <3>3 DEF NewestOf
        <4>5. k = m
          BY <4>1, <4>4, <1>7
        <4>6. Kept(CellsOf(q), e) = None
          BY <4>2, <4>5, <3>3, <3>5, KeptIs
        <4> QED BY <4>6, <3>1
      <3> QED BY <3>4, <3>5
    <2> QED BY <2>1, <2>2
  <1> DEFINE a == [do |-> "top", page |-> o]
             b == [do |-> "bottom", page |-> o]
             w == <<a, b>>
  <1>10. a \in Onward /\ b \in Onward /\ a.do = "top"
    BY <1>6, StepKinds DEF Onward, Loading, Writing
  <1>11. todo' = w \o Tail(todo)
    BY <1>1, <1>6 DEF CounterSteps
  <1> HIDE DEF a, b
  <1>12. w \in Seq(Onward) /\ w \in Seq(Steps) /\ w # <<>> /\ Head(w) = a
    <2>1. a \in Steps /\ b \in Steps
      BY <1>10 DEF Onward
    <2> QED BY <1>10, <2>1
  <1> HIDE DEF w
  <1>13. LoadInv' /\ (Restored' <=> Restored)
    BY <1>1, <1>3, <1>11, <1>12, Continues DEF SInv, Loading
  <1>14. todo' # <<>> /\ Head(todo').do = "top"
    BY <1>2, <1>10, <1>11, <1>12, HasJoined
  <1>15. \A x \in Special : Doing(x)' => x = "top"
    BY <1>14 DEF Doing
  <1>16. CopyValues' /\ MetaInv' /\ MeasureInv'
    BY <1>15 DEF CopyValues, MetaInv, MeasureInv, Special
  <1>17. SwitchInv'
    <2>1. /\ CellsOf(active)' = CellsOf(o) /\ CellsOf(Other(active))' = CellsOf(q)
          /\ IsValidPage(Other(active))' = IsValidPage(q)
      <3>1. active' = o /\ Other(active') = q
        BY <1>1, <1>6
      <3> QED BY <3>1, <1>1 DEF CellsOf, IsValidPage, Other
    <2> QED BY <2>1, <1>1, <1>8, <1>9 DEF SwitchInv, InRam
  <1>18. NullInv' /\ FormatInv'
    BY <1>1, <1>3, <1>13 DEF SInv, NullInv, FormatInv
  <1>19. EmptyNewer'
    <2>1. \A p : (AllErased(p)' <=> AllErased(p)) /\ (IsValidPage(p)' <=> IsValidPage(p))
      BY <1>1, FlashSame DEF AllErased
    <2>2. \A p \in Page : /\ CellsOf(p)' = CellsOf(p) /\ flash'[p].top = flash[p].top
                          /\ flash'[Other(p)].top = flash[Other(p)].top
      BY <1>1 DEF CellsOf
    <2> QED BY <2>1, <2>2 DEF SInv, EmptyNewer, Other
  <1>20. \A e \in Element : Held(e)' = Held(e)
    BY <1>1, HeldInSameFlash
  <1> QED BY <1>1, <1>13, <1>16, <1>17, <1>18, <1>19, <1>20, FlashSame, NothingSeen DEF SInv

-----------------------------------------------------------------------------
(* The application. *)

ChangeStep ==
  /\ Saved' = Saved
  /\ \E e \in Element, v \in Value \cup {None} : Seen' = [Seen EXCEPT ![e] = v]

\* A request that changes an element.
LEMMA Changes ==
  ASSUME NInv, NInv', SInv, powered, todo = <<>>, UNCHANGED <<flash, powered, initialised, active>>,
         NEW e \in Element, NEW v \in Value \cup {None}, NEW p, data' = [data EXCEPT ![e] = p],
         \/ v \in Value /\ p \in {RamPointer(v), CallerPointer(v)}
         \/ v = None /\ p = NullPointer,
         initialised \/ todo' = <<>>,
         \/ todo' = <<>>
         \/ \E a : todo' = <<a>> /\ a.do \notin Special \cup Loading
         \/ \E a, b : todo' = <<a, b>> /\ a.do \notin Special \cup Loading /\ b.do \notin Loading
  PROVE  SInv' /\ ChangeStep
  <1>1. /\ \A a : <<a>> \o <<>> = <<a>>
        /\ \A a, b : <<a, b>> \o <<>> = <<a, b>>
    <2>1. \A a : <<a>> \in Seq({a})
      OBVIOUS
    <2>2. \A a, b : <<a, b>> \in Seq({a, b})
      OBVIOUS
    <2> QED BY <2>1, <2>2, ConcatEmptySeq
  <1>2. \A W : ~ Has(<<>>, W)
    BY EmptySeq DEF Has
  <1>3. ~ Has(todo', Loading) /\ (todo' # <<>> => Head(todo').do \notin Special)
    <2>1. CASE todo' = <<>>
      BY <2>1, <1>2
    <2>2. CASE \E a : todo' = <<a>> /\ a.do \notin Special \cup Loading
      <3>1. PICK a : todo' = <<a>> \o <<>> /\ a.do \notin Special \cup Loading
        BY <2>2, <1>1
      <3> QED BY <3>1, FewSteps
    <2>3. CASE \E a, b : /\ todo' = <<a, b>> /\ a.do \notin Special \cup Loading
                         /\ b.do \notin Loading
      <3>1. PICK a, b : /\ todo' = <<a, b>> \o <<>> /\ a.do \notin Special \cup Loading
                        /\ b.do \notin Loading
        BY <2>3, <1>1
      <3> QED BY <3>1, FewSteps
    <2> QED BY <2>1, <2>2, <2>3
  <1>4. ~ Has(todo, Loading)
    BY <1>2
  <1>5. LoadInv' /\ (Restored' <=> Restored) /\ Restored
    <2>1. ~ Losing /\ ~ Losing'
      BY NotLosing, NotLosingNext
    <2> QED BY <2>1, <1>3, <1>4, NotLoading, RestoredIs
  <1>6. NullInv'
    BY <1>5 DEF NullInv
  <1>7. FormatInv'
    BY DEF FormatInv
  <1>8. SInv'
    BY <1>3, <1>5, <1>6, <1>7, CalmInv
  <1>9. data'[e] = p /\ \A f \in Element : f # e => data'[f] = data[f]
    <2>1. data \in [Element -> Pointer]
      BY DEF NInv, TypeOK
    <2> QED BY <2>1
  <1>10. Held(e)' = v
    <2>1. CASE v \in Value /\ p \in {RamPointer(v), CallerPointer(v)}
      <3>1. p.at \in {"ram", "caller"} /\ p.value = v
        BY <2>1 DEF RamPointer, CallerPointer
      <3> QED BY <3>1, <1>9 DEF Held
    <2>2. CASE v = None /\ p = NullPointer
      <3>1. p.at = "null"
        BY <2>2 DEF NullPointer
      <3> QED BY <3>1, <2>2, <1>9 DEF Held
    <2> QED BY <2>1, <2>2
  <1>11. \A f \in Element : f # e => Held(f)' = Held(f)
    BY <1>9, HeldInSameFlash
  <1>12. Seen' = [Seen EXCEPT ![e] = v]
    BY <1>5, <1>10, <1>11 DEF Seen
  <1>13. Saved' = Saved
    BY FlashSame DEF Saved
  <1> QED BY <1>8, <1>12, <1>13 DEF ChangeStep

LEMMA WriteElementChanges ==
  ASSUME NInv, NInv', SInv, NEW e \in Element, NEW v \in Value, WriteElement(e, v)
  PROVE  SInv' /\ ChangeStep
  <1> DEFINE a == [do |-> "makeRoom", element |-> e]
  <1>1. /\ powered /\ todo = <<>> /\ UNCHANGED <<flash, powered, initialised, active>>
        /\ data' = [data EXCEPT ![e] = RamPointer(v)]
        /\ (initialised /\ todo' = <<a>>) \/ todo' = <<>>
    BY DEF WriteElement, Request, moduleVars
  <1>2. a.do = "makeRoom"
    OBVIOUS
  <1> HIDE DEF a
  <1>3. a.do \notin Special \cup Loading
    BY <1>2 DEF Special, Loading
  <1>4. todo' = <<>> \/ \E x : todo' = <<x>> /\ x.do \notin Special \cup Loading
    BY <1>1, <1>3
  <1> QED BY <1>1, <1>4, Changes

\* NvSyncSave by the application.
LEMMA SyncSaveTwo ==
  ASSUME NEW e, todo' = SyncSaveSteps(e)
  PROVE  \E a, b : todo' = <<a, b>> /\ a.do \notin Special \cup Loading /\ b.do \notin Loading
  <1> DEFINE a == [do |-> "write", element |-> e]
             b == [do |-> "synced", element |-> e]
  <1>1. todo' = <<a, b>> /\ a.do = "write" /\ b.do = "synced"
    BY DEF SyncSaveSteps
  <1> HIDE DEF a, b
  <1>2. a.do \notin Special \cup Loading /\ b.do \notin Loading
    BY <1>1 DEF Special, Loading
  <1> QED BY <1>1, <1>2

LEMMA WriteElementSyncChanges ==
  ASSUME NInv, NInv', SInv, NEW e \in Element, NEW v \in Value, WriteElementSync(e, v)
  PROVE  SInv' /\ ChangeStep
  <1>1. /\ powered /\ todo = <<>> /\ UNCHANGED <<flash, powered, initialised, active>>
        /\ data' = [data EXCEPT ![e] = CallerPointer(v)]
        /\ (initialised /\ todo' = SyncSaveSteps(e)) \/ todo' = <<>>
    BY DEF WriteElementSync, Request, moduleVars
  <1>2. CASE todo' = <<>>
    BY <1>1, <1>2, Changes
  <1>3. CASE initialised /\ todo' = SyncSaveSteps(e)
    <2>1. \E a, b : todo' = <<a, b>> /\ a.do \notin Special \cup Loading /\ b.do \notin Loading
      BY <1>3, SyncSaveTwo
    <2> QED BY <2>1, <1>1, <1>3, Changes
  <1> QED BY <1>1, <1>2, <1>3

LEMMA EraseElementChanges ==
  ASSUME NInv, NInv', SInv, NEW e \in Element, EraseElement(e)
  PROVE  SInv' /\ ChangeStep
  <1>1. /\ powered /\ todo = <<>> /\ UNCHANGED <<flash, powered, initialised, active>>
        /\ data' = [data EXCEPT ![e] = NullPointer]
        /\ todo' = IF IsFlash(e) THEN SyncSaveSteps(e) ELSE <<>>
    BY DEF EraseElement, Request, moduleVars
  <1>2. None \in Value \cup {None}
    OBVIOUS
  <1>3. CASE ~ IsFlash(e)
    <2>1. todo' = <<>>
      BY <1>1, <1>3
    <2> QED BY <2>1, <1>1, <1>2, Changes
  <1>4. CASE IsFlash(e)
    <2>1. initialised
      BY <1>4 DEF NInv, FlashInv, TypeOK
    <2>2. todo' = SyncSaveSteps(e)
      BY <1>1, <1>4
    <2>3. \E a, b : todo' = <<a, b>> /\ a.do \notin Special \cup Loading /\ b.do \notin Loading
      BY <2>2, SyncSaveTwo
    <2> QED BY <2>1, <2>3, <1>1, <1>2, Changes
  <1> QED BY <1>3, <1>4

-----------------------------------------------------------------------------
(* Power loss. *)

\* The page that is torn leads to its records.
LEMMA TornPageLeads ==
  ASSUME NInv, NEW x \in Tearing
  PROVE  Leads(CellsOf(x.page))
  <1>1. /\ active \in Page /\ Other(active) \in Page /\ Cells \in Nat
        /\ CellsOf(Other(active)) \in Row
    BY Types, StoreAssumption DEF NInv, StoreAssumption
  <1>2. todo # <<>> => Now \in Steps /\ Allowed(Now, initialised) /\ initialised \in BOOLEAN
    BY InCall
  <1>3. CASE Doing("record") \/ Doing("meta")
    <2>1. x.page = active
      BY <1>3 DEF Tearing, Cut, Doing
    <2>2. initialised /\ ~ Doing("top") /\ ~ Doing("bottom")
      BY <1>2, <1>3 DEF Doing, Now, Allowed, StartSteps
    <2> QED BY <2>1, <2>2, ActiveCounts, SoundLeads
  <1>4. CASE Doing("copyRecord")
    <2>1. ~ Doing("record") /\ ~ Doing("meta") /\ Now.do = "copyRecord" /\ todo # <<>>
      BY <1>4 DEF Doing, Now
    <2>2. x.page = Other(active) /\ Now.at \in 1..Cells /\ Now.element \in Element
      BY <2>1, <1>2, <1>4, StepFields DEF Tearing, Cut
    <2>3. Second \in Steps /\ Second.do = "copyMeta"
      <3>1. Tail(todo) # <<>> /\ Follows(Now, Second, initialised) /\ Second \in Steps
        BY <2>1, InCall, ChainTail DEF Unfinished, Second
      <3> QED BY <2>1, <3>1 DEF Follows
    <2>4. PICK n, hi : n = Second.meta - 1 /\ hi = (Now.at + Size(Now.element)) - 1
      OBVIOUS
    <2>5. n \in 0..Cells
      <3>1. Second.meta \in 1..Cells
        BY <2>3, StepFields
      <3> QED BY <3>1, <2>4, <1>1
    <2>6. hi \in 0..Cells /\ Filling(CellsOf(Other(active)), n, n + 1, hi)
      <3>1. /\ Now.at + Size(Now.element) <= Cells + 1
            /\ Filling(CellsOf(Other(active)), n, n + 1, hi)
        BY <2>4, <1>4 DEF NInv, CopyInv
      <3>2. Size(Now.element) \in Nat
        BY <2>2, StoreAssumption, SizeFacts
      <3> QED BY <3>1, <3>2, <2>2, <2>4, <1>1
    <2> QED BY <2>2, <2>5, <2>6, <1>1, FillingLeads
  <1>5. CASE Doing("copyMeta")
    <2>1. /\ ~ Doing("record") /\ ~ Doing("meta") /\ ~ Doing("copyRecord")
          /\ Now.do = "copyMeta" /\ todo # <<>>
      BY <1>5 DEF Doing, Now
    <2>2. x.page = Other(active) /\ Now.meta \in 1..Cells /\ Now.at \in 0..Cells
      BY <2>1, <1>2, <1>5, StepFields DEF Tearing, Cut
    <2>3. PICK n : n = Now.meta - 1
      OBVIOUS
    <2>4. n + 1 < Now.at /\ Filling(CellsOf(Other(active)), n, n + 1, Now.at - 1)
      BY <2>3, <1>5 DEF NInv, CopyInv
    <2>5. n \in 0..Cells /\ Now.at - 1 \in 0..Cells
      BY <2>2, <2>3, <2>4, <1>1
    <2> QED BY <2>2, <2>4, <2>5, <1>1, FillingLeads
  <1> QED BY <1>3, <1>4, <1>5 DEF Tearing

\* A power loss changes nothing that the pages say.
LEMMA LossSame ==
  ASSUME NInv, PowerLoss
  PROVE  /\ StartPage' = StartPage
         /\ \A r \in Page :
              /\ IsValidPage(r)' <=> IsValidPage(r)
              /\ flash'[r].top = flash[r].top
              /\ \A e : Kept(CellsOf(r)', e) = Kept(CellsOf(r), e)
              /\ \A i \in 1..Cells : IsMeta(CellsOf(r)'[i]) <=> IsMeta(CellsOf(r)[i])
              /\ AllErased(r) => AllErased(r)'
  <1>1. CASE UNCHANGED flash
    <2>1. \A r : CellsOf(r)' = CellsOf(r) /\ IsValidPage(r)' = IsValidPage(r)
      BY <1>1, FlashSame
    <2>2. \A r : AllErased(r)' = AllErased(r)
      BY <2>1 DEF AllErased
    <2> QED BY <2>1, <2>2, <1>1, FlashSame
  <1>2. CASE \E x \in Tearing : flash' = Programmed(x.page, x.at, x.size, Torn)
    <2>1. PICK x \in Tearing : flash' = Programmed(x.page, x.at, x.size, Torn)
      BY <1>2
    <2>2. PICK p, k, n : p = x.page /\ k = x.at /\ n = x.size
      OBVIOUS
    <2>3. /\ p \in Page /\ k \in 1..Cells /\ n \in Nat /\ Leads(CellsOf(p))
          /\ BlankBetween(CellsOf(p), k, k + n - 1)
      BY <2>2, ProgrammedPlace, TornPageLeads
    <2>4. Torn \in Cell /\ ~ IsMeta(Torn) /\ flash' = Programmed(p, k, n, Torn)
      BY <2>1, <2>2, CellFacts
    <2> QED BY <2>3, <2>4, DataProgrammed
  <1> QED BY <1>1, <1>2 DEF PowerLoss

RestartStep == Seen' = Saved /\ Saved' = Saved

LEMMA PowerLossRestarts ==
  ASSUME NInv, NInv', SInv, PowerLoss
  PROVE  SInv' /\ RestartStep
  <1>1. /\ powered' = FALSE /\ todo' = <<>> /\ data' = [e \in Element |-> NullPointer]
    BY DEF PowerLoss
  <1>2. \A f \in Element : Stored(f)' = Stored(f)
    <2>1. CASE StartPage = 0
      <3>1. StartPage' = 0
        BY <2>1, LossSame
      <3> QED BY <2>1, <3>1 DEF Stored
    <2>2. CASE StartPage # 0
      <3>1. PICK q \in Page : q = StartPage
        BY <2>2, StartFacts
      <3>2. StartPage' = q /\ \A f : Kept(CellsOf(q)', f) = Kept(CellsOf(q), f)
        BY <3>1, LossSame
      <3> QED BY <3>1, <3>2, StoredSame
    <2> QED BY <2>1, <2>2
  <1>3. ~ Restored' /\ \A W : ~ Has(todo', W)
    BY <1>1, EmptySeq DEF Restored, Has
  <1>4. RestartStep
    <2>1. Saved' = Saved
      BY <1>2 DEF Saved
    <2>2. Seen' = Saved
      BY <1>2, <1>3 DEF Seen, Saved
    <2> QED BY <2>1, <2>2 DEF RestartStep
  <1>5. \A n : ~ Doing(n)'
    BY <1>1 DEF Doing
  <1>6. CopyValues' /\ SwitchInv' /\ MetaInv' /\ MeasureInv'
    BY <1>5 DEF CopyValues, SwitchInv, MetaInv, MeasureInv
  <1>7. LoadInv' /\ NullInv' /\ FormatInv'
    BY <1>1, <1>3 DEF LoadInv, NullInv, FormatInv
  <1>8. EmptyNewer'
    <2>1. \A r \in Page : (\A i \in 1..Cells : ~ IsMeta(CellsOf(r)[i])') =>
                             \A i \in 1..Cells : ~ IsMeta(CellsOf(r)[i])
      BY LossSame DEF IsMeta
    <2> QED BY <2>1, LossSame, NewerSame DEF SInv
  <1> QED BY <1>4, <1>6, <1>7, <1>8 DEF SInv

LEMMA StutterSame ==
  ASSUME NInv, SInv, UNCHANGED vars
  PROVE  SInv' /\ UNCHANGED <<Seen, Saved>>
  <1>1. UNCHANGED <<flash, powered, initialised, active, lastUnerased, data, todo>>
    BY DEF vars, moduleVars
  <1>2. \A n : Doing(n)' <=> Doing(n)
    BY <1>1 DEF Doing
  <1>3. Now' = Now /\ Second' = Second /\ Third' = Third
    BY <1>1 DEF Now, Second, Third
  <1>4. \A p : /\ CellsOf(p)' = CellsOf(p) /\ IsValidPage(p)' = IsValidPage(p)
               /\ AllErased(p)' = AllErased(p) /\ Other(p)' = Other(p)
    BY <1>1, FlashSame DEF AllErased, Other
  <1>5. /\ CellsOf(active)' = CellsOf(active) /\ CellsOf(Other(active))' = CellsOf(Other(active))
        /\ Other(active)' = Other(active)
    BY <1>1 DEF CellsOf, Other
  <1>6. /\ \A n, from, moving : Searched(n, from, moving)' = Searched(n, from, moving)
        /\ \A n : CopiedWell(n)' = CopiedWell(n)
        /\ \A e, v : Wanted(CellsOf(active), e, v)' = Wanted(CellsOf(active), e, v)
        /\ \A e : InRam(e)' = InRam(e)
    BY <1>1, <1>5 DEF Searched, CopiedWell, Wanted, Gone, InRam
  <1>7. Restored' = Restored /\ Losing' = Losing
    BY <1>1 DEF Restored, Losing
  <1>8. CopyValues'
    BY <1>2, <1>3, <1>5, <1>6 DEF SInv, CopyValues
  <1>9. SwitchInv' /\ MetaInv'
    BY <1>1, <1>2, <1>3, <1>4, <1>5, <1>6 DEF SInv, SwitchInv, MetaInv
  <1>10. LoadInv' /\ NullInv' /\ FormatInv' /\ MeasureInv'
    BY <1>1, <1>2, <1>3, <1>4, <1>5, <1>7 DEF SInv, LoadInv, NullInv, FormatInv, MeasureInv
  <1>11. EmptyNewer'
    BY <1>1, <1>4 DEF SInv, EmptyNewer, CellsOf, Other
  <1>12. \A e \in Element : Held(e)' = Held(e)
    BY <1>1, HeldInSameFlash
  <1> QED BY <1>1, <1>7, <1>8, <1>9, <1>10, <1>11, <1>12, FlashSame, NothingSeen DEF SInv

LEMMA StoreStarts ==
  ASSUME Init
  PROVE  /\ SInv /\ Seen = [e \in Element |-> None] /\ Saved = Seen
  <1>1. /\ powered = FALSE /\ todo = <<>> /\ data = [e \in Element |-> NullPointer]
        /\ \A p \in Page : flash[p].top = 0
    BY DEF Init, RamAtStart
  <1>2. \A p \in Page : ~ IsValidPage(p)
    BY <1>1 DEF IsValidPage
  <1>3. StartPage = 0
    BY <1>2 DEF StartPage, Page
  <1>4. ~ Restored /\ \A W : ~ Has(todo, W)
    BY <1>1, EmptySeq DEF Restored, Has
  <1>5. \A n : ~ Doing(n)
    BY <1>1 DEF Doing
  <1>6. CopyValues /\ SwitchInv /\ MetaInv /\ MeasureInv
    BY <1>5 DEF CopyValues, SwitchInv, MetaInv, MeasureInv
  <1>7. LoadInv /\ NullInv /\ FormatInv /\ EmptyNewer
    BY <1>1, <1>2, <1>4 DEF LoadInv, NullInv, FormatInv, EmptyNewer
  <1>8. \A e : Stored(e) = None
    BY <1>3 DEF Stored
  <1> QED BY <1>4, <1>6, <1>7, <1>8 DEF SInv, Seen, Saved

-----------------------------------------------------------------------------
(* Every step is a step of RecordStore. *)

Same == UNCHANGED <<Seen, Saved>>

StoreStep == Same \/ SpoilStep \/ SaveStep \/ ChangeStep \/ RestartStep \/ LossStep

\* The parts of a call that leave flash alone.
LEMMA CallSame ==
  ASSUME NInv, NInv', SInv, StartInv,
         \/ NvWriteRecord \/ NvCopyPage \/ CopyNext \/ SwitchPage
         \/ SyncSaved \/ SyncCopied \/ ForgetOldPage
         \/ MakeRoom \/ RoomMade \/ RoomCopied \/ RoomRetried
         \/ IdleCopied \/ IdleSave \/ IdleSaved
         \/ StartWithoutMeta \/ StartWithMetas \/ MeasureFreeSpace \/ RestoreUnmirrored
         \/ Formatted \/ EstimateSize
  PROVE  SInv' /\ Same
  <1>1. CASE \/ SyncSaved \/ MakeRoom \/ RoomMade \/ RoomCopied \/ RoomRetried
             \/ IdleCopied \/ IdleSave \/ IdleSaved
    BY <1>1, QuietWork DEF Same
  <1>2. CASE NvWriteRecord \/ NvCopyPage \/ CopyNext \/ SwitchPage
    BY <1>2, NvWriteRecordSame, NvCopyPageSame, CopyNextSame, SwitchPageSame DEF Same
  <1>3. CASE SyncCopied \/ ForgetOldPage \/ Formatted \/ EstimateSize
    BY <1>3, SyncCopiedSame, ForgetOldPageSame, FormattedSame, EstimateSizeSame DEF Same
  <1>4. CASE StartWithoutMeta \/ StartWithMetas \/ MeasureFreeSpace \/ RestoreUnmirrored
    BY <1>4, StartWithoutMetaSame, StartWithMetasSame, MeasureFreeSpaceSame,
       RestoreUnmirroredSame DEF Same
  <1> QED BY <1>1, <1>2, <1>3, <1>4

\* The parts of a call that program or erase.
LEMMA FlashSteps ==
  ASSUME NInv, NInv', SInv, StartInv,
         \/ EraseSector \/ WriteTopCounter \/ WriteBottomCounter
         \/ ProgramRecord \/ ProgramMeta \/ CopyRecord \/ CopyMeta \/ IdleErase
  PROVE  SInv' /\ StoreStep
  <1>1. CASE EraseSector \/ IdleErase \/ WriteTopCounter
    BY <1>1, EraseSectorSame, IdleEraseSame, WriteTopCounterSame DEF StoreStep, Same
  <1>2. CASE ProgramRecord \/ CopyRecord \/ CopyMeta
    BY <1>2, ProgramRecordSame, CopyRecordSame, CopyMetaSame DEF StoreStep, Same
  <1>3. CASE WriteBottomCounter
    BY <1>3, WriteBottomCounterSame DEF StoreStep, Same
  <1>4. CASE ProgramMeta
    BY <1>4, ProgramMetaSame DEF StoreStep
  <1> QED BY <1>1, <1>2, <1>3, <1>4

LEMMA StepIsOfStore ==
  ASSUME NInv, NInv', SInv, StartInv, [Next]_vars
  PROVE  SInv' /\ StoreStep
  <1>1. CASE Work
    BY <1>1, CallSame, FlashSteps DEF Work, StoreStep
  <1>2. CASE Application
    <2>1. PICK e \in Element :
            EraseElement(e) \/ \E v \in Value : WriteElement(e, v) \/ WriteElementSync(e, v)
      BY <1>2 DEF Application
    <2>2. CASE EraseElement(e)
      BY <2>2, EraseElementChanges DEF StoreStep
    <2>3. CASE \E v \in Value : WriteElement(e, v) \/ WriteElementSync(e, v)
      BY <2>3, WriteElementChanges, WriteElementSyncChanges DEF StoreStep
    <2> QED BY <2>1, <2>2, <2>3
  <1>3. CASE NvIdle \/ NvModuleInit
    BY <1>3, NvIdleSame, NvModuleInitSame DEF StoreStep, Same
  <1>4. CASE PowerLoss
    BY <1>4, PowerLossRestarts DEF StoreStep
  <1>5. CASE UNCHANGED vars
    BY <1>5, StutterSame DEF StoreStep, Same
  <1> QED BY <1>1, <1>2, <1>3, <1>4, <1>5 DEF Next, Processor

\* A save, a change, a restart, a spoiling and a formatting are RecordStore's.
LEMMA StoreStepRefines ==
  ASSUME StoreStep
  PROVE  [Store!Next]_(Store!storeVars)
  <1> DEFINE legible == BlankRemains /\ ~ Losing
  <1>1. legible' \in BOOLEAN
    OBVIOUS
  <1>2. Store!Turn \/ Store!Restart \/ Store!Spoil \/ Store!Format
          \/ (\E e \in 1..Entries : Store!Save(e) \/ \E v \in Value \cup {None} : Store!Change(e, v))
    <2>1. CASE Same
      BY <2>1 DEF Same, Seen, Saved, Store!Turn
    <2>2. CASE SpoilStep
      BY <2>2 DEF SpoilStep, Seen, Saved, Store!Spoil, Element
    <2>3. CASE SaveStep
      BY <2>3 DEF SaveStep, Seen, Saved, Store!Save, Element
    <2>4. CASE ChangeStep
      BY <2>4 DEF ChangeStep, Seen, Saved, Store!Change, Element
    <2>5. CASE RestartStep
      BY <2>5 DEF RestartStep, Seen, Saved, Store!Restart
    <2>6. CASE LossStep
      BY <2>6 DEF LossStep, Seen, Saved, Store!Format, Store!Content, Element
    <2> QED BY <2>1, <2>2, <2>3, <2>4, <2>5, <2>6 DEF StoreStep
  <1> QED BY <1>1, <1>2 DEF Store!Next

\* SInv holds at every step, whatever power losses leave behind.
THEOREM StoreInductive == Spec => []SInv
  <1>1. Init => SInv /\ StartInv
    BY StoreStarts DEF Init, StartInv
  <1>2. NInv /\ NInv' /\ SInv /\ StartInv /\ [Next]_vars => SInv' /\ StartInv'
    BY StepIsOfStore, StartInvKept
  <1> QED BY <1>1, <1>2, NvmInductive, PTL DEF Spec

\* NV_Flash.c implements RecordStore: NvSaveOnIdle and the synchronous write
\* store exactly what the element holds, copies and erasures of pages change
\* nothing that a restart restores (but for the elements of Spoil), and what
\* is restored after a power loss at any step is what was last stored, unless
\* the restart finds no end of the headers and formats the storage.
THEOREM ImplementsRecordStore == Spec => KeepsItsPromise
  <1>1. Init => Store!Init
    <2> SUFFICES ASSUME Init PROVE Store!Init
      OBVIOUS
    <2>1. StartPage = 0
      BY DEF Init, StartPage, IsValidPage, Page
    <2>2. ~ Losing
      BY EmptySeq DEF Init, RamAtStart, Losing
    <2>3. (BlankRemains /\ ~ Losing) = TRUE
      BY <2>1, <2>2 DEF BlankRemains
    <2>4. Seen = [e \in Element |-> None] /\ Saved = Seen
      BY StoreStarts
    <2> QED BY <2>3, <2>4 DEF Seen, Saved, Store!Init, Element
  <1>2. Init => SInv /\ StartInv
    BY StoreStarts DEF Init, StartInv
  <1>3. NInv /\ NInv' /\ SInv /\ StartInv /\ [Next]_vars
          => SInv' /\ StartInv' /\ [Store!Next]_(Store!storeVars)
    BY StepIsOfStore, StartInvKept, StoreStepRefines
  <1> QED
    BY <1>1, <1>2, <1>3, NvmInductive, PTL DEF Spec, KeepsItsPromise, Store!Spec
=============================================================================

------------------------- MODULE NonVolatileMemory -------------------------
(***************************************************************************)
(* The non-volatile memory module (framework/NVM/Source/NV_Flash.c) as this *)
(* program builds it - two virtual pages, data sets not mirrored in RAM -   *)
(* together with the application's use of it (ApplMain.c: App_NvmWrite,     *)
(* App_NvmErase, NvIdle in the idle task, NvModuleInit at start).           *)
(*                                                                         *)
(* A page is its two page counters and a row of cells between them.  A cell *)
(* is as large as a meta (record header).  Metas grow upwards from cell 1,  *)
(* records downwards from the last cell, each as many cells as the records  *)
(* of its element have.  A cell is programmed in several flash words, and a *)
(* record from its first cell on, so a power loss may leave a meta, or the  *)
(* first cells of a record, torn; a page counter takes one word, and a page *)
(* is erased sector by sector.                                              *)
(*                                                                         *)
(* The functions of the module call one another and write flash on the way: *)
(* todo is what remains of the call in progress, its head the next thing    *)
(* done, and status the result of the function that returned last.  A power *)
(* loss may come before any of these steps.                                 *)
(***************************************************************************)
EXTENDS Integers, Sequences, FiniteSetsExt

CONSTANTS
  Entries,       \* how many elements the data sets kept in flash have
  Extent,        \* the cells of a record of each of the first e elements, in all
  Value,         \* what the application may store in one
  Cells,         \* the cells of a virtual page
  MinimumFree,   \* gNvMinimumFreeBytesCountStart_c, in cells
  QueueSize,     \* gNvPendingSavesQueueSize_c
  MaxRequests,   \* bound: application calls in a behaviour
  MaxLosses      \* bound: power losses in a behaviour

(***************************************************************************)
(* A page has room for a record of each element and for one more of the     *)
(* largest: 3968 and 76 of 4080 bytes in this program, with records of 4 to *)
(* 60 bytes and metas of 8 (ApplMain.c 330-334, ble_constants.h 27-31).     *)
(***************************************************************************)
Element == 1..Entries
Size(e) == Extent[e] - Extent[e - 1]   \* the cells of a record of the element

ASSUME StoreAssumption ==
  /\ Entries \in Nat \ {0}
  /\ Extent \in [0..Entries -> Nat] /\ Extent[0] = 0
  /\ \A d, e \in 0..Entries : d < e => Extent[d] < Extent[e]
  /\ Cells \in Nat
  /\ \A e \in Element : Cells >= Extent[Entries] + Entries + Size(e) + 3
  /\ MinimumFree \in Nat /\ QueueSize \in Nat \ {0}
  /\ MaxRequests \in Nat /\ MaxLosses \in Nat


VARIABLES
  flash,         \* the two virtual pages
  powered,       \* NvModuleInit has been called since the power came up
  initialised,   \* mNvModuleInitialized
  active,        \* mNvActivePageId
  counter,       \* mNvPageCounter
  lastMeta,      \* NvLastMetaInfoAddress of each page, 0 for an empty page
  lastUnerased,  \* NvLastMetaUnerasedInfoAddress of each page
  copyPending,   \* mNvCopyOperationIsPending
  erase,         \* mNvErasePgCmdStatus
  queue,         \* mNvPendingSavesQueue, from its head
  head,          \* the ring index of the queue's head
  data,          \* the pointer of each element, and what it points to
  todo,          \* what the call in progress still has to do
  status,        \* the result of the function that returned last
  requests,      \* application calls so far
  losses         \* power losses so far

moduleVars == <<initialised, active, counter, lastMeta, lastUnerased,
                copyPending, erase>>
queueVars == <<queue, head>>
bounds == <<requests, losses>>
vars == <<flash, powered, moduleVars, queueVars, data, todo, status, bounds>>

-----------------------------------------------------------------------------
(* The contents of flash. *)

Page == {1, 2}
Other(p) == 3 - p

Blank == [kind |-> "blank"]
Torn == [kind |-> "torn"]
Record(v) == [kind |-> "record", value |-> v]   \* each cell of a record
Meta(e, at) == [kind |-> "meta", element |-> e, at |-> at]

None == "None"   \* an element that is erased or was never stored
Junk == "Junk"   \* the bytes of a place that holds no record

ASSUME ValueAssumption == None \notin Value

(* The offset field of a torn meta is still all ones: it lies outside the   *)
(* page and is not aligned.                                                 *)
TornOffset == 4 * Cells

IsMeta(c) == c.kind = "meta"
RecordOffset(c) == IF IsMeta(c) THEN c.at ELSE TornOffset

(* NvVirtualPageBlankCheck *)
IsBlankPage(p) ==
  /\ flash[p].top = 0 /\ flash[p].bottom = 0
  /\ \A i \in 1..Cells : flash[p].cell[i] = Blank

(* A page counts as valid when both its counters are written and agree.     *)
IsValidPage(p) == flash[p].top = flash[p].bottom /\ flash[p].top # 0

\* Mutant: the counters of two valid pages are not compared.
FirstValidPage == IF IsValidPage(1) THEN 1 ELSE IF IsValidPage(2) THEN 2 ELSE 0

(* NvInitStorageSystem: the page a restart takes, 0 for none.               *)
StartPage ==
  IF IsValidPage(1) /\ (IsValidPage(2) => flash[1].top >= flash[2].top) THEN 1
  ELSE IF IsValidPage(2) THEN 2 ELSE 0

(* The metas of a page: the valid ones below the first blank place.  A walk *)
(* that finds no blank place takes the page for one without metas.          *)
HasEnd(p) == \E i \in 1..Cells : flash[p].cell[i] = Blank
MetaEnd(p) ==
  Min({i \in 1..Cells : flash[p].cell[i] = Blank} \cup {Cells + 1}) - 1
Metas(p) == {i \in 1..MetaEnd(p) : IsMeta(flash[p].cell[i])}
MetasOf(p, e) == {i \in Metas(p) : flash[p].cell[i].element = e}

Newest(S) == Max(S \cup {0})

(* The cells of a page with a record of n cells, all of it, at a place.     *)
HoldsRecord(c, at, n) ==
  /\ at >= 1 /\ at + n - 1 <= Cells
  /\ \A i \in at..(at + n - 1) : c[i].kind = "record" /\ c[i].value = c[at].value

(* What reading a record of the element at a place of a page gives.         *)
ReadRecord(p, at, e) ==
  IF HoldsRecord(flash[p].cell, at, Size(e)) THEN flash[p].cell[at].value ELSE Junk

(* Flash after n cells of a page are programmed with x.                     *)
Programming(c, at, n, x) ==
  [i \in 1..Cells |-> IF i \in at..(at + n - 1) THEN x ELSE c[i]]
Programmed(p, at, n, x) == [flash EXCEPT ![p].cell = Programming(@, at, n, x)]

(* What the newest meta of the element in a page says of it.                *)
StoredIn(p, e) ==
  LET m == Newest(MetasOf(p, e))
  IN  IF m = 0 \/ flash[p].cell[m].at = 0 THEN None
      ELSE ReadRecord(p, flash[p].cell[m].at, e)

(* What the page a restart takes has of the element.                        *)
Stored(e) ==
  CASE StartPage = 0 -> None
    [] StartPage = 1 -> StoredIn(1, e)
    [] StartPage = 2 -> StoredIn(2, e)

(* What the application reads through the element's pointer.                *)
Held(e) ==
  CASE data[e].at = "null" -> None
    [] data[e].at \in {"ram", "caller"} -> data[e].value
    [] data[e].at = "flash" -> ReadRecord(data[e].page, data[e].cell, e)

NullPointer == [at |-> "null"]
RamPointer(v) == [at |-> "ram", value |-> v]          \* a buffer of the NVM pool
CallerPointer(v) == [at |-> "caller", value |-> v]    \* the caller's own buffer
FlashPointer(p, c) == [at |-> "flash", page |-> p, cell |-> c]
IsFlash(e) == data[e].at = "flash"

(* A sector erased: the lower one holds the top counter and the first cells.*)
WithSectorErased(pg, s) ==
  LET lower == 1..(Cells \div 2)
      gone  == IF s = 1 THEN lower ELSE (1..Cells) \ lower
      cell  == [i \in 1..Cells |-> IF i \in gone THEN Blank ELSE pg.cell[i]]
  IN  IF s = 1 THEN [pg EXCEPT !.top = 0, !.cell = cell]
               ELSE [pg EXCEPT !.bottom = 0, !.cell = cell]

-----------------------------------------------------------------------------
(* The call in progress. *)

Doing(what) == todo # <<>> /\ Head(todo).do = what
Now == Head(todo)
Continue(steps) == todo' = steps \o Tail(todo)
Return(s) == todo' = Tail(todo) /\ status' = s
Call(name) == [do |-> name]

\* Mutant: the wrong page.
EraseOther(p) == <<[do |-> "erase", page |-> Other(p), sector |-> 1],
                   [do |-> "erase", page |-> Other(p), sector |-> 2]>>

(* NvEraseVirtualPage *)
EraseSteps(p) == <<[do |-> "erase", page |-> p, sector |-> 1],
                   [do |-> "erase", page |-> p, sector |-> 2]>>
(* NvSaveRamTable *)
CounterSteps(p) == <<[do |-> "top", page |-> p], [do |-> "bottom", page |-> p]>>

(* NvSyncSave, called by the module itself or by its client.                *)
SyncSaveSteps(e) ==
  <<[do |-> "write", element |-> e], [do |-> "synced", element |-> e]>>

EraseSector ==
  /\ Doing("erase")
  /\ flash' = [flash EXCEPT ![Now.page] = WithSectorErased(@, Now.sector)]
  /\ Return("OK")
  /\ UNCHANGED <<powered, moduleVars, queueVars, data, bounds>>

WriteTopCounter ==
  /\ Doing("top")
  /\ flash' = [flash EXCEPT ![Now.page].top = counter]
  /\ Return("OK")
  /\ UNCHANGED <<powered, moduleVars, queueVars, data, bounds>>

WriteBottomCounter ==
  /\ Doing("bottom")
  /\ flash' = [flash EXCEPT ![Now.page].bottom = counter]
  /\ Return("OK")
  /\ UNCHANGED <<powered, moduleVars, queueVars, data, bounds>>

-----------------------------------------------------------------------------
(* NvWriteRecord *)

(* The offset of the lowest record of the active page.                      *)
LowestRecord ==
  IF lastMeta[active] = 0 THEN Cells + 1
  ELSE IF lastUnerased[active] = 0 THEN 0
  ELSE RecordOffset(flash[active].cell[lastUnerased[active]])

\* Mutant: an erasure's meta is taken to have the rest of the page free above it.
SpaceAboveMeta ==
  LET m == lastMeta[active]
  IN  IF m = 0 THEN Cells
      ELSE IF RecordOffset(flash[active].cell[m]) # 0
             THEN RecordOffset(flash[active].cell[m]) - (m + 1)
      ELSE Cells - (m + 1)

(* NvGetPageFreeSpace: between the last meta and the record it points to,   *)
(* or the lowest record if the last meta marks an erased element.           *)
FreeSpace ==
  LET m == lastMeta[active]
  IN  IF m = 0 THEN Cells
      ELSE IF RecordOffset(flash[active].cell[m]) # 0
             THEN RecordOffset(flash[active].cell[m]) - (m + 1)
      ELSE IF lastUnerased[active] = 0 THEN 0
      ELSE LowestRecord - (m + 1)

RecordSize(e) == IF data[e].at = "null" THEN 0 ELSE Size(e)
IsBlankCell(i) == flash[active].cell[i] = Blank

(* Remnants of torn writes are passed over, a record's size or a meta's at  *)
(* a time, the free space shrinking with each (NV_Flash.c 5104-5136).       *)
RecordCell(e) ==
  IF RecordSize(e) = 0 THEN LowestRecord
  ELSE Newest({i \in 1..(LowestRecord - Size(e)) :
                 /\ (LowestRecord - i) % Size(e) = 0
                 /\ \A j \in i..(i + Size(e) - 1) : IsBlankCell(j)})
NextMetaCell == lastMeta[active] + 1   \* mutant: whatever is there
MetaCell ==
  Min({i \in (lastMeta[active] + 1)..Cells : IsBlankCell(i)} \cup {Cells + 1})
PassedOver(e) ==
  (LowestRecord - RecordSize(e) - RecordCell(e)) + (MetaCell - lastMeta[active] - 1)

FitsFreeSpace(e) == RecordSize(e) + 2 <= FreeSpace
\* Mutant: no place is kept for one more meta.
HasPlaceExactly(e) == RecordSize(e) + 1 <= FreeSpace - PassedOver(e)
HasPlace(e) == RecordSize(e) + 2 < FreeSpace - PassedOver(e)

PlaceFor(e) ==
  [element |-> e, at |-> IF RecordSize(e) = 0 THEN 0 ELSE RecordCell(e),
   meta |-> MetaCell]

Step(name, place) ==
  [do |-> name, element |-> place.element, at |-> place.at, meta |-> place.meta]

NvWriteRecord ==
  /\ Doing("write")
  /\ LET e == Now.element
         fits == FitsFreeSpace(e) /\ ~copyPending /\ ~IsFlash(e)
     IN  \/ /\ copyPending
            /\ Return("PageCopyPending")
            /\ UNCHANGED copyPending
         \/ /\ ~copyPending /\ IsFlash(e)
            /\ Return("OK")
            /\ UNCHANGED copyPending
         \/ /\ fits /\ LowestRecord = TornOffset
            /\ Return("AlignmentError")
            /\ UNCHANGED copyPending
         \/ /\ ~copyPending /\ ~IsFlash(e)
            /\ ~fits \/ (LowestRecord # TornOffset /\ ~HasPlace(e))
            /\ copyPending' = TRUE
            /\ Return("PageCopyPending")
         \/ /\ fits /\ LowestRecord # TornOffset /\ HasPlace(e)
            /\ LET place == PlaceFor(e)
               IN  Continue((IF place.at = 0 THEN <<>>
                                             ELSE <<Step("record", place)>>)
                            \o <<Step("meta", place)>>)
            /\ UNCHANGED <<copyPending, status>>
  /\ UNCHANGED <<flash, powered, initialised, active, counter, lastMeta,
                 lastUnerased, erase, queueVars, data, bounds>>

ProgramRecord ==
  /\ Doing("record")
  /\ flash' = Programmed(active, Now.at, Size(Now.element),
                         Record(data[Now.element].value))
  /\ Return("OK")
  /\ UNCHANGED <<powered, moduleVars, queueVars, data, bounds>>

(* The meta follows the record, and the element now lives in flash.         *)
ProgramMeta ==
  /\ Doing("meta")
  /\ flash' = Programmed(active, Now.meta, 1, Meta(Now.element, Now.at))
  /\ lastMeta' = [lastMeta EXCEPT ![active] = Now.meta]
  /\ IF Now.at = 0
       THEN UNCHANGED <<lastUnerased, data>>
       ELSE /\ lastUnerased' = [lastUnerased EXCEPT ![active] = Now.meta]
            /\ data' = [data EXCEPT ![Now.element] = FlashPointer(active, Now.at)]
  /\ Return("OK")
  /\ UNCHANGED <<powered, initialised, active, counter, copyPending, erase,
                 queueVars, bounds>>

-----------------------------------------------------------------------------
(* NvCopyPage *)

(* NvIsRecordErased *)
IsRecordErased(e, m) ==
  \E i \in m..MetaEnd(active) : /\ IsMeta(flash[active].cell[i])
                                /\ flash[active].cell[i].element = e
                                /\ flash[active].cell[i].at = 0

\* Mutant: what is on the other page already is copied again.
ToCopyAgain(m) ==
  LET c == flash[active].cell[m]
  IN  IsMeta(c) /\ ~ (data[c.element] = NullPointer /\ IsRecordErased(c.element, m))

(* The metas of the active page that are copied once those above them are:  *)
(* valid, not yet on the other page (NvIsRecordCopied), and not of an       *)
(* element that has been erased.                                            *)
ToCopy(m) ==
  LET c == flash[active].cell[m]
  IN  /\ IsMeta(c)
      /\ MetasOf(Other(active), c.element) = {}
      /\ ~ (data[c.element] = NullPointer /\ IsRecordErased(c.element, m))

NvCopyPage ==
  /\ Doing("copy")
  /\ Continue((IF IsBlankPage(Other(active)) THEN <<>>
                                             ELSE EraseSteps(Other(active)))
              \o <<[do |-> "copyNext", from |-> lastMeta[active],
                    meta |-> 1, at |-> Cells + 1]>>)
  /\ UNCHANGED <<flash, powered, moduleVars, queueVars, data, status, bounds>>

(* One more record to copy, from the newest meta backwards.                 *)
CopyNext ==
  /\ Doing("copyNext")
  /\ LET m == Newest({i \in 1..Now.from : ToCopy(i)})
     IN  /\ m # 0
         /\ LET c == flash[active].cell[m]
                place == [element |-> c.element, at |-> Now.at - Size(c.element),
                          meta |-> Now.meta]
            IN  Continue(<<[do |-> "copyRecord", element |-> c.element, at |-> place.at,
                            value |-> ReadRecord(active, c.at, c.element)],
                           Step("copyMeta", place),
                           [do |-> "copyNext", from |-> m - 1,
                            meta |-> Now.meta + 1, at |-> place.at]>>)
  /\ UNCHANGED <<flash, powered, moduleVars, queueVars, data, status, bounds>>

(* NvInternalCopy *)
CopyRecord ==
  /\ Doing("copyRecord")
  /\ flash' = Programmed(Other(active), Now.at, Size(Now.element), Record(Now.value))
  /\ Return("OK")
  /\ UNCHANGED <<powered, moduleVars, queueVars, data, bounds>>

CopyMeta ==
  /\ Doing("copyMeta")
  /\ flash' = Programmed(Other(active), Now.meta, 1, Meta(Now.element, Now.at))
  /\ data' = IF IsFlash(Now.element)
               THEN [data EXCEPT ![Now.element] =
                                    FlashPointer(Other(active), Now.at)]
               ELSE data
  /\ Return("OK")
  /\ UNCHANGED <<powered, moduleVars, queueVars, bounds>>

(* Everything is copied: the other page becomes the active one.             *)
SwitchPage ==
  /\ Doing("copyNext")
  /\ \A i \in 1..Now.from : ~ ToCopy(i)
  /\ LET new == Other(active)
     IN  /\ erase' = [pending |-> TRUE, page |-> active, sector |-> 1]
         /\ active' = new
         /\ lastMeta' = [lastMeta EXCEPT ![new] = Now.meta - 1]
         /\ lastUnerased' = [lastUnerased EXCEPT ![new] = Now.meta - 1]
         /\ counter' = counter + 1
         /\ Continue(CounterSteps(new))
  /\ UNCHANGED <<flash, powered, initialised, copyPending, queueVars, data,
                 status, bounds>>

-----------------------------------------------------------------------------
(* NvSyncSave: a write that finds no room copies the page, erases the old   *)
(* one and is tried again.                                                  *)

SyncSaved ==
  /\ Doing("synced")
  /\ IF status = "PageCopyPending"
       THEN /\ Continue(<<Call("copy"), [do |-> "syncCopied", element |-> Now.element]>>)
            /\ UNCHANGED status
       ELSE Return(status)
  /\ UNCHANGED <<flash, powered, moduleVars, queueVars, data, bounds>>

SyncCopied ==
  /\ Doing("syncCopied")
  /\ copyPending' = FALSE
  /\ Continue(EraseSteps(erase.page)
              \o <<Call("forgetOld"), [do |-> "write", element |-> Now.element]>>)
  /\ UNCHANGED <<flash, powered, initialised, active, counter, lastMeta,
                 lastUnerased, erase, queueVars, data, status, bounds>>

ForgetOldPage ==
  /\ Doing("forgetOld")
  /\ lastMeta' = [lastMeta EXCEPT ![erase.page] = 0]
  /\ erase' = [erase EXCEPT !.pending = FALSE]
  /\ Return("OK")
  /\ UNCHANGED <<flash, powered, initialised, active, counter, lastUnerased,
                 copyPending, queueVars, data, bounds>>

-----------------------------------------------------------------------------
(* The queue of pending saves. *)

Cancelled == 0   \* gNvInvalidDataEntry_c

InQueue(e) == \E i \in 1..Len(queue) : queue[i] = e
Pop == queue' = Tail(queue) /\ head' = (head + 1) % QueueSize

(* A queue with the element's requests cancelled.                           *)
Without(q, e) == [i \in 1..Len(q) |-> IF q[i] = e THEN Cancelled ELSE q[i]]

(* NvAddSaveRequestToQueue: a request that is queued already is not queued  *)
(* again, and a cancelled one's place is used first.                        *)
HasRoomFor(q, e) ==
  Len(q) < QueueSize \/ \E i \in 1..Len(q) : q[i] \in {e, Cancelled}
With(q, e) ==
  LET free == {i \in 1..Len(q) : q[i] = Cancelled}
  IN  IF \E i \in 1..Len(q) : q[i] = e THEN q
      ELSE IF free # {} THEN [q EXCEPT ![Min(free)] = e]
      ELSE Append(q, e)

(* NvProcessFirstSaveInQueue makes room for a request by doing the one that *)
(* has waited longest.  The queue is full and none of it is cancelled, or   *)
(* the request would have taken that place.                                 *)
MakeRoom ==
  /\ Doing("makeRoom")
  /\ Pop
  /\ Continue(<<[do |-> "write", element |-> Head(queue)],
                [do |-> "roomMade", first |-> Head(queue), element |-> Now.element]>>)
  /\ UNCHANGED <<flash, powered, moduleVars, data, status, bounds>>

RoomMade ==
  /\ Doing("roomMade")
  /\ IF status = "PageCopyPending"
       THEN /\ Continue(<<Call("copy"), [Now EXCEPT !.do = "roomCopied"]>>)
            /\ UNCHANGED <<queueVars, status>>
       ELSE /\ queue' = Append(queue, Now.element)
            /\ Return("OK")
            /\ UNCHANGED head
  /\ UNCHANGED <<flash, powered, moduleVars, data, bounds>>

RoomCopied ==
  /\ Doing("roomCopied")
  /\ copyPending' = FALSE
  /\ Continue(<<[do |-> "write", element |-> Now.first],
                [Now EXCEPT !.do = "roomRetried"]>>)
  /\ UNCHANGED <<flash, powered, initialised, active, counter, lastMeta,
                 lastUnerased, erase, queueVars, data, status, bounds>>

RoomRetried ==
  /\ Doing("roomRetried")
  /\ IF status = "OK"
       THEN queue' = Append(queue, Now.element) /\ Return("OK")
       ELSE /\ queue' = With(queue, Now.first)
            /\ Continue(<<[do |-> "makeRoom", element |-> Now.element]>>)
            /\ UNCHANGED status
  /\ UNCHANGED <<flash, powered, moduleVars, head, data, bounds>>

-----------------------------------------------------------------------------
(* NvIdle, called by the idle task (ApplMain.c 699). *)

NvIdle ==
  /\ todo = <<>> /\ initialised
  /\ copyPending \/ erase.pending \/ queue # <<>>
  /\ todo' = IF copyPending THEN <<Call("copy"), Call("idleCopied")>>
                            ELSE <<Call("idle")>>
  /\ UNCHANGED <<flash, powered, moduleVars, queueVars, data, status, bounds>>

IdleCopied ==
  /\ Doing("idleCopied")
  /\ copyPending' = FALSE
  /\ Continue(<<Call("idle")>>)
  /\ UNCHANGED <<flash, powered, initialised, active, counter, lastMeta,
                 lastUnerased, erase, queueVars, data, status, bounds>>

SameSector == erase.sector             \* mutant: the sector is not advanced
NextSector == erase.sector + 1

(* One sector of the old page is erased in each call, and nothing is saved  *)
(* before all are.                                                          *)
IdleErase ==
  /\ Doing("idle") /\ erase.pending
  /\ IF erase.sector > 2
       THEN /\ lastMeta' = [lastMeta EXCEPT ![erase.page] = 0]
            /\ erase' = [erase EXCEPT !.pending = FALSE]
            /\ UNCHANGED flash
       ELSE /\ flash' = [flash EXCEPT ![erase.page] =
                                         WithSectorErased(@, erase.sector)]
            /\ erase' = [erase EXCEPT !.sector = NextSector]
            /\ UNCHANGED lastMeta
  /\ Return("OK")
  /\ UNCHANGED <<powered, initialised, active, counter, lastUnerased,
                 copyPending, queueVars, data, bounds>>

IdleSave ==
  /\ \/ Doing("idle") /\ ~ erase.pending
     \/ Doing("drain")
  /\ \/ /\ queue = <<>>
        /\ Return("OK")
        /\ UNCHANGED queueVars
     \/ /\ queue # <<>> /\ Head(queue) = Cancelled
        /\ Pop
        /\ Continue(<<Call("drain")>>)
        /\ UNCHANGED status
     \/ /\ queue # <<>> /\ Head(queue) # Cancelled
        /\ Pop
        /\ Continue(<<[do |-> "write", element |-> Head(queue)],
                      [do |-> "idleSaved", element |-> Head(queue)]>>)
        /\ UNCHANGED status
  /\ UNCHANGED <<flash, powered, moduleVars, data, bounds>>

RequestAgain(e) == queue' = With(queue, e)

IdleSaved ==
  /\ Doing("idleSaved")
  /\ IF status = "PageCopyPending"
       THEN RequestAgain(Now.element) /\ Return("OK")
       ELSE Continue(<<Call("drain")>>) /\ UNCHANGED <<queue, status>>
  /\ UNCHANGED <<flash, powered, moduleVars, head, data, bounds>>

-----------------------------------------------------------------------------
(* NvModuleInit and NvInternalFormat.  lost is no part of the program: it   *)
(* records that the headers of the page to be formatted have no end.        *)

FormattedStep(lost) == [do |-> "formatted", lost |-> lost]

\* Mutant: the first page is not erased.
FormatOther(lost) == EraseSteps(2) \o CounterSteps(1) \o <<FormattedStep(lost)>>
FormatSteps(lost) ==
  EraseSteps(1) \o EraseSteps(2) \o CounterSteps(1) \o <<FormattedStep(lost)>>

NvModuleInit ==
  /\ ~ powered
  /\ powered' = TRUE
  /\ active' = IF StartPage = 0 THEN 1 ELSE StartPage
  /\ counter' = IF StartPage = 0 THEN 1 ELSE flash[StartPage].top
  /\ todo' = (IF StartPage = 0 THEN FormatSteps(FALSE) \o <<Call("estimate")>> ELSE <<>>)
             \o <<Call("start")>>
  /\ UNCHANGED <<flash, initialised, lastMeta, lastUnerased, copyPending, erase,
                 queueVars, data, status, bounds>>

Formatted ==
  /\ Doing("formatted")
  /\ lastMeta' = [lastMeta EXCEPT ![1] = 0]
  /\ lastUnerased' = [lastUnerased EXCEPT ![1] = 0]
  /\ Return("OK")
  /\ UNCHANGED <<flash, powered, initialised, active, counter, copyPending,
                 erase, queueVars, data, bounds>>

(* The storage just formatted must hold a record of each element and the    *)
(* free space required at start; otherwise the module is not initialised.   *)
EstimateSize ==
  /\ Doing("estimate")
  /\ IF FreeSpace < Extent[Entries] + Entries + MinimumFree
       THEN todo' = <<>> /\ status' = "ReservedFlashTooSmall"
       ELSE Return("OK")
  /\ UNCHANGED <<flash, powered, moduleVars, queueVars, data, bounds>>

(* NvUpdateLastMetaInfoAddress: the newest meta, and the newest one that     *)
(* does not mark an erased element.                                         *)
LastMeta(p) == Newest(Metas(p))
LastUnerased(p) ==
  Newest({i \in 1..LastMeta(p) : RecordOffset(flash[p].cell[i]) # 0})

(* With no meta that is valid the storage is formatted, and the module is   *)
(* left uninitialised.                                                      *)
StartWithoutMeta ==
  /\ Doing("start")
  /\ MetaEnd(active) # 0
  /\ Metas(active) = {} \/ ~ HasEnd(active)
  /\ counter' = 1 /\ active' = 1
  /\ Continue(FormatSteps(~ HasEnd(active)))
  /\ UNCHANGED <<flash, powered, initialised, lastMeta, lastUnerased,
                 copyPending, erase, queueVars, data, status, bounds>>

StartWithMetas ==
  /\ Doing("start")
  /\ MetaEnd(active) = 0 \/ (Metas(active) # {} /\ HasEnd(active))
  /\ initialised' = TRUE
  /\ lastMeta' = [lastMeta EXCEPT ![active] = LastMeta(active)]
  /\ lastUnerased' = [lastUnerased EXCEPT ![active] = LastUnerased(active)]
  /\ Continue(<<Call("measure")>>)
  /\ UNCHANGED <<flash, powered, active, counter, copyPending, erase, queueVars,
                 data, status, bounds>>

(* A page with too little room is copied at once; with erased elements only *)
(* nothing is restored.                                                     *)
MeasureFreeSpace ==
  /\ Doing("measure")
  /\ IF lastMeta[active] # 0 /\ lastUnerased[active] = 0
       THEN Return("AddressOutOfRange")
       ELSE /\ Continue((IF FreeSpace < MinimumFree THEN <<Call("copy")>> ELSE <<>>)
                        \o <<Call("restore")>>)
            /\ UNCHANGED status
  /\ UNCHANGED <<flash, powered, moduleVars, queueVars, data, bounds>>

(* __NvmRestoreUnmirrored: each pointer is set to its newest record.        *)
RestoreUnmirrored ==
  /\ Doing("restore")
  /\ data' = [e \in Element |->
                LET m == Newest(MetasOf(active, e))
                    at == flash[active].cell[m].at
                IN  IF m = 0 \/ at = 0 THEN NullPointer
                    ELSE FlashPointer(active, at)]
  /\ Return("OK")
  /\ UNCHANGED <<flash, powered, moduleVars, queueVars, bounds>>

-----------------------------------------------------------------------------
(* The application. *)

Request ==
  /\ powered /\ todo = <<>>
  /\ requests < MaxRequests
  /\ requests' = requests + 1

(* App_NvmWrite with a buffer of the NVM pool (NvMoveToRam, NvSaveOnIdle):  *)
(* an element that is in RAM already loses its place in the queue first.    *)
WriteElement(e, v) ==
  LET before == IF data[e].at \in {"ram", "caller"} THEN Without(queue, e) ELSE queue
  IN  /\ Request
      /\ data' = [data EXCEPT ![e] = RamPointer(v)]
      /\ IF initialised /\ ~ HasRoomFor(before, e)
           THEN /\ todo' = <<[do |-> "makeRoom", element |-> e]>>
                /\ queue' = before
           ELSE /\ queue' = IF initialised THEN With(before, e) ELSE before
                /\ UNCHANGED todo
      /\ UNCHANGED <<flash, powered, moduleVars, head, status, losses>>

(* App_NvmWrite when the pool is empty: the caller's buffer becomes the     *)
(* element and is saved at once.                                            *)
WriteElementSync(e, v) ==
  /\ Request
  /\ data[e].at \in {"null", "flash"}
  /\ data' = [data EXCEPT ![e] = CallerPointer(v)]
  /\ todo' = IF initialised THEN SyncSaveSteps(e) ELSE <<>>
  /\ UNCHANGED <<flash, powered, moduleVars, queueVars, status, losses>>

(* App_NvmErase (NvErase): only an element in flash has its requests        *)
(* cancelled and its erasure written.                                       *)
EraseElement(e) ==
  /\ Request
  /\ data' = [data EXCEPT ![e] = NullPointer]
  /\ queue' = IF IsFlash(e) THEN Without(queue, e) ELSE queue
  /\ todo' = IF IsFlash(e) THEN SyncSaveSteps(e) ELSE <<>>
  /\ UNCHANGED <<flash, powered, moduleVars, head, status, losses>>

-----------------------------------------------------------------------------
(* Power loss: RAM is gone, and what was being programmed may be torn: a    *)
(* meta, or some cells of a record, from its first one on.                  *)

Cut(p, at, n) == [page |-> p, at |-> at, size |-> n]
Tearing ==
  IF Doing("record") THEN {Cut(active, Now.at, n) : n \in 1..Size(Now.element)}
  ELSE IF Doing("meta") THEN {Cut(active, Now.meta, 1)}
  ELSE IF Doing("copyRecord")
    THEN {Cut(Other(active), Now.at, n) : n \in 1..Size(Now.element)}
  ELSE IF Doing("copyMeta") THEN {Cut(Other(active), Now.meta, 1)}
  ELSE {}

RamAtStart ==
  /\ initialised = FALSE
  /\ active = 1 /\ counter = 0
  /\ lastMeta = [p \in Page |-> 0] /\ lastUnerased = [p \in Page |-> 0]
  /\ copyPending = FALSE
  /\ erase = [pending |-> FALSE, page |-> 1, sector |-> 1]
  /\ queue = <<>> /\ head = 0
  /\ data = [e \in Element |-> NullPointer]
  /\ todo = <<>> /\ status = "OK"

PowerLoss ==
  /\ powered /\ losses < MaxLosses
  /\ losses' = losses + 1
  /\ powered' = FALSE
  /\ \/ UNCHANGED flash
     \/ \E c \in Tearing : flash' = Programmed(c.page, c.at, c.size, Torn)
  /\ initialised' = FALSE
  /\ active' = 1 /\ counter' = 0
  /\ lastMeta' = [p \in Page |-> 0] /\ lastUnerased' = [p \in Page |-> 0]
  /\ copyPending' = FALSE
  /\ erase' = [pending |-> FALSE, page |-> 1, sector |-> 1]
  /\ queue' = <<>> /\ head' = 0
  /\ data' = [e \in Element |-> NullPointer]
  /\ todo' = <<>> /\ status' = "OK"
  /\ UNCHANGED requests

-----------------------------------------------------------------------------
Init ==
  /\ flash = [p \in Page |-> [top |-> 0, bottom |-> 0,
                              cell |-> [i \in 1..Cells |-> Blank]]]
  /\ powered = FALSE
  /\ RamAtStart
  /\ requests = 0 /\ losses = 0

(* The steps of the call in progress.                                       *)
Work ==
  \/ EraseSector \/ WriteTopCounter \/ WriteBottomCounter
  \/ NvWriteRecord \/ ProgramRecord \/ ProgramMeta
  \/ NvCopyPage \/ CopyNext \/ CopyRecord \/ CopyMeta \/ SwitchPage
  \/ SyncSaved \/ SyncCopied \/ ForgetOldPage
  \/ MakeRoom \/ RoomMade \/ RoomCopied \/ RoomRetried
  \/ IdleCopied \/ IdleErase \/ IdleSave \/ IdleSaved
  \/ StartWithoutMeta \/ StartWithMetas \/ MeasureFreeSpace \/ RestoreUnmirrored
  \/ Formatted \/ EstimateSize

Application ==
  \E e \in Element :
    \/ EraseElement(e)
    \/ \E v \in Value : WriteElement(e, v) \/ WriteElementSync(e, v)

(* What the processor does by itself: it goes on with a call, starts the    *)
(* module, and runs the idle task again and again.                          *)
Processor == Work \/ NvIdle \/ NvModuleInit

Next == Processor \/ Application \/ PowerLoss

Fairness == WF_vars(Processor)

Spec == Init /\ [][Next]_vars
FairSpec == Spec /\ Fairness

-----------------------------------------------------------------------------
Cell ==
  {Blank, Torn} \cup {Record(v) : v \in Value \cup {Junk}}
    \cup {Meta(e, at) : e \in Element, at \in 0..Cells}

Pointer ==
  {NullPointer} \cup {RamPointer(v) : v \in Value} \cup {CallerPointer(v) : v \in Value}
    \cup {FlashPointer(p, c) : p \in Page, c \in 1..Cells}

TypeOK ==
  /\ flash \in [Page -> [top : Nat, bottom : Nat, cell : [1..Cells -> Cell]]]
  /\ powered \in BOOLEAN /\ initialised \in BOOLEAN /\ copyPending \in BOOLEAN
  /\ active \in Page /\ counter \in Nat
  /\ lastMeta \in [Page -> 0..Cells] /\ lastUnerased \in [Page -> 0..Cells]
  /\ erase \in [pending : BOOLEAN, page : Page, sector : 1..3]
  /\ queue \in Seq(Element \cup {Cancelled}) /\ Len(queue) <= QueueSize
  /\ head \in 0..(QueueSize - 1)
  /\ data \in [Element -> Pointer]

(***************************************************************************)
(* A restart that goes on as if nothing had happened: between two calls the *)
(* module's page, counter and newest record are the ones it would read back *)
(* from flash, and so is each element's pointer into flash.                 *)
(***************************************************************************)
AgreesWithFlash ==
  initialised /\ todo = <<>> =>
    /\ active = StartPage /\ counter = flash[active].top
    /\ lastMeta[active] = Newest(Metas(active))
    /\ \A e \in Element : IsFlash(e) =>
         /\ data[e].page = active
         /\ MetasOf(active, e) # {}
         /\ data[e].cell = flash[active].cell[Newest(MetasOf(active, e))].at

(***************************************************************************)
(* "one extra meta info space must be kept always free, to be able to       *)
(* perform the meta info search" (NV_Flash.c 5022), "make sure there is at  *)
(* least a free space for a meta between the last one and the data" (5103,  *)
(* NvWriteRecord): without it a restart finds no end of the headers and     *)
(* formats the storage.                                                     *)
(***************************************************************************)
HeadersEndBelowRecords ==
  \A m \in Metas(active) :
    LET c == flash[active].cell[m]
    IN  c.at # 0 => MetaEnd(active) + 1 < c.at

(***************************************************************************)
(* Only what power losses left behind can take the place that is to be kept *)
(* free: if the headers of the page a restart takes have no end (and it     *)
(* would be formatted, NvUpdateLastMetaInfoAddress 3491-3493), a cell of it *)
(* is torn, or belongs to a record that no header leads to.                 *)
(***************************************************************************)
BlankRemains == StartPage # 0 => HasEnd(StartPage)

InRecord(p, i) ==
  \E m \in Metas(p) :
    LET c == flash[p].cell[m] IN c.at # 0 /\ i \in c.at..(c.at + Size(c.element) - 1)
OnlyRemnantsFillPages ==
  BlankRemains \/ \E i \in 1..Cells :
    ~ IsMeta(flash[StartPage].cell[i]) /\ ~ InRecord(StartPage, i)

(***************************************************************************)
(* A start that leaves the module uninitialised - it found no valid header, *)
(* or too little room, and formatted the storage - is not repeated: nothing *)
(* stands in the way of the next one (__NvModuleInit; the application does  *)
(* not look at the result, ApplMain.c 449).                                 *)
(***************************************************************************)
NextStartSucceeds ==
  powered /\ todo = <<>> /\ ~ initialised => StartPage # 0 /\ MetaEnd(StartPage) = 0

(***************************************************************************)
(* A pointer into flash points to a record at every moment, in the middle   *)
(* of a page copy and of the erasing of the old page too: the application   *)
(* reads through it without asking the module (App_NvmRead).                *)
(***************************************************************************)
PointsToRecord ==
  \A e \in Element : IsFlash(e) =>
    HoldsRecord(flash[data[e].page].cell, data[e].cell, Size(e))

(***************************************************************************)
(* Flash is programmed where it is blank only (NvIsMemoryAreaAvailable,     *)
(* NvVirtualPageBlankCheck), whatever earlier power losses left behind.     *)
(***************************************************************************)
ProgramsBlankCells ==
  [][\A p \in Page, i \in 1..Cells :
       \/ flash'[p].cell[i] = flash[p].cell[i]
       \/ Blank \in {flash[p].cell[i], flash'[p].cell[i]}]_vars

(***************************************************************************)
(* The storage keeps the promise of RecordStore through power losses at     *)
(* every step of a save, of a page copy and of erasing the old page, as     *)
(* long as a restart finds the end of the headers.  If it finds none, the   *)
(* start formats the storage, and until it is through the elements are lost *)
(* one after the other.                                                     *)
(***************************************************************************)
Losing == \E i \in 1..Len(todo) : todo[i].do = "formatted" /\ todo[i].lost
Restored ==
  /\ powered /\ ~ Losing
  /\ \A i \in 1..Len(todo) : todo[i].do \notin {"start", "measure", "restore"}

Store == INSTANCE RecordStore WITH
  held <- [e \in Element |-> IF Restored THEN Held(e) ELSE Stored(e)],
  stored <- [e \in Element |-> Stored(e)],
  readable <- BlankRemains /\ ~ Losing
KeepsItsPromise == Store!Spec


(***************************************************************************)
(* Liveness: page copies, erasing and saving come to an end once the        *)
(* application asks for no more.                                            *)
(***************************************************************************)
ComesToRest ==
  <>[](todo = <<>> /\ queue = <<>> /\ ~ copyPending /\ ~ erase.pending)

(***************************************************************************)
(* "Only the latest table entries / elements are copied" (NV_Flash.c,       *)
(* NvCopyPage): what the application reads was stored by somebody.          *)
(***************************************************************************)
ReadsWhatWasStored == \A e \in Element : Held(e) # Junk
=============================================================================

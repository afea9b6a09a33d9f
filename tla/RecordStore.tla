---------------------------- MODULE RecordStore ----------------------------
(***************************************************************************)
(* What the non-volatile memory promises the application about each element *)
(* of its data sets: it holds what was last written to it, a save makes     *)
(* exactly that survive a power loss, and after a power loss the element is *)
(* what was last saved.                                                     *)
(*                                                                         *)
(* Two steps are promised by no document and made by the code.  The storage *)
(* may take an element that was erased and has been written anew, but not   *)
(* saved yet, for one that is stored (NvCopyPage, NV_Flash.c 4241-4249).    *)
(* And a start that cannot read what is stored formats the storage          *)
(* (__NvModuleInit, 2704-2708).                                             *)
(***************************************************************************)
EXTENDS Naturals

CONSTANTS
  Entries,       \* how many elements there are
  Value,         \* what may be stored in one
  None,          \* an element that is erased or was never written
  Junk           \* bytes that nobody wrote

VARIABLES
  held,          \* what the application reads of each element
  stored,        \* what is stored of each element
  readable       \* a restart could read it

storeVars == <<held, stored, readable>>

Content == [1..Entries -> Value \cup {None, Junk}]

Init ==
  /\ held = [e \in 1..Entries |-> None]
  /\ stored = held
  /\ readable = TRUE

(* App_NvmWrite and App_NvmErase.                                           *)
Change(e, v) ==
  /\ held' = [held EXCEPT ![e] = v]
  /\ UNCHANGED stored

(* The element's new record is complete.                                    *)
Save(e) ==
  /\ stored' = [stored EXCEPT ![e] = held[e]]
  /\ UNCHANGED held

Restart ==
  /\ held' = stored
  /\ UNCHANGED stored

(* A page is copied while elements are rewritten whose erasure it records.  *)
Spoil ==
  /\ \E S \in SUBSET {e \in 1..Entries : stored[e] = None /\ held[e] # None} :
       /\ S # {}
       /\ stored' = [e \in 1..Entries |-> IF e \in S THEN Junk ELSE stored[e]]
  /\ UNCHANGED held

(* What cannot be read is lost: a page is formatted, and an older one may   *)
(* come to light for a while.                                               *)
Format ==
  /\ ~ readable
  /\ stored' \in Content
  /\ held' = stored'

(* The storage fills up, or a page with room takes its place.               *)
Turn == UNCHANGED <<held, stored>>

Next ==
  /\ readable' \in BOOLEAN
  /\ \/ Turn \/ Restart
     \/ \E e \in 1..Entries : Save(e) \/ \E v \in Value \cup {None} : Change(e, v)
     \/ Spoil \/ Format

Spec == Init /\ [][Next]_storeVars
=============================================================================

------------------------------ MODULE Keyboard ------------------------------
(***************************************************************************)
(* The keyboard (Keyboard.c, short and long press mode).  The falling edge *)
(* of a key's pin raises Switch_Press_ISR, which starts the interval timer *)
(* of the key scan; the timer task then calls KeyScan until a key has been *)
(* detected, reported and let go.  The interrupt may come between any two  *)
(* steps, in particular after KeyScan has read the pins and before it      *)
(* stops the timer.                                                        *)
(***************************************************************************)
EXTENDS Naturals, FiniteSets

CONSTANTS
    gKBD_KeysCount_c,
    gKbdLongKeyIterations_c,
    gKbdVeryLongKeyIterations_c

ASSUME KeyboardAssumption ==
    /\ gKBD_KeysCount_c \in 1 .. 4
    /\ gKbdLongKeyIterations_c \in Nat \ {0}
    /\ gKbdVeryLongKeyIterations_c \in Nat
    /\ gKbdLongKeyIterations_c < gKbdVeryLongKeyIterations_c

Keys == 0 .. gKBD_KeysCount_c - 1
mNoKey_c == 255
NoEvent == [kind |-> "none", key |-> mNoKey_c]
Kinds == {"short", "long", "veryLong"}
Events == [kind : Kinds, key : Keys]

VARIABLES
    down,           \* keys that are held down
    edges,          \* pins whose interrupt is pending
    scanning,       \* the timer of mKeyScanTimerID is running
    mKeyState,
    pressedKey,
    mLongKeyCount,
    stopping,       \* KeyScan has decided to stop its timer
    event,          \* what the last step has passed to mpfKeyFunction
    unreported,     \* history: keys pressed since they were last reported
    raced           \* history: keys pressed while KeyScan was stopping

pins    == <<down, edges>>
scan    == <<mKeyState, pressedKey, mLongKeyCount>>
history == <<unreported, raced>>
vars    == <<pins, scanning, scan, stopping, event, history>>

TypeOK ==
    /\ down \subseteq Keys
    /\ edges \subseteq Keys
    /\ scanning \in BOOLEAN
    /\ mKeyState \in {"Idle", "Detected", "WaitRelease"}
    /\ pressedKey \in Keys \cup {mNoKey_c}
    /\ mLongKeyCount \in 0 .. gKbdVeryLongKeyIterations_c
    /\ stopping \in BOOLEAN
    /\ event \in Events \cup {NoEvent}
    /\ unreported \subseteq Keys
    /\ raced \subseteq Keys

Init ==
    /\ down = {} /\ edges = {}
    /\ scanning = FALSE
    /\ mKeyState = "Idle" /\ pressedKey = 0 /\ mLongKeyCount = 0
    /\ stopping = FALSE
    /\ event = NoEvent
    /\ unreported = {} /\ raced = {}

-----------------------------------------------------------------------------
(* The keys and their interrupt.                                           *)

Press(k) ==
    /\ k \notin down
    /\ down' = down \cup {k}
    /\ edges' = edges \cup {k}
    /\ event' = NoEvent
    /\ unreported' = unreported \cup {k}
    /\ raced' = IF stopping THEN raced \cup {k} ELSE raced \ {k}
    /\ UNCHANGED <<scanning, scan, stopping>>

Release(k) ==
    /\ k \in down
    /\ down' = down \ {k}
    /\ event' = NoEvent
    /\ UNCHANGED <<edges, scanning, scan, stopping, history>>

\* TMR_StartIntervalTimer starts the timer again if it is running.
Switch_Press_ISR ==
    /\ edges # {}
    /\ edges' = {}
    /\ scanning' = TRUE
    /\ event' = NoEvent
    /\ UNCHANGED <<down, scan, stopping, history>>

-----------------------------------------------------------------------------
(* The scan.  KeyScan reads the pins one after the other; a key pressed or *)
(* let go meanwhile counts here as pressed or let go before or after.      *)

\* The first key of the port that is down; the others do not count.
FirstDown ==
    IF down = {} THEN mNoKey_c ELSE CHOOSE k \in down : \A l \in down : k <= l

\* Saturates at the last threshold, beyond which the count tells nothing.
CountScan ==
    mLongKeyCount' = IF mLongKeyCount < gKbdVeryLongKeyIterations_c
                       THEN mLongKeyCount + 1 ELSE mLongKeyCount

PressKind ==
    IF mLongKeyCount >= gKbdVeryLongKeyIterations_c THEN "veryLong"
    ELSE IF mLongKeyCount >= gKbdLongKeyIterations_c THEN "long" ELSE "short"

\* KeyScan runs when its timer has expired, one call at a time.
Scans(state) == scanning /\ ~stopping /\ mKeyState = state

ScanIdle ==
    /\ Scans("Idle")
    /\ pressedKey' = FirstDown
    /\ IF down # {}
          THEN /\ mKeyState' = "Detected"
               /\ mLongKeyCount' = 0
               /\ UNCHANGED stopping
          ELSE /\ stopping' = TRUE
               /\ UNCHANGED <<mKeyState, mLongKeyCount>>
    /\ event' = NoEvent
    /\ UNCHANGED <<pins, scanning, history>>

\* KBD_KeyCheck: the pressed key is still the first one down.
KBD_KeyCheck == pressedKey = FirstDown

ScanHeld ==
    /\ Scans("Detected")
    /\ KBD_KeyCheck
    /\ CountScan
    /\ event' = NoEvent
    /\ UNCHANGED <<pins, scanning, mKeyState, pressedKey, stopping, history>>

\* Mutant: the key is not waited for.
BackToIdle == mKeyState' = "Idle"
WaitForRelease == mKeyState' = "WaitRelease"

ScanReports ==
    /\ Scans("Detected")
    /\ ~KBD_KeyCheck
    /\ event' = IF pressedKey # mNoKey_c
                  THEN [kind |-> PressKind, key |-> pressedKey] ELSE NoEvent
    /\ WaitForRelease
    /\ unreported' = unreported \ {pressedKey}
    /\ UNCHANGED <<pins, scanning, pressedKey, mLongKeyCount, stopping, raced>>

\* Mutant: any release will do.
SomeKeyIsUp == down # Keys
AllKeysAreUp == down = {}

ScanWaits ==
    /\ Scans("WaitRelease")
    /\ IF AllKeysAreUp
          THEN mKeyState' = "Idle" /\ stopping' = TRUE
          ELSE UNCHANGED <<mKeyState, stopping>>
    /\ event' = NoEvent
    /\ UNCHANGED <<pins, scanning, pressedKey, mLongKeyCount, history>>

\* Mutant: the timer goes on.
KeepTimer == UNCHANGED scanning
StopTimer == scanning' = FALSE

\* TMR_StopTimer, whatever the interrupt has done since the pins were read.
StopScan ==
    /\ stopping
    /\ StopTimer
    /\ stopping' = FALSE
    /\ event' = NoEvent
    /\ UNCHANGED <<pins, scan, history>>

KeyScan == ScanIdle \/ ScanHeld \/ ScanReports \/ ScanWaits \/ StopScan

Next ==
    \/ \E k \in Keys : Press(k) \/ Release(k)
    \/ Switch_Press_ISR
    \/ KeyScan

Spec == Init /\ [][Next]_vars

\* Interrupts are served, and a running timer expires (TimersManager,
\* EventuallyExpires) unless it is restarted for ever.
FairSpec == Spec /\ WF_vars(Switch_Press_ISR) /\ WF_vars(KeyScan)

-----------------------------------------------------------------------------
(* Properties.                                                             *)

\* With the scan at rest, a key that is down and not being looked at was
\* pressed between the moment KeyScan found all pins up and the moment it
\* stopped the timer that the interrupt had just started.  No other press is
\* missed, and the next press is scanned again.
OnlyRacedPressesAreMissed ==
    ~scanning /\ edges = {} => mKeyState = "Idle" /\ down \subseteq raced

\* A press is reported once: KeyScan reports a key only if it has been
\* pressed since it was last reported, however long it is held, whatever
\* other keys do, and wherever the interrupt restarts the timer.
PressesAreReportedOnce ==
    [][event' # NoEvent => event'.key \in unreported]_vars

\* Once all keys are let go, the scan comes to rest.
ComesToRest == <>[](down = {}) => <>[](mKeyState = "Idle" /\ ~scanning)

\* "Check to see if the key is still pressed. Ignore other pressed keys": a
\* key is not reported while it is held down.
IgnoresOtherKeys == [][event' # NoEvent => event'.key \notin down]_vars
=============================================================================

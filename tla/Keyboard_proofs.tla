-------------------------- MODULE Keyboard_proofs --------------------------
(***************************************************************************)
(* Proofs about Keyboard: for every number of keys and both thresholds,    *)
(* wherever presses, releases and interrupts fall.                         *)
(***************************************************************************)
EXTENDS Keyboard, TLAPS

\* KBD_KeySwitchPortGet and KBD_KeyCheck find a key if one is down.
LEMMA FirstIsDown ==
    ASSUME down # {}, down \subseteq Keys
    PROVE  FirstDown \in down
<1>1. Keys \subseteq 0 .. 3
  BY KeyboardAssumption DEF Keys
<1>2. \E k \in down : \A l \in down : k <= l
  <2>1. CASE 0 \in down
    BY <1>1, <2>1
  <2>2. CASE 0 \notin down /\ 1 \in down
    BY <1>1, <2>2
  <2>3. CASE 0 \notin down /\ 1 \notin down /\ 2 \in down
    BY <1>1, <2>3
  <2>4. CASE 0 \notin down /\ 1 \notin down /\ 2 \notin down
    <3>1. \A l \in down : l = 3
      BY <1>1, <2>4
    <3> QED
      BY <3>1
  <2> QED
    BY <2>1, <2>2, <2>3, <2>4
<1> QED
  BY <1>2 DEF FirstDown

-----------------------------------------------------------------------------
(* The inductive invariant.                                                *)

\* Whatever is down while KeyScan is stopping was pressed while it was: the
\* key is read by no scan, and its interrupt may come too early.
StopsAtRest == stopping => scanning /\ mKeyState = "Idle" /\ down \subseteq raced

\* The timer runs until the scan is back at Idle.
ScanGoesOn == mKeyState # "Idle" => scanning

\* Without the timer, a key that is down was raced or is about to interrupt.
RestIsRaced == ~scanning => down \subseteq raced \cup edges

\* The key of the scan has not been reported since it was pressed ...
DetectedOnce == mKeyState = "Detected" => pressedKey \in unreported

\* ... because no key that is down when a scan begins has been: the keys that
\* were have all been let go.
IdleIsUnreported == mKeyState = "Idle" => down \subseteq unreported

IInv ==
    /\ TypeOK
    /\ StopsAtRest /\ ScanGoesOn /\ RestIsRaced
    /\ DetectedOnce /\ IdleIsUnreported

LEMMA InitIInv == Init => IInv
<1> SUFFICES ASSUME Init PROVE IInv
  OBVIOUS
<1>1. 0 \in Keys /\ 0 \in 0 .. gKbdVeryLongKeyIterations_c
  BY KeyboardAssumption DEF Keys
<1>2. TypeOK
  BY <1>1 DEF Init, TypeOK
<1> QED
  BY <1>2 DEF Init, IInv, StopsAtRest, ScanGoesOn, RestIsRaced, DetectedOnce,
              IdleIsUnreported

LEMMA NextIInv == IInv /\ [Next]_vars => IInv'
<1> SUFFICES ASSUME IInv, [Next]_vars
             PROVE  IInv'
  OBVIOUS
<1> USE DEF IInv, TypeOK, StopsAtRest, ScanGoesOn, RestIsRaced, DetectedOnce,
            IdleIsUnreported
<1>1. ASSUME NEW k \in Keys, Press(k) PROVE IInv'
  <2>1. TypeOK'
    BY <1>1 DEF Press, scan, NoEvent
  <2>2. (StopsAtRest /\ ScanGoesOn /\ RestIsRaced)'
    BY <1>1 DEF Press, scan
  <2>3. (DetectedOnce /\ IdleIsUnreported)'
    BY <1>1 DEF Press, scan
  <2> QED
    BY <2>1, <2>2, <2>3
<1>2. ASSUME NEW k \in Keys, Release(k) PROVE IInv'
  <2>1. TypeOK'
    BY <1>2 DEF Release, scan, history, NoEvent
  <2> QED
    BY <1>2, <2>1 DEF Release, scan, history
<1>3. CASE Switch_Press_ISR
  <2>1. TypeOK'
    BY <1>3 DEF Switch_Press_ISR, scan, history, NoEvent
  <2> QED
    BY <1>3, <2>1 DEF Switch_Press_ISR, scan, history
<1>4. CASE ScanIdle
  <2>1. pressedKey' = FirstDown /\ UNCHANGED <<down, edges, scanning, unreported, raced>>
    BY <1>4 DEF ScanIdle, pins, history
  <2>2. scanning /\ ~stopping /\ mKeyState = "Idle"
    BY <1>4 DEF ScanIdle, Scans
  <2>3. event' \in Events \cup {NoEvent}
    BY <1>4 DEF ScanIdle
  <2>4. CASE down = {}
    <3>1. mKeyState' = mKeyState /\ mLongKeyCount' = mLongKeyCount /\ stopping' = TRUE
      BY <1>4, <2>4 DEF ScanIdle
    <3>2. pressedKey' = mNoKey_c
      BY <2>1, <2>4 DEF FirstDown
    <3> QED
      BY <2>1, <2>2, <2>3, <2>4, <3>1, <3>2
  <2>5. CASE down # {}
    <3>1. mKeyState' = "Detected" /\ mLongKeyCount' = 0 /\ stopping' = stopping
      BY <1>4, <2>5 DEF ScanIdle
    <3>2. pressedKey' \in down
      BY <2>1, <2>5, FirstIsDown
    <3>3. 0 \in 0 .. gKbdVeryLongKeyIterations_c
      BY KeyboardAssumption
    <3> QED
      BY <2>1, <2>2, <2>3, <2>5, <3>1, <3>2, <3>3
  <2> QED
    BY <2>4, <2>5
<1>5. CASE ScanHeld
  <2>1. UNCHANGED <<down, edges, scanning, mKeyState, pressedKey, stopping, unreported, raced>>
    BY <1>5 DEF ScanHeld, pins, history
  <2>2. mLongKeyCount' \in 0 .. gKbdVeryLongKeyIterations_c
    BY <1>5, KeyboardAssumption DEF ScanHeld, CountScan
  <2>3. event' \in Events \cup {NoEvent}
    BY <1>5 DEF ScanHeld
  <2> QED
    BY <2>1, <2>2, <2>3
<1>6. CASE ScanReports
  <2>1. UNCHANGED <<down, edges, scanning, pressedKey, mLongKeyCount, stopping, raced>>
    BY <1>6 DEF ScanReports, pins
  <2>2. scanning /\ ~stopping /\ mKeyState' = "WaitRelease" /\ unreported' \subseteq Keys
    BY <1>6 DEF ScanReports, Scans, WaitForRelease
  <2>3. event' \in Events \cup {NoEvent}
    <3>1. PressKind \in Kinds
      BY DEF PressKind, Kinds
    <3> QED
      BY <1>6, <3>1 DEF ScanReports, Events
  <2> QED
    BY <2>1, <2>2, <2>3
<1>7. CASE ScanWaits
  <2>1. UNCHANGED <<down, edges, scanning, pressedKey, mLongKeyCount, unreported, raced>>
    BY <1>7 DEF ScanWaits, pins, history
  <2>2. scanning /\ ~stopping /\ mKeyState = "WaitRelease"
    BY <1>7 DEF ScanWaits, Scans
  <2>3. \/ down = {} /\ mKeyState' = "Idle" /\ stopping' = TRUE
        \/ UNCHANGED <<mKeyState, stopping>>
    BY <1>7 DEF ScanWaits, AllKeysAreUp
  <2>4. event' \in Events \cup {NoEvent}
    BY <1>7 DEF ScanWaits
  <2>5. CASE down = {} /\ mKeyState' = "Idle" /\ stopping' = TRUE
    BY <2>1, <2>2, <2>4, <2>5
  <2>6. CASE UNCHANGED <<mKeyState, stopping>>
    BY <2>1, <2>2, <2>4, <2>6
  <2> QED
    BY <2>3, <2>5, <2>6
<1>8. CASE StopScan
  <2>1. UNCHANGED <<down, edges, mKeyState, pressedKey, mLongKeyCount, unreported, raced>>
    BY <1>8 DEF StopScan, pins, scan, history
  <2>2. stopping /\ stopping' = FALSE /\ scanning' = FALSE
    BY <1>8 DEF StopScan, StopTimer
  <2>3. event' \in Events \cup {NoEvent}
    BY <1>8 DEF StopScan
  <2> QED
    BY <2>1, <2>2, <2>3
<1>9. CASE UNCHANGED vars
  BY <1>9 DEF vars, pins, scan, history
<1> QED
  BY <1>1, <1>2, <1>3, <1>4, <1>5, <1>6, <1>7, <1>8, <1>9 DEF Next, KeyScan

THEOREM Invariance == Spec => []IInv
  BY InitIInv, NextIInv, PTL DEF Spec

-----------------------------------------------------------------------------
(* The theorems.                                                           *)

\* The keyboard's variables keep their types; in particular the key that is
\* reported is one of the keys, never mNoKey_c.
THEOREM KeyboardTypeCorrect == Spec => []TypeOK
  BY Invariance, PTL DEF IInv

\* When the timer is at rest and no interrupt is pending, the scan is at rest
\* too, and a key that is down was pressed while KeyScan stopped its timer.
THEOREM OnlyRacesMissPresses == Spec => []OnlyRacedPressesAreMissed
<1>1. IInv => OnlyRacedPressesAreMissed
  BY DEF IInv, ScanGoesOn, RestIsRaced, OnlyRacedPressesAreMissed
<1> QED
  BY <1>1, Invariance, PTL

\* A key that is reported has been pressed since it was last reported.
THEOREM OneReportAPress == Spec => PressesAreReportedOnce
<1>1. IInv /\ [Next]_vars => [event' # NoEvent => event'.key \in unreported]_vars
  <2> SUFFICES ASSUME IInv, Next, event' # NoEvent
               PROVE  event'.key \in unreported
    OBVIOUS
  <2>1. CASE ScanReports
    <3>1. mKeyState = "Detected"
      BY <2>1 DEF ScanReports, Scans
    <3>2. pressedKey \in unreported
      BY <3>1 DEF IInv, DetectedOnce
    <3>3. event' = [kind |-> PressKind, key |-> pressedKey]
      BY <2>1 DEF ScanReports
    <3> QED
      BY <3>2, <3>3
  <2>2. CASE ~ScanReports
    BY <2>2 DEF Next, KeyScan, Press, Release, Switch_Press_ISR, ScanIdle,
                ScanHeld, ScanWaits, StopScan
  <2> QED
    BY <2>1, <2>2
<1> QED
  BY <1>1, Invariance, PTL DEF Spec, PressesAreReportedOnce
=============================================================================

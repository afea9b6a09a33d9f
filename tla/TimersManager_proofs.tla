------------------------ MODULE TimersManager_proofs ------------------------
(***************************************************************************)
(* Proofs about TimersManager for every size of the timer table, every     *)
(* counter width and every set of intervals and timer types.               *)
(*                                                                         *)
(* The inductive invariant is the conjunction of the type invariant, of    *)
(* the three safety invariants, and of what holds between the critical     *)
(* sections: none of the three is inductive alone, because the clock is    *)
(* stopped and started on the values of the two counters, and the counters *)
(* stay natural numbers only while they count something; the timer of a    *)
(* call under way stays stopped; and the countdown that TMR_Task has found *)
(* long enough is still long enough when it is decremented.                *)
(***************************************************************************)
EXTENDS TimersManager, FiniteSetTheorems, TLAPS

LEMMA ZeroIsATick == Wrap \in Nat /\ 0 \in 0 .. Wrap - 1
  BY TimerAssumption

LEMMA TimersFinite == IsFiniteSet(Timers)
  BY TimerAssumption, FS_Interval DEF Timers

LEMMA SubsetFinite ==
  ASSUME NEW S \in SUBSET Timers
  PROVE  /\ IsFiniteSet(S)
         /\ Cardinality(S) \in Nat
         /\ Cardinality(S) = 0 <=> S = {}
  BY TimersFinite, FS_Subset, FS_CardinalityType, FS_EmptySet

LEMMA Less ==
  ASSUME NEW S \in SUBSET Timers, NEW t \in Timers
  PROVE  /\ t \in S => Cardinality(S \ {t}) = Cardinality(S) - 1
         /\ t \notin S => Cardinality(S \ {t}) = Cardinality(S)
  BY SubsetFinite, FS_RemoveElement

LEMMA More ==
  ASSUME NEW S \in SUBSET Timers, NEW t \in Timers, t \notin S
  PROVE  Cardinality(S \cup {t}) = Cardinality(S) + 1
  BY SubsetFinite, FS_AddElement

LEMMA KindsOfTimers ==
  /\ ActiveTimers \in SUBSET Timers
  /\ LowPowerTimers \in SUBSET Timers
  /\ RunningTimers = ActiveTimers \cup LowPowerTimers
  /\ \A t \in Timers :
        /\ t \in ActiveTimers <=> Running(t) /\ "LowPower" \notin type[t]
        /\ t \in LowPowerTimers <=> Running(t) /\ "LowPower" \in type[t]
  BY DEF ActiveTimers, LowPowerTimers, RunningTimers

\* What TMR_StopTimer leaves in the counters: the timers running, but for t.
LEMMA AfterStopCounts ==
  ASSUME CountsMatch, NEW t \in Timers
  PROVE  /\ ActiveAfterStop(t) = Cardinality(ActiveTimers \ {t})
         /\ LowPowerAfterStop(t) = Cardinality(LowPowerTimers \ {t})
         /\ ActiveAfterStop(t) \in Nat
         /\ LowPowerAfterStop(t) \in Nat
  <1>1. /\ Cardinality(ActiveTimers) \in Nat
        /\ Cardinality(LowPowerTimers) \in Nat
        /\ Cardinality(ActiveTimers \ {t}) \in Nat
        /\ Cardinality(LowPowerTimers \ {t}) \in Nat
    BY KindsOfTimers, SubsetFinite
  <1>2. ActiveAfterStop(t) = Cardinality(ActiveTimers \ {t})
    BY <1>1, KindsOfTimers, Less DEF ActiveAfterStop, One, CountsMatch
  <1>3. LowPowerAfterStop(t) = Cardinality(LowPowerTimers \ {t})
    BY <1>1, KindsOfTimers, Less DEF LowPowerAfterStop, One, CountsMatch
  <1>4. QED
    BY <1>1, <1>2, <1>3

\* The clock is stopped exactly when no other timer runs.
LEMMA ClockStops ==
  ASSUME CountsMatch, NEW t \in Timers
  PROVE  ActiveAfterStop(t) = 0 /\ LowPowerAfterStop(t) = 0
            <=> RunningTimers \ {t} = {}
  <1>1. /\ Cardinality(ActiveTimers \ {t}) = 0 <=> ActiveTimers \ {t} = {}
        /\ Cardinality(LowPowerTimers \ {t}) = 0 <=> LowPowerTimers \ {t} = {}
    BY KindsOfTimers, SubsetFinite
  <1>2. QED
    BY <1>1, KindsOfTimers, AfterStopCounts

LEMMA Modulo ==
  ASSUME NEW n \in Int
  PROVE  n % Wrap \in 0 .. Wrap - 1
  BY TimerAssumption

LEMMA TicksType ==
  ASSUME NEW a \in 0 .. Wrap - 1, NEW b \in 0 .. Wrap - 1
  PROVE  Ticks(a, b) \in 0 .. Wrap - 1
  BY TimerAssumption DEF Ticks

-----------------------------------------------------------------------------
(* TMR_StopTimer, TMR_FreeTimer, and the stop of an expired single-shot.   *)

LEMMA StopKeepsCounts ==
  ASSUME TypeOK, CountsMatch, NEW t \in Timers, NEW to \in {"Free", "Inactive"},
         StopTo(t, to), \A u \in Timers \ {t} : type'[u] = type[u]
  PROVE  /\ CountsMatch'
         /\ RunningTimers' = RunningTimers \ {t}
         /\ status' \in [Timers -> Statuses]
         /\ numberOfActiveTimers' \in Nat
         /\ numberOfLowPowerActiveTimers' \in Nat
         /\ timerHardwareIsRunning' \in BOOLEAN
         /\ counter' \in 0 .. Wrap - 1
  <1>1. status' \in [Timers -> Statuses]
    BY DEF TypeOK, StopTo, Statuses
  <1>2. \A u \in Timers : Running(u)' <=> Running(u) /\ u # t
    BY DEF TypeOK, StopTo, Running
  <1>3. RunningTimers' = RunningTimers \ {t}
    BY <1>2 DEF RunningTimers
  <1>4. /\ LowPowerTimers' = LowPowerTimers \ {t}
        /\ ActiveTimers' = ActiveTimers \ {t}
    BY <1>3 DEF LowPowerTimers, ActiveTimers, RunningTimers
  <1>5. CountsMatch'
    BY <1>4, AfterStopCounts DEF StopTo, CountsMatch
  <1>6. numberOfActiveTimers' \in Nat /\ numberOfLowPowerActiveTimers' \in Nat
    BY AfterStopCounts DEF StopTo
  <1>7. timerHardwareIsRunning' \in BOOLEAN /\ counter' \in 0 .. Wrap - 1
    <2>1. CASE DisableClock
      BY <2>1, ZeroIsATick DEF TypeOK, DisableClock
    <2>2. CASE UNCHANGED hardware
      BY <2>2 DEF TypeOK, hardware
    <2>3. QED
      BY <2>1, <2>2 DEF StopTo, ClockAfterStop
  <1>8. QED
    BY <1>1, <1>3, <1>5, <1>6, <1>7

LEMMA StopKeepsClock ==
  ASSUME TypeOK, CountsMatch, ClockRuns, NEW t \in Timers,
         NEW to \in {"Free", "Inactive"},
         StopTo(t, to), \A u \in Timers \ {t} : type'[u] = type[u],
         pc' = "idle" => pc = "idle"
  PROVE  ClockRuns'
  <1>1. RunningTimers' = RunningTimers \ {t}
    BY StopKeepsCounts
  <1>2. \A u \in Timers : status'[u] = "Active" =>
            status[u] = "Active" /\ u \in RunningTimers'
    <2>1. \A u \in Timers : u # t => status'[u] = status[u]
      BY DEF TypeOK, StopTo
    <2>2. status'[t] \in {"Free", "Inactive"}
      BY DEF TypeOK, StopTo
    <2>3. QED
      BY <1>1, <2>1, <2>2 DEF RunningTimers, Running
  <1>3. CASE Running(t) /\ RunningTimers \ {t} = {}
    <2>1. timerHardwareIsRunning' = FALSE
      BY <1>3, ClockStops DEF StopTo, ClockAfterStop, DisableClock
    <2>2. \A u \in Timers : status'[u] # "Active"
      BY <1>1, <1>2, <1>3
    <2>3. QED
      BY <2>1, <2>2 DEF ClockRuns
  <1>4. CASE ~Running(t) \/ RunningTimers \ {t} # {}
    <2>1. UNCHANGED timerHardwareIsRunning
      BY <1>4, ClockStops DEF StopTo, ClockAfterStop, hardware
    <2>2. RunningTimers # {} => RunningTimers' # {}
      BY <1>1, <1>4 DEF RunningTimers
    <2>3. QED
      BY <1>2, <2>1, <2>2 DEF ClockRuns
  <1>5. QED
    BY <1>3, <1>4

-----------------------------------------------------------------------------
(* TMR_StartTimer, called by a task, a callback or the key interrupt.      *)

LEMMA StartKeepsCounts ==
  ASSUME TypeOK, CountsMatch, NEW t \in Timers, NEW ty \in SUBSET Flags,
         NEW i \in Nat, StartTimer(t, ty, i)
  PROVE  /\ call' \in Calls => TypeOK'
         /\ CountsMatch'
         /\ RunningTimers' = RunningTimers \cup {t}
  <1>1. /\ status' \in [Timers -> Statuses]
        /\ type' \in [Timers -> SUBSET Flags]
    BY DEF TypeOK, StartTimer, Statuses
  <1>2. /\ Running(t)'
        /\ \A u \in Timers : u # t => (Running(u)' <=> Running(u))
    BY DEF TypeOK, StartTimer, Running
  <1>3. RunningTimers' = RunningTimers \cup {t}
    BY <1>2 DEF RunningTimers
  <1>4. type'[t] = ty /\ \A u \in Timers : u # t => type'[u] = type[u]
    BY DEF TypeOK, StartTimer
  <1>5. CountsMatch' /\ numberOfActiveTimers' \in Nat
                     /\ numberOfLowPowerActiveTimers' \in Nat
    <2>1. CASE "LowPower" \in ty
      <3>1. /\ LowPowerTimers' = (LowPowerTimers \ {t}) \cup {t}
            /\ ActiveTimers' = ActiveTimers \ {t}
        BY <1>3, <1>4, <2>1 DEF LowPowerTimers, ActiveTimers, RunningTimers
      <3>2. /\ numberOfActiveTimers' = Cardinality(ActiveTimers \ {t})
            /\ numberOfLowPowerActiveTimers' = Cardinality(LowPowerTimers \ {t}) + 1
        BY <2>1, AfterStopCounts DEF StartTimer, One
      <3>3. Cardinality((LowPowerTimers \ {t}) \cup {t})
                = Cardinality(LowPowerTimers \ {t}) + 1
        BY KindsOfTimers, More
      <3>4. QED
        BY <3>1, <3>2, <3>3, AfterStopCounts DEF CountsMatch
    <2>2. CASE "LowPower" \notin ty
      <3>1. /\ LowPowerTimers' = LowPowerTimers \ {t}
            /\ ActiveTimers' = (ActiveTimers \ {t}) \cup {t}
        BY <1>3, <1>4, <2>2 DEF LowPowerTimers, ActiveTimers, RunningTimers
      <3>2. /\ numberOfActiveTimers' = Cardinality(ActiveTimers \ {t}) + 1
            /\ numberOfLowPowerActiveTimers' = Cardinality(LowPowerTimers \ {t})
        BY <2>2, AfterStopCounts DEF StartTimer, One
      <3>3. Cardinality((ActiveTimers \ {t}) \cup {t})
                = Cardinality(ActiveTimers \ {t}) + 1
        BY KindsOfTimers, More
      <3>4. QED
        BY <3>1, <3>2, <3>3, AfterStopCounts DEF CountsMatch
    <2>3. QED
      BY <2>1, <2>2
  <1>6. timerHardwareIsRunning' \in BOOLEAN /\ counter' \in 0 .. Wrap - 1
    <2>1. CASE DisableClock
      BY <2>1, ZeroIsATick DEF TypeOK, DisableClock
    <2>2. CASE UNCHANGED hardware
      BY <2>2 DEF TypeOK, hardware
    <2>3. QED
      BY <2>1, <2>2 DEF StartTimer, ClockAfterStop
  <1>7. /\ intervalInTicks' \in [Timers -> Nat]
        /\ remainingTicks' \in [Timers -> Nat]
        /\ age' \in [Timers -> Nat]
        /\ origin' \in [Timers -> {"none", "task", "pass", "reload"}]
    BY DEF TypeOK, StartTimer
  <1>8. event' = TRUE /\ UNCHANGED <<compare, bTimerServPending, previousTimeInTicks,
            pc, timerID, currentTimeInTicks, ticksSinceLastHere, nextInterruptTime, late>>
    BY DEF StartTimer, WakeTask, locals
  <1>9. call' \in Calls => TypeOK'
    BY <1>1, <1>5, <1>6, <1>7, <1>8 DEF TypeOK
  <1>10. QED
    BY <1>3, <1>5, <1>9

LEMMA StartKeepsClock ==
  ASSUME TypeOK, CountsMatch, ClockRuns, NEW t \in Timers,
         NEW ty \in SUBSET Flags, NEW i \in Nat, StartTimer(t, ty, i)
  PROVE  ClockRuns'
  <1>1. t \in RunningTimers'
    BY StartKeepsCounts
  <1>2. /\ status'[t] = "Ready"
        /\ \A u \in Timers : u # t => status'[u] = status[u]
    BY DEF TypeOK, StartTimer
  <1>3. CASE Running(t) /\ RunningTimers \ {t} = {}
    BY <1>1, <1>2, <1>3 DEF ClockRuns, RunningTimers, Running
  <1>4. CASE ~(Running(t) /\ RunningTimers \ {t} = {})
    <2>1. UNCHANGED timerHardwareIsRunning
      BY <1>4, ClockStops DEF StartTimer, ClockAfterStop, hardware
    <2>2. UNCHANGED pc
      BY DEF StartTimer
    <2>3. QED
      BY <1>1, <1>2, <2>1, <2>2 DEF ClockRuns
  <1>5. QED
    BY <1>3, <1>4

-----------------------------------------------------------------------------
(* The inductive invariant.                                                *)

\* A call under way: its timer is stopped, and TMR_Task waits for its end.
CallInv ==
    call # NoCall =>
        /\ pc \in {"idle", "callback"}
        /\ call.timer \notin IsrTimers
        /\ status[call.timer] = "Inactive"

\* The key interrupt never shortens a countdown, so what TMR_Task has found
\* before it decrements the countdown still holds when it does.
CountdownInv ==
    /\ pc = "subtract" => remainingTicks[timerID] > ticksSinceLastHere
    /\ \A t \in IsrTimers : /\ remainingTicks[t] <= gKeyScanInterval_c
                             /\ intervalInTicks[t] <= gKeyScanInterval_c

IInv ==
    /\ TypeOK /\ CallInv /\ CountdownInv
    /\ CountsMatch /\ ReadyIsSeen /\ ClockRuns

LEMMA NoCallType == NoCall \in Calls
  BY TimerAssumption DEF NoCall, Calls, Timers

LEMMA InitIInv == Init => IInv
  <1> SUFFICES ASSUME Init PROVE IInv
    OBVIOUS
  <1>1. TypeOK
    <2>1. 0 \in 0 .. gTmrTotalTimers_c
      BY TimerAssumption
    <2>2. QED
      BY <2>1, ZeroIsATick, NoCallType DEF Init, TypeOK, Statuses
  <1>2. RunningTimers = {}
    BY DEF Init, RunningTimers, Running
  <1>3. CountsMatch
    <2>1. ActiveTimers = {} /\ LowPowerTimers = {}
      BY <1>2 DEF ActiveTimers, LowPowerTimers
    <2>2. QED
      BY <2>1, FS_EmptySet DEF Init, CountsMatch
  <1>4. ReadyIsSeen /\ ClockRuns
    BY DEF Init, ReadyIsSeen, ClockRuns
  <1>5. CallInv /\ CountdownInv
    BY TimerAssumption DEF Init, CallInv, CountdownInv
  <1>6. QED
    BY <1>1, <1>3, <1>4, <1>5 DEF IInv

\* A step that leaves alone which timers run, and their kinds.
LEMMA SameTimers ==
  ASSUME CountsMatch, UNCHANGED <<type, counts>>,
         \A t \in Timers : Running(t)' <=> Running(t)
  PROVE  CountsMatch' /\ RunningTimers' = RunningTimers
  <1>1. RunningTimers' = RunningTimers
    BY DEF RunningTimers
  <1>2. LowPowerTimers' = LowPowerTimers /\ ActiveTimers' = ActiveTimers
    BY <1>1 DEF LowPowerTimers, ActiveTimers
  <1>3. QED
    BY <1>1, <1>2 DEF CountsMatch, counts

LEMMA AllocateStep ==
  ASSUME IInv, TMR_AllocateTimer PROVE IInv'
  <1>1. PICK t \in Timers : /\ status[t] = "Free"
                            /\ status' = [status EXCEPT ![t] = "Inactive"]
    BY DEF TMR_AllocateTimer
  <1>2. \A u \in Timers : /\ Running(u)' <=> Running(u)
                          /\ status'[u] = "Ready" <=> status[u] = "Ready"
                          /\ status'[u] = "Active" <=> status[u] = "Active"
    BY <1>1 DEF IInv, TypeOK, Running
  <1>3. /\ UNCHANGED <<type, intervalInTicks, remainingTicks, counts, hardware,
                       compare, bTimerServPending, event, call,
                       previousTimeInTicks, pc, timerID, locals,
                       nextInterruptTime, late, history>>
        /\ call = NoCall
    BY DEF TMR_AllocateTimer, ClientMayCall
  <1>4. TypeOK'
    BY <1>1, <1>3 DEF IInv, TypeOK, Statuses, counts, hardware, locals, history
  <1>5. CountsMatch' /\ RunningTimers' = RunningTimers
    BY <1>2, <1>3, SameTimers DEF IInv
  <1>6. ReadyIsSeen'
    BY <1>2, <1>3 DEF IInv, ReadyIsSeen
  <1>7. ClockRuns'
    BY <1>2, <1>3, <1>5 DEF IInv, ClockRuns, hardware
  <1>8. CallInv' /\ CountdownInv'
    BY <1>3 DEF IInv, CallInv, CountdownInv, locals
  <1>9. QED
    BY <1>4, <1>5, <1>6, <1>7, <1>8 DEF IInv

LEMMA StartStep ==
  ASSUME IInv, NEW t \in Timers, NEW ty \in SUBSET Flags, NEW i \in Nat,
         StartTimer(t, ty, i), call' \in Calls, CallInv', CountdownInv'
  PROVE  IInv'
  <1>1. TypeOK' /\ CountsMatch'
    BY StartKeepsCounts DEF IInv
  <1>2. ClockRuns'
    BY StartKeepsClock DEF IInv
  <1>3. ReadyIsSeen'
    BY DEF StartTimer, WakeTask, ReadyIsSeen
  <1>4. QED
    BY <1>1, <1>2, <1>3 DEF IInv

\* The second half of TMR_StartTimer, on the timer its first half has stopped.
LEMMA EnableStarts ==
  ASSUME IInv, TMR_EnableTimer
  PROVE  /\ call.timer \in Timers \ IsrTimers
         /\ call' = NoCall
         /\ pc \in {"idle", "callback"}
         /\ \E ty \in SUBSET Flags, i \in Intervals : StartTimer(call.timer, ty, i)
  <1>1. call # NoCall /\ call \in Calls
    BY DEF IInv, TypeOK, TMR_EnableTimer, NoCall
  <1>2. QED
    BY <1>1, TimerAssumption DEF IInv, CallInv, TMR_EnableTimer, Calls

LEMMA EnableStep ==
  ASSUME IInv, TMR_EnableTimer PROVE IInv'
  <1>1. PICK t \in Timers, ty \in SUBSET Flags, i \in Intervals :
            StartTimer(t, ty, i) /\ t \notin IsrTimers
    BY EnableStarts
  <1>2. call' = NoCall /\ pc \in {"idle", "callback"} /\ i \in Nat
    BY EnableStarts, TimerAssumption
  <1>3. call' \in Calls /\ CallInv'
    BY <1>2, NoCallType DEF CallInv
  <1>4. CountdownInv'
    <2>1. \A u \in IsrTimers : /\ remainingTicks'[u] = remainingTicks[u]
                               /\ intervalInTicks'[u] = intervalInTicks[u]
      BY <1>1, TimerAssumption DEF StartTimer, IInv, TypeOK
    <2>2. pc' # "subtract"
      BY <1>1, <1>2 DEF StartTimer
    <2>3. QED
      BY <2>1, <2>2 DEF IInv, CountdownInv
  <1>5. QED
    BY <1>1, <1>2, <1>3, <1>4, StartStep

LEMMA InterruptStep ==
  ASSUME IInv, NEW t \in Timers, Switch_Press_ISR(t) PROVE IInv'
  <1>1. /\ t \in IsrTimers /\ StartTimer(t, {}, gKeyScanInterval_c)
        /\ call' = call
    BY DEF Switch_Press_ISR
  <1>2. gKeyScanInterval_c \in Nat /\ {} \in SUBSET Flags
    BY TimerAssumption
  <1>3. call' \in Calls
    BY <1>1 DEF IInv, TypeOK
  <1>4. CallInv'
    <2>1. ASSUME call # NoCall PROVE status'[call.timer] = status[call.timer]
      <3>1. call.timer # t /\ call.timer \in Timers
        BY <1>1, <2>1 DEF IInv, CallInv, TypeOK, Calls
      <3>2. QED
        BY <1>1, <3>1 DEF StartTimer, IInv, TypeOK
    <2>2. pc' = pc
      BY <1>1 DEF StartTimer
    <2>3. QED
      BY <1>1, <2>1, <2>2 DEF IInv, CallInv
  <1>5. CountdownInv'
    <2>1. /\ remainingTicks'[t] = gKeyScanInterval_c
          /\ intervalInTicks'[t] = gKeyScanInterval_c
          /\ \A u \in Timers : u # t =>
                /\ remainingTicks'[u] = remainingTicks[u]
                /\ intervalInTicks'[u] = intervalInTicks[u]
          /\ pc' = pc /\ timerID' = timerID
          /\ ticksSinceLastHere' = ticksSinceLastHere
      BY <1>1 DEF StartTimer, IInv, TypeOK, locals
    <2>2. /\ remainingTicks[t] \in Nat /\ remainingTicks[t] <= gKeyScanInterval_c
          /\ ticksSinceLastHere \in Int
      BY <1>1 DEF IInv, TypeOK, CountdownInv
    <2>3. pc = "subtract" => timerID \in Timers
      BY DEF IInv, TypeOK
    <2>4. pc' = "subtract" => remainingTicks'[timerID'] > ticksSinceLastHere'
      BY <1>2, <2>1, <2>2, <2>3 DEF IInv, CountdownInv
    <2>5. \A u \in IsrTimers : /\ remainingTicks'[u] <= gKeyScanInterval_c
                               /\ intervalInTicks'[u] <= gKeyScanInterval_c
      BY <1>2, <2>1, TimerAssumption DEF IInv, CountdownInv
    <2>6. QED
      BY <2>4, <2>5 DEF CountdownInv
  <1>6. QED
    BY <1>1, <1>2, <1>3, <1>4, <1>5, StartStep

\* TMR_StopTimer, and the first step of the calls that stop a timer first.
LEMMA StopStep ==
  ASSUME IInv, NEW t \in Timers, StopByClient(t),
         \/ call' = call
         \/ /\ t \notin IsrTimers
            /\ call' \in Calls /\ call'.timer = t
  PROVE  IInv'
  <1>1. StopTo(t, "Inactive") /\ pc \in {"idle", "callback"} /\ call = NoCall
    BY DEF StopByClient, ClientMayCall
  <1>2. type' \in [Timers -> SUBSET Flags] /\ \A u \in Timers \ {t} : type'[u] = type[u]
    BY DEF IInv, TypeOK, StopByClient
  <1>3. UNCHANGED <<intervalInTicks, remainingTicks, compare, bTimerServPending,
                    event, previousTimeInTicks, pc, timerID, locals,
                    nextInterruptTime, late>>
    BY DEF StopByClient
  <1>4. /\ age' \in [Timers -> Nat]
        /\ origin' \in [Timers -> {"none", "task", "pass", "reload"}]
        /\ call' \in Calls
    BY DEF IInv, TypeOK, StopByClient, Forget
  <1>5. CountsMatch' /\ TypeOK'
    <2>1. /\ CountsMatch'
          /\ status' \in [Timers -> Statuses]
          /\ numberOfActiveTimers' \in Nat
          /\ numberOfLowPowerActiveTimers' \in Nat
          /\ timerHardwareIsRunning' \in BOOLEAN
          /\ counter' \in 0 .. Wrap - 1
      BY <1>1, <1>2, StopKeepsCounts DEF IInv
    <2>2. QED
      BY <1>2, <1>3, <1>4, <2>1 DEF IInv, TypeOK, locals
  <1>6. ClockRuns'
    BY <1>1, <1>2, <1>3, StopKeepsClock DEF IInv
  <1>7. ReadyIsSeen'
    <2>1. \A u \in Timers : status'[u] = "Ready" => status[u] = "Ready"
      BY <1>1 DEF IInv, TypeOK, StopTo
    <2>2. QED
      BY <1>3, <2>1 DEF IInv, ReadyIsSeen
  <1>8. CallInv'
    <2>1. status'[t] = "Inactive"
      BY <1>1 DEF IInv, TypeOK, StopTo
    <2>2. QED
      BY <1>1, <1>3, <2>1 DEF CallInv
  <1>9. CountdownInv'
    BY <1>1, <1>3 DEF IInv, CountdownInv
  <1>10. QED
    BY <1>5, <1>6, <1>7, <1>8, <1>9 DEF IInv

LEMMA ClientStops ==
  ASSUME IInv, NEW t \in Timers,
         TMR_StopTimer(t) \/ TMR_StartTimer(t) \/ TMR_FreeTimer(t)
  PROVE  /\ StopByClient(t)
         /\ \/ call' = call
            \/ /\ t \notin IsrTimers
               /\ call' \in Calls /\ call'.timer = t
  BY DEF TMR_StopTimer, TMR_StartTimer, TMR_FreeTimer, BeginCall, Calls

\* The rest of TMR_FreeTimer: the timer is stopped already.
LEMMA MarkFreeChanges ==
  ASSUME IInv, TMR_MarkTimerFree
  PROVE  /\ call.timer \in Timers /\ status[call.timer] = "Inactive"
         /\ pc \in {"idle", "callback"}
         /\ status' \in [Timers -> Statuses]
         /\ \A u \in Timers : u # call.timer => status'[u] = status[u]
         /\ status'[call.timer] = "Free"
         /\ \A u \in Timers : Running(u)' <=> Running(u)
         /\ type' \in [Timers -> SUBSET Flags]
         /\ \A u \in Timers : Running(u) => type'[u] = type[u]
  <1>1. call # NoCall /\ call \in Calls
    BY DEF IInv, TypeOK, TMR_MarkTimerFree, NoCall
  <1>2. /\ call.timer \in Timers /\ status[call.timer] = "Inactive"
        /\ pc \in {"idle", "callback"}
    BY <1>1 DEF IInv, CallInv, Calls
  <1>3. QED
    BY <1>2 DEF IInv, TypeOK, TMR_MarkTimerFree, Running, Statuses

LEMMA MarkFreeStep ==
  ASSUME IInv, TMR_MarkTimerFree PROVE IInv'
  <1>1. /\ UNCHANGED <<intervalInTicks, remainingTicks, counts, hardware,
                       compare, bTimerServPending, event, previousTimeInTicks,
                       pc, timerID, locals, nextInterruptTime, late, history>>
        /\ call' = NoCall
    BY DEF TMR_MarkTimerFree
  <1>2. TypeOK'
    BY <1>1, MarkFreeChanges, NoCallType
       DEF IInv, TypeOK, counts, hardware, locals, history
  <1>3. RunningTimers' = RunningTimers
    BY MarkFreeChanges DEF RunningTimers
  <1>4. LowPowerTimers' = LowPowerTimers /\ ActiveTimers' = ActiveTimers
    BY <1>3, MarkFreeChanges DEF LowPowerTimers, ActiveTimers, RunningTimers
  <1>5. CountsMatch'
    BY <1>1, <1>4 DEF IInv, CountsMatch, counts
  <1>6. \A u \in Timers : /\ status'[u] = "Ready" => status[u] = "Ready"
                          /\ status'[u] = "Active" => status[u] = "Active"
    BY MarkFreeChanges
  <1>7. ReadyIsSeen' /\ ClockRuns'
    BY <1>1, <1>3, <1>6 DEF IInv, ReadyIsSeen, ClockRuns, hardware
  <1>8. CallInv' /\ CountdownInv'
    BY <1>1 DEF IInv, CallInv, CountdownInv, locals
  <1>9. QED
    BY <1>2, <1>5, <1>7, <1>8 DEF IInv

LEMMA TickStep ==
  ASSUME IInv, Tick PROVE IInv'
  <1>1. UNCHANGED <<table, counts, timerHardwareIsRunning, compare, call,
                    previousTimeInTicks, pc, timerID, locals, nextInterruptTime,
                    origin>>
    BY DEF Tick
  <1>2. counter' \in 0 .. Wrap - 1
    BY ZeroIsATick DEF IInv, TypeOK, Tick
  <1>3. bTimerServPending' \in BOOLEAN /\ event' \in BOOLEAN /\ (event => event')
    BY DEF IInv, TypeOK, Tick, StackTimer_ISR
  <1>4. late' \in Nat /\ age' \in [Timers -> Nat]
    BY DEF IInv, TypeOK, Tick
  <1>5. TypeOK'
    BY <1>1, <1>2, <1>3, <1>4 DEF IInv, TypeOK, table, counts, locals
  <1>6. CountsMatch' /\ RunningTimers' = RunningTimers
    BY <1>1, SameTimers DEF IInv, table, Running
  <1>7. ReadyIsSeen' /\ ClockRuns'
    BY <1>1, <1>3, <1>6 DEF IInv, ReadyIsSeen, ClockRuns, table
  <1>8. CallInv' /\ CountdownInv'
    BY <1>1 DEF IInv, CallInv, CountdownInv, table, locals
  <1>9. QED
    BY <1>5, <1>6, <1>7, <1>8 DEF IInv

-----------------------------------------------------------------------------
(* The steps of TMR_Task.                                                  *)

LEMMA BeginStep ==
  ASSUME IInv, BeginPass PROVE IInv'
  <1>1. /\ UNCHANGED <<table, counts, hardware, compare, bTimerServPending, call,
                       history>>
        /\ call = NoCall
    BY DEF BeginPass
  <1>2. TypeOK'
    <2>1. ticksSinceLastHere' \in 0 .. Wrap - 1
      BY TicksType DEF IInv, TypeOK, BeginPass
    <2>2. nextInterruptTime' \in Nat /\ timerID' \in 0 .. gTmrTotalTimers_c
      BY TimerAssumption DEF BeginPass
    <2>3. QED
      BY <1>1, <2>1, <2>2 DEF IInv, TypeOK, BeginPass, RememberTime, table,
            counts, hardware, history
  <1>3. CountsMatch' /\ RunningTimers' = RunningTimers
    BY <1>1, SameTimers DEF IInv, table, Running
  <1>4. ReadyIsSeen'
    BY TimerAssumption DEF BeginPass, ReadyIsSeen, Timers
  <1>5. ClockRuns'
    BY <1>1, <1>3 DEF IInv, BeginPass, ClockRuns, table, hardware
  <1>6. CallInv' /\ CountdownInv'
    BY <1>1 DEF IInv, CallInv, CountdownInv, BeginPass, table
  <1>7. QED
    BY <1>2, <1>3, <1>4, <1>5, <1>6 DEF IInv

LEMMA ScanReadyStep ==
  ASSUME IInv, ScanReady PROVE IInv'
  <1>1. UNCHANGED <<type, intervalInTicks, remainingTicks, counts, hardware,
                    compare, bTimerServPending, event, call,
                    previousTimeInTicks, timerID, locals, nextInterruptTime,
                    late, history>>
    BY DEF ScanReady
  <1>2. timerID \in Timers /\ pc = "scan" /\ pc' = "schedule"
    BY DEF ScanReady
  <1>3. TypeOK'
    BY <1>1, <1>2 DEF IInv, TypeOK, ScanReady, Statuses, counts,
          hardware, locals, history
  <1>4. CountsMatch' /\ RunningTimers' = RunningTimers
    BY <1>1, SameTimers DEF IInv, TypeOK, ScanReady, Running
  <1>5. ReadyIsSeen'
    <2>1. \A u \in Timers : status'[u] = "Ready" => status[u] = "Ready" /\ u # timerID
      BY DEF IInv, TypeOK, ScanReady
    <2>2. QED
      BY <1>1, <1>2, <2>1 DEF IInv, ReadyIsSeen, Timers
  <1>6. ClockRuns'
    BY <1>1, <1>2, <1>4 DEF IInv, ClockRuns, hardware
  <1>7. CallInv' /\ CountdownInv'
    BY <1>1, <1>2 DEF IInv, CallInv, CountdownInv
  <1>8. QED
    BY <1>3, <1>4, <1>5, <1>6, <1>7 DEF IInv

\* The steps of a pass that touch neither the table's status nor the clock.
LEMMA QuietStep ==
  ASSUME IInv, UNCHANGED <<status, type, counts, hardware, event, call>>,
         TypeOK', CountdownInv', pc # "idle", pc' # "idle",
         pc \notin {"idle", "callback"} \/ call = NoCall,
         \/ timerID' = timerID /\ pc # "scan"
         \/ timerID' = timerID /\ pc = "scan" /\ status[timerID] # "Ready"
         \/ timerID' = timerID + 1 /\ pc' = "scan" /\ pc # "scan"
         \/ timerID' = timerID + 1 /\ pc' = "scan" /\ status[timerID] # "Ready"
  PROVE  IInv'
  <1>1. CountsMatch' /\ RunningTimers' = RunningTimers
    BY SameTimers DEF IInv, Running
  <1>2. ReadyIsSeen'
    <2> SUFFICES ASSUME NEW t \in Timers, status[t] = "Ready", ~event
                 PROVE  t > timerID' \/ (pc' = "scan" /\ t = timerID')
      BY DEF ReadyIsSeen
    <2>1. t > timerID \/ (pc = "scan" /\ t = timerID)
      BY DEF IInv, ReadyIsSeen
    <2>2. t \in Int /\ timerID \in Int
      BY TimerAssumption DEF Timers, IInv, TypeOK
    <2>3. CASE timerID' = timerID
      BY <2>1, <2>2, <2>3
    <2>4. CASE timerID' = timerID + 1
      BY <2>1, <2>2, <2>4
    <2>5. QED
      BY <2>3, <2>4
  <1>3. ClockRuns'
    BY <1>1 DEF IInv, ClockRuns, hardware
  <1>4. CallInv'
    BY DEF IInv, CallInv
  <1>5. QED
    BY <1>1, <1>2, <1>3, <1>4 DEF IInv

\* Where TMR_Task is in the table after it has dealt with a timer.
LEMMA NextTimer ==
  ASSUME IInv, timerID \in Timers
  PROVE  timerID + 1 \in 0 .. gTmrTotalTimers_c
  BY TimerAssumption DEF Timers

LEMMA LookStep ==
  ASSUME IInv, ScanActive \/ ScanOther \/ TestCountdown \/ Schedule
                    \/ CallbackReturns
  PROVE  IInv'
  <1>1. /\ UNCHANGED <<table, counts, hardware, compare, bTimerServPending,
                       event, call, previousTimeInTicks, locals, late, history>>
        /\ timerID \in Timers
    BY DEF ScanActive, ScanOther, TestCountdown, Schedule, CallbackReturns,
           LooksAtTable, IInv, TypeOK
  <1>2. nextInterruptTime' \in Nat
    BY <1>1 DEF ScanActive, ScanOther, TestCountdown, Schedule, CallbackReturns,
                Sooner, IInv, TypeOK
  <1>3. \/ /\ ScanActive /\ pc = "scan" /\ pc' = "countdown"
           /\ timerID' = timerID /\ status[timerID] # "Ready"
        \/ /\ TestCountdown /\ pc = "countdown" /\ timerID' = timerID
           /\ pc' = IF remainingTicks[timerID] > ticksSinceLastHere
                    THEN "subtract" ELSE "expire"
        \/ /\ ScanOther /\ pc = "scan" /\ pc' = "scan"
           /\ timerID' = timerID + 1 /\ status[timerID] # "Ready"
        \/ /\ Schedule /\ pc = "schedule" /\ pc' = "scan"
           /\ timerID' = timerID + 1
        \/ /\ CallbackReturns /\ pc = "callback" /\ pc' = "scan"
           /\ timerID' = timerID + 1 /\ call = NoCall
    BY DEF ScanActive, ScanOther, TestCountdown, Schedule, CallbackReturns, Running
  <1>4. TypeOK'
    <2>1. timerID' \in 0 .. gTmrTotalTimers_c /\ (pc' # "scan" => timerID' \in Timers)
      BY <1>1, <1>3, NextTimer DEF IInv, TypeOK
    <2>2. pc' \in {"scan", "countdown", "subtract", "expire"}
      BY <1>3
    <2>3. QED
      BY <1>1, <1>2, <2>1, <2>2
         DEF IInv, TypeOK, table, counts, hardware, locals, history
  <1>5. CountdownInv'
    <2>1. pc' = "subtract" => remainingTicks'[timerID'] > ticksSinceLastHere'
      BY <1>1, <1>3 DEF table, locals
    <2>2. QED
      BY <1>1, <2>1 DEF IInv, CountdownInv, table
  <1>6. UNCHANGED <<status, type>> /\ pc # "idle" /\ pc' # "idle"
    BY <1>1, <1>3 DEF table
  <1>7. QED
    BY <1>1, <1>3, <1>4, <1>5, <1>6, QuietStep

\* The subtraction does not wrap.
LEMMA Subtraction ==
  ASSUME IInv, CountDown
  PROVE  /\ pc = "subtract" /\ timerID \in Timers
         /\ remainingTicks[timerID] \in Nat /\ ticksSinceLastHere \in Nat
         /\ remainingTicks[timerID] > ticksSinceLastHere
         /\ remainingTicks'[timerID] = remainingTicks[timerID] - ticksSinceLastHere
         /\ \A u \in Timers : u # timerID => remainingTicks'[u] = remainingTicks[u]
         /\ remainingTicks' \in [Timers -> Nat]
  <1>1. /\ pc = "subtract" /\ timerID \in Timers
        /\ remainingTicks[timerID] \in Nat /\ ticksSinceLastHere \in Nat
        /\ remainingTicks[timerID] > ticksSinceLastHere
    BY DEF CountDown, IInv, TypeOK, CountdownInv
  <1>2. Ticks(ticksSinceLastHere, remainingTicks[timerID])
            = remainingTicks[timerID] - ticksSinceLastHere
    BY <1>1 DEF Ticks
  <1>3. remainingTicks[timerID] - ticksSinceLastHere \in Nat
    BY <1>1
  <1>4. QED
    BY <1>1, <1>2, <1>3 DEF CountDown, IInv, TypeOK

LEMMA CountDownStep ==
  ASSUME IInv, CountDown PROVE IInv'
  <1>1. UNCHANGED <<status, type, intervalInTicks, counts, hardware, compare,
                    bTimerServPending, event, call, previousTimeInTicks,
                    timerID, locals, nextInterruptTime, late, history>>
    BY DEF CountDown
  <1>2. pc = "subtract" /\ pc' = "schedule" /\ timerID \in Timers
    BY Subtraction DEF CountDown
  <1>3. TypeOK'
    BY <1>1, <1>2, Subtraction
       DEF IInv, TypeOK, counts, hardware, locals, history
  <1>4. CountdownInv'
    <2>1. \A u \in IsrTimers : remainingTicks'[u] <= gKeyScanInterval_c
      <3> TAKE u \in IsrTimers
      <3>1. /\ u \in Timers /\ remainingTicks[u] \in Nat
            /\ remainingTicks[u] <= gKeyScanInterval_c
            /\ gKeyScanInterval_c \in Nat
        BY TimerAssumption DEF IInv, TypeOK, CountdownInv
      <3>2. QED
        BY <3>1, Subtraction
    <2>2. QED
      BY <1>1, <1>2, <2>1 DEF IInv, CountdownInv
  <1>5. QED
    BY <1>1, <1>2, <1>3, <1>4, QuietStep

LEMMA ExpireSingleShotStep ==
  ASSUME IInv, ExpireSingleShot PROVE IInv'
  <1>1. timerID \in Timers /\ pc = "expire" /\ pc' = "callback"
    BY DEF IInv, TypeOK, ExpireSingleShot
  <1>2. StopTo(timerID, "Inactive") /\ UNCHANGED type
    BY DEF ExpireSingleShot
  <1>3. UNCHANGED <<intervalInTicks, compare, bTimerServPending, event, call,
                    previousTimeInTicks, timerID, locals, nextInterruptTime, late>>
    BY DEF ExpireSingleShot
  <1>4. /\ remainingTicks' \in [Timers -> Nat]
        /\ age' \in [Timers -> Nat]
        /\ origin' \in [Timers -> {"none", "task", "pass", "reload"}]
    BY DEF IInv, TypeOK, ExpireSingleShot, Forget
  <1>5. /\ CountsMatch'
        /\ status' \in [Timers -> Statuses]
        /\ numberOfActiveTimers' \in Nat
        /\ numberOfLowPowerActiveTimers' \in Nat
        /\ timerHardwareIsRunning' \in BOOLEAN
        /\ counter' \in 0 .. Wrap - 1
    BY <1>1, <1>2, StopKeepsCounts DEF IInv
  <1>6. TypeOK'
    BY <1>1, <1>2, <1>3, <1>4, <1>5 DEF IInv, TypeOK, locals
  <1>7. ClockRuns'
    BY <1>1, <1>2, StopKeepsClock DEF IInv
  <1>8. ReadyIsSeen'
    <2>1. \A u \in Timers : status'[u] = "Ready" => status[u] = "Ready"
      BY <1>2 DEF IInv, TypeOK, StopTo
    <2>2. QED
      BY <1>1, <1>3, <2>1 DEF IInv, ReadyIsSeen
  <1>9. CallInv'
    BY <1>1, <1>3 DEF IInv, CallInv
  <1>10. CountdownInv'
    <2>1. remainingTicks' = [remainingTicks EXCEPT ![timerID] = 0]
      BY DEF ExpireSingleShot
    <2>2. \A u \in IsrTimers : remainingTicks'[u] <= gKeyScanInterval_c
      BY <1>1, <2>1, TimerAssumption DEF IInv, TypeOK, CountdownInv
    <2>3. QED
      BY <1>1, <1>3, <2>2 DEF IInv, CountdownInv
  <1>11. QED
    BY <1>5, <1>6, <1>7, <1>8, <1>9, <1>10 DEF IInv

LEMMA ExpireIntervalStep ==
  ASSUME IInv, ExpireInterval PROVE IInv'
  <1>1. timerID \in Timers
    BY DEF IInv, TypeOK, ExpireInterval
  <1>2. /\ remainingTicks' \in [Timers -> Nat]
        /\ age' \in [Timers -> Nat]
        /\ origin' \in [Timers -> {"none", "task", "pass", "reload"}]
    BY <1>1 DEF IInv, TypeOK, ExpireInterval
  <1>3. nextInterruptTime' \in Nat
    BY <1>1 DEF IInv, TypeOK, ExpireInterval, Sooner
  <1>4. TypeOK'
    BY <1>1, <1>2, <1>3 DEF IInv, TypeOK, ExpireInterval, counts, hardware, locals
  <1>5. CountdownInv'
    <2>1. remainingTicks' = [remainingTicks EXCEPT
                               ![timerID] = intervalInTicks[timerID]]
      BY DEF ExpireInterval
    <2>2. \A u \in IsrTimers : remainingTicks'[u] <= gKeyScanInterval_c
      BY <1>1, <2>1, TimerAssumption DEF IInv, TypeOK, CountdownInv
    <2>3. pc' # "subtract" /\ intervalInTicks' = intervalInTicks
      BY DEF ExpireInterval
    <2>4. QED
      BY <2>2, <2>3 DEF IInv, CountdownInv
  <1>6. QED
    BY <1>4, <1>5, QuietStep DEF ExpireInterval

LEMMA EndStep ==
  ASSUME IInv, EndPass PROVE IInv'
  <1>1. /\ UNCHANGED <<table, counts, event, call, previousTimeInTicks, history>>
        /\ pc = "scan" /\ pc' = "idle"
    BY DEF EndPass
  <1>2. /\ compare' \in 0 .. Wrap - 1
        /\ timerHardwareIsRunning' \in BOOLEAN
        /\ counter' \in 0 .. Wrap - 1
    <2>1. AlarmDistance \in Int
      BY TimerAssumption, TicksType DEF IInv, TypeOK, AlarmDistance
    <2>2. (currentTimeInTicks + AlarmDistance) % Wrap \in 0 .. Wrap - 1
      BY <2>1, Modulo DEF IInv, TypeOK
    <2>3. QED
      BY <2>2, ZeroIsATick DEF IInv, TypeOK, EndPass, SetAlarm, DisableClock
  <1>3. TypeOK'
    <2>1. 0 \in 0 .. gTmrTotalTimers_c
      BY TimerAssumption
    <2>2. QED
      BY <1>1, <1>2, <2>1, ZeroIsATick
         DEF IInv, TypeOK, EndPass, table, counts, history
  <1>4. CountsMatch' /\ RunningTimers' = RunningTimers
    BY <1>1, SameTimers DEF IInv, table, Running
  <1>5. ReadyIsSeen'
    BY <1>1 DEF IInv, TypeOK, ReadyIsSeen, EndPass, table, Timers
  <1>6. ClockRuns'
    <2>1. numberOfActiveTimers # 0 \/ numberOfLowPowerActiveTimers # 0
              <=> RunningTimers # {}
      BY KindsOfTimers, SubsetFinite DEF IInv, CountsMatch
    <2>2. timerHardwareIsRunning' <=> RunningTimers # {}
      BY <2>1 DEF EndPass, SetAlarm, DisableClock
    <2>3. \A t \in Timers : status'[t] = "Active" => t \in RunningTimers
      BY <1>1 DEF RunningTimers, Running, table
    <2>4. QED
      BY <1>4, <2>2, <2>3 DEF ClockRuns
  <1>7. CallInv' /\ CountdownInv'
    BY <1>1 DEF IInv, CallInv, CountdownInv, table
  <1>8. QED
    BY <1>3, <1>4, <1>5, <1>6, <1>7 DEF IInv

LEMMA NextIInv ==
  ASSUME IInv, [Next]_vars PROVE IInv'
  <1>1. CASE TMR_AllocateTimer
    BY <1>1, AllocateStep
  <1>2. CASE \E t \in Timers : Switch_Press_ISR(t)
    BY <1>2, InterruptStep
  <1>3. CASE \E t \in Timers :
                TMR_StopTimer(t) \/ TMR_StartTimer(t) \/ TMR_FreeTimer(t)
    BY <1>3, ClientStops, StopStep
  <1>4. CASE FinishCall
    BY <1>4, EnableStep, MarkFreeStep DEF FinishCall
  <1>5. CASE Tick
    BY <1>5, TickStep
  <1>6. CASE TMR_Task
    BY <1>6, BeginStep, ScanReadyStep, LookStep, CountDownStep,
       ExpireSingleShotStep, ExpireIntervalStep, EndStep DEF TMR_Task
  <1>7. CASE UNCHANGED vars
    <2>1. TypeOK'
      BY <1>7 DEF IInv, TypeOK, vars, table, counts, hardware, locals, history
    <2>2. CountsMatch' /\ RunningTimers' = RunningTimers
      BY <1>7, SameTimers DEF IInv, vars, table, Running
    <2>3. ReadyIsSeen' /\ ClockRuns'
      BY <1>7, <2>2 DEF IInv, ReadyIsSeen, ClockRuns, vars, table, hardware
    <2>4. CallInv' /\ CountdownInv'
      BY <1>7 DEF IInv, CallInv, CountdownInv, vars, table, locals
    <2>5. QED
      BY <2>1, <2>2, <2>3, <2>4 DEF IInv
  <1>8. QED
    BY <1>1, <1>2, <1>3, <1>4, <1>5, <1>6, <1>7 DEF Next

\* The inductive invariant holds of every behaviour of TimersManager.c.
THEOREM Invariance == Spec => []IInv
  <1>1. QED
    BY InitIInv, NextIInv, PTL DEF Spec

\* Type correctness of the table, the counters and the locals of TMR_Task.
THEOREM TypeCorrect == Spec => []TypeOK
  BY Invariance, PTL DEF IInv

\* numberOfActiveTimers and numberOfLowPowerActiveTimers count the running
\* timers of their kind.
THEOREM CountsCorrect == Spec => []CountsMatch
  BY Invariance, PTL DEF IInv

\* No start of a timer, even from an interrupt in the middle of a pass, is
\* missed by TMR_Task.
THEOREM NoStartIsLost == Spec => []ReadyIsSeen
  BY Invariance, PTL DEF IInv

\* The hardware clock runs whenever an Active timer waits for it, and is off
\* when no timer runs.
THEOREM ClockCorrect == Spec => []ClockRuns
  BY Invariance, PTL DEF IInv

-----------------------------------------------------------------------------
(***************************************************************************)
(* The proofs that no timer started by a task is called back early, and    *)
(* that no timer is late by more than the latencies of the task.           *)
(*                                                                         *)
(* What TMR_Task knows of a timer is its countdown and the value of the    *)
(* counter at the last pass.  The first invariant relates them to the time *)
(* since the start: what was counted down never exceeds what has elapsed,  *)
(* where SincePass is elapsed but not read yet, and Pending is read but    *)
(* not counted down yet.                                                   *)
(***************************************************************************)

\* The pass in progress, if any, has dealt with timer t.
Counted(t) ==
    pc = "idle" \/ t < timerID \/ (t = timerID /\ pc \in {"schedule", "callback"})

Pending(t) == IF Counted(t) THEN 0 ELSE ticksSinceLastHere
SincePass == Ticks(previousTimeInTicks, counter)

OnTime(t) ==
    /\ status[t] = "Ready" =>
          /\ remainingTicks[t] = intervalInTicks[t]
          /\ pc # "idle" => age[t] = AgeCap \/ age[t] >= SincePass
    /\ status[t] = "Active" =>
          \/ age[t] = AgeCap
          \/ age[t] + remainingTicks[t]
                >= intervalInTicks[t] + Pending(t) + SincePass

\* What TMR_Task has read of the timer it is dealing with still holds.
InHand(t) ==
    timerID = t =>
        /\ pc \in {"countdown", "subtract", "expire"} => status[t] = "Active"
        /\ pc = "expire" => remainingTicks[t] <= ticksSinceLastHere

OnTimeInv ==
    \A t \in Timers :
        /\ age[t] <= AgeCap
        /\ intervalInTicks[t] <= AgeCap
        /\ origin[t] = "task" => OnTime(t) /\ InHand(t)

TInv == IInv /\ OnTimeInv

-----------------------------------------------------------------------------

LEMMA InitOnTime == Init => OnTimeInv
  BY TimerAssumption DEF Init, OnTimeInv

\* A timer that keeps running keeps the clock as it is.
LEMMA StopKeepsTime ==
  ASSUME IInv, NEW t \in Timers, NEW u \in Timers, u # t, Running(u),
         ClockAfterStop(t)
  PROVE  UNCHANGED counter
  <1>1. RunningTimers \ {t} # {}
    BY DEF RunningTimers
  <1>2. QED
    BY <1>1, ClockStops DEF IInv, ClockAfterStop, hardware

\* Nothing that OnTime(t) is about has changed.
LEMMA SameOnTime ==
  ASSUME NEW t \in Timers, OnTime(t),
         UNCHANGED <<counter, previousTimeInTicks, pc, timerID,
                     ticksSinceLastHere>>,
         status'[t] = status[t], remainingTicks'[t] = remainingTicks[t],
         intervalInTicks'[t] = intervalInTicks[t], age'[t] = age[t]
  PROVE  OnTime(t)'
  BY DEF OnTime, Counted, Pending, SincePass, Ticks

LEMMA StartOnTime ==
  ASSUME TInv, NEW t \in Timers, NEW ty \in SUBSET Flags, NEW i \in Nat,
         i <= AgeCap, StartTimer(t, ty, i)
  PROVE  OnTimeInv'
  <1> SUFFICES ASSUME NEW u \in Timers
               PROVE  /\ age'[u] <= AgeCap
                      /\ intervalInTicks'[u] <= AgeCap
                      /\ origin'[u] = "task" => OnTime(u)' /\ InHand(u)'
    BY DEF OnTimeInv
  <1>1. CASE u = t
    <2>1. /\ age'[t] = 0 /\ intervalInTicks'[t] = i /\ remainingTicks'[t] = i
          /\ status'[t] = "Ready"
          /\ origin'[t] = IF pc = "idle" THEN "task" ELSE "pass"
          /\ pc' = pc
      BY DEF TInv, IInv, TypeOK, StartTimer
    <2>2. 0 <= AgeCap /\ i <= AgeCap
      BY TimerAssumption
    <2>3. origin'[t] = "task" => pc' = "idle"
      BY <2>1
    <2>4. QED
      BY <1>1, <2>1, <2>2, <2>3 DEF OnTime, InHand
  <1>2. CASE u # t
    <2>1. /\ age'[u] = age[u] /\ intervalInTicks'[u] = intervalInTicks[u]
          /\ remainingTicks'[u] = remainingTicks[u] /\ status'[u] = status[u]
          /\ origin'[u] = origin[u]
          /\ UNCHANGED <<previousTimeInTicks, pc, timerID, ticksSinceLastHere>>
      BY <1>2 DEF TInv, IInv, TypeOK, StartTimer, locals
    <2>2. CASE ~Running(u)
      BY <2>1, <2>2 DEF TInv, OnTimeInv, OnTime, Running, InHand
    <2>3. CASE Running(u)
      <3>1. UNCHANGED counter
        BY <1>2, <2>3, StopKeepsTime DEF TInv, StartTimer
      <3>2. QED
        BY <2>1, <3>1, SameOnTime DEF TInv, OnTimeInv, InHand
    <2>4. QED
      BY <2>2, <2>3
  <1>3. QED
    BY <1>1, <1>2

\* A timer is stopped, by a client or because it has expired.
LEMMA StopOnTime ==
  ASSUME TInv, NEW t \in Timers, NEW to \in {"Free", "Inactive"},
         StopTo(t, to), Forget(t),
         UNCHANGED <<intervalInTicks, previousTimeInTicks, timerID, locals>>,
         \A u \in Timers \ {t} : remainingTicks'[u] = remainingTicks[u],
         UNCHANGED pc \/ (pc = "expire" /\ pc' = "callback" /\ timerID = t)
  PROVE  OnTimeInv'
  <1> SUFFICES ASSUME NEW u \in Timers
               PROVE  /\ age'[u] <= AgeCap
                      /\ intervalInTicks'[u] <= AgeCap
                      /\ origin'[u] = "task" => OnTime(u)' /\ InHand(u)'
    BY DEF OnTimeInv
  <1>1. CASE u = t
    BY <1>1, TimerAssumption DEF TInv, IInv, TypeOK, OnTimeInv, Forget
  <1>2. CASE u # t
    <2>1. /\ age'[u] = age[u] /\ intervalInTicks'[u] = intervalInTicks[u]
          /\ remainingTicks'[u] = remainingTicks[u] /\ status'[u] = status[u]
          /\ origin'[u] = origin[u]
          /\ UNCHANGED <<previousTimeInTicks, timerID, ticksSinceLastHere>>
      BY <1>2 DEF TInv, IInv, TypeOK, StopTo, Forget, locals
    <2>2. CASE ~Running(u)
      BY <2>1, <2>2 DEF TInv, OnTimeInv, OnTime, Running, InHand
    <2>3. CASE Running(u)
      <3>1. UNCHANGED counter
        BY <1>2, <2>3, StopKeepsTime DEF TInv, StopTo
      <3>2. CASE UNCHANGED pc
        BY <2>1, <3>1, <3>2, SameOnTime DEF TInv, OnTimeInv, InHand
      <3>3. CASE pc = "expire" /\ pc' = "callback" /\ timerID = t
        <4>1. Counted(u)' <=> Counted(u)
          BY <1>2, <2>1, <3>3 DEF Counted
        <4>2. Pending(u)' = Pending(u) /\ SincePass' = SincePass
          BY <2>1, <3>1, <4>1 DEF Pending, SincePass, Ticks
        <4>3. QED
          BY <2>1, <3>3, <4>2 DEF TInv, OnTimeInv, OnTime, InHand
      <3>4. QED
        BY <3>2, <3>3
    <2>4. QED
      BY <2>2, <2>3
  <1>3. QED
    BY <1>1, <1>2

LEMMA TickOnTime ==
  ASSUME TInv, Tick PROVE OnTimeInv'
  <1> SUFFICES ASSUME NEW u \in Timers
               PROVE  /\ age'[u] <= AgeCap
                      /\ intervalInTicks'[u] <= AgeCap
                      /\ origin'[u] = "task" => OnTime(u)' /\ InHand(u)'
    BY DEF OnTimeInv
  <1>1. UNCHANGED <<status, type, intervalInTicks, remainingTicks,
                    previousTimeInTicks, pc, timerID, ticksSinceLastHere, origin>>
    BY DEF Tick, table, locals
  <1>2. age'[u] = IF Running(u) /\ age[u] < AgeCap THEN age[u] + 1 ELSE age[u]
    BY DEF Tick
  <1>3. age[u] \in Nat /\ age[u] <= AgeCap /\ AgeCap \in Nat
    BY TimerAssumption DEF TInv, IInv, TypeOK, OnTimeInv
  <1>4. SincePass' <= SincePass + 1 /\ SincePass \in Nat /\ SincePass' \in Nat
    <2>1. counter \in 0 .. Wrap - 1 /\ previousTimeInTicks \in 0 .. Wrap - 1
      BY DEF TInv, IInv, TypeOK
    <2>2. counter' = counter \/ counter' = counter + 1
              \/ (counter = Wrap - 1 /\ counter' = 0)
      BY DEF Tick
    <2>3. QED
      BY <1>1, <2>1, <2>2, TimerAssumption DEF SincePass, Ticks
  <1>5. Pending(u)' = Pending(u)
    BY <1>1 DEF Pending, Counted
  <1>6. ASSUME origin[u] = "task" PROVE OnTime(u)'
    <2>1. OnTime(u)
      BY <1>6 DEF TInv, OnTimeInv
    <2>2. remainingTicks[u] \in Nat /\ intervalInTicks[u] \in Nat
      BY DEF TInv, IInv, TypeOK
    <2>3. Pending(u) \in Nat
      BY DEF TInv, IInv, TypeOK, Pending
    <2>4. CASE status[u] = "Ready"
      BY <1>1, <1>2, <1>3, <1>4, <2>1, <2>2, <2>4 DEF OnTime, Running
    <2>5. CASE status[u] = "Active"
      BY <1>1, <1>2, <1>3, <1>4, <1>5, <2>1, <2>2, <2>3, <2>5 DEF OnTime, Running
    <2>6. CASE status[u] \notin {"Ready", "Active"}
      BY <1>1, <2>6 DEF OnTime
    <2>7. QED
      BY <2>4, <2>5, <2>6
  <1>7. QED
    BY <1>1, <1>2, <1>3, <1>6 DEF TInv, OnTimeInv, InHand

-----------------------------------------------------------------------------
(* The steps of TMR_Task.                                                  *)

\* The steps that keep the clock and the histories: only the position in the
\* table, the countdowns and Ready to Active can change.
LEMMA PassOnTime ==
  ASSUME TInv, TypeOK', pc # "idle",
         UNCHANGED <<intervalInTicks, counter, previousTimeInTicks, age, origin>>,
         \A u \in Timers : origin[u] = "task" =>
            /\ status[u] = "Ready" =>
                  /\ remainingTicks'[u] = remainingTicks[u]
                  /\ \/ status'[u] = "Ready"
                     \/ status'[u] = "Active" /\ Pending(u)' = 0
            /\ status[u] = "Active" =>
                  /\ status'[u] = "Active"
                  /\ remainingTicks'[u] - Pending(u)'
                        = remainingTicks[u] - Pending(u)
            /\ status[u] \in {"Free", "Inactive"} => status'[u] = status[u]
            /\ InHand(u)'
  PROVE  OnTimeInv'
  <1> SUFFICES ASSUME NEW u \in Timers, origin[u] = "task" PROVE OnTime(u)'
    BY DEF TInv, OnTimeInv
  <1>1. OnTime(u) /\ SincePass' = SincePass
    BY DEF TInv, OnTimeInv, SincePass, Ticks
  <1>2. /\ remainingTicks[u] \in Nat /\ intervalInTicks[u] \in Nat
        /\ age[u] \in Nat /\ status[u] \in Statuses
        /\ SincePass \in Nat /\ Pending(u) \in Nat
    <2>1. ticksSinceLastHere \in Nat /\ SincePass \in Nat
      <3>1. /\ ticksSinceLastHere \in 0 .. Wrap - 1
            /\ previousTimeInTicks \in 0 .. Wrap - 1
            /\ counter \in 0 .. Wrap - 1
        BY DEF TInv, IInv, TypeOK
      <3>2. QED
        BY <3>1, TicksType, ZeroIsATick DEF SincePass
    <2>2. Pending(u) \in Nat
      BY <2>1 DEF Pending
    <2>3. QED
      BY <2>1, <2>2 DEF TInv, IInv, TypeOK
  <1>3. CASE status[u] = "Ready"
    BY <1>1, <1>2, <1>3 DEF OnTime
  <1>4. CASE status[u] = "Active"
    <2>1. /\ status'[u] = "Active"
          /\ remainingTicks'[u] - Pending(u)' = remainingTicks[u] - Pending(u)
      BY <1>4
    <2>2. age[u] = AgeCap \/ age[u] + remainingTicks[u]
                                >= intervalInTicks[u] + Pending(u) + SincePass
      BY <1>1, <1>4 DEF OnTime
    <2>3. remainingTicks'[u] \in Int /\ Pending(u)' \in Int
      BY DEF TypeOK, Pending
    <2>4. QED
      BY <1>1, <1>2, <2>1, <2>2, <2>3 DEF OnTime
  <1>5. CASE status[u] \in {"Free", "Inactive"}
    BY <1>5 DEF OnTime
  <1>6. QED
    BY <1>2, <1>3, <1>4, <1>5 DEF Statuses

LEMMA BeginOnTime ==
  ASSUME TInv, BeginPass PROVE OnTimeInv'
  <1> SUFFICES ASSUME NEW u \in Timers, origin[u] = "task" PROVE OnTime(u)'
    BY DEF TInv, OnTimeInv, InHand, BeginPass, table, history
  <1>1. OnTime(u)
    BY DEF TInv, OnTimeInv
  <1>2. /\ pc = "idle" /\ pc' = "scan" /\ timerID' = 0
        /\ ticksSinceLastHere' = SincePass
        /\ UNCHANGED <<status, intervalInTicks, remainingTicks, counter, age>>
    BY DEF BeginPass, SincePass, table, hardware, history
  <1>3. SincePass' = 0
    BY DEF TInv, IInv, TypeOK, BeginPass, RememberTime, hardware, SincePass, Ticks
  <1>4. Pending(u) = 0 /\ Pending(u)' = SincePass
    <2>1. ~(u < 0)
      BY TimerAssumption DEF Timers
    <2>2. QED
      BY <1>2, <2>1 DEF Pending, Counted
  <1>5. age[u] \in Nat /\ remainingTicks[u] \in Nat /\ intervalInTicks[u] \in Nat
    BY DEF TInv, IInv, TypeOK
  <1>6. SincePass \in Nat
    BY TicksType, ZeroIsATick DEF TInv, IInv, TypeOK, SincePass
  <1>7. QED
    BY <1>1, <1>2, <1>3, <1>4, <1>5, <1>6 DEF OnTime

LEMMA ScanOnTime ==
  ASSUME TInv, TypeOK',
         ScanReady \/ ScanActive \/ ScanOther \/ TestCountdown \/ Schedule
  PROVE  OnTimeInv'
  <1>1. /\ pc \in {"scan", "countdown", "schedule"} /\ timerID \in Timers
        /\ UNCHANGED <<intervalInTicks, remainingTicks, counter,
                       previousTimeInTicks, ticksSinceLastHere, age, origin>>
    BY DEF ScanReady, ScanActive, ScanOther, TestCountdown, Schedule,
           LooksAtTable, table, hardware, history, locals, TInv, IInv, TypeOK
  <1> DEFINE Same(u) == /\ status'[u] = status[u]
                        /\ Pending(u)' = Pending(u)
                        /\ InHand(u)'
  <1>2. \A u \in Timers : u \in Int
    BY TimerAssumption DEF Timers
  <1> PICK t \in Timers : t = timerID
    BY <1>1
  <1>3. \/ ScanReady /\ pc = "scan" /\ pc' = "schedule" /\ timerID' = timerID
        \/ ScanActive /\ pc = "scan" /\ pc' = "countdown" /\ timerID' = timerID
        \/ ScanOther /\ pc = "scan" /\ pc' = "scan" /\ timerID' = timerID + 1
        \/ /\ TestCountdown /\ pc = "countdown" /\ timerID' = timerID
           /\ pc' \in {"subtract", "expire"}
           /\ pc' = "expire" => ~(remainingTicks[timerID] > ticksSinceLastHere)
        \/ Schedule /\ pc = "schedule" /\ pc' = "scan" /\ timerID' = timerID + 1
    BY DEF ScanReady, ScanActive, ScanOther, TestCountdown, Schedule
  <1>4. \A u \in Timers : u # t => Same(u)
    <2> SUFFICES ASSUME NEW u \in Timers, u # t PROVE Same(u)
      OBVIOUS
    <2>1. status'[u] = status[u]
      BY DEF TInv, IInv, TypeOK, ScanReady, ScanActive, ScanOther,
             TestCountdown, Schedule, LooksAtTable, table
    <2>2. Counted(u)' <=> Counted(u)
      BY <1>1, <1>2, <1>3 DEF Counted
    <2>3. timerID' = timerID \/ pc' = "scan"
      BY <1>3
    <2>4. QED
      BY <1>1, <2>1, <2>2, <2>3 DEF Pending, InHand
  <1>5. CASE ScanReady
    <2>1. /\ status[t] = "Ready" /\ status'[t] = "Active"
          /\ pc' = "schedule" /\ timerID' = timerID
      BY <1>1, <1>5 DEF TInv, IInv, TypeOK, ScanReady
    <2>2. Pending(t)' = 0 /\ InHand(t)'
      BY <1>2, <2>1 DEF Pending, Counted, InHand
    <2>3. QED
      BY <1>1, <1>4, <2>1, <2>2, PassOnTime
  <1>6. CASE ScanActive
    <2>1. /\ status[t] = "Active" /\ UNCHANGED status
          /\ pc = "scan" /\ pc' = "countdown" /\ timerID' = timerID
      BY <1>6 DEF ScanActive, LooksAtTable, table
    <2>2. Pending(t)' = Pending(t) /\ InHand(t)'
      BY <1>1, <1>2, <2>1 DEF Pending, Counted, InHand
    <2>3. QED
      BY <1>1, <1>4, <2>1, <2>2, PassOnTime
  <1>7. CASE ScanOther
    <2>1. /\ status[t] \notin {"Ready", "Active"} /\ UNCHANGED status
          /\ pc' = "scan"
      BY <1>1, <1>7 DEF ScanOther, LooksAtTable, Running, table
    <2>2. QED
      BY <1>1, <1>4, <2>1, PassOnTime DEF InHand
  <1>8. CASE TestCountdown
    <2>1. UNCHANGED status /\ pc = "countdown" /\ timerID' = timerID
      BY <1>8 DEF TestCountdown, LooksAtTable, table
    <2>2. pc' \in {"subtract", "expire"}
      BY <1>8 DEF TestCountdown
    <2>3. Pending(t)' = Pending(t)
      BY <1>1, <1>2, <2>1, <2>2 DEF Pending, Counted
    <2>4. pc' = "expire" => remainingTicks[t] <= ticksSinceLastHere
      <3>1. remainingTicks[t] \in Nat /\ ticksSinceLastHere \in Nat
        BY DEF TInv, IInv, TypeOK
      <3>2. QED
        BY <1>8, <3>1 DEF TestCountdown
    <2>5. origin[t] = "task" => status[t] = "Active"
      BY <2>1 DEF TInv, OnTimeInv, InHand
    <2>6. origin[t] = "task" => InHand(t)'
      BY <1>1, <2>1, <2>4, <2>5 DEF InHand
    <2>7. QED
      BY <1>1, <1>4, <2>1, <2>3, <2>5, <2>6, PassOnTime
  <1>9. CASE Schedule
    <2>1. /\ UNCHANGED status /\ pc = "schedule"
          /\ pc' = "scan" /\ timerID' = timerID + 1
      BY <1>9 DEF Schedule, LooksAtTable, table
    <2>2. Pending(t)' = Pending(t) /\ InHand(t)'
      BY <1>1, <1>2, <2>1 DEF Pending, Counted, InHand
    <2>3. QED
      BY <1>1, <1>4, <2>1, <2>2, PassOnTime
  <1>10. QED
    BY <1>5, <1>6, <1>7, <1>8, <1>9

LEMMA CountDownOnTime ==
  ASSUME TInv, TypeOK', CountDown PROVE OnTimeInv'
  <1>1. /\ pc = "subtract" /\ timerID \in Timers
        /\ pc' = "schedule" /\ timerID' = timerID
        /\ UNCHANGED <<status, intervalInTicks, counter, previousTimeInTicks,
                       ticksSinceLastHere, age, origin>>
    BY DEF TInv, IInv, TypeOK, CountDown, hardware, history, locals
  <1>2. \A u \in Timers : u \in Int
    BY TimerAssumption DEF Timers
  <1> PICK t \in Timers : t = timerID
    BY <1>1
  <1>3. ticksSinceLastHere \in Nat /\ remainingTicks[t] \in Nat
    BY <1>1 DEF TInv, IInv, TypeOK
  <1>4. /\ remainingTicks'[t] = remainingTicks[t] - ticksSinceLastHere
        /\ \A u \in Timers : u # t => remainingTicks'[u] = remainingTicks[u]
    BY Subtraction DEF TInv
  <1>5. Pending(t) = ticksSinceLastHere /\ Pending(t)' = 0
    BY <1>1, <1>2 DEF Pending, Counted
  <1>6. \A u \in Timers : u # t => Pending(u)' = Pending(u)
    BY <1>1, <1>2 DEF Pending, Counted
  <1>7. origin[t] = "task" => status[t] = "Active"
    BY <1>1 DEF TInv, OnTimeInv, InHand
  <1>8. \A u \in Timers : InHand(u)'
    BY <1>1 DEF InHand
  <1>9. QED
    BY <1>1, <1>3, <1>4, <1>5, <1>6, <1>7, <1>8, PassOnTime

LEMMA ExpireIntervalOnTime ==
  ASSUME TInv, TypeOK', ExpireInterval PROVE OnTimeInv'
  <1>1. /\ pc = "expire" /\ timerID \in Timers
        /\ pc' = "callback" /\ timerID' = timerID
        /\ UNCHANGED <<status, intervalInTicks, counter, previousTimeInTicks,
                       ticksSinceLastHere>>
    BY DEF TInv, IInv, TypeOK, ExpireInterval, hardware, locals
  <1>2. age'[timerID] = 0 /\ origin'[timerID] = "reload"
    BY <1>1 DEF TInv, IInv, TypeOK, ExpireInterval
  <1>3. 0 <= AgeCap
    BY TimerAssumption
  <1> SUFFICES ASSUME NEW u \in Timers, u # timerID, origin[u] = "task"
               PROVE  OnTime(u)'
    BY <1>1, <1>2, <1>3 DEF TInv, IInv, TypeOK, OnTimeInv, ExpireInterval, InHand
  <1>4. /\ age'[u] = age[u] /\ remainingTicks'[u] = remainingTicks[u]
    BY <1>1 DEF TInv, IInv, TypeOK, ExpireInterval
  <1>5. Pending(u)' = Pending(u) /\ SincePass' = SincePass
    BY <1>1 DEF Pending, Counted, SincePass, Ticks
  <1>6. QED
    BY <1>1, <1>4, <1>5 DEF TInv, OnTimeInv, OnTime

LEMMA ReturnOnTime ==
  ASSUME TInv, TypeOK', CallbackReturns PROVE OnTimeInv'
  <1>1. /\ pc = "callback" /\ timerID \in Timers
        /\ pc' = "scan" /\ timerID' = timerID + 1
        /\ UNCHANGED <<status, intervalInTicks, remainingTicks, counter,
                       previousTimeInTicks, ticksSinceLastHere, age, origin>>
    BY DEF TInv, IInv, TypeOK, CallbackReturns, LooksAtTable, table, hardware,
           history, locals
  <1>2. \A u \in Timers : u \in Int /\ timerID \in Int
    BY <1>1, TimerAssumption DEF Timers
  <1>3. \A u \in Timers : Pending(u)' = Pending(u)
    BY <1>1, <1>2 DEF Pending, Counted
  <1>4. \A u \in Timers : InHand(u)'
    BY <1>1 DEF InHand
  <1>5. QED
    BY <1>1, <1>3, <1>4, PassOnTime

LEMMA EndOnTime ==
  ASSUME TInv, TypeOK', EndPass PROVE OnTimeInv'
  <1>1. /\ pc = "scan" /\ timerID = gTmrTotalTimers_c /\ pc' = "idle"
        /\ UNCHANGED <<status, intervalInTicks, remainingTicks,
                       previousTimeInTicks, age, origin>>
    BY DEF EndPass, table, history
  <1>2. \A u \in Timers : Pending(u) = 0 /\ Pending(u)' = 0
    BY <1>1, TimerAssumption DEF Pending, Counted, Timers
  <1>3. CASE RunningTimers = {}
    BY <1>1, <1>3 DEF TInv, OnTimeInv, OnTime, RunningTimers, Running, InHand
  <1>4. CASE RunningTimers # {}
    <2>1. numberOfActiveTimers # 0 \/ numberOfLowPowerActiveTimers # 0
      BY <1>4, KindsOfTimers, SubsetFinite DEF TInv, IInv, CountsMatch
    <2>2. UNCHANGED counter
      BY <2>1 DEF EndPass, SetAlarm
    <2>3. \A u \in Timers : InHand(u)'
      BY <1>1 DEF InHand
    <2>4. QED
      BY <1>1, <1>2, <2>2, <2>3, PassOnTime
  <1>5. QED
    BY <1>3, <1>4

-----------------------------------------------------------------------------

LEMMA NextTInv ==
  ASSUME TInv, [Next]_vars PROVE TInv'
  <1>1. IInv' /\ TypeOK'
    BY NextIInv DEF TInv, IInv
  <1>2. OnTimeInv'
    <2>1. CASE TMR_AllocateTimer
      <3>1. PICK t \in Timers : /\ status[t] = "Free"
                                /\ status' = [status EXCEPT ![t] = "Inactive"]
        BY <2>1 DEF TMR_AllocateTimer
      <3>2. UNCHANGED <<intervalInTicks, remainingTicks, counter, pc, timerID,
                        previousTimeInTicks, ticksSinceLastHere, age, origin>>
        BY <2>1 DEF TMR_AllocateTimer, hardware, locals, history
      <3>3. \A u \in Timers : origin[u] = "task" => OnTime(u)' /\ InHand(u)'
        <4> TAKE u \in Timers
        <4>1. CASE u = t
          BY <2>1, <3>1, <3>2, <4>1
             DEF TInv, IInv, TypeOK, OnTime, InHand, TMR_AllocateTimer, ClientMayCall
        <4>2. CASE u # t
          BY <3>1, <3>2, <4>2, SameOnTime DEF TInv, IInv, TypeOK, OnTimeInv, InHand
        <4>3. QED
          BY <4>1, <4>2
      <3>4. QED
        BY <3>1, <3>2, <3>3 DEF TInv, IInv, TypeOK, OnTimeInv
    <2>2. CASE (\E t \in Timers : Switch_Press_ISR(t)) \/ TMR_EnableTimer
      <3>1. PICK t \in Timers, ty \in SUBSET Flags,
                 i \in Intervals \cup {gKeyScanInterval_c} : StartTimer(t, ty, i)
        BY <2>2, EnableStarts DEF Switch_Press_ISR, TInv
      <3>2. i \in Nat /\ i <= AgeCap
        BY TimerAssumption
      <3>3. QED
        BY <3>1, <3>2, StartOnTime
    <2>3. CASE \E t \in Timers :
                  TMR_StopTimer(t) \/ TMR_StartTimer(t) \/ TMR_FreeTimer(t)
      <3>1. PICK t \in Timers : StopByClient(t)
        BY <2>3, ClientStops DEF TInv
      <3>2. /\ StopTo(t, "Inactive") /\ Forget(t)
            /\ UNCHANGED <<intervalInTicks, remainingTicks,
                           previousTimeInTicks, timerID, locals, pc>>
        BY <3>1 DEF StopByClient
      <3>3. QED
        BY <3>2, StopOnTime
    <2>4. CASE TMR_MarkTimerFree
      <3>1. UNCHANGED <<intervalInTicks, remainingTicks, counter, pc, timerID,
                        previousTimeInTicks, ticksSinceLastHere, age, origin>>
        BY <2>4 DEF TMR_MarkTimerFree, hardware, locals, history
      <3>2. pc \in {"idle", "callback"} /\ IInv
        BY <2>4, MarkFreeChanges DEF TInv
      <3>3. \A u \in Timers : origin[u] = "task" => OnTime(u)' /\ InHand(u)'
        <4> TAKE u \in Timers
        <4>1. CASE u = call.timer
          BY <2>4, <3>1, <3>2, <4>1, MarkFreeChanges DEF OnTime, InHand
        <4>2. CASE u # call.timer
          BY <2>4, <3>1, <3>2, <4>2, MarkFreeChanges, SameOnTime
             DEF TInv, OnTimeInv, InHand
        <4>3. QED
          BY <4>1, <4>2
      <3>4. QED
        BY <3>1, <3>3 DEF TInv, OnTimeInv
    <2>5. CASE Tick
      BY <2>5, TickOnTime
    <2>6. CASE ExpireSingleShot
      <3>1. /\ timerID \in Timers /\ pc = "expire" /\ pc' = "callback"
            /\ StopTo(timerID, "Inactive") /\ Forget(timerID)
            /\ UNCHANGED <<intervalInTicks, previousTimeInTicks, timerID, locals>>
            /\ \A u \in Timers \ {timerID} : remainingTicks'[u] = remainingTicks[u]
        BY <2>6 DEF TInv, IInv, TypeOK, ExpireSingleShot
      <3>2. QED
        BY <3>1, StopOnTime
    <2>7. CASE TMR_Task /\ ~ExpireSingleShot
      BY <1>1, <2>7, BeginOnTime, ScanOnTime, CountDownOnTime,
         ExpireIntervalOnTime, ReturnOnTime, EndOnTime DEF TMR_Task
    <2>8. CASE UNCHANGED vars
      BY <2>8, SameOnTime
         DEF TInv, OnTimeInv, InHand, vars, table, hardware, locals, history
    <2>9. QED
      BY <2>1, <2>2, <2>3, <2>4, <2>5, <2>6, <2>7, <2>8 DEF Next, FinishCall
  <1>3. QED
    BY <1>1, <1>2 DEF TInv

\* When TMR_Task finds a timer expired, its interval has elapsed.
LEMMA ExpiryIsDue ==
  ASSUME TInv, [Next]_vars, NEW t \in Timers, Fires(t), origin[t] = "task"
  PROVE  age[t] >= intervalInTicks[t]
  <1>1. pc = "expire" /\ timerID = t
    BY DEF Fires
  <1>2. /\ OnTime(t) /\ status[t] = "Active" /\ intervalInTicks[t] <= AgeCap
        /\ remainingTicks[t] <= ticksSinceLastHere
    BY <1>1 DEF TInv, OnTimeInv, InHand
  <1>3. Pending(t) = ticksSinceLastHere
    BY <1>1, TimerAssumption DEF Pending, Counted, Timers
  <1>4. /\ remainingTicks[t] \in Nat /\ intervalInTicks[t] \in Nat
        /\ age[t] \in Nat /\ SincePass \in Nat /\ ticksSinceLastHere \in Nat
    BY TicksType, ZeroIsATick DEF TInv, IInv, TypeOK, SincePass
  <1>5. QED
    BY <1>2, <1>3, <1>4 DEF OnTime

\* A timer started by a task is never called back before its interval has
\* elapsed, for every counter width, table size and set of intervals, however
\* the counter wraps or is cleared.
THEOREM NeverEarly == Spec => NoEarlyExpiry
  <1>1. Init => TInv
    BY InitIInv, InitOnTime DEF TInv
  <1>2. TInv /\ [Next]_vars
            => [\A t \in Timers : Fires(t) /\ origin[t] = "task"
                                    => age[t] >= intervalInTicks[t]]_vars
    BY ExpiryIsDue
  <1>3. QED
    BY <1>1, <1>2, NextTInv, PTL DEF Spec, NoEarlyExpiry

-----------------------------------------------------------------------------
(***************************************************************************)
(* No timer is overdue by more than the latencies of the task.             *)
(*                                                                         *)
(* Lag(t) is what has elapsed since the start but is not counted down.     *)
(* Outside a pass it is what the pass that made the timer Active left      *)
(* uncounted, at most 2 * MaxLatency, plus the time since the last pass;   *)
(* and the alarm is at most remainingTicks[t], or at most the shortest     *)
(* alarm, away from that pass.  When the clock was off or was cleared, a   *)
(* start has set the event, and the next pass is the one that counts.      *)
(***************************************************************************)

Lag(t) == age[t] + remainingTicks[t] - intervalInTicks[t]

\* Ticks between the last pass and the alarm it has programmed.
Distance == Ticks(previousTimeInTicks, compare)

\* The pass in progress has not looked at timer t yet.
Ahead(t) == t > timerID \/ (t = timerID /\ pc = "scan")

\* The pass has made nextInterruptTime reckon with timer t.
Scheduled(t) == Counted(t) /\ ~(t = timerID /\ pc = "schedule")

PassInv ==
    /\ late <= MaxLatency
    /\ pc # "idle" =>
          /\ currentTimeInTicks = previousTimeInTicks
          /\ nextInterruptTime <= mMaxToCountDown_c
          /\ timerHardwareIsRunning => SincePass = late

Armed(t) ==
    /\ Distance <= remainingTicks[t] \/ Distance <= MaxLatency + mMinTmrScheduleTicks
    /\ Distance <= mMaxToCountDown_c \/ Distance <= MaxLatency + mMinTmrScheduleTicks
    /\ event => SincePass <= Distance + late
    /\ ~event => SincePass < Distance

ReadyIdle(t) ==
    /\ event /\ age[t] <= late + MaxLatency
    /\ timerHardwareIsRunning \/ age[t] <= late

ActiveIdle(t) ==
    /\ timerHardwareIsRunning
    /\ \/ Lag(t) <= 2 * MaxLatency + SincePass /\ Armed(t)
       \/ event /\ Lag(t) <= MaxLatency + late

ReadyInPass(t) ==
    \/ event /\ age[t] <= late
    \/ /\ Ahead(t) /\ age[t] <= late + 2 * MaxLatency
       /\ timerHardwareIsRunning \/ (SincePass = 0 /\ age[t] <= late + MaxLatency)

ActiveInPass(t) ==
    /\ age[t] < intervalInTicks[t] + 4 * MaxLatency + mMinTmrScheduleTicks + late
    /\ Scheduled(t) => nextInterruptTime <= remainingTicks[t]
    /\ \/ /\ timerHardwareIsRunning
          /\ Lag(t) <= Pending(t) + 2 * MaxLatency + SincePass
       \/ /\ Counted(t) /\ ~timerHardwareIsRunning
          /\ SincePass = 0 /\ Lag(t) <= MaxLatency + late
       \/ Counted(t) /\ event /\ Lag(t) <= late

InTime(t) ==
    /\ Running(t) => 1 <= remainingTicks[t] /\ remainingTicks[t] <= intervalInTicks[t]
    /\ status[t] = "Ready"  => IF pc = "idle" THEN ReadyIdle(t) ELSE ReadyInPass(t)
    /\ status[t] = "Active" => IF pc = "idle" THEN ActiveIdle(t) ELSE ActiveInPass(t)

LInv == IInv /\ PassInv /\ \A t \in Timers : InTime(t)

\* The constants and the state are numbers.
LEMMA Numbers ==
  ASSUME TypeOK
  PROVE  /\ Wrap \in Nat \ {0} /\ MaxLatency \in Nat
         /\ mMinTmrScheduleTicks \in Nat \ {0}
         /\ mMaxToCountDown_c \in 1 .. Wrap - 1
         /\ counter \in 0 .. Wrap - 1 /\ previousTimeInTicks \in 0 .. Wrap - 1
         /\ compare \in 0 .. Wrap - 1
         /\ SincePass \in 0 .. Wrap - 1 /\ Distance \in 0 .. Wrap - 1
         /\ ticksSinceLastHere \in Nat /\ late \in Nat /\ nextInterruptTime \in Nat
         /\ timerID \in Int /\ event \in BOOLEAN
         /\ timerHardwareIsRunning \in BOOLEAN
         /\ \A t \in Timers :
               /\ t \in Int /\ age[t] \in Nat /\ remainingTicks[t] \in Nat
               /\ intervalInTicks[t] \in Nat /\ status[t] \in Statuses
               /\ Pending(t) \in Nat /\ Lag(t) \in Int
  <1>1. /\ counter \in 0 .. Wrap - 1 /\ previousTimeInTicks \in 0 .. Wrap - 1
        /\ compare \in 0 .. Wrap - 1 /\ ticksSinceLastHere \in 0 .. Wrap - 1
        /\ late \in Nat /\ nextInterruptTime \in Nat
        /\ event \in BOOLEAN /\ timerHardwareIsRunning \in BOOLEAN
    BY DEF TypeOK
  <1>2. SincePass \in 0 .. Wrap - 1 /\ Distance \in 0 .. Wrap - 1
    BY <1>1, TicksType DEF SincePass, Distance
  <1>3. timerID \in Int /\ \A t \in Timers : t \in Int
    BY TimerAssumption DEF TypeOK, Timers
  <1>4. \A t \in Timers :
            /\ age[t] \in Nat /\ remainingTicks[t] \in Nat
            /\ intervalInTicks[t] \in Nat /\ status[t] \in Statuses
    BY DEF TypeOK
  <1>5. \A t \in Timers : Pending(t) \in Nat /\ Lag(t) \in Int
    BY <1>1, <1>4 DEF Pending, Lag
  <1>6. QED
    BY <1>1, <1>2, <1>3, <1>4, <1>5, TimerAssumption

LEMMA TicksAhead ==
  ASSUME NEW a \in 0 .. Wrap - 1, NEW d \in 0 .. Wrap - 1
  PROVE  Ticks(a, (a + d) % Wrap) = d
  <1>1. Wrap \in Nat \ {0}
    BY TimerAssumption
  <1>2. CASE a + d < Wrap
    <2>1. (a + d) % Wrap = a + d
      BY <1>1, <1>2
    <2>2. QED
      BY <1>1, <2>1 DEF Ticks
  <1>3. CASE a + d >= Wrap
    <2>1. (a + d) % Wrap = a + d - Wrap
      BY <1>1, <1>3
    <2>2. QED
      BY <1>1, <1>3, <2>1 DEF Ticks
  <1>4. QED
    BY <1>1, <1>2, <1>3

\* A timer that a step does not touch stays in time.
LEMMA SameInTime ==
  ASSUME TypeOK, NEW t \in Timers, InTime(t),
         UNCHANGED <<counter, previousTimeInTicks, timerHardwareIsRunning,
                     compare, late>>,
         status'[t] = status[t], remainingTicks'[t] = remainingTicks[t],
         intervalInTicks'[t] = intervalInTicks[t], age'[t] = age[t],
         event => event', event' \in BOOLEAN,
         pc' = "idle" <=> pc = "idle",
         Counted(t)' <=> Counted(t), Ahead(t) => Ahead(t)',
         Scheduled(t)' => Scheduled(t),
         Pending(t)' = Pending(t),
         nextInterruptTime' \in Nat, nextInterruptTime' <= nextInterruptTime
  PROVE  InTime(t)'
  <1>1. SincePass' = SincePass /\ Distance' = Distance /\ Lag(t)' = Lag(t)
    BY DEF SincePass, Distance, Lag, Ticks
  <1>2. Armed(t) => Armed(t)'
    BY <1>1, Numbers DEF Armed
  <1>3. /\ ReadyIdle(t) => ReadyIdle(t)'
        /\ ActiveIdle(t) => ActiveIdle(t)'
        /\ ReadyInPass(t) => ReadyInPass(t)'
    BY <1>1, <1>2 DEF ReadyIdle, ActiveIdle, ReadyInPass
  <1>4. ActiveInPass(t) => ActiveInPass(t)'
    BY <1>1, Numbers DEF ActiveInPass
  <1>5. QED
    BY <1>3, <1>4 DEF InTime, Running

LEMMA InitLInv == Init => LInv
  <1>1. Init => PassInv
    BY TimerAssumption DEF Init, PassInv
  <1>2. Init => \A t \in Timers : status[t] = "Free"
    BY DEF Init
  <1>3. QED
    BY <1>1, <1>2, InitIInv DEF LInv, InTime, Running

\* The times that PassInv is about have not changed.
LEMMA SamePassInv ==
  ASSUME TypeOK, PassInv, late' = late, pc' # "idle" => pc # "idle",
         UNCHANGED <<currentTimeInTicks, previousTimeInTicks>>,
         nextInterruptTime' \in Nat, nextInterruptTime' <= nextInterruptTime,
         \/ timerHardwareIsRunning' = FALSE
         \/ UNCHANGED <<timerHardwareIsRunning, counter>>
  PROVE  PassInv'
  <1>1. timerHardwareIsRunning' => timerHardwareIsRunning /\ SincePass' = SincePass
    BY DEF SincePass, Ticks
  <1>2. nextInterruptTime \in Nat /\ mMaxToCountDown_c \in Nat
    BY Numbers
  <1>3. pc # "idle" /\ nextInterruptTime <= mMaxToCountDown_c
            => nextInterruptTime' <= mMaxToCountDown_c
    BY <1>2
  <1>4. QED
    BY <1>1, <1>3 DEF PassInv

\* What stopping timer t does to the clock: nothing, unless no other timer runs.
LEMMA StopClock ==
  ASSUME IInv, NEW t \in Timers, ClockAfterStop(t)
  PROVE  /\ \/ timerHardwareIsRunning' = FALSE
            \/ UNCHANGED <<timerHardwareIsRunning, counter>>
         /\ (\E u \in Timers : u # t /\ Running(u))
                => UNCHANGED <<timerHardwareIsRunning, counter>>
  <1>1. (\E u \in Timers : u # t /\ Running(u)) => RunningTimers \ {t} # {}
    BY DEF RunningTimers
  <1>2. QED
    BY <1>1, ClockStops DEF IInv, ClockAfterStop, DisableClock, hardware

LEMMA StartInTime ==
  ASSUME LInv, TypeOK', NEW t \in Timers, NEW ty \in SUBSET Flags,
         NEW i \in Nat \ {0}, StartTimer(t, ty, i)
  PROVE  PassInv' /\ \A u \in Timers : InTime(u)'
  <1>1. /\ UNCHANGED <<previousTimeInTicks, compare, late, pc, timerID,
                       currentTimeInTicks, ticksSinceLastHere, nextInterruptTime>>
        /\ event' = TRUE
    BY DEF StartTimer, WakeTask, locals
  <1>2. PassInv'
    <2>1. \/ timerHardwareIsRunning' = FALSE
          \/ UNCHANGED <<timerHardwareIsRunning, counter>>
      BY StopClock DEF LInv, StartTimer
    <2>2. TypeOK /\ PassInv /\ nextInterruptTime \in Nat
      BY Numbers DEF LInv, IInv
    <2>3. nextInterruptTime' <= nextInterruptTime /\ nextInterruptTime' \in Nat
      BY <1>1, <2>2
    <2>4. QED
      BY <1>1, <2>1, <2>2, <2>3, SamePassInv
  <1>3. InTime(t)'
    <2>1. /\ age'[t] = 0 /\ intervalInTicks'[t] = i /\ remainingTicks'[t] = i
          /\ status'[t] = "Ready"
      BY DEF LInv, IInv, TypeOK, StartTimer
    <2>2. late \in Nat /\ MaxLatency \in Nat
      BY Numbers DEF LInv, IInv
    <2>3. QED
      BY <1>1, <2>1, <2>2 DEF InTime, ReadyIdle, ReadyInPass
  <1>4. ASSUME NEW u \in Timers, u # t PROVE InTime(u)'
    <2>1. /\ age'[u] = age[u] /\ intervalInTicks'[u] = intervalInTicks[u]
          /\ remainingTicks'[u] = remainingTicks[u] /\ status'[u] = status[u]
      BY <1>4 DEF LInv, IInv, TypeOK, StartTimer
    <2>2. CASE ~Running(u)
      BY <2>1, <2>2 DEF InTime, Running
    <2>3. CASE Running(u)
      <3>1. UNCHANGED <<timerHardwareIsRunning, counter>>
        BY <1>4, <2>3, StopClock DEF LInv, StartTimer
      <3>2. /\ Counted(u)' <=> Counted(u)
            /\ Ahead(u)' <=> Ahead(u)
            /\ Pending(u)' = Pending(u)
            /\ Scheduled(u)' <=> Scheduled(u)
        BY <1>1 DEF Counted, Ahead, Pending, Scheduled
      <3>3. QED
        BY <1>1, <2>1, <3>1, <3>2, SameInTime, Numbers DEF LInv, IInv
    <2>4. QED
      BY <2>2, <2>3
  <1>5. QED
    BY <1>2, <1>3, <1>4

LEMMA StopInTime ==
  ASSUME LInv, NEW t \in Timers, NEW to \in {"Free", "Inactive"}, StopTo(t, to),
         UNCHANGED <<intervalInTicks, previousTimeInTicks, compare, event, late,
                     timerID, locals, nextInterruptTime>>,
         \A u \in Timers \ {t} : /\ remainingTicks'[u] = remainingTicks[u]
                                 /\ age'[u] = age[u],
         UNCHANGED pc \/ (pc = "expire" /\ pc' = "callback" /\ timerID = t)
  PROVE  PassInv' /\ \A u \in Timers : InTime(u)'
  <1>1. UNCHANGED <<currentTimeInTicks, ticksSinceLastHere>>
    BY DEF locals
  <1>2. PassInv'
    <2>1. \/ timerHardwareIsRunning' = FALSE
          \/ UNCHANGED <<timerHardwareIsRunning, counter>>
      BY StopClock DEF LInv, StopTo
    <2>2. TypeOK /\ PassInv /\ nextInterruptTime \in Nat
      BY Numbers DEF LInv, IInv
    <2>3. nextInterruptTime' <= nextInterruptTime /\ nextInterruptTime' \in Nat
      BY <1>1, <2>2
    <2>4. QED
      BY <1>1, <2>1, <2>2, <2>3, SamePassInv
  <1>3. InTime(t)'
    BY DEF LInv, IInv, TypeOK, StopTo, InTime, Running
  <1>4. ASSUME NEW u \in Timers, u # t PROVE InTime(u)'
    <2>1. /\ age'[u] = age[u] /\ intervalInTicks'[u] = intervalInTicks[u]
          /\ remainingTicks'[u] = remainingTicks[u] /\ status'[u] = status[u]
      BY <1>4 DEF LInv, IInv, TypeOK, StopTo
    <2>2. CASE ~Running(u)
      BY <2>1, <2>2 DEF InTime, Running
    <2>3. CASE Running(u)
      <3>1. UNCHANGED <<timerHardwareIsRunning, counter>>
        BY <1>4, <2>3, StopClock DEF LInv, StopTo
      <3>2. Counted(u)' <=> Counted(u)
        BY <1>4 DEF Counted
      <3>3. Ahead(u) => Ahead(u)'
        BY <1>4 DEF Ahead
      <3>4. Pending(u)' = Pending(u)
        BY <1>1, <3>2 DEF Pending
      <3>5. Scheduled(u)' => Scheduled(u)
        BY <1>4, <3>2 DEF Scheduled
      <3>6. QED
        BY <2>1, <3>1, <3>2, <3>3, <3>4, <3>5, SameInTime, Numbers DEF LInv, IInv
    <2>4. QED
      BY <2>2, <2>3
  <1>5. QED
    BY <1>2, <1>3, <1>4

LEMMA TickInTime ==
  ASSUME LInv, TypeOK', Tick
  PROVE  PassInv' /\ \A u \in Timers : InTime(u)'
  <1>1. /\ UNCHANGED <<status, intervalInTicks, remainingTicks, compare,
                       timerHardwareIsRunning, previousTimeInTicks, pc, timerID,
                       currentTimeInTicks, ticksSinceLastHere, nextInterruptTime>>
        /\ Busy => late < MaxLatency /\ late' = late + 1
        /\ ~Busy => late' = 0
        /\ event => event'
    BY DEF Tick, table, locals, StackTimer_ISR
  <1>2. \A u \in Timers : age'[u] <= age[u] + 1 /\ Lag(u)' <= Lag(u) + 1
    BY <1>1, Numbers DEF LInv, IInv, Tick, Lag
  <1>3. \A u \in Timers : /\ Counted(u)' <=> Counted(u)
                          /\ Ahead(u)' <=> Ahead(u)
                          /\ Pending(u)' = Pending(u)
                          /\ Scheduled(u)' <=> Scheduled(u)
    BY <1>1 DEF Counted, Ahead, Pending, Scheduled
  <1>4. Distance' = Distance
    BY <1>1 DEF Distance, Ticks
  <1>5. ~timerHardwareIsRunning => SincePass' = SincePass
    BY <1>1 DEF Tick, SincePass, Ticks
  <1>6. timerHardwareIsRunning /\ SincePass < Wrap - 1
            => SincePass' = SincePass + 1
    BY <1>1, Numbers DEF LInv, IInv, Tick, SincePass, Ticks
  <1>7. timerHardwareIsRunning /\ SincePass' = Distance => event'
    <2>1. counter' \in 0 .. Wrap - 1
      BY DEF TypeOK
    <2>2. SincePass' = Distance => counter' = compare
      BY <1>1, <2>1, Numbers DEF LInv, IInv, SincePass, Distance, Ticks
    <2>3. QED
      BY <2>2 DEF Tick, StackTimer_ISR
  <1>8. PassInv'
    <2>1. pc # "idle" => late < MaxLatency /\ late' = late + 1
      BY <1>1 DEF Busy
    <2>2. late' <= MaxLatency
      BY <1>1, Numbers DEF LInv, IInv
    <2>3. ASSUME pc # "idle", timerHardwareIsRunning PROVE SincePass' = late'
      <3>1. SincePass = late /\ late < MaxLatency /\ MaxLatency < Wrap
        BY <2>1, <2>3, Numbers, LatencyAssumption DEF LInv, IInv, PassInv
      <3>2. QED
        BY <1>6, <2>1, <2>3, <3>1, Numbers DEF LInv, IInv
    <2>4. QED
      BY <1>1, <2>2, <2>3 DEF LInv, PassInv
  <1>9. ASSUME NEW u \in Timers PROVE InTime(u)'
    <2>1. InTime(u)
      BY DEF LInv
    <2>2. ASSUME status[u] = "Ready", pc = "idle" PROVE ReadyIdle(u)'
      <3>1. ReadyIdle(u)
        BY <2>1, <2>2 DEF InTime
      <3>2. late' = late + 1 /\ event'
        BY <1>1, <3>1 DEF Busy, ReadyIdle
      <3>3. QED
        BY <1>1, <1>2, <3>1, <3>2, Numbers DEF LInv, IInv, TypeOK, ReadyIdle
    <2>3. ASSUME status[u] = "Active", pc = "idle" PROVE ActiveIdle(u)'
      <3>1. ActiveIdle(u)
        BY <2>1, <2>3 DEF InTime
      <3>2. CASE Lag(u) <= 2 * MaxLatency + SincePass /\ Armed(u)
        <4>1. SincePass < Wrap - 1
          <5>1. CASE event
            <6>1. late < MaxLatency
              BY <1>1, <5>1 DEF Busy
            <6>2. \/ Distance <= mMaxToCountDown_c
                  \/ Distance <= MaxLatency + mMinTmrScheduleTicks
              BY <3>2 DEF Armed
            <6>3. SincePass <= Distance + late
              BY <3>2, <5>1 DEF Armed
            <6>4. QED
              BY <6>1, <6>2, <6>3, Numbers, LatencyAssumption DEF LInv, IInv
          <5>2. CASE ~event
            BY <3>2, <5>2, Numbers DEF LInv, IInv, Armed
          <5>3. QED
            BY <5>1, <5>2
        <4>2. SincePass' = SincePass + 1
          BY <1>6, <3>1, <4>1 DEF ActiveIdle
        <4>3. Lag(u)' <= 2 * MaxLatency + SincePass'
          <5>1. Lag(u)' \in Int
            BY <1>1 DEF TypeOK, Lag
          <5>2. QED
            BY <1>2, <3>2, <4>2, <5>1, Numbers DEF LInv, IInv
        <4>4. Armed(u)'
          <5>1. CASE event
            <6>1. late' = late + 1 /\ event'
              BY <1>1, <5>1 DEF Busy
            <6>2. SincePass' <= Distance' + late'
              BY <1>4, <3>2, <4>2, <5>1, <6>1, Numbers DEF LInv, IInv, Armed
            <6>3. QED
              BY <1>1, <1>4, <3>2, <6>1, <6>2 DEF Armed
          <5>2. CASE ~event
            <6>1. SincePass' <= Distance'
              BY <1>4, <3>2, <4>2, <5>2, Numbers DEF LInv, IInv, Armed
            <6>2. ~event' => SincePass' < Distance'
              BY <1>4, <1>7, <3>1, <4>2, <6>1, Numbers DEF LInv, IInv, ActiveIdle
            <6>3. late' = 0
              BY <1>1, <2>3, <5>2 DEF Busy
            <6>4. SincePass' <= Distance' + late'
              BY <1>4, <6>1, <6>3, Numbers DEF LInv, IInv
            <6>5. QED
              BY <1>1, <1>4, <3>2, <6>2, <6>4 DEF Armed
          <5>3. QED
            BY <5>1, <5>2
        <4>5. QED
          BY <1>1, <3>1, <4>3, <4>4 DEF ActiveIdle
      <3>3. CASE event /\ Lag(u) <= MaxLatency + late
        <4>1. late' = late + 1 /\ event'
          BY <1>1, <3>3 DEF Busy
        <4>2. Lag(u)' \in Int
          BY <1>1 DEF TypeOK, Lag
        <4>3. Lag(u)' <= MaxLatency + late'
          BY <1>2, <3>3, <4>1, <4>2, Numbers DEF LInv, IInv
        <4>4. QED
          BY <1>1, <3>1, <4>1, <4>3 DEF ActiveIdle
      <3>4. QED
        BY <3>1, <3>2, <3>3 DEF ActiveIdle
    <2>4. ASSUME pc # "idle"
          PROVE  /\ late' = late + 1
                 /\ timerHardwareIsRunning => SincePass' = SincePass + 1
      BY <1>1, <1>8, <2>4, Numbers DEF LInv, IInv, PassInv, Busy
    <2>5. ASSUME status[u] = "Ready", pc # "idle" PROVE ReadyInPass(u)'
      <3>1. ReadyInPass(u)
        BY <2>1, <2>5 DEF InTime
      <3>2. age'[u] \in Int
        BY DEF TypeOK
      <3>3. QED
        BY <1>1, <1>2, <1>3, <1>5, <2>4, <2>5, <3>1, <3>2, Numbers
           DEF LInv, IInv, ReadyInPass
    <2>6. ASSUME status[u] = "Active", pc # "idle" PROVE ActiveInPass(u)'
      <3>1. ActiveInPass(u)
        BY <2>1, <2>6 DEF InTime
      <3>2. age'[u] \in Int /\ Lag(u)' \in Int
        BY <1>1 DEF TypeOK, Lag
      <3>3. QED
        BY <1>1, <1>2, <1>3, <1>5, <2>4, <2>6, <3>1, <3>2, Numbers
           DEF LInv, IInv, ActiveInPass
    <2>7. QED
      BY <1>1, <2>1, <2>2, <2>3, <2>5, <2>6 DEF InTime, Running
  <1>10. QED
    BY <1>8, <1>9

LEMMA BeginInTime ==
  ASSUME LInv, BeginPass
  PROVE  PassInv' /\ \A u \in Timers : InTime(u)'
  <1>1. /\ pc = "idle" /\ event /\ pc' = "scan" /\ timerID' = 0 /\ late' = 0
        /\ ticksSinceLastHere' = SincePass
        /\ nextInterruptTime' = mMaxToCountDown_c
        /\ currentTimeInTicks' = previousTimeInTicks'
        /\ UNCHANGED <<status, intervalInTicks, remainingTicks, age,
                       timerHardwareIsRunning>>
    BY DEF BeginPass, RememberTime, SincePass, table, hardware, history
  <1>2. SincePass' = 0
    BY DEF LInv, IInv, TypeOK, BeginPass, RememberTime, hardware, SincePass, Ticks
  <1>3. PassInv'
    BY <1>1, <1>2, TimerAssumption DEF PassInv
  <1>4. ASSUME NEW u \in Timers PROVE InTime(u)'
    <2>1. InTime(u) /\ late <= MaxLatency
      BY DEF LInv, PassInv
    <2>2. /\ ~Counted(u)' /\ ~Scheduled(u)' /\ Ahead(u)'
          /\ Pending(u)' = SincePass
      <3>1. u \in Nat
        BY TimerAssumption DEF Timers
      <3>2. QED
        BY <1>1, <3>1 DEF Counted, Scheduled, Ahead, Pending
    <2>3. ASSUME status[u] = "Ready" PROVE ReadyInPass(u)'
      <3>1. ReadyIdle(u)
        BY <1>1, <2>1, <2>3 DEF InTime
      <3>2. QED
        BY <1>1, <1>2, <2>1, <2>2, <3>1, Numbers DEF LInv, IInv, ReadyIdle, ReadyInPass
    <2>4. ASSUME status[u] = "Active" PROVE ActiveInPass(u)'
      <3>1. ActiveIdle(u) /\ Running(u)
        BY <1>1, <2>1, <2>4 DEF InTime, Running
      <3>2. Lag(u)' = Lag(u)
        BY <1>1 DEF Lag
      <3>3. Lag(u) <= 2 * MaxLatency + SincePass
        BY <2>1, <3>1, Numbers DEF LInv, IInv, ActiveIdle
      <3>4. age[u] < intervalInTicks[u] + 4 * MaxLatency + mMinTmrScheduleTicks
        <4>1. remainingTicks[u] >= 1
          BY <2>1, <3>1 DEF InTime
        <4>2. CASE Armed(u)
          <5>1. \/ Distance <= remainingTicks[u]
                \/ Distance <= MaxLatency + mMinTmrScheduleTicks
            BY <4>2 DEF Armed
          <5>2. SincePass <= Distance + late
            BY <1>1, <4>2 DEF Armed
          <5>3. age[u] + remainingTicks[u] - intervalInTicks[u]
                    <= 2 * MaxLatency + SincePass
            BY <3>3 DEF Lag
          <5>4. QED
            BY <2>1, <4>1, <5>1, <5>2, <5>3, Numbers DEF LInv, IInv
        <4>3. CASE Lag(u) <= MaxLatency + late
          BY <2>1, <4>1, <4>3, Numbers DEF LInv, IInv, Lag
        <4>4. QED
          BY <3>1, <4>2, <4>3 DEF ActiveIdle
      <3>5. QED
        BY <1>1, <1>2, <2>2, <3>1, <3>2, <3>3, <3>4, Numbers
           DEF LInv, IInv, ActiveIdle, ActiveInPass
    <2>5. QED
      BY <1>1, <2>1, <2>3, <2>4 DEF InTime, Running
  <1>5. QED
    BY <1>3, <1>4

LEMMA ScanInTime ==
  ASSUME LInv, ScanReady \/ ScanActive \/ ScanOther \/ TestCountdown \/ Schedule
  PROVE  PassInv' /\ \A u \in Timers : InTime(u)'
  <1>1. /\ pc \in {"scan", "countdown", "schedule"} /\ pc' # "idle"
        /\ timerID \in Timers
        /\ UNCHANGED <<intervalInTicks, remainingTicks, counter, age, event, late,
                       previousTimeInTicks, currentTimeInTicks, compare,
                       ticksSinceLastHere, timerHardwareIsRunning>>
    BY DEF ScanReady, ScanActive, ScanOther, TestCountdown, Schedule,
           LooksAtTable, table, hardware, history, locals, LInv, IInv, TypeOK
  <1>2. \A u \in Timers : u \in Int
    BY Numbers DEF LInv, IInv
  <1> PICK t \in Timers : t = timerID
    BY <1>1
  <1>3. \/ ScanReady /\ pc = "scan" /\ pc' = "schedule" /\ timerID' = timerID
        \/ ScanActive /\ pc = "scan" /\ pc' = "countdown" /\ timerID' = timerID
        \/ ScanOther /\ pc = "scan" /\ pc' = "scan" /\ timerID' = timerID + 1
        \/ /\ TestCountdown /\ pc = "countdown" /\ timerID' = timerID
           /\ pc' \in {"subtract", "expire"}
        \/ Schedule /\ pc = "schedule" /\ pc' = "scan" /\ timerID' = timerID + 1
    BY DEF ScanReady, ScanActive, ScanOther, TestCountdown, Schedule
  <1>4. /\ nextInterruptTime' \in Nat /\ nextInterruptTime' <= nextInterruptTime
        /\ Schedule => nextInterruptTime' <= remainingTicks[t]
    BY <1>1, Numbers DEF LInv, IInv, ScanReady, ScanActive, ScanOther,
                         TestCountdown, Schedule, Sooner
  <1>5. PassInv'
    BY <1>1, <1>4, SamePassInv DEF LInv, IInv
  <1>6. ASSUME NEW u \in Timers, u # t PROVE InTime(u)'
    <2>1. status'[u] = status[u]
      BY <1>6 DEF LInv, IInv, TypeOK, ScanReady, ScanActive, ScanOther,
                  TestCountdown, Schedule, LooksAtTable, table
    <2>2. (Counted(u)' <=> Counted(u)) /\ (Ahead(u) => Ahead(u)')
      BY <1>1, <1>2, <1>3, <1>6 DEF Counted, Ahead
    <2>3. Scheduled(u)' => Scheduled(u)
      BY <1>6, <2>2 DEF Scheduled
    <2>4. Pending(u)' = Pending(u)
      BY <1>1, <2>2 DEF Pending
    <2>5. TypeOK /\ InTime(u) /\ event' \in BOOLEAN
      BY <1>1, Numbers DEF LInv, IInv
    <2>6. QED
      BY <1>1, <1>4, <2>1, <2>2, <2>3, <2>4, <2>5, SameInTime
  <1>7. InTime(t)'
    <2>1. InTime(t)
      BY DEF LInv
    <2>2. CASE ScanReady
      <3>1. /\ status[t] = "Ready" /\ status'[t] = "Active"
            /\ pc = "scan" /\ pc' = "schedule" /\ timerID' = timerID
        BY <2>2 DEF LInv, IInv, TypeOK, ScanReady
      <3>2. Counted(t)' /\ Pending(t)' = 0 /\ ~Scheduled(t)'
        BY <1>2, <3>1 DEF Counted, Pending, Scheduled
      <3>3. ReadyInPass(t)
        BY <1>1, <2>1, <3>1 DEF InTime
      <3>4. 1 <= remainingTicks[t] /\ remainingTicks[t] <= intervalInTicks[t]
        BY <2>1, <3>1 DEF InTime, Running
      <3>5. Lag(t)' <= age[t] /\ Lag(t)' \in Int
        BY <1>1, <3>4, Numbers DEF LInv, IInv, Lag
      <3>6. SincePass' = SincePass /\ (timerHardwareIsRunning => SincePass = late)
        BY <1>1, <3>1 DEF LInv, PassInv, SincePass, Ticks
      <3>7. ActiveInPass(t)'
        <4>1. age[t] < intervalInTicks[t] + 4 * MaxLatency + mMinTmrScheduleTicks + late
          BY <3>3, <3>4, Numbers DEF LInv, IInv, ReadyInPass
        <4>2. CASE event /\ age[t] <= late
          BY <1>1, <3>2, <3>5, <4>1, <4>2, Numbers DEF LInv, IInv, ActiveInPass
        <4>3. CASE timerHardwareIsRunning /\ age[t] <= late + 2 * MaxLatency
          <5>1. Lag(t)' <= Pending(t)' + 2 * MaxLatency + SincePass'
            BY <3>2, <3>5, <3>6, <4>3, Numbers DEF LInv, IInv
          <5>2. QED
            BY <1>1, <3>2, <4>1, <4>3, <5>1 DEF ActiveInPass
        <4>4. CASE /\ ~timerHardwareIsRunning /\ SincePass = 0
                   /\ age[t] <= late + MaxLatency
          <5>1. Lag(t)' <= MaxLatency + late'
            BY <1>1, <3>5, <4>4, Numbers DEF LInv, IInv
          <5>2. QED
            BY <1>1, <3>2, <3>6, <4>1, <4>4, <5>1 DEF ActiveInPass
        <4>5. QED
          BY <3>3, <4>2, <4>3, <4>4 DEF ReadyInPass
      <3>8. QED
        BY <1>1, <3>1, <3>4, <3>7 DEF InTime
    <2>3. CASE ScanActive \/ TestCountdown \/ Schedule
      <3>1. UNCHANGED status /\ pc # "idle"
        BY <1>1, <2>3 DEF ScanActive, TestCountdown, Schedule, LooksAtTable, table
      <3>2. /\ Counted(t)' <=> Counted(t)
            /\ Pending(t)' = Pending(t)
            /\ ScanActive \/ TestCountdown => ~Scheduled(t)'
        BY <1>1, <1>2, <1>3, <2>3
           DEF ScanActive, TestCountdown, Schedule, Counted, Pending, Scheduled
      <3>3. SincePass' = SincePass /\ Lag(t)' = Lag(t)
        BY <1>1 DEF SincePass, Ticks, Lag
      <3>4. Scheduled(t)' => nextInterruptTime' <= remainingTicks'[t]
        BY <1>1, <1>4, <2>3, <3>2
      <3>5. status[t] = "Active" => ActiveInPass(t)'
        BY <1>1, <2>1, <3>1, <3>2, <3>3, <3>4 DEF InTime, ActiveInPass
      <3>6. status[t] = "Ready" => ReadyInPass(t)'
        <4>1. ~(ScanActive /\ status[t] = "Ready")
          BY <1>1 DEF ScanActive
        <4>2. status[t] = "Ready" => ReadyInPass(t) /\ ~Ahead(t)
          BY <1>1, <1>2, <1>3, <2>1, <2>3, <3>1, <4>1
             DEF InTime, Ahead, TestCountdown, Schedule
        <4>3. QED
          BY <1>1, <4>2 DEF ReadyInPass
      <3>7. QED
        BY <1>1, <2>1, <3>1, <3>5, <3>6 DEF InTime, Running
    <2>4. CASE ScanOther
      BY <1>1, <2>1, <2>4 DEF ScanOther, LooksAtTable, InTime, Running, table
    <2>5. QED
      BY <2>2, <2>3, <2>4
  <1>8. QED
    BY <1>5, <1>6, <1>7

\* A timer is counted down, or reloaded.  The key interrupt may have restarted
\* it since its status was read: it is then Ready again, and the event is set.
LEMMA CountInTime ==
  ASSUME LInv, CountDown \/ ExpireInterval
  PROVE  PassInv' /\ \A u \in Timers : InTime(u)'
  <1>1. /\ pc \in {"subtract", "expire"} /\ timerID \in Timers
        /\ pc' \in {"schedule", "callback"} /\ timerID' = timerID
        /\ UNCHANGED <<status, intervalInTicks, counter, event, late,
                       previousTimeInTicks, currentTimeInTicks, compare,
                       ticksSinceLastHere, timerHardwareIsRunning>>
    BY DEF LInv, IInv, TypeOK, CountDown, ExpireInterval, hardware, locals
  <1>2. \A u \in Timers : u \in Int
    BY Numbers DEF LInv, IInv
  <1> PICK t \in Timers : t = timerID
    BY <1>1
  <1>3. \/ /\ CountDown /\ remainingTicks[t] > ticksSinceLastHere
           /\ remainingTicks'[t] = remainingTicks[t] - ticksSinceLastHere
           /\ age'[t] = age[t] /\ pc' = "schedule"
           /\ nextInterruptTime' = nextInterruptTime
        \/ /\ ExpireInterval
           /\ remainingTicks'[t] = intervalInTicks[t]
           /\ age'[t] = 0 /\ pc' = "callback"
           /\ nextInterruptTime' = Sooner(nextInterruptTime, remainingTicks'[t])
    <2>1. CASE CountDown
      <3>1. IInv
        BY DEF LInv
      <3>2. QED
        BY <2>1, <3>1, Subtraction DEF CountDown, history
    <2>2. CASE ExpireInterval
      BY <2>2 DEF LInv, IInv, TypeOK, ExpireInterval
    <2>3. QED
      BY <2>1, <2>2
  <1>4. /\ nextInterruptTime' \in Nat /\ nextInterruptTime' <= nextInterruptTime
        /\ pc' = "callback" => nextInterruptTime' <= remainingTicks'[t]
    <2>1. remainingTicks'[t] \in Nat
      BY <1>3, Numbers DEF LInv, IInv
    <2>2. QED
      BY <1>3, <2>1, Numbers DEF LInv, IInv, Sooner
  <1>5. PassInv'
    BY <1>1, <1>4, SamePassInv DEF LInv, IInv
  <1>6. ASSUME NEW u \in Timers, u # t PROVE InTime(u)'
    <2>1. remainingTicks'[u] = remainingTicks[u] /\ age'[u] = age[u]
      BY <1>6 DEF LInv, IInv, TypeOK, CountDown, ExpireInterval, history
    <2>2. /\ Counted(u)' <=> Counted(u)
          /\ Ahead(u) => Ahead(u)'
          /\ Scheduled(u)' => Scheduled(u)
      BY <1>1, <1>2, <1>3, <1>6 DEF Counted, Ahead, Scheduled
    <2>3. Pending(u)' = Pending(u)
      BY <1>1, <2>2 DEF Pending
    <2>4. TypeOK /\ InTime(u) /\ event' \in BOOLEAN
      BY <1>1, Numbers DEF LInv, IInv
    <2>5. QED
      BY <1>1, <1>4, <2>1, <2>2, <2>3, <2>4, SameInTime
  <1>7. InTime(t)'
    <2>1. InTime(t)
      BY DEF LInv
    <2>2. Running(t)' => 1 <= remainingTicks'[t] /\ remainingTicks'[t] <= intervalInTicks'[t]
      <3>1. Running(t) => 1 <= remainingTicks[t] /\ remainingTicks[t] <= intervalInTicks[t]
        BY <2>1 DEF InTime
      <3>2. Running(t)' <=> Running(t)
        BY <1>1 DEF Running
      <3>3. QED
        BY <1>1, <1>3, <3>1, <3>2, Numbers DEF LInv, IInv
    <2>3. ASSUME status[t] = "Ready" PROVE ReadyInPass(t)'
      <3>1. event /\ age[t] <= late
        BY <1>1, <1>2, <2>1, <2>3 DEF InTime, ReadyInPass, Ahead
      <3>2. QED
        BY <1>1, <1>3, <3>1, Numbers DEF LInv, IInv, ReadyInPass
    <2>4. ASSUME status[t] = "Active" PROVE ActiveInPass(t)'
      <3>1. ~Counted(t) /\ Pending(t) = ticksSinceLastHere
        BY <1>1, <1>2 DEF Counted, Pending
      <3>2. /\ age[t] < intervalInTicks[t] + 4 * MaxLatency
                            + mMinTmrScheduleTicks + late
            /\ timerHardwareIsRunning
            /\ Lag(t) <= ticksSinceLastHere + 2 * MaxLatency + SincePass
        BY <1>1, <2>1, <2>4, <3>1 DEF InTime, ActiveInPass
      <3>3. Pending(t)' = 0 /\ SincePass' = SincePass
        BY <1>1, <1>2, <1>3 DEF Pending, Counted, SincePass, Ticks
      <3>4. Lag(t)' <= 2 * MaxLatency + SincePass
        BY <1>1, <1>3, <3>2, Numbers DEF LInv, IInv, Lag
      <3>5. age'[t] <= age[t] /\ age'[t] \in Nat
        BY <1>3, Numbers DEF LInv, IInv
      <3>6. age'[t] < intervalInTicks[t] + 4 * MaxLatency + mMinTmrScheduleTicks + late
        BY <3>2, <3>5, Numbers DEF LInv, IInv
      <3>7. Lag(t)' <= Pending(t)' + 2 * MaxLatency + SincePass'
        BY <3>3, <3>4, Numbers DEF LInv, IInv
      <3>8. Scheduled(t)' => nextInterruptTime' <= remainingTicks'[t]
        BY <1>1, <1>4 DEF Scheduled
      <3>9. QED
        BY <1>1, <3>2, <3>6, <3>7, <3>8 DEF ActiveInPass
    <2>5. QED
      BY <1>1, <2>2, <2>3, <2>4 DEF InTime
  <1>8. QED
    BY <1>5, <1>6, <1>7

LEMMA ReturnInTime ==
  ASSUME LInv, CallbackReturns
  PROVE  PassInv' /\ \A u \in Timers : InTime(u)'
  <1>1. /\ pc = "callback" /\ timerID \in Timers
        /\ pc' = "scan" /\ timerID' = timerID + 1
        /\ UNCHANGED <<status, intervalInTicks, remainingTicks, age, counter,
                       event, late, previousTimeInTicks, currentTimeInTicks,
                       compare, ticksSinceLastHere, timerHardwareIsRunning,
                       nextInterruptTime>>
    BY DEF LInv, IInv, TypeOK, CallbackReturns, LooksAtTable, table, hardware,
           history, locals
  <1>2. TypeOK /\ PassInv /\ nextInterruptTime \in Nat /\ event \in BOOLEAN
    BY Numbers DEF LInv, IInv
  <1>3. ASSUME NEW u \in Timers PROVE InTime(u)'
    <2>1. /\ Counted(u)' <=> Counted(u)
          /\ Ahead(u) => Ahead(u)'
          /\ Scheduled(u)' <=> Scheduled(u)
      BY <1>1, <1>2, Numbers DEF Counted, Ahead, Scheduled
    <2>2. Pending(u)' = Pending(u)
      BY <1>1, <2>1 DEF Pending
    <2>3. QED
      BY <1>1, <1>2, <2>1, <2>2, SameInTime DEF LInv
  <1>4. QED
    BY <1>1, <1>2, <1>3, SamePassInv

LEMMA EndInTime ==
  ASSUME LInv, EndPass
  PROVE  PassInv' /\ \A u \in Timers : InTime(u)'
  <1>1. /\ pc = "scan" /\ timerID = gTmrTotalTimers_c /\ pc' = "idle" /\ late' = 0
        /\ UNCHANGED <<status, intervalInTicks, remainingTicks, age, event,
                       previousTimeInTicks>>
    BY DEF EndPass, table, history
  <1>2. PassInv'
    BY <1>1, Numbers DEF LInv, IInv, PassInv
  <1>3. ASSUME NEW u \in Timers PROVE InTime(u)'
    <2>1. InTime(u)
      BY DEF LInv
    <2>2. Counted(u) /\ Scheduled(u) /\ ~Ahead(u) /\ Pending(u) = 0
      BY <1>1, TimerAssumption DEF Counted, Scheduled, Ahead, Pending, Timers
    <2>3. ASSUME Running(u)
          PROVE  /\ timerHardwareIsRunning' = TRUE /\ UNCHANGED counter
                 /\ compare' = (currentTimeInTicks + AlarmDistance) % Wrap
      <3>1. RunningTimers # {}
        BY <2>3 DEF RunningTimers
      <3>2. numberOfActiveTimers # 0 \/ numberOfLowPowerActiveTimers # 0
        BY <3>1, KindsOfTimers, SubsetFinite DEF LInv, IInv, CountsMatch
      <3>3. QED
        BY <3>2 DEF EndPass, SetAlarm
    <2>4. ASSUME status[u] = "Ready" PROVE ReadyIdle(u)'
      <3>1. event /\ age[u] <= late
        BY <1>1, <2>1, <2>2, <2>4 DEF InTime, ReadyInPass
      <3>2. timerHardwareIsRunning'
        BY <2>3, <2>4 DEF Running
      <3>3. QED
        BY <1>1, <3>1, <3>2, Numbers DEF LInv, IInv, PassInv, ReadyIdle
    <2>5. ASSUME status[u] = "Active" PROVE ActiveIdle(u)'
      <3>1. ActiveInPass(u)
        BY <1>1, <2>1, <2>5 DEF InTime
      <3>2. /\ timerHardwareIsRunning' /\ UNCHANGED counter
            /\ compare' = (currentTimeInTicks + AlarmDistance) % Wrap
        BY <2>3, <2>5 DEF Running
      <3>3. SincePass' = SincePass /\ Lag(u)' = Lag(u)
        BY <1>1, <3>2 DEF SincePass, Ticks, Lag
      <3>4. CASE event /\ Lag(u) <= late
        BY <1>1, <3>2, <3>3, <3>4, Numbers DEF LInv, IInv, PassInv, ActiveIdle
      <3>5. CASE SincePass <= MaxLatency /\ Lag(u) <= 2 * MaxLatency + SincePass
        <4>1. currentTimeInTicks = previousTimeInTicks
          BY <1>1 DEF LInv, PassInv
        <4>2. /\ nextInterruptTime <= remainingTicks[u]
              /\ nextInterruptTime <= mMaxToCountDown_c
          BY <1>1, <2>2, <3>1 DEF LInv, PassInv, ActiveInPass
        <4>3. AlarmDistance =
                IF nextInterruptTime - SincePass < mMinTmrScheduleTicks
                THEN SincePass + mMinTmrScheduleTicks ELSE nextInterruptTime
          BY <4>1 DEF AlarmDistance, SincePass
        <4>4. AlarmDistance \in 0 .. Wrap - 1 /\ AlarmDistance > SincePass
          BY <3>5, <4>2, <4>3, Numbers, LatencyAssumption DEF LInv, IInv
        <4>5. Distance' = AlarmDistance
          <5>1. Distance' = Ticks(previousTimeInTicks,
                                  (previousTimeInTicks + AlarmDistance) % Wrap)
            BY <1>1, <3>2, <4>1 DEF Distance
          <5>2. QED
            BY <4>4, <5>1, TicksAhead, Numbers DEF LInv, IInv
        <4>6. /\ \/ AlarmDistance <= remainingTicks[u]
                 \/ AlarmDistance <= MaxLatency + mMinTmrScheduleTicks
              /\ \/ AlarmDistance <= mMaxToCountDown_c
                 \/ AlarmDistance <= MaxLatency + mMinTmrScheduleTicks
          BY <3>5, <4>2, <4>3, Numbers DEF LInv, IInv
        <4>7. SincePass <= AlarmDistance + 0
          BY <4>4, Numbers DEF LInv, IInv
        <4>8. Armed(u)'
          BY <1>1, <3>3, <4>4, <4>5, <4>6, <4>7 DEF Armed
        <4>9. QED
          BY <3>2, <3>3, <3>5, <4>8 DEF ActiveIdle
      <3>6. QED
        <4>1. late <= MaxLatency /\ (timerHardwareIsRunning => SincePass = late)
          BY <1>1 DEF LInv, PassInv
        <4>2. QED
          BY <2>2, <3>1, <3>4, <3>5, <4>1, Numbers DEF LInv, IInv, ActiveInPass
    <2>6. QED
      BY <1>1, <2>1, <2>4, <2>5 DEF InTime, Running
  <1>4. QED
    BY <1>2, <1>3

-----------------------------------------------------------------------------

LEMMA NextLInv ==
  ASSUME LInv, [Next]_vars PROVE LInv'
  <1>1. IInv' /\ TypeOK'
    BY NextIInv DEF LInv, IInv
  <1>2. PassInv' /\ \A u \in Timers : InTime(u)'
    <2>1. CASE TMR_AllocateTimer
      <3>1. PICK t \in Timers : /\ status[t] = "Free"
                                /\ status' = [status EXCEPT ![t] = "Inactive"]
        BY <2>1 DEF TMR_AllocateTimer
      <3>2. /\ UNCHANGED <<intervalInTicks, remainingTicks, counter, pc, timerID,
                           previousTimeInTicks, currentTimeInTicks, compare,
                           ticksSinceLastHere, nextInterruptTime, event, late, age,
                           timerHardwareIsRunning>>
        BY <2>1 DEF TMR_AllocateTimer, hardware, locals, history
      <3>3. TypeOK /\ PassInv /\ nextInterruptTime \in Nat /\ event \in BOOLEAN
        BY Numbers DEF LInv, IInv
      <3>4. ASSUME NEW u \in Timers PROVE InTime(u)'
        <4>1. CASE u = t
          BY <3>1, <4>1, <3>3 DEF TypeOK, InTime, Running
        <4>2. CASE u # t
          <5>1. /\ status'[u] = status[u] /\ Pending(u)' = Pending(u)
                /\ Counted(u)' <=> Counted(u)
                /\ Ahead(u)' <=> Ahead(u)
                /\ Scheduled(u)' <=> Scheduled(u)
            BY <3>1, <3>2, <3>3, <4>2 DEF TypeOK, Pending, Counted, Ahead, Scheduled
          <5>2. QED
            BY <3>2, <3>3, <5>1, SameInTime DEF LInv
        <4>3. QED
          BY <4>1, <4>2
      <3>5. QED
        BY <3>2, <3>3, <3>4, SamePassInv
    <2>2. CASE (\E t \in Timers : Switch_Press_ISR(t)) \/ TMR_EnableTimer
      <3>1. PICK t \in Timers, ty \in SUBSET Flags,
                 i \in Intervals \cup {gKeyScanInterval_c} : StartTimer(t, ty, i)
        BY <2>2, EnableStarts DEF Switch_Press_ISR, LInv
      <3>2. i \in Nat \ {0}
        BY TimerAssumption
      <3>3. QED
        BY <1>1, <3>1, <3>2, StartInTime
    <2>3. CASE ExpireSingleShot \/ \E t \in Timers :
                  TMR_StopTimer(t) \/ TMR_StartTimer(t) \/ TMR_FreeTimer(t)
      <3>1. PICK t \in Timers :
                /\ StopTo(t, "Inactive") /\ Forget(t)
                /\ UNCHANGED <<intervalInTicks, previousTimeInTicks, compare, event,
                               late, timerID, locals, nextInterruptTime>>
                /\ \A u \in Timers \ {t} : remainingTicks'[u] = remainingTicks[u]
                /\ \/ UNCHANGED pc
                   \/ pc = "expire" /\ pc' = "callback" /\ timerID = t
        <4>1. CASE ExpireSingleShot
          <5>1. timerID \in Timers
            BY <4>1 DEF LInv, IInv, TypeOK, ExpireSingleShot
          <5>2. QED
            BY <4>1, <5>1 DEF LInv, IInv, TypeOK, ExpireSingleShot
        <4>2. CASE \E t \in Timers :
                      TMR_StopTimer(t) \/ TMR_StartTimer(t) \/ TMR_FreeTimer(t)
          BY <4>2, ClientStops DEF LInv, StopByClient
        <4>3. QED
          BY <2>3, <4>1, <4>2
      <3>2. \A u \in Timers \ {t} : age'[u] = age[u]
        BY <3>1 DEF LInv, IInv, TypeOK, Forget
      <3>3. QED
        BY <3>1, <3>2, StopInTime
    <2>4. CASE Tick
      BY <1>1, <2>4, TickInTime
    <2>5. CASE TMR_Task /\ ~ExpireSingleShot
      BY <2>5, BeginInTime, ScanInTime, CountInTime, ReturnInTime, EndInTime
         DEF TMR_Task
    <2>6. CASE TMR_MarkTimerFree
      <3>1. UNCHANGED <<intervalInTicks, remainingTicks, counter, pc, timerID,
                        previousTimeInTicks, currentTimeInTicks, compare,
                        ticksSinceLastHere, nextInterruptTime, event, late, age,
                        timerHardwareIsRunning>>
        BY <2>6 DEF TMR_MarkTimerFree, hardware, locals, history
      <3>2. TypeOK /\ PassInv /\ nextInterruptTime \in Nat /\ event \in BOOLEAN
        BY Numbers DEF LInv, IInv
      <3>3. ASSUME NEW u \in Timers PROVE InTime(u)'
        <4>1. CASE u = call.timer
          BY <2>6, <4>1, MarkFreeChanges DEF LInv, InTime, Running
        <4>2. CASE u # call.timer
          <5>1. /\ status'[u] = status[u] /\ Pending(u)' = Pending(u)
                /\ Counted(u)' <=> Counted(u)
                /\ Ahead(u)' <=> Ahead(u)
                /\ Scheduled(u)' <=> Scheduled(u)
            BY <2>6, <3>1, <4>2, MarkFreeChanges
               DEF LInv, Pending, Counted, Ahead, Scheduled
          <5>2. QED
            BY <3>1, <3>2, <5>1, SameInTime DEF LInv
        <4>3. QED
          BY <4>1, <4>2
      <3>4. QED
        BY <3>1, <3>2, <3>3, SamePassInv
    <2>7. CASE UNCHANGED vars
      <3>1. /\ UNCHANGED <<status, intervalInTicks, remainingTicks, counter, pc,
                           timerID, previousTimeInTicks, currentTimeInTicks,
                           compare, ticksSinceLastHere, nextInterruptTime, event,
                           late, age, timerHardwareIsRunning>>
        BY <2>7 DEF vars, table, hardware, locals, history
      <3>2. TypeOK /\ PassInv /\ nextInterruptTime \in Nat /\ event \in BOOLEAN
        BY Numbers DEF LInv, IInv
      <3>3. \A u \in Timers : /\ Pending(u)' = Pending(u)
                              /\ Counted(u)' <=> Counted(u)
                              /\ Ahead(u)' <=> Ahead(u)
                              /\ Scheduled(u)' <=> Scheduled(u)
        BY <3>1 DEF Pending, Counted, Ahead, Scheduled
      <3>4. QED
        BY <3>1, <3>2, <3>3, SameInTime, SamePassInv DEF LInv
    <2>8. QED
      BY <2>1, <2>2, <2>3, <2>4, <2>5, <2>6, <2>7 DEF Next, FinishCall
  <1>3. QED
    BY <1>1, <1>2 DEF LInv

LEMMA InTimeIsSoon ==
  ASSUME LInv PROVE NeverOverdue
  <1> SUFFICES ASSUME NEW t \in Timers, Running(t)
               PROVE  age[t] < intervalInTicks[t] + Overdue
    BY DEF NeverOverdue
  <1>1. /\ InTime(t) /\ late <= MaxLatency
        /\ 1 <= remainingTicks[t] /\ remainingTicks[t] <= intervalInTicks[t]
    BY DEF LInv, PassInv, InTime
  <1>2. CASE status[t] = "Ready"
    <2>1. age[t] <= late + 2 * MaxLatency
      BY <1>1, <1>2, Numbers DEF LInv, IInv, InTime, ReadyIdle, ReadyInPass
    <2>2. QED
      BY <1>1, <2>1, Numbers DEF LInv, IInv, Overdue
  <1>3. CASE status[t] = "Active" /\ pc = "idle"
    <2>1. ActiveIdle(t)
      BY <1>1, <1>3 DEF InTime
    <2>2. CASE Armed(t) /\ Lag(t) <= 2 * MaxLatency + SincePass
      <3>1. SincePass <= Distance + late
        BY <2>2, Numbers DEF LInv, IInv, Armed
      <3>2. \/ Distance <= remainingTicks[t]
            \/ Distance <= MaxLatency + mMinTmrScheduleTicks
        BY <2>2 DEF Armed
      <3>3. age[t] + remainingTicks[t] - intervalInTicks[t]
                <= 2 * MaxLatency + SincePass
        BY <2>2 DEF Lag
      <3>4. QED
        BY <1>1, <3>1, <3>2, <3>3, Numbers DEF LInv, IInv, Overdue
    <2>3. CASE Lag(t) <= MaxLatency + late
      BY <1>1, <2>3, Numbers DEF LInv, IInv, Lag, Overdue
    <2>4. QED
      BY <2>1, <2>2, <2>3 DEF ActiveIdle
  <1>4. CASE status[t] = "Active" /\ pc # "idle"
    <2>1. age[t] < intervalInTicks[t] + 4 * MaxLatency + mMinTmrScheduleTicks + late
      BY <1>1, <1>4 DEF InTime, ActiveInPass
    <2>2. QED
      BY <1>1, <2>1, Numbers DEF LInv, IInv, Overdue
  <1>5. QED
    BY <1>2, <1>3, <1>4 DEF Running

\* A running timer is called back, or at least reached by the pass that calls
\* it back, within its interval plus five latencies of the task and the
\* shortest alarm, for every counter width, table size and set of intervals.
THEOREM NeverLate == Spec => []NeverOverdue
  <1>1. LInv => NeverOverdue
    BY InTimeIsSoon
  <1>2. LInv /\ [Next]_vars => LInv'
    BY NextLInv
  <1>3. QED
    BY <1>1, <1>2, InitLInv, PTL DEF Spec
=============================================================================

--------------------------- MODULE TimersManager ---------------------------
(***************************************************************************)
(* The software timers of the framework (TimersManager.c) on the QN9080:   *)
(* a table of timers multiplexed on one free-running hardware counter with *)
(* one compare register.  TMR_Task is an OSA task: it runs when its event  *)
(* is set, reads the counter once, then walks the whole table with         *)
(* interrupts enabled between short critical sections, calls the callbacks *)
(* of expired timers and programs the next alarm.  Interrupt handlers run  *)
(* between any two critical sections: the alarm itself, and the key        *)
(* interrupt, which restarts the key-scan timer.  The steps are cut there, *)
(* in TMR_Task and in the calls of the interface that take several         *)
(* critical sections.                                                      *)
(*                                                                         *)
(* Time is counted in ticks of the hardware counter.  The conversion from  *)
(* milliseconds is left out: an interval is a number of ticks, at least 1. *)
(***************************************************************************)
EXTENDS Integers, FiniteSets

CONSTANTS
    gTmrTotalTimers_c,    \* size of the timer table
    Wrap,                 \* the counter counts modulo Wrap (2^32 in the code)
    mMaxToCountDown_c,    \* the longest alarm ever programmed
    mMinTmrScheduleTicks, \* the shortest alarm ever programmed
    MaxLatency,           \* longest wait for the task, and longest pass
    Intervals,            \* the intervals the clients ask for
    TimerTypes,           \* the timer types the clients ask for
    IsrTimers,            \* the timers an interrupt handler restarts
    gKeyScanInterval_c,   \* the interval it always restarts them with
    AgeCap                \* bound: ticks since a start are counted up to AgeCap

Timers == 0 .. gTmrTotalTimers_c - 1

\* gTmrSingleShotTimer_c, gTmrSetMinuteTimer_c and gTmrSetSecondTimer_c are
\* one flag here: the code treats the three alike.
Flags == {"SingleShot", "LowPower"}

ASSUME TimerAssumption ==
    /\ gTmrTotalTimers_c \in Nat \ {0}
    /\ Wrap \in Nat \ {0}
    /\ mMaxToCountDown_c \in 1 .. Wrap - 1
    /\ mMinTmrScheduleTicks \in Nat \ {0}
    /\ MaxLatency \in Nat
    /\ Intervals \subseteq Nat \ {0}
    /\ TimerTypes \subseteq SUBSET Flags
    /\ IsrTimers \subseteq Timers
    /\ AgeCap \in Nat
    /\ gKeyScanInterval_c \in Nat \ {0}
    /\ \A i \in Intervals \cup {gKeyScanInterval_c} : i <= AgeCap

\* "Count to maximum (0xffff - 2*4ms(in ticks)), to be sure that the
\* currentTimeInTicks will never roll over previousTimeInTicks": the longest
\* alarm leaves room for the latency of the task.
ASSUME LatencyAssumption ==
    /\ mMaxToCountDown_c + MaxLatency < Wrap
    /\ 2 * MaxLatency + mMinTmrScheduleTicks < Wrap

VARIABLES
    status,            \* maTmrTimerStatusTable, the status bits
    type,              \* maTmrTimerStatusTable, the type bits: a set of flags
    intervalInTicks,   \* maTmrTimerTable[].intervalInTicks
    remainingTicks,    \* maTmrTimerTable[].remainingTicks
    numberOfActiveTimers,
    numberOfLowPowerActiveTimers,
    timerHardwareIsRunning,
    counter,           \* the free-running counter of the RTC
    compare,           \* its interrupt threshold
    bTimerServPending,
    event,             \* mTimerThreadEventId is signalled
    call,              \* the client's call that is between two of its steps
    previousTimeInTicks,
    pc,                \* where TMR_Task is
    timerID,           \* locals of TMR_Task
    currentTimeInTicks,
    ticksSinceLastHere,
    nextInterruptTime,
    late,              \* ticks since TMR_Task was last due or entered
    age,               \* history: ticks since a running timer was (re)loaded
    origin             \* history: who (re)loaded it

table    == <<status, type, intervalInTicks, remainingTicks>>
counts   == <<numberOfActiveTimers, numberOfLowPowerActiveTimers>>
hardware == <<timerHardwareIsRunning, counter>>
locals   == <<currentTimeInTicks, ticksSinceLastHere>>
history  == <<age, origin>>
vars == <<table, counts, hardware, compare, bTimerServPending, event,
          call, previousTimeInTicks, pc, timerID, locals, nextInterruptTime,
          late, history>>

\* A call is a record of the function and the timer; or none is under way.
NoCall == [of |-> "none", timer |-> 0]
Calls == [of : {"none", "TMR_StartTimer", "TMR_FreeTimer"}, timer : Timers]

Statuses == {"Free", "Inactive", "Ready", "Active"}
Running(t) == status[t] \in {"Ready", "Active"}
RunningTimers == {t \in Timers : Running(t)}

TypeOK ==
    /\ status \in [Timers -> Statuses]
    /\ type \in [Timers -> SUBSET Flags]
    /\ intervalInTicks \in [Timers -> Nat]
    /\ remainingTicks \in [Timers -> Nat]
    /\ numberOfActiveTimers \in Nat
    /\ numberOfLowPowerActiveTimers \in Nat
    /\ timerHardwareIsRunning \in BOOLEAN
    /\ counter \in 0 .. Wrap - 1
    /\ compare \in 0 .. Wrap - 1
    /\ bTimerServPending \in BOOLEAN
    /\ event \in BOOLEAN
    /\ call \in Calls
    /\ previousTimeInTicks \in 0 .. Wrap - 1
    /\ pc \in {"idle", "scan", "countdown", "subtract", "expire", "schedule",
               "callback"}
    /\ timerID \in 0 .. gTmrTotalTimers_c
    /\ pc \notin {"idle", "scan"} => timerID \in Timers
    /\ currentTimeInTicks \in 0 .. Wrap - 1
    /\ ticksSinceLastHere \in 0 .. Wrap - 1
    /\ nextInterruptTime \in Nat
    /\ late \in Nat
    /\ age \in [Timers -> Nat]
    /\ origin \in [Timers -> {"none", "task", "pass", "reload"}]

\* The state after TMR_Init: static storage is zero, no timer is allocated.
Init ==
    /\ status = [t \in Timers |-> "Free"]
    /\ type = [t \in Timers |-> {}]
    /\ intervalInTicks = [t \in Timers |-> 0]
    /\ remainingTicks = [t \in Timers |-> 0]
    /\ numberOfActiveTimers = 0 /\ numberOfLowPowerActiveTimers = 0
    /\ timerHardwareIsRunning = FALSE /\ counter = 0 /\ compare = 0
    /\ bTimerServPending = FALSE /\ event = FALSE
    /\ call = NoCall
    /\ previousTimeInTicks = 0
    /\ pc = "idle" /\ timerID = 0
    /\ currentTimeInTicks = 0 /\ ticksSinceLastHere = 0
    /\ nextInterruptTime = 0
    /\ late = 0
    /\ age = [t \in Timers |-> 0]
    /\ origin = [t \in Timers |-> "none"]

-----------------------------------------------------------------------------
(* The two counts of running timers, and the clock they keep running.      *)

One(b) == IF b THEN 1 ELSE 0

\* Mutant: the counter is decremented for a timer that does not run.
ActiveAfterAnyStop(t) ==
    numberOfActiveTimers - One(numberOfActiveTimers > 0 /\ "LowPower" \notin type[t])

\* DecrementActiveTimerNumber, done by TMR_StopTimer for a running timer.
ActiveAfterStop(t) ==
    numberOfActiveTimers - One(Running(t) /\ "LowPower" \notin type[t])
LowPowerAfterStop(t) ==
    numberOfLowPowerActiveTimers - One(Running(t) /\ "LowPower" \in type[t])

\* StackTimer_Disable when the last running timer stops.  On this hardware
\* disabling the counter also clears it (TimersManager.c:1108).
DisableClock ==
    /\ timerHardwareIsRunning' = FALSE
    /\ counter' = IF timerHardwareIsRunning THEN 0 ELSE counter

\* Mutant: the low-power timers are forgotten.
ClockAfterLastActive(t) ==
    IF Running(t) /\ ActiveAfterStop(t) = 0 THEN DisableClock ELSE UNCHANGED hardware

ClockAfterStop(t) ==
    IF Running(t) /\ ActiveAfterStop(t) = 0 /\ LowPowerAfterStop(t) = 0
    THEN DisableClock
    ELSE UNCHANGED hardware

\* TMR_StopTimer on an allocated timer.  "to" is what the caller leaves it as.
StopTo(t, to) ==
    /\ status' = [status EXCEPT ![t] = to]
    /\ numberOfActiveTimers' = ActiveAfterStop(t)
    /\ numberOfLowPowerActiveTimers' = LowPowerAfterStop(t)
    /\ ClockAfterStop(t)

Forget(t) ==
    /\ age' = [age EXCEPT ![t] = 0]
    /\ origin' = [origin EXCEPT ![t] = "none"]

\* Mutant: TMR_Task is woken only when it is not running already.
WakeIdleTask == event' = (event \/ pc = "idle")

\* The end of TMR_EnableTimer: TMR_Task is to run again.
WakeTask == event' = TRUE

\* TMR_StartTimer on an allocated timer, from beginning to end: TMR_StopTimer,
\* the new parameters, then TMR_EnableTimer, which counts the timer and wakes
\* TMR_Task up.
StartTimer(t, ty, i) ==
    /\ status[t] # "Free"
    /\ status' = [status EXCEPT ![t] = "Ready"]
    /\ type' = [type EXCEPT ![t] = ty]
    /\ intervalInTicks' = [intervalInTicks EXCEPT ![t] = i]
    /\ remainingTicks' = [remainingTicks EXCEPT ![t] = i]
    /\ numberOfActiveTimers' = ActiveAfterStop(t) + One("LowPower" \notin ty)
    /\ numberOfLowPowerActiveTimers' =
            LowPowerAfterStop(t) + One("LowPower" \in ty)
    /\ ClockAfterStop(t)
    /\ WakeTask
    /\ age' = [age EXCEPT ![t] = 0]
    /\ origin' = [origin EXCEPT ![t] = IF pc = "idle" THEN "task" ELSE "pass"]
    /\ UNCHANGED <<compare, bTimerServPending, previousTimeInTicks, pc, timerID,
                   locals, nextInterruptTime, late>>

-----------------------------------------------------------------------------
(* The interface, called by tasks between two runs of TMR_Task (bare metal: *)
(* tasks do not preempt each other) and by the callbacks TMR_Task makes.    *)
(* TMR_StartTimer and TMR_FreeTimer stop the timer in a critical section    *)
(* and go on with interrupts enabled: a call has two steps, and interrupts, *)
(* but no other call and no step of TMR_Task, can fall between them.        *)

ClientMayCall == pc \in {"idle", "callback"} /\ call = NoCall

TMR_AllocateTimer ==
    /\ ClientMayCall
    /\ \E t \in Timers :
          /\ status[t] = "Free"
          /\ \A u \in 0 .. t - 1 : status[u] # "Free"
          /\ status' = [status EXCEPT ![t] = "Inactive"]
    /\ UNCHANGED <<type, intervalInTicks, remainingTicks, counts, hardware,
                   compare, bTimerServPending, event, call,
                   previousTimeInTicks, pc, timerID, locals,
                   nextInterruptTime, late, history>>

\* The critical section of TMR_StopTimer, in a call of a client.
StopByClient(t) ==
    /\ ClientMayCall
    /\ StopTo(t, "Inactive")
    /\ Forget(t)
    /\ UNCHANGED <<type, intervalInTicks, remainingTicks, compare,
                   bTimerServPending, event, previousTimeInTicks, pc, timerID,
                   locals, nextInterruptTime, late>>

TMR_StopTimer(t) ==
    /\ Running(t)
    /\ StopByClient(t)
    /\ UNCHANGED call

\* The first step of a call that does more than stop the timer.  The clients
\* of this program neither start nor free the timer of the key interrupt.
BeginCall(f, t) ==
    /\ status[t] # "Free" /\ t \notin IsrTimers
    /\ StopByClient(t)
    /\ call' = [of |-> f, timer |-> t]

TMR_StartTimer(t) == BeginCall("TMR_StartTimer", t)
TMR_FreeTimer(t) == BeginCall("TMR_FreeTimer", t)

\* The rest of TMR_StartTimer: the timer is stopped already.
TMR_EnableTimer ==
    /\ call.of = "TMR_StartTimer"
    /\ \E ty \in TimerTypes, i \in Intervals : StartTimer(call.timer, ty, i)
    /\ call' = NoCall

\* The rest of TMR_FreeTimer: the whole status byte is cleared.
TMR_MarkTimerFree ==
    /\ call.of = "TMR_FreeTimer"
    /\ status' = [status EXCEPT ![call.timer] = "Free"]
    /\ type' = [type EXCEPT ![call.timer] = {}]
    /\ call' = NoCall
    /\ UNCHANGED <<intervalInTicks, remainingTicks, counts, hardware, compare,
                   bTimerServPending, event, previousTimeInTicks, pc, timerID,
                   locals, nextInterruptTime, late, history>>

FinishCall == TMR_EnableTimer \/ TMR_MarkTimerFree

-----------------------------------------------------------------------------
(* Interrupts and the clock.                                               *)

\* Switch_Press_ISR: the key interrupt restarts the key-scan interval timer,
\* whatever TMR_Task or a client is doing.
Switch_Press_ISR(t) ==
    /\ t \in IsrTimers
    /\ StartTimer(t, {}, gKeyScanInterval_c)
    /\ UNCHANGED call

\* StackTimer_ISR, taken at once when the running counter meets the threshold.
StackTimer_ISR ==
    IF timerHardwareIsRunning /\ counter' = compare
    THEN bTimerServPending' = TRUE /\ event' = TRUE
    ELSE UNCHANGED <<bTimerServPending, event>>

Busy == event \/ pc # "idle"

\* One tick of real time.  TMR_Task is entered within MaxLatency ticks of its
\* event and a pass lasts at most MaxLatency ticks.
Tick ==
    /\ Busy => late < MaxLatency
    /\ late' = IF Busy THEN late + 1 ELSE 0
    /\ counter' = IF timerHardwareIsRunning
                  THEN IF counter = Wrap - 1 THEN 0 ELSE counter + 1
                  ELSE counter
    /\ StackTimer_ISR
    /\ age' = [t \in Timers |->
                  IF Running(t) /\ age[t] < AgeCap THEN age[t] + 1 ELSE age[t]]
    /\ UNCHANGED <<table, counts, timerHardwareIsRunning, compare, call,
                   previousTimeInTicks, pc, timerID, locals, nextInterruptTime,
                   origin>>

-----------------------------------------------------------------------------
(* TMR_Task.                                                               *)

\* Unsigned subtraction of two values of the counter.
Ticks(from, to) == IF to >= from THEN to - from ELSE to - from + Wrap

Sooner(a, b) == IF a > b THEN b ELSE a

\* Mutant: the time of the last pass is not updated.
KeepTime == UNCHANGED previousTimeInTicks

\* "remember for next time"
RememberTime == previousTimeInTicks' = counter

\* The event is consumed and the counter is read, once for the whole pass.
BeginPass ==
    /\ pc = "idle" /\ event /\ call = NoCall
    /\ event' = FALSE
    /\ currentTimeInTicks' = counter
    /\ ticksSinceLastHere' = Ticks(previousTimeInTicks, counter)
    /\ RememberTime
    /\ nextInterruptTime' = mMaxToCountDown_c
    /\ pc' = "scan" /\ timerID' = 0
    /\ late' = 0
    /\ UNCHANGED <<table, counts, hardware, compare, bTimerServPending, call,
                   history>>

\* A timer that was started since the last pass starts counting down.
ScanReady ==
    /\ pc = "scan" /\ timerID \in Timers
    /\ status[timerID] = "Ready"
    /\ status' = [status EXCEPT ![timerID] = "Active"]
    /\ pc' = "schedule"
    /\ UNCHANGED <<type, intervalInTicks, remainingTicks, counts, hardware,
                   compare, bTimerServPending, event, call,
                   previousTimeInTicks, timerID, locals, nextInterruptTime,
                   late, history>>

\* The steps that read with interrupts on what an earlier step has read or
\* written with interrupts off: the table stays as it is.
LooksAtTable ==
    UNCHANGED <<table, counts, hardware, compare, bTimerServPending, event,
                call, previousTimeInTicks, locals, late, history>>

ScanActive ==
    /\ pc = "scan" /\ timerID \in Timers
    /\ status[timerID] = "Active"
    /\ pc' = "countdown"
    /\ LooksAtTable /\ UNCHANGED <<timerID, nextInterruptTime>>

ScanOther ==
    /\ pc = "scan" /\ timerID \in Timers
    /\ ~Running(timerID)
    /\ timerID' = timerID + 1
    /\ LooksAtTable /\ UNCHANGED <<pc, nextInterruptTime>>

\* The comparison; what follows from it is a step of its own.
TestCountdown ==
    /\ pc = "countdown"
    /\ pc' = IF remainingTicks[timerID] > ticksSinceLastHere
             THEN "subtract" ELSE "expire"
    /\ LooksAtTable /\ UNCHANGED <<timerID, nextInterruptTime>>

\* An unsigned subtraction: it is the comparison that keeps it from wrapping.
CountDown ==
    /\ pc = "subtract"
    /\ remainingTicks' = [remainingTicks EXCEPT
                             ![timerID] = Ticks(ticksSinceLastHere, @)]
    /\ pc' = "schedule"
    /\ UNCHANGED <<status, type, intervalInTicks, counts, hardware, compare,
                   bTimerServPending, event, call, previousTimeInTicks,
                   timerID, locals, nextInterruptTime, late, history>>

\* The next alarm is no later than the end of this countdown.
Schedule ==
    /\ pc = "schedule"
    /\ nextInterruptTime' = Sooner(nextInterruptTime, remainingTicks[timerID])
    /\ pc' = "scan" /\ timerID' = timerID + 1
    /\ LooksAtTable

\* A single-shot timer is stopped before its callback runs.
ExpireSingleShot ==
    /\ pc = "expire"
    /\ "SingleShot" \in type[timerID]
    /\ remainingTicks' = [remainingTicks EXCEPT ![timerID] = 0]
    /\ StopTo(timerID, "Inactive")
    /\ Forget(timerID)
    /\ pc' = "callback"
    /\ UNCHANGED <<type, intervalInTicks, compare, bTimerServPending, event,
                   call, previousTimeInTicks, timerID, locals,
                   nextInterruptTime, late>>

\* An interval timer is reloaded before its callback runs.
ExpireInterval ==
    /\ pc = "expire"
    /\ "SingleShot" \notin type[timerID]
    /\ remainingTicks' =
            [remainingTicks EXCEPT ![timerID] = intervalInTicks[timerID]]
    /\ nextInterruptTime' = Sooner(nextInterruptTime, intervalInTicks[timerID])
    /\ age' = [age EXCEPT ![timerID] = 0]
    /\ origin' = [origin EXCEPT ![timerID] = "reload"]
    /\ pc' = "callback"
    /\ UNCHANGED <<status, type, intervalInTicks, counts, hardware, compare,
                   bTimerServPending, event, call, previousTimeInTicks,
                   timerID, locals, late>>

CallbackReturns ==
    /\ pc = "callback" /\ call = NoCall
    /\ pc' = "scan" /\ timerID' = timerID + 1
    /\ LooksAtTable /\ UNCHANGED nextInterruptTime

\* Mutant: an alarm that is already past is programmed as it is.
PlainAlarmDistance == nextInterruptTime

\* Ticks from the read of the counter to the next alarm: never in the past,
\* never closer than mMinTmrScheduleTicks.
AlarmDistance ==
    LET spent == Ticks(currentTimeInTicks, counter)
    IN  IF nextInterruptTime - spent < mMinTmrScheduleTicks
        THEN spent + mMinTmrScheduleTicks
        ELSE nextInterruptTime

\* Mutant: the threshold is set, the counter is left as it was.
SetAlarmOnly ==
    /\ compare' = (currentTimeInTicks + AlarmDistance) % Wrap
    /\ UNCHANGED hardware

SetAlarm ==
    IF numberOfActiveTimers # 0 \/ numberOfLowPowerActiveTimers # 0
    THEN /\ compare' = (currentTimeInTicks + AlarmDistance) % Wrap
         /\ timerHardwareIsRunning' = TRUE
         /\ UNCHANGED counter
    ELSE DisableClock /\ UNCHANGED compare

\* The locals of TMR_Task die with the pass; they are reset to one value.
EndPass ==
    /\ pc = "scan" /\ timerID = gTmrTotalTimers_c
    /\ SetAlarm
    /\ bTimerServPending' = FALSE
    /\ pc' = "idle" /\ timerID' = 0
    /\ currentTimeInTicks' = 0 /\ ticksSinceLastHere' = 0
    /\ nextInterruptTime' = 0
    /\ late' = 0
    /\ UNCHANGED <<table, counts, event, call, previousTimeInTicks, history>>

TMR_Task ==
    \/ BeginPass \/ ScanReady \/ ScanActive \/ ScanOther
    \/ TestCountdown \/ CountDown \/ Schedule
    \/ ExpireSingleShot \/ ExpireInterval \/ CallbackReturns
    \/ EndPass

Next ==
    \/ TMR_AllocateTimer
    \/ \E t \in Timers :
          \/ TMR_StartTimer(t) \/ TMR_StopTimer(t) \/ TMR_FreeTimer(t)
          \/ Switch_Press_ISR(t)
    \/ FinishCall
    \/ Tick
    \/ TMR_Task

Spec == Init /\ [][Next]_vars

\* Time passes; a call ends; the scheduler runs a task whose event is set, and
\* callbacks return, however many calls the clients make before.
Fairness == WF_vars(Tick) /\ WF_vars(FinishCall) /\ SF_vars(TMR_Task)

FairSpec == Spec /\ Fairness

-----------------------------------------------------------------------------
(* What the module promises.                                               *)

LowPowerTimers == {t \in RunningTimers : "LowPower" \in type[t]}
ActiveTimers == RunningTimers \ LowPowerTimers

(***************************************************************************)
(* The two counters, kept by increments in TMR_EnableTimer and decrements  *)
(* in TMR_StopTimer, equal the numbers of running timers of each kind, so  *)
(* TMR_AreAllTimersOff and the shutdown of the clock decide on the truth.  *)
(***************************************************************************)
CountsMatch ==
    /\ numberOfActiveTimers = Cardinality(ActiveTimers)
    /\ numberOfLowPowerActiveTimers = Cardinality(LowPowerTimers)

(***************************************************************************)
(* No start is lost: a timer made Ready, by a task, a callback or the key  *)
(* interrupt, has the task's event set or will still be reached by the     *)
(* pass in progress.                                                       *)
(***************************************************************************)
ReadyIsSeen ==
    \A t \in Timers : status[t] = "Ready" =>
        event \/ (pc # "idle" /\ t > timerID) \/ (pc = "scan" /\ t = timerID)

(***************************************************************************)
(* The clock runs whenever an Active timer depends on it, outside a pass;  *)
(* and it runs for nothing but a running timer.                            *)
(***************************************************************************)
ClockRuns ==
    /\ pc = "idle" /\ (\E t \in Timers : status[t] = "Active")
            => timerHardwareIsRunning
    /\ timerHardwareIsRunning => RunningTimers # {}

\* The callback of timer t is called by this step.
Fires(t) == pc = "expire" /\ pc' = "callback" /\ timerID = t

(***************************************************************************)
(* A timer started by a task, outside a pass of TMR_Task, is never called  *)
(* back before its interval has elapsed, whatever the wrap of the counter, *)
(* its reset to 0 when the clock stops, and the restarts of other timers.  *)
(***************************************************************************)
NoEarlyExpiry ==
    [][\A t \in Timers :
          Fires(t) /\ origin[t] = "task" => age[t] >= intervalInTicks[t]]_vars

(***************************************************************************)
(* The comment in TMR_Task says that a timer found Ready starts to count   *)
(* down "as of now".  Taken at its word, a timer started in a callback or  *)
(* by an interrupt during the pass is not called back early either.        *)
(***************************************************************************)
CountsDownFromNow ==
    [][\A t \in Timers :
          Fires(t) /\ origin[t] = "pass" => age[t] >= intervalInTicks[t]]_vars

(***************************************************************************)
(* No timer is overdue by more than what the task can be late: what is     *)
(* left of the pass in which it is started, the wait for and the length of *)
(* the pass that makes it Active, the shortest alarm, the wait for and the *)
(* length of the pass that serves it.                                      *)
(***************************************************************************)
Overdue == 5 * MaxLatency + mMinTmrScheduleTicks

NeverOverdue ==
    \A t \in Timers : Running(t) => age[t] < intervalInTicks[t] + Overdue

(***************************************************************************)
(* A timer that is left running is called back (or stopped, or restarted). *)
(***************************************************************************)
EventuallyExpires ==
    \A t \in Timers :
        (Running(t) /\ age[t] > 0)
            ~> (~Running(t) \/ age[t] = 0 \/ (pc = "callback" /\ timerID = t))
=============================================================================

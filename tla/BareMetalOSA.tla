---------------------------- MODULE BareMetalOSA ----------------------------
(***************************************************************************)
(* The bare-metal scheduler (fsl_os_abstraction_bm.c).  There is no        *)
(* context switch: OSA_Start scans the task list from its head, calls the  *)
(* function of the first task that haveToRun, and starts over when the     *)
(* function returns.  OSA_EventWait does not block either: it decides      *)
(* whether the task is to be called again, and returns.  So a task's       *)
(* function is written to wait on its event, look at its queue whatever    *)
(* the wait answered, and return.                                          *)
(*                                                                         *)
(* Interrupts come between any two steps of a task; the sections that      *)
(* OSA_DisableIRQGlobal protects, and interrupt handlers, are one step.    *)
(***************************************************************************)
EXTENDS Naturals, Sequences, FiniteSets, SequencesExt

CONSTANTS
    Tasks,
    main_task,     \* creates the others, then becomes App_Thread
    Idle,          \* the tasks that never wait (App_Idle_Task)
    OneAtATime,    \* those that handle one message per run (App_Thread)
    SignalledOnce, \* those interrupts signal only if nothing is pending for
                   \* them yet (SerialManagerTask)
    Priority,      \* smaller is more urgent
    MaxPosts       \* bound: requests posted in a behaviour

ASSUME OSAAssumption ==
    /\ main_task \in Tasks \ Idle
    /\ OneAtATime \subseteq Tasks
    /\ SignalledOnce \subseteq Tasks
    /\ Priority \in [Tasks -> Nat]
    /\ MaxPosts \in Nat

VARIABLES
    taskList,      \* from p_taskListHead along next
    haveToRun,
    flags,         \* the tasks whose event has a flag set
    waitingTask,   \* the tasks whose event knows them
    g_curTask,
    pc,            \* what the processor is doing, interrupts aside
    target,        \* the task whose queue has just been posted to
    work,          \* messages in each task's queue
    posts,         \* history: requests posted so far
    signalled      \* history: tasks signalled since the scan left the head

sched == <<taskList, g_curTask, pc>>
vars  == <<sched, haveToRun, flags, waitingTask, target, work, posts, signalled>>

Created == Range(taskList)

TypeOK ==
    /\ taskList \in Seq(Tasks) /\ taskList # <<>>
    /\ main_task \in Created
    /\ haveToRun \in [Tasks -> BOOLEAN]
    /\ flags \subseteq Tasks
    /\ waitingTask \subseteq Created
    /\ g_curTask \in Created
    /\ pc \in {"create", "scan", "idle", "wait", "check", "handle", "post", "rearm"}
    /\ target \in Tasks
    /\ work \in [Tasks -> Nat]
    /\ posts \in 0 .. MaxPosts
    /\ signalled \subseteq Tasks

\* main() creates main_task and starts the scheduler.
Init ==
    /\ taskList = <<main_task>>
    /\ haveToRun = [t \in Tasks |-> t = main_task]
    /\ flags = {}
    /\ waitingTask = {}
    /\ g_curTask = main_task
    /\ pc = "scan"
    /\ target = main_task
    /\ work = [t \in Tasks |-> 0]
    /\ posts = 0
    /\ signalled = {}

-----------------------------------------------------------------------------
(* The scheduler.                                                          *)

Restart == g_curTask' = Head(taskList) /\ signalled' = {}

\* The next task in the ring, from the last one round to the head.
NextTask ==
    /\ pc = "scan"
    /\ ~haveToRun[g_curTask]
    /\ \E i \in 1 .. Len(taskList) :
          /\ taskList[i] = g_curTask
          /\ IF i < Len(taskList)
                THEN g_curTask' = taskList[i + 1] /\ UNCHANGED signalled
                ELSE Restart
    /\ UNCHANGED <<taskList, pc, haveToRun, flags, waitingTask, target, work, posts>>

\* The task's function is called: main_task's sets the system up the first
\* time, App_Idle_Task's does not wait, the others begin with OSA_EventWait.
RunTask ==
    /\ pc = "scan"
    /\ haveToRun[g_curTask]
    /\ pc' = CASE g_curTask \in Idle -> "idle"
               [] g_curTask = main_task /\ Created # Tasks -> "create"
               [] OTHER -> "wait"
    /\ UNCHANGED <<taskList, g_curTask, haveToRun, flags, waitingTask, target,
                   work, posts, signalled>>

\* At either end of the list, never inside.
PlaceAtEnd(t) == IF Priority[t] <= Priority[taskList[1]] THEN 1 ELSE Len(taskList) + 1

\* Where the new task goes: a tie puts it first of its equals, unless the
\* last task of the list is one of them.
Place(t) ==
    LET urgent(i) == Priority[t] <= Priority[taskList[i]]
    IN  CASE urgent(1) -> 1
          [] ~urgent(1) /\ Priority[t] >= Priority[Last(taskList)] -> Len(taskList) + 1
          [] OTHER -> CHOOSE i \in 2 .. Len(taskList) :
                          urgent(i) /\ \A j \in 2 .. i - 1 : ~urgent(j)

OSA_InsertTaskBefore(t, p) ==
    taskList' = [i \in 1 .. Len(taskList) + 1 |->
                    IF i < p THEN taskList[i] ELSE IF i = p THEN t ELSE taskList[i - 1]]

OSA_TaskCreate(t) ==
    /\ pc = "create"
    /\ t \notin Created
    /\ OSA_InsertTaskBefore(t, Place(t))
    /\ haveToRun' = [haveToRun EXCEPT ![t] = TRUE]
    /\ UNCHANGED <<g_curTask, pc, flags, waitingTask, target, work, posts, signalled>>

\* main_task has initialised the platform and calls App_Thread.
Initialized ==
    /\ pc = "create"
    /\ Created = Tasks
    /\ pc' = "wait"
    /\ UNCHANGED <<taskList, g_curTask, haveToRun, flags, waitingTask, target, work,
                   posts, signalled>>

-----------------------------------------------------------------------------
(* Events.                                                                 *)

\* Wakes the task only if isWaiting, which a wait without timeout never sets.
SetWithoutWaking(t) ==
    /\ flags' = flags \cup {t}
    /\ signalled' = signalled \cup {t}
    /\ UNCHANGED haveToRun

OSA_EventSet(t) ==
    /\ flags' = flags \cup {t}
    /\ haveToRun' = [haveToRun EXCEPT ![t] = @ \/ t \in waitingTask]
    /\ signalled' = signalled \cup {t}

\* The wait of a millisec of 0: the task stays ready.
OSA_EventPoll ==
    /\ pc = "wait"
    /\ waitingTask' = waitingTask \cup {g_curTask}
    /\ flags' = flags \ {g_curTask}
    /\ pc' = "check"
    /\ UNCHANGED <<taskList, g_curTask, haveToRun, target, work, posts, signalled>>

\* Every event is autoClear, and every task waits on its own for any flag.
\* A successful wait leaves haveToRun alone, so it costs one more run.
OSA_EventWait ==
    /\ pc = "wait"
    /\ waitingTask' = waitingTask \cup {g_curTask}
    /\ flags' = flags \ {g_curTask}
    /\ haveToRun' = [haveToRun EXCEPT ![g_curTask] = @ /\ g_curTask \in flags]
    /\ pc' = "check"
    /\ UNCHANGED <<taskList, g_curTask, target, work, posts, signalled>>

-----------------------------------------------------------------------------
(* The tasks.                                                              *)


\* The scan goes on from the task that has returned.
ReturnInPlace == pc' = "scan" /\ UNCHANGED <<g_curTask, signalled>>

Return == pc' = "scan" /\ Restart

\* App_Idle_Task: one turn of NvIdle.
App_Idle_Task ==
    /\ pc = "idle"
    /\ Return
    /\ UNCHANGED <<taskList, haveToRun, flags, waitingTask, target, work, posts>>

\* MSG_Pending: a message is taken off the queue, whatever the wait answered.
TakeMessage ==
    /\ pc = "check"
    /\ work[g_curTask] > 0
    /\ work' = [work EXCEPT ![g_curTask] = @ - 1]
    /\ pc' = "handle"
    /\ UNCHANGED <<taskList, g_curTask, haveToRun, flags, waitingTask, target,
                   posts, signalled>>

\* The message is handled: a task that takes one per run goes on to see
\* whether there are more, the others to the next message.
Handled ==
    /\ pc = "handle"
    /\ pc' = IF g_curTask \in OneAtATime THEN "rearm" ELSE "check"
    /\ UNCHANGED <<taskList, g_curTask, haveToRun, flags, waitingTask, target, work,
                   posts, signalled>>

\* A handler queues a message for a task; it signals the task next.
Post(t) ==
    /\ pc = "handle"
    /\ posts < MaxPosts
    /\ t \in Created \ Idle
    /\ work' = [work EXCEPT ![t] = @ + 1]
    /\ posts' = posts + 1
    /\ target' = t
    /\ pc' = "post"
    /\ UNCHANGED <<taskList, g_curTask, haveToRun, flags, waitingTask, signalled>>

Signal ==
    /\ pc = "post"
    /\ OSA_EventSet(target)
    /\ pc' = "handle"
    /\ UNCHANGED <<taskList, g_curTask, waitingTask, target, work, posts>>

QueueIsEmpty ==
    /\ pc = "check"
    /\ work[g_curTask] = 0
    /\ pc' = "rearm"
    /\ UNCHANGED <<taskList, g_curTask, haveToRun, flags, waitingTask, target, work,
                   posts, signalled>>

\* App_Thread leaves the other messages to the next signal.
TaskReturnsAtOnce ==
    /\ pc = "rearm"
    /\ Return
    /\ UNCHANGED <<taskList, flags, haveToRun, waitingTask, target, work, posts>>

\* App_Thread signals itself when messages remain; the other tasks have
\* emptied their queue.
TaskReturns ==
    /\ pc = "rearm"
    /\ IF g_curTask \in OneAtATime /\ work[g_curTask] > 0
          THEN /\ flags' = flags \cup {g_curTask}
               /\ haveToRun' = [haveToRun EXCEPT ![g_curTask] = TRUE]
          ELSE UNCHANGED <<flags, haveToRun>>
    /\ Return
    /\ UNCHANGED <<taskList, waitingTask, target, work, posts>>

\* An interrupt handler has something for a task and signals it.  None has
\* for main_task, whose messages come from the host's task.
Interrupt(t) ==
    /\ posts < MaxPosts
    /\ t \in Created \ (Idle \cup {main_task})
    /\ work' = [work EXCEPT ![t] = @ + 1]
    /\ posts' = posts + 1
    /\ IF t \in SignalledOnce /\ work[t] > 0
          THEN UNCHANGED <<flags, haveToRun, signalled>>
          ELSE OSA_EventSet(t)
    /\ UNCHANGED <<sched, waitingTask, target>>

-----------------------------------------------------------------------------
Processor ==
    \/ NextTask \/ RunTask \/ Initialized
    \/ OSA_EventWait \/ App_Idle_Task
    \/ TakeMessage \/ Handled \/ Signal \/ QueueIsEmpty \/ TaskReturns
    \/ \E t \in Tasks : OSA_TaskCreate(t) \/ Post(t)

Next == Processor \/ \E t \in Tasks : Interrupt(t)

Spec == Init /\ [][Next]_vars

\* The processor goes on; interrupts need not come.
FairSpec == Spec /\ WF_vars(Processor)

-----------------------------------------------------------------------------
(* Properties.                                                             *)

\* OSA_TaskCreate keeps the list by priority, each task in it once: the
\* scan of OSA_Start relies on it to meet urgent tasks first.
ListByPriority ==
    \A i, j \in 1 .. Len(taskList) :
        i < j => /\ Priority[taskList[i]] <= Priority[taskList[j]]
                 /\ taskList[i] # taskList[j]

\* No wake-up is lost: a task with work in its queue is going to be called
\* again, or is yet to look at its queue, or is about to be signalled -
\* wherever interrupts fall between its wait and its look at the queue.
NoLostWakeup ==
    \A t \in Tasks : work[t] > 0 =>
        \/ haveToRun[t]
        \/ t = g_curTask /\ pc \in {"wait", "check", "handle", "rearm", "post"}
        \/ t = target /\ pc = "post"

\* OSA_Start passes over a task that has to run only if it was signalled
\* after the scan had passed it: a task never runs before a more urgent one
\* that was ready when the scan began.
UrgentFirst ==
    pc = "scan" =>
        \A i, j \in 1 .. Len(taskList) :
            /\ i < j /\ taskList[j] = g_curTask /\ haveToRun[taskList[i]]
            => taskList[i] \in signalled

\* Whatever is posted is served, once, as TaskService promises: a signal
\* between OSA_EventWait and the look at the queue does not get lost, and
\* App_Thread comes back for the messages it left.
Service == INSTANCE TaskService
ServesTasks == Service!Spec

\* The successful waits' spurious runs come to an end: the idle task, which
\* is the only one to write the non-volatile memory, gets its turns.
IdleTurns == []<>(pc = "idle")
=============================================================================

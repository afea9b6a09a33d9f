------------------------ MODULE BareMetalOSA_proofs ------------------------
(***************************************************************************)
(* Proofs about BareMetalOSA for every set of tasks, every assignment of   *)
(* priorities and every number of messages.                                *)
(***************************************************************************)
EXTENDS BareMetalOSA, SequenceTheorems, WellFoundedInduction, TLAPS

-----------------------------------------------------------------------------
(* The task list.                                                          *)

LEMMA ListIsFunction ==
  ASSUME TypeOK
  PROVE  /\ Len(taskList) \in Nat \ {0}
         /\ taskList \in [1 .. Len(taskList) -> Tasks]
         /\ DOMAIN taskList = 1 .. Len(taskList)
         /\ Head(taskList) = taskList[1]
         /\ Last(taskList) = taskList[Len(taskList)]
         /\ \A i \in 1 .. Len(taskList) : taskList[i] \in Created
         /\ Head(taskList) \in Created
         /\ Created \subseteq Tasks
  <1>1. taskList \in Seq(Tasks) /\ taskList # <<>>
    BY DEF TypeOK
  <1>2. /\ Len(taskList) \in Nat \ {0}
        /\ taskList \in [1 .. Len(taskList) -> Tasks]
        /\ DOMAIN taskList = 1 .. Len(taskList)
    BY <1>1, LenProperties, EmptySeq
  <1>3. Head(taskList) = taskList[1] /\ Last(taskList) = taskList[Len(taskList)]
    BY <1>1 DEF Last
  <1>4. \A i \in 1 .. Len(taskList) : taskList[i] \in Created
    BY <1>2 DEF Created, Range
  <1>5. Head(taskList) \in Created
    BY <1>2, <1>3, <1>4
  <1>6. Created \subseteq Tasks
    BY <1>2 DEF Created, Range
  <1> QED BY <1>2, <1>3, <1>4, <1>5, <1>6

\* The search of OSA_TaskCreate ends at the first task that is not more
\* urgent than the new one.
LEMMA FirstNotMoreUrgent ==
  ASSUME TypeOK, NEW t \in Tasks,
         NEW k \in 2 .. Len(taskList), Priority[t] <= Priority[taskList[k]]
  PROVE  \E i \in 2 .. Len(taskList) :
            /\ Priority[t] <= Priority[taskList[i]]
            /\ \A j \in 2 .. i - 1 : ~(Priority[t] <= Priority[taskList[j]])
  <1> DEFINE S == {i \in 2 .. Len(taskList) : Priority[t] <= Priority[taskList[i]]}
  <1>1. S \subseteq Nat /\ S # {}
    BY ListIsFunction
  <1>2. PICK i \in S : \A j \in S : ~(<<j, i>> \in OpToRel(<, Nat))
    <2> HIDE DEF S
    <2> QED BY <1>1, WFMin, NatLessThanWellFounded
  <1>3. \A j \in S : ~(j < i)
    BY <1>1, <1>2 DEF OpToRel
  <1>4. \A j \in 2 .. i - 1 : j \notin S
    BY <1>1, <1>3
  <1>5. \A j \in 2 .. i - 1 : j \in 2 .. Len(taskList)
    BY ListIsFunction
  <1> QED BY <1>2, <1>4, <1>5

LEMMA PlaceInList ==
  ASSUME TypeOK, NEW t \in Tasks
  PROVE  /\ Place(t) \in 1 .. Len(taskList) + 1
         /\ ListByPriority =>
              /\ \A i \in 1 .. Place(t) - 1 : Priority[taskList[i]] <= Priority[t]
              /\ \A i \in Place(t) .. Len(taskList) : Priority[t] <= Priority[taskList[i]]
  <1> DEFINE n == Len(taskList)
             urgent(i) == Priority[t] <= Priority[taskList[i]]
             first(i)  == urgent(i) /\ \A j \in 2 .. i - 1 : ~urgent(j)
  <1>1. /\ n \in Nat \ {0}
        /\ \A i \in 1 .. n : Priority[taskList[i]] \in Nat
        /\ Priority[t] \in Nat
        /\ Last(taskList) = taskList[n]
    BY OSAAssumption, ListIsFunction DEF OSAAssumption
  <1>2. CASE urgent(1)
    <2>1. Place(t) = 1
      BY <1>2 DEF Place
    <2>2. ASSUME ListByPriority, NEW i \in 1 .. n PROVE Priority[t] <= Priority[taskList[i]]
      <3>1. i = 1 \/ Priority[taskList[1]] <= Priority[taskList[i]]
        BY <1>1, <2>2 DEF ListByPriority
      <3> QED BY <1>1, <1>2, <3>1
    <2> QED BY <1>1, <2>1, <2>2
  <1>3. CASE ~urgent(1) /\ Priority[t] >= Priority[taskList[n]]
    <2>1. Place(t) = n + 1
      BY <1>1, <1>3 DEF Place
    <2>2. ASSUME ListByPriority, NEW i \in 1 .. n PROVE Priority[taskList[i]] <= Priority[t]
      <3>1. i = n \/ Priority[taskList[i]] <= Priority[taskList[n]]
        BY <1>1, <2>2 DEF ListByPriority
      <3> QED BY <1>1, <1>3, <3>1
    <2> QED BY <1>1, <2>1, <2>2
  <1>4. CASE ~urgent(1) /\ ~(Priority[t] >= Priority[taskList[n]])
    <2>1. Place(t) = CHOOSE i \in 2 .. n : first(i)
      BY <1>1, <1>4 DEF Place
    <2>2. n \in 2 .. n /\ urgent(n)
      BY <1>1, <1>4
    <2>3. \E i \in 2 .. n : first(i)
      BY <2>2, FirstNotMoreUrgent
    <2>4. Place(t) \in 2 .. n /\ first(Place(t))
      <3> HIDE DEF first
      <3> QED BY <2>1, <2>3
    <2>5. \A i \in 1 .. Place(t) - 1 : Priority[taskList[i]] <= Priority[t]
      BY <1>1, <1>4, <2>4
    <2>6. ASSUME ListByPriority, NEW i \in Place(t) .. n
          PROVE  Priority[t] <= Priority[taskList[i]]
      <3>1. i = Place(t) \/ Priority[taskList[Place(t)]] <= Priority[taskList[i]]
        BY <1>1, <2>4, <2>6 DEF ListByPriority
      <3> QED BY <1>1, <2>4, <2>6, <3>1
    <2> QED BY <1>1, <2>4, <2>5, <2>6
  <1> QED BY <1>2, <1>3, <1>4

LEMMA InsertIntoList ==
  ASSUME TypeOK, NEW t \in Tasks, NEW p \in 1 .. Len(taskList) + 1,
         OSA_InsertTaskBefore(t, p)
  PROVE  /\ taskList' \in Seq(Tasks) /\ taskList' # <<>>
         /\ Len(taskList') = Len(taskList) + 1
         /\ Created' = Created \cup {t}
         /\ \A i \in 1 .. Len(taskList') :
               taskList'[i] = IF i < p THEN taskList[i]
                              ELSE IF i = p THEN t ELSE taskList[i - 1]
  <1> DEFINE n == Len(taskList)
             new(i) == IF i < p THEN taskList[i] ELSE IF i = p THEN t ELSE taskList[i - 1]
  <1>1. n \in Nat \ {0} /\ taskList \in [1 .. n -> Tasks] /\ DOMAIN taskList = 1 .. n
    BY ListIsFunction
  <1>2. taskList' = [i \in 1 .. n + 1 |-> new(i)]
    BY DEF OSA_InsertTaskBefore
  <1>3. \A i \in 1 .. n + 1 : new(i) \in Tasks
    BY <1>1
  <1>4. taskList' \in [1 .. n + 1 -> Tasks]
    <2> HIDE DEF new
    <2> QED BY <1>2, <1>3
  <1>5. taskList' \in Seq(Tasks) /\ Len(taskList') = n + 1
    BY <1>1, <1>4
  <1>6. taskList' # <<>>
    BY <1>1, <1>5
  <1>7. \A i \in 1 .. n + 1 : taskList'[i] = new(i)
    <2> HIDE DEF new
    <2> QED BY <1>2
  <1>8. DOMAIN taskList' = 1 .. n + 1
    BY <1>4
  <1>9. Created' = Created \cup {t}
    <2>1. ASSUME NEW x \in Created' PROVE x \in Created \cup {t}
      <3>1. PICK i \in 1 .. n + 1 : x = new(i)
        BY <1>7, <1>8, <2>1 DEF Created, Range
      <3>2. i < p => i \in 1 .. n
        BY <1>1
      <3>3. i > p => i - 1 \in 1 .. n
        BY <1>1
      <3> QED BY <1>1, <3>1, <3>2, <3>3 DEF Created, Range
    <2>2. t \in Created'
      <3>1. p \in 1 .. n + 1 /\ taskList'[p] = t
        BY <1>1, <1>7
      <3> QED BY <1>8, <3>1 DEF Created, Range
    <2>3. ASSUME NEW x \in Created PROVE x \in Created'
      <3>1. PICK i \in 1 .. n : x = taskList[i]
        BY <1>1, <2>3 DEF Created, Range
      <3>2. CASE i < p
        <4>1. i \in 1 .. n + 1 /\ taskList'[i] = x
          BY <1>1, <1>7, <3>1, <3>2
        <4> QED BY <1>8, <4>1 DEF Created, Range
      <3>3. CASE ~(i < p)
        <4>1. i + 1 \in 1 .. n + 1 /\ taskList'[i + 1] = x
          BY <1>1, <1>7, <3>1, <3>3
        <4> QED BY <1>8, <4>1 DEF Created, Range
      <3> QED BY <3>2, <3>3
    <2> QED BY <2>1, <2>2, <2>3
  <1> QED BY <1>5, <1>6, <1>7, <1>9

-----------------------------------------------------------------------------
(* Types and the order of the list.                                        *)

LEMMA TypeInit == Init => TypeOK /\ ListByPriority
  <1> SUFFICES ASSUME Init PROVE TypeOK /\ ListByPriority
    OBVIOUS
  <1>1. taskList \in Seq(Tasks) /\ taskList # <<>> /\ Len(taskList) = 1
    BY OSAAssumption DEF OSAAssumption, Init
  <1>2. main_task \in Created
    <2>1. 1 \in DOMAIN taskList /\ taskList[1] = main_task
      BY DEF Init
    <2> QED BY <2>1 DEF Created, Range
  <1>3. ListByPriority
    BY <1>1 DEF ListByPriority
  <1> QED BY OSAAssumption, <1>1, <1>2, <1>3 DEF OSAAssumption, Init, TypeOK

LEMMA RestartType ==
  ASSUME TypeOK, Restart
  PROVE  g_curTask' \in Created /\ signalled' \subseteq Tasks
  BY ListIsFunction DEF Restart

LEMMA EventSetType ==
  ASSUME TypeOK, NEW t \in Tasks, OSA_EventSet(t)
  PROVE  /\ flags' \subseteq Tasks
         /\ haveToRun' \in [Tasks -> BOOLEAN]
         /\ signalled' \subseteq Tasks
  BY DEF TypeOK, OSA_EventSet

LEMMA TypeStep == TypeOK /\ [Next]_vars => TypeOK'
  <1> SUFFICES ASSUME TypeOK, [Next]_vars PROVE TypeOK'
    OBVIOUS
  <1>1. CASE NextTask
    <2>1. g_curTask' \in Created /\ signalled' \subseteq Tasks
      <3>1. PICK i \in 1 .. Len(taskList) :
               IF i < Len(taskList)
                  THEN g_curTask' = taskList[i + 1] /\ UNCHANGED signalled
                  ELSE Restart
        BY <1>1 DEF NextTask
      <3>2. CASE i < Len(taskList)
        <4>1. i + 1 \in 1 .. Len(taskList)
          BY <3>2, ListIsFunction
        <4> QED BY <3>1, <3>2, <4>1, ListIsFunction DEF TypeOK
      <3> QED BY <3>1, <3>2, RestartType
    <2> QED BY <1>1, <2>1 DEF NextTask, TypeOK, Created
  <1>2. CASE RunTask
    BY <1>2 DEF RunTask, TypeOK, Created
  <1>3. CASE Initialized
    BY <1>3 DEF Initialized, TypeOK, Created
  <1>4. CASE OSA_EventWait
    <2>1. g_curTask \in Created /\ Created \subseteq Tasks
      BY ListIsFunction DEF TypeOK
    <2> QED BY <1>4, <2>1 DEF OSA_EventWait, TypeOK, Created
  <1>5. CASE App_Idle_Task
    BY <1>5, RestartType DEF App_Idle_Task, Return, TypeOK, Created
  <1>6. CASE TakeMessage
    <2>1. g_curTask \in Tasks
      BY ListIsFunction DEF TypeOK
    <2> QED BY <1>6, <2>1 DEF TakeMessage, TypeOK, Created
  <1>7. CASE Handled
    BY <1>7 DEF Handled, TypeOK, Created
  <1>8. CASE Signal
    BY <1>8, EventSetType DEF Signal, TypeOK, Created
  <1>9. CASE QueueIsEmpty
    BY <1>9 DEF QueueIsEmpty, TypeOK, Created
  <1>10. CASE TaskReturns
    <2>1. flags' \subseteq Tasks /\ haveToRun' \in [Tasks -> BOOLEAN]
      <3>1. g_curTask \in Tasks
        BY ListIsFunction DEF TypeOK
      <3> QED BY <1>10, <3>1 DEF TaskReturns, TypeOK
    <2> QED BY <1>10, <2>1, RestartType DEF TaskReturns, Return, TypeOK, Created
  <1>11. ASSUME NEW t \in Tasks, OSA_TaskCreate(t) PROVE TypeOK'
    <2>1. /\ taskList' \in Seq(Tasks) /\ taskList' # <<>>
          /\ Created' = Created \cup {t}
      BY <1>11, PlaceInList, InsertIntoList DEF OSA_TaskCreate
    <2> QED BY <1>11, <2>1 DEF OSA_TaskCreate, TypeOK
  <1>12. ASSUME NEW t \in Tasks, Post(t) PROVE TypeOK'
    BY OSAAssumption, <1>12 DEF OSAAssumption, Post, TypeOK, Created
  <1>13. ASSUME NEW t \in Tasks, Interrupt(t) PROVE TypeOK'
    <2>1. t \in Tasks /\ work' \in [Tasks -> Nat] /\ posts' \in Nat
      BY OSAAssumption, <1>13 DEF OSAAssumption, Interrupt, TypeOK
    <2>2. flags' \subseteq Tasks /\ haveToRun' \in [Tasks -> BOOLEAN] /\ signalled' \subseteq Tasks
      <3>1. CASE OSA_EventSet(t)
        BY <3>1, EventSetType
      <3>2. CASE UNCHANGED <<flags, haveToRun, signalled>>
        BY <3>2 DEF TypeOK
      <3> QED BY <1>13, <3>1, <3>2 DEF Interrupt
    <2> QED BY OSAAssumption, <1>13, <2>1, <2>2 DEF OSAAssumption, Interrupt, sched, TypeOK, Created
  <1>14. CASE UNCHANGED vars
    BY <1>14 DEF vars, sched, TypeOK, Created
  <1> QED BY <1>1, <1>2, <1>3, <1>4, <1>5, <1>6, <1>7, <1>8, <1>9, <1>10, <1>11,
             <1>12, <1>13, <1>14 DEF Next, Processor

\* Every reachable state has its types, whatever the tasks and priorities.
THEOREM OSATypeCorrect == Spec => []TypeOK
  <1>1. Init => TypeOK
    BY TypeInit
  <1> QED BY <1>1, TypeStep, PTL DEF Spec

\* Only OSA_TaskCreate changes the list.
LEMMA ListStep ==
  ASSUME [Next]_vars, \A t \in Tasks : ~OSA_TaskCreate(t)
  PROVE  taskList' = taskList
  BY DEF Next, Processor, vars, sched, NextTask, RunTask, Initialized, OSA_EventWait,
         App_Idle_Task, TakeMessage, Handled, Signal, QueueIsEmpty, TaskReturns,
         Post, Interrupt

LEMMA OrderStep == TypeOK /\ ListByPriority /\ [Next]_vars => ListByPriority'
  <1> SUFFICES ASSUME TypeOK, ListByPriority, [Next]_vars PROVE ListByPriority'
    OBVIOUS
  <1>1. CASE \A t \in Tasks : ~OSA_TaskCreate(t)
    BY <1>1, ListStep DEF ListByPriority
  <1>2. ASSUME NEW t \in Tasks, OSA_TaskCreate(t) PROVE ListByPriority'
    <2> DEFINE n == Len(taskList)
               p == Place(t)
    <2>1. /\ n \in Nat \ {0}
          /\ \A i \in 1 .. n : taskList[i] \in Created /\ Priority[taskList[i]] \in Nat
          /\ Priority[t] \in Nat
      BY OSAAssumption, ListIsFunction DEF OSAAssumption
    <2>2. /\ p \in 1 .. n + 1
          /\ \A i \in 1 .. p - 1 : Priority[taskList[i]] <= Priority[t]
          /\ \A i \in p .. n : Priority[t] <= Priority[taskList[i]]
      BY PlaceInList
    <2>3. /\ Len(taskList') = n + 1
          /\ \A i \in 1 .. n + 1 :
                taskList'[i] = IF i < p THEN taskList[i]
                               ELSE IF i = p THEN t ELSE taskList[i - 1]
      BY <1>2, <2>2, InsertIntoList DEF OSA_TaskCreate
    <2>4. t \notin Created
      BY <1>2 DEF OSA_TaskCreate
    <2> SUFFICES ASSUME NEW i \in 1 .. n + 1, NEW j \in 1 .. n + 1, i < j
                 PROVE  /\ Priority[taskList'[i]] <= Priority[taskList'[j]]
                        /\ taskList'[i] # taskList'[j]
      BY <2>3 DEF ListByPriority
    <2> HIDE DEF p
    <2>5. \A k, l \in 1 .. n : k < l => /\ Priority[taskList[k]] <= Priority[taskList[l]]
                                       /\ taskList[k] # taskList[l]
      BY DEF ListByPriority
    <2>6. CASE j < p
      BY <2>1, <2>2, <2>3, <2>5, <2>6
    <2>7. CASE j = p
      <3>1. i \in 1 .. p - 1 /\ i \in 1 .. n /\ taskList'[i] = taskList[i] /\ taskList'[j] = t
        BY <2>1, <2>2, <2>3, <2>7
      <3> QED BY <2>1, <2>2, <2>4, <3>1
    <2>8. CASE i < p /\ p < j
      <3>1. /\ i \in 1 .. n /\ j - 1 \in 1 .. n /\ i < j - 1
            /\ taskList'[i] = taskList[i] /\ taskList'[j] = taskList[j - 1]
        BY <2>1, <2>2, <2>3, <2>8
      <3> QED BY <2>5, <3>1
    <2>9. CASE i = p
      <3>1. j - 1 \in p .. n /\ j - 1 \in 1 .. n /\ taskList'[i] = t
            /\ taskList'[j] = taskList[j - 1]
        BY <2>1, <2>2, <2>3, <2>9
      <3> QED BY <2>1, <2>2, <2>4, <3>1
    <2>10. CASE p < i
      <3>1. /\ i - 1 \in 1 .. n /\ j - 1 \in 1 .. n /\ i - 1 < j - 1
            /\ taskList'[i] = taskList[i - 1] /\ taskList'[j] = taskList[j - 1]
        BY <2>1, <2>2, <2>3, <2>10
      <3> QED BY <2>5, <3>1
    <2> QED BY <2>1, <2>2, <2>6, <2>7, <2>8, <2>9, <2>10
  <1> QED BY <1>1, <1>2

\* OSA_TaskCreate keeps the list by priority, each task in it once.
THEOREM TasksInOrder == Spec => []ListByPriority
  <1>1. Init => TypeOK /\ ListByPriority
    BY TypeInit
  <1>2. TypeOK /\ ListByPriority /\ [Next]_vars => (TypeOK /\ ListByPriority)'
    BY TypeStep, OrderStep
  <1> QED BY <1>1, <1>2, PTL DEF Spec

-----------------------------------------------------------------------------
(* No wake-up is lost.                                                     *)

\* A task that its event does not know yet has not waited yet: it is still
\* to be called for the first time.
NewTasksRun == \A t \in Created \ waitingTask : haveToRun[t]

\* Past OSA_EventWait, the event knows the task that runs.
WaitedOn == pc \in {"check", "handle", "post", "rearm"} => g_curTask \in waitingTask

\* What a task that empties its queue has not seen came after it looked,
\* with a signal of its own.
LateWorkWakes ==
    pc = "rearm" /\ g_curTask \notin OneAtATime /\ work[g_curTask] > 0
        => haveToRun[g_curTask]

TargetCreated == pc = "post" => target \in Created

WakeInv == NewTasksRun /\ WaitedOn /\ LateWorkWakes /\ TargetCreated /\ NoLostWakeup

LEMMA WakeInit == Init => WakeInv
  <1> SUFFICES ASSUME Init PROVE WakeInv
    OBVIOUS
  <1>1. Created = {main_task}
    BY DEF Init, Created, Range
  <1>2. haveToRun[main_task]
    BY OSAAssumption, Zenon DEF Init, OSAAssumption
  <1>3. \A t \in Tasks : work[t] = 0
    BY DEF Init
  <1>4. pc = "scan" /\ waitingTask = {}
    BY DEF Init
  <1> QED BY <1>1, <1>2, <1>3, <1>4 DEF WakeInv, NewTasksRun, WaitedOn, LateWorkWakes,
                      TargetCreated, NoLostWakeup

\* After OSA_EventSet the task is going to be called.
LEMMA EventSetWakes ==
  ASSUME TypeOK, NewTasksRun, NEW t \in Created, OSA_EventSet(t)
  PROVE  /\ haveToRun'[t]
         /\ \A u \in Tasks : haveToRun[u] => haveToRun'[u]
  BY ListIsFunction DEF TypeOK, NewTasksRun, OSA_EventSet

LEMMA WakeStep == TypeOK /\ WakeInv /\ [Next]_vars => WakeInv'
  <1> SUFFICES ASSUME TypeOK, WakeInv, [Next]_vars PROVE WakeInv'
    OBVIOUS
  <1> USE DEF WakeInv
  <1>0. /\ g_curTask \in Tasks /\ target \in Tasks
        /\ work \in [Tasks -> Nat] /\ haveToRun \in [Tasks -> BOOLEAN]
        /\ Created \subseteq Tasks /\ main_task \in Tasks
    BY ListIsFunction DEF TypeOK
  <1>1. CASE NextTask
    <2>1. \A t \in Tasks : work[t] > 0 => haveToRun[t]
      BY <1>1 DEF NextTask, NoLostWakeup
    <2> QED BY <1>1, <2>1 DEF NextTask, NewTasksRun, WaitedOn, LateWorkWakes,
                            TargetCreated, NoLostWakeup, Created
  <1>2. CASE RunTask
    <2>1. pc' \in {"idle", "create", "wait"}
      BY <1>2 DEF RunTask
    <2>2. \A t \in Tasks : work[t] > 0 => haveToRun[t]
      BY <1>2 DEF RunTask, NoLostWakeup
    <2> QED BY <1>2, <2>1, <2>2 DEF RunTask, NewTasksRun, WaitedOn, LateWorkWakes,
                            TargetCreated, NoLostWakeup, Created
  <1>3. CASE Initialized
    BY <1>3 DEF Initialized, NewTasksRun, WaitedOn, LateWorkWakes, TargetCreated,
                NoLostWakeup, Created
  <1>4. CASE OSA_EventWait
    <2>1. \A t \in Tasks : t # g_curTask => haveToRun'[t] = haveToRun[t]
      BY <1>0, <1>4 DEF OSA_EventWait
    <2>2. NewTasksRun'
      BY <1>0, <1>4, <2>1 DEF OSA_EventWait, NewTasksRun, Created
    <2>3. NoLostWakeup'
      BY <1>0, <1>4, <2>1 DEF OSA_EventWait, NoLostWakeup
    <2> QED BY <1>4, <2>2, <2>3 DEF OSA_EventWait, WaitedOn, LateWorkWakes, TargetCreated
  <1>5. CASE App_Idle_Task
    <2>1. \A t \in Tasks : work[t] > 0 => haveToRun[t]
      BY <1>5 DEF App_Idle_Task, NoLostWakeup
    <2> QED BY <1>5, <2>1 DEF App_Idle_Task, Return, NewTasksRun, WaitedOn,
                            LateWorkWakes, TargetCreated, NoLostWakeup, Created
  <1>6. CASE TakeMessage
    <2>1. \A t \in Tasks : t # g_curTask => work'[t] = work[t]
      BY <1>0, <1>6 DEF TakeMessage
    <2> QED BY <1>0, <1>6, <2>1 DEF TakeMessage, NewTasksRun, WaitedOn, LateWorkWakes,
                            TargetCreated, NoLostWakeup, Created
  <1>7. CASE Handled
    BY <1>0, <1>7 DEF Handled, NewTasksRun, WaitedOn, LateWorkWakes,
                TargetCreated, NoLostWakeup, Created
  <1>8. CASE Signal
    <2>1. target \in Created
      BY <1>8 DEF Signal, TargetCreated
    <2>2. haveToRun'[target] /\ \A u \in Tasks : haveToRun[u] => haveToRun'[u]
      BY <1>8, <2>1, EventSetWakes DEF Signal
    <2>3. NewTasksRun'
      BY <1>0, <1>8, <2>2 DEF Signal, NewTasksRun, Created
    <2>4. NoLostWakeup'
      BY <1>0, <1>8, <2>2 DEF Signal, NoLostWakeup
    <2> QED BY <1>8, <2>3, <2>4 DEF Signal, WaitedOn, LateWorkWakes, TargetCreated
  <1>9. CASE QueueIsEmpty
    BY <1>0, <1>9 DEF QueueIsEmpty, NewTasksRun, WaitedOn, LateWorkWakes,
                TargetCreated, NoLostWakeup, Created
  <1>10. CASE TaskReturns
    <2>1. \A u \in Tasks : haveToRun[u] => haveToRun'[u]
      BY <1>0, <1>10 DEF TaskReturns
    <2>2. work[g_curTask] > 0 => haveToRun'[g_curTask]
      BY <1>0, <1>10 DEF TaskReturns, LateWorkWakes
    <2>3. \A t \in Tasks : work[t] > 0 => haveToRun'[t]
      BY <1>0, <1>10, <2>1, <2>2 DEF TaskReturns, NoLostWakeup
    <2>4. NewTasksRun'
      BY <1>0, <1>10, <2>1 DEF TaskReturns, NewTasksRun, Created
    <2> QED BY <1>10, <2>3, <2>4 DEF TaskReturns, Return, WaitedOn, LateWorkWakes,
                            TargetCreated, NoLostWakeup
  <1>11. ASSUME NEW t \in Tasks, OSA_TaskCreate(t) PROVE WakeInv'
    <2>1. Created' = Created \cup {t}
      BY <1>11, PlaceInList, InsertIntoList DEF OSA_TaskCreate
    <2>2. haveToRun'[t] /\ \A u \in Tasks : u # t => haveToRun'[u] = haveToRun[u]
      BY <1>0, <1>11 DEF OSA_TaskCreate
    <2>3. NewTasksRun'
      BY <1>0, <1>11, <2>1, <2>2 DEF OSA_TaskCreate, NewTasksRun
    <2>4. NoLostWakeup'
      BY <1>0, <1>11, <2>2 DEF OSA_TaskCreate, NoLostWakeup
    <2> QED BY <1>11, <2>3, <2>4 DEF OSA_TaskCreate, WaitedOn, LateWorkWakes, TargetCreated
  <1>12. ASSUME NEW t \in Tasks, Post(t) PROVE WakeInv'
    <2>1. \A u \in Tasks : u # t => work'[u] = work[u]
      BY <1>0, <1>12 DEF Post
    <2> QED BY <1>0, <1>12, <2>1 DEF Post, NewTasksRun, WaitedOn, LateWorkWakes,
                            TargetCreated, NoLostWakeup, Created
  <1>13. ASSUME NEW t \in Tasks, Interrupt(t) PROVE WakeInv'
    <2>1. t \in Created /\ UNCHANGED <<taskList, g_curTask, pc, waitingTask, target>>
      BY <1>13 DEF Interrupt, sched
    <2>2. \A u \in Tasks : u # t => work'[u] = work[u]
      BY <1>0, <1>13 DEF Interrupt
    <2>3. CASE t \in SignalledOnce /\ work[t] > 0
      <3>1. haveToRun' = haveToRun
        BY <1>13, <2>3 DEF Interrupt
      <3>2. \A u \in Tasks : work'[u] > 0 => work[u] > 0
        BY <2>2, <2>3
      <3> QED BY <1>0, <2>1, <3>1, <3>2 DEF NewTasksRun, WaitedOn, LateWorkWakes,
                            TargetCreated, NoLostWakeup, Created
    <2>4. CASE ~(t \in SignalledOnce /\ work[t] > 0)
      <3>1. OSA_EventSet(t)
        BY <1>13, <2>4 DEF Interrupt
      <3>2. haveToRun'[t] /\ \A u \in Tasks : haveToRun[u] => haveToRun'[u]
        BY <2>1, <3>1, EventSetWakes
      <3> QED BY <1>0, <2>1, <2>2, <3>2 DEF NewTasksRun, WaitedOn, LateWorkWakes,
                            TargetCreated, NoLostWakeup, Created
    <2> QED BY <2>3, <2>4
  <1>14. CASE UNCHANGED vars
    BY <1>14 DEF vars, sched, NewTasksRun, WaitedOn, LateWorkWakes,
                TargetCreated, NoLostWakeup, Created
  <1> QED BY <1>1, <1>2, <1>3, <1>4, <1>5, <1>6, <1>7, <1>8, <1>9, <1>10, <1>11,
             <1>12, <1>13, <1>14 DEF Next, Processor

\* A task with something to do is called, wherever interrupts fall.
THEOREM WakeupsAreKept == Spec => []NoLostWakeup
  <1>1. Init => TypeOK /\ WakeInv
    BY TypeInit, WakeInit
  <1>2. TypeOK /\ WakeInv /\ [Next]_vars => (TypeOK /\ WakeInv)'
    BY TypeStep, WakeStep
  <1>3. WakeInv => NoLostWakeup
    BY DEF WakeInv
  <1> QED BY <1>1, <1>2, <1>3, PTL DEF Spec

-----------------------------------------------------------------------------
(* Urgent tasks first.                                                     *)

LEMMA RestartIsUrgent ==
  ASSUME TypeOK, ListByPriority, Restart, UNCHANGED taskList
  PROVE  UrgentFirst'
  <1>1. g_curTask' = taskList[1] /\ Len(taskList) \in Nat \ {0}
    BY ListIsFunction DEF Restart
  <1>2. \A i, j \in 1 .. Len(taskList) : i < j => taskList[j] # taskList[1]
    BY <1>1 DEF ListByPriority
  <1> QED BY <1>1, <1>2 DEF UrgentFirst

LEMMA UrgentStep == TypeOK /\ ListByPriority /\ UrgentFirst /\ [Next]_vars => UrgentFirst'
  <1> SUFFICES ASSUME TypeOK, ListByPriority, UrgentFirst, [Next]_vars PROVE UrgentFirst'
    OBVIOUS
  <1>1. CASE NextTask
    <2>1. PICK k \in 1 .. Len(taskList) :
             /\ taskList[k] = g_curTask
             /\ IF k < Len(taskList)
                  THEN g_curTask' = taskList[k + 1] /\ UNCHANGED signalled
                  ELSE Restart
      BY <1>1 DEF NextTask
    <2>2. UNCHANGED <<taskList, haveToRun, pc>> /\ pc = "scan" /\ ~haveToRun[g_curTask]
      BY <1>1 DEF NextTask
    <2>3. CASE k < Len(taskList)
      <3> SUFFICES ASSUME NEW i \in 1 .. Len(taskList), NEW j \in 1 .. Len(taskList),
                          i < j, taskList[j] = taskList[k + 1], haveToRun[taskList[i]]
                   PROVE  taskList[i] \in signalled
        BY <2>1, <2>2, <2>3 DEF UrgentFirst
      <3>1. Len(taskList) \in Nat
        BY ListIsFunction
      <3>2. j = k + 1
        BY <2>3, <3>1 DEF ListByPriority
      <3>3. i = k \/ i < k
        BY <3>1, <3>2
      <3>4. i # k
        BY <2>1, <2>2
      <3> QED BY <2>1, <2>2, <3>3, <3>4 DEF UrgentFirst
    <2>4. CASE ~(k < Len(taskList))
      BY <2>1, <2>2, <2>4, RestartIsUrgent
    <2> QED BY <2>3, <2>4
  <1>2. CASE RunTask
    BY <1>2 DEF RunTask, UrgentFirst
  <1>3. CASE App_Idle_Task \/ TaskReturns
    BY <1>3, RestartIsUrgent DEF App_Idle_Task, TaskReturns, Return
  <1>4. CASE Initialized \/ OSA_EventWait \/ TakeMessage \/ Handled \/ Signal \/ QueueIsEmpty
    BY <1>4 DEF Initialized, OSA_EventWait, TakeMessage, Handled, Signal, QueueIsEmpty,
                UrgentFirst
  <1>5. ASSUME NEW t \in Tasks, OSA_TaskCreate(t) \/ Post(t) PROVE UrgentFirst'
    BY <1>5 DEF OSA_TaskCreate, Post, UrgentFirst
  <1>6. ASSUME NEW t \in Tasks, Interrupt(t) PROVE UrgentFirst'
    <2>1. UNCHANGED <<taskList, g_curTask, pc>>
      BY <1>6 DEF Interrupt, sched
    <2>2. signalled \subseteq signalled'
      BY <1>6 DEF Interrupt, OSA_EventSet
    <2>3. \A u \in Tasks : haveToRun'[u] => haveToRun[u] \/ u \in signalled'
      BY <1>6 DEF Interrupt, OSA_EventSet, TypeOK
    <2>4. \A i \in 1 .. Len(taskList) : taskList[i] \in Tasks
      BY ListIsFunction
    <2> QED BY <2>1, <2>2, <2>3, <2>4 DEF UrgentFirst
  <1>7. CASE UNCHANGED vars
    BY <1>7 DEF vars, sched, UrgentFirst
  <1> QED BY <1>1, <1>2, <1>3, <1>4, <1>5, <1>6, <1>7 DEF Next, Processor

\* OSA_Start passes over a ready task only if it became ready after that.
THEOREM UrgentTasksFirst == Spec => []UrgentFirst
  <1>1. Init => TypeOK /\ ListByPriority /\ UrgentFirst
    <2>1. Init => Len(taskList) = 1
      BY DEF Init
    <2>2. Len(taskList) = 1 => UrgentFirst
      BY DEF UrgentFirst
    <2> QED BY <2>1, <2>2, TypeInit
  <1>2. TypeOK /\ ListByPriority /\ UrgentFirst /\ [Next]_vars
          => (TypeOK /\ ListByPriority /\ UrgentFirst)'
    BY TypeStep, OrderStep, UrgentStep
  <1> QED BY <1>1, <1>2, PTL DEF Spec

-----------------------------------------------------------------------------
(* The steps of TaskService.                                               *)

\* The scheduler, its tasks and its interrupts only post and serve: a
\* message is served once, and by nobody but its task.
THEOREM OnlyPostsAndServes == Spec => Service!Init /\ [][Service!Next]_work
  <1>1. Init => Service!Init
    BY DEF Init, Service!Init
  <1>2. TypeOK /\ [Next]_vars => [Service!Next]_work
    <2> SUFFICES ASSUME TypeOK, [Next]_vars PROVE [Service!Next]_work
      OBVIOUS
    <2>1. CASE TakeMessage
      <3>1. g_curTask \in Tasks
        BY ListIsFunction DEF TypeOK
      <3>2. Service!Serve(g_curTask)
        BY <2>1 DEF TakeMessage, Service!Serve
      <3> QED BY <3>1, <3>2 DEF Service!Next
    <2>2. ASSUME NEW t \in Tasks, Post(t) \/ Interrupt(t) PROVE [Service!Next]_work
      <3>1. Service!Post(t)
        BY <2>2 DEF Post, Interrupt, Service!Post
      <3> QED BY <3>1 DEF Service!Next
    <2>3. CASE \/ NextTask \/ RunTask \/ Initialized \/ OSA_EventWait \/ App_Idle_Task
               \/ Handled \/ Signal \/ QueueIsEmpty \/ TaskReturns
               \/ \E t \in Tasks : OSA_TaskCreate(t)
      BY <2>3 DEF NextTask, RunTask, Initialized, OSA_EventWait, App_Idle_Task,
                  Handled, Signal, QueueIsEmpty, TaskReturns, OSA_TaskCreate
    <2>4. CASE UNCHANGED vars
      BY <2>4 DEF vars
    <2> QED BY <2>1, <2>2, <2>3, <2>4 DEF Next, Processor
  <1> QED BY <1>1, <1>2, OSATypeCorrect, PTL DEF Spec
=============================================================================

---------------------------- MODULE TaskService ----------------------------
(***************************************************************************)
(* What the scheduler promises the tasks: work that is posted to a task is *)
(* not lost, and the task gets to serve it.  The server's model relies on  *)
(* it: App_Thread runs whenever mAppEvent has been signalled.              *)
(***************************************************************************)
EXTENDS Naturals

CONSTANT Tasks

VARIABLE work    \* requests posted to each task and not served yet

Init == work = [t \in Tasks |-> 0]

Post(t)  == work' = [work EXCEPT ![t] = @ + 1]
Serve(t) == work[t] > 0 /\ work' = [work EXCEPT ![t] = @ - 1]

Next == \E t \in Tasks : Post(t) \/ Serve(t)

Spec == /\ Init
        /\ [][Next]_work
        /\ \A t \in Tasks : WF_work(Serve(t))
=============================================================================

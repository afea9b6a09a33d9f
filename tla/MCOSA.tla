------------------------------- MODULE MCOSA -------------------------------
(* BareMetalOSA for TLC: tasks of the build with their priorities.         *)
EXTENDS BareMetalOSA

CONSTANTS timers, serial, host, idle

BuildPriority ==
    [t \in Tasks |-> CASE t = timers -> 2 [] t = serial -> 3 [] t = host -> 6
                       [] t = main_task -> 7 [] t = idle -> 8]
=============================================================================

------------------------------ MODULE MCTimers ------------------------------
(* Instances of TimersManager for TLC.                                     *)
EXTENDS TimersManager

\* A single-shot low-power timer (the advertising timer) and a plain interval
\* timer (the measurement timers).
MCTimerTypes == {{"SingleShot", "LowPower"}, {}}
=============================================================================

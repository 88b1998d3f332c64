----------------------------- MODULE MCTimerQueue -----------------------------
(* Small instances of TimerQueue. *)
EXTENDS TimerQueue, TLC

CONSTANTS t1, t2, t3, t4

FourTimers == {t1, t2, t3, t4}
Symmetric == Permutations(Timers)
==============================================================================

CONSTANTS
  t1 = t1
  t2 = t2
  t3 = t3
  t4 = t4
  Timers <- FourTimers
  Timeouts = {2}
  MaxTime = 4
SPECIFICATION TimerSpec
SYMMETRY Symmetric
INVARIANT NoTimerOverdue
CHECK_DEADLOCK FALSE

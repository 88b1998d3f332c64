CONSTANTS
  t1 = t1
  t2 = t2
  t3 = t3
  t4 = t4
  Timers <- FourTimers
  Timeouts = {1, 3}
  MaxTime = 4
SPECIFICATION TimerSpec
SYMMETRY Symmetric
INVARIANTS QueueIsExact OnTimeUnlessUpdated
PROPERTY NeverEarly
CHECK_DEADLOCK FALSE

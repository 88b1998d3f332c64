CONSTANTS
  t1 = t1
  t2 = t2
  t3 = t3
  t4 = t4
  c1 = c1
  c2 = c2
  Threads <- FourThreads
  Conns <- TwoConns
  NoConn = NoConn
SPECIFICATION Spec
INVARIANTS OneOwner NoneIsLost NoIdleConnWhileAsleep
CHECK_DEADLOCK FALSE

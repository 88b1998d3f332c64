CONSTANTS
  Workers = {w1, w2, w3}
  Callers = {a, b}
  MaxTasks = 4
SPECIFICATION ThreadPoolFairSpec
INVARIANTS
  TasksInOrder
PROPERTIES
  WorkEnds
CHECK_DEADLOCK FALSE

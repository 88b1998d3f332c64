CONSTANTS
  MaxConns = 2
  Fds = {3}
  MaxThreads = 2
  ThreadNums = {0, 2}
  MaxBytes = 2
  BufferRoom = 1
  MaxReplies = 2
SPECIFICATION FairSpec
INVARIANTS
  NoDanglingChannel
  BytesInOrder
  CrashHasCause
PROPERTIES
  CloseCompletes
  InputIsRead
  ServerStarts
CHECK_DEADLOCK FALSE

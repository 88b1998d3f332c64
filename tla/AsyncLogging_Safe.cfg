CONSTANTS
  t1 = t1
  t2 = t2
  Loggers <- MCLoggers
  BufferSize = 2
  NullBuffer = null
  MaxRecords = 5
  MaxStarts = 2
SPECIFICATION FairSpec
INVARIANTS BuffersInOrder StopWritesAll
PROPERTIES RecordsAreWritten PendingRequestHonoured ImplementsFifoLog
CHECK_DEADLOCK FALSE

CONSTANTS
  c1 = c1
  c2 = c2
  ch1 = ch1
  Callers <- MCCallers
  Loop = loop
  Channels <- MCChannels
  WakeupFd = wakeupFd
  OwnQueuePhases <- OwnQueueMulti
  MaxEvents = 1
  MaxFuncs = 3
  MaxTimers = 1
SPECIFICATION FairSpec
INVARIANTS NoLostWakeup FuncsRunInOrder HandleReadSucceeds
PROPERTIES QueuedFuncRuns QuitEndsAwakeLoop
CHECK_DEADLOCK FALSE

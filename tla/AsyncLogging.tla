---------------------------- MODULE AsyncLogging ----------------------------
(***************************************************************************)
(* The asynchronous log (log/AsyncLogging.cpp, log/LogFile.cpp): the        *)
(* threads that append under m_mutex to m_currentBuffer, the writer thread  *)
(* that swaps the full buffers out, writes them and recycles them, requests *)
(* to flush, and Start and Stop.                                            *)
(*                                                                          *)
(* A record is the number of its Append.  A list of buffers is kept as the  *)
(* records in it, in order, and the number of its buffers.  wait_for gives  *)
(* up after three seconds, so whether a notify arrives changes only when    *)
(* the writer goes on; the notifies are left out.                           *)
(***************************************************************************)
EXTENDS Naturals, Sequences

CONSTANTS
  Loggers,     \* the threads that log
  BufferSize,  \* how many records a buffer takes
  NullBuffer,  \* a unique_ptr that holds no buffer
  MaxRecords,  \* bound: records appended in a behaviour
  MaxStarts    \* bound: calls of Start

ASSUME SizeAssumption == BufferSize \in Nat \ {0}
ASSUME NullAssumption == NullBuffer \notin Seq(Nat)
ASSUME BoundsAssumption == MaxRecords \in Nat /\ MaxStarts \in Nat

VARIABLES
  m_running, m_flushRequested,
  m_currentBuffer, m_nextBuffer,
  m_buffers, bufferCount,     \* the full buffers: their records, their number
  newCurrentBuffer, newNextBuffer,
  buffersToWrite, writeCount, \* what the writer swapped out
  writer,        \* where the writer thread is in ThreadFunc
  file,          \* the records given to fwrite, over all log files
  flushed,       \* how many of them fflush has handed to the disk
  logger,        \* per logging thread: "idle", or "flush" before RequestFlush
  caller,        \* the thread that calls Start and Stop: "idle" or "joining"
  starts,        \* history: calls of Start
  issued,        \* history: records appended
  flushMark,     \* history: the last record a completed RequestFlush followed
  stopMark       \* history: records appended when Stop was last called

sharedVars == <<m_currentBuffer, m_nextBuffer, m_buffers, bufferCount>>
writerVars == <<newCurrentBuffer, newNextBuffer, buffersToWrite, writeCount, writer>>
callerVars == <<caller, starts, stopMark>>
logVars == <<m_running, m_flushRequested, m_currentBuffer, m_nextBuffer, m_buffers,
             bufferCount, newCurrentBuffer, newNextBuffer, buffersToWrite, writeCount,
             writer, file, flushed, logger, caller, starts, issued, flushMark, stopMark>>

Buffer == Seq(1..issued) \cup {NullBuffer}

LogTypeOK ==
  /\ m_running \in BOOLEAN /\ m_flushRequested \in BOOLEAN
  /\ m_currentBuffer \in Buffer /\ m_nextBuffer \in Buffer
  /\ m_currentBuffer # NullBuffer => Len(m_currentBuffer) <= BufferSize
  /\ m_buffers \in Seq(1..issued) /\ bufferCount \in Nat
  /\ newCurrentBuffer \in Buffer /\ newNextBuffer \in Buffer
  /\ buffersToWrite \in Seq(1..issued) /\ writeCount \in Nat
  /\ writer \in {"off", "wait", "write", "flush", "recycle"}
  /\ file \in Seq(1..issued) /\ flushed \in 0..Len(file)
  /\ logger \in [Loggers -> {"idle", "flush"}]
  /\ caller \in {"idle", "joining"}
  /\ starts \in Nat /\ issued \in Nat /\ flushMark \in 0..issued /\ stopMark \in 0..issued

Empty == <<>>

LogInit ==
  /\ m_running = FALSE /\ m_flushRequested = FALSE
  /\ m_currentBuffer = Empty /\ m_nextBuffer = Empty
  /\ m_buffers = <<>> /\ bufferCount = 0
  /\ newCurrentBuffer = NullBuffer /\ newNextBuffer = NullBuffer
  /\ buffersToWrite = <<>> /\ writeCount = 0
  /\ writer = "off"
  /\ file = <<>> /\ flushed = 0
  /\ logger = [t \in Loggers |-> "idle"]
  /\ caller = "idle"
  /\ starts = 0 /\ issued = 0 /\ flushMark = 0 /\ stopMark = 0

(***************************************************************************)
(* The logging threads: Logger::~Logger calls Append, and RequestFlush      *)
(* after a record of level ERROR.                                           *)
(***************************************************************************)

\* The buffer that takes the place of a full m_currentBuffer.
SpareBuffer == IF m_nextBuffer # NullBuffer THEN m_nextBuffer ELSE Empty

\* m_currentBuffer->Available() >= len.
Fits == Len(m_currentBuffer) < BufferSize

AppendRecord(t) ==
  /\ logger[t] = "idle" /\ issued < MaxRecords
  /\ IF Fits
     THEN /\ m_currentBuffer' = Append(m_currentBuffer, issued + 1)
          /\ UNCHANGED <<m_nextBuffer, m_buffers, bufferCount>>
     ELSE /\ m_buffers' = m_buffers \o m_currentBuffer
          /\ bufferCount' = bufferCount + 1
          /\ m_currentBuffer' = Append(SpareBuffer, issued + 1)
          /\ m_nextBuffer' = NullBuffer
  /\ issued' = issued + 1
  /\ logger' \in {logger, [logger EXCEPT ![t] = "flush"]}
  /\ UNCHANGED <<m_running, m_flushRequested, writerVars, file, flushed, callerVars,
                 flushMark>>

RequestFlush(t) ==
  /\ logger[t] = "flush"
  /\ logger' = [logger EXCEPT ![t] = "idle"]
  /\ m_flushRequested' = TRUE
  /\ flushMark' = issued
  /\ UNCHANGED <<m_running, sharedVars, writerVars, file, flushed, callerVars, issued>>

(***************************************************************************)
(* The writer thread.                                                       *)
(***************************************************************************)

\* Mutants: the current buffer is queued first; it stays where it is.
CurrentFirst == m_currentBuffer \o m_buffers
CurrentLeft == m_buffers

\* The full buffers once the current one has joined them.
Collected == IF Len(m_currentBuffer) > 0 THEN m_buffers \o m_currentBuffer ELSE m_buffers

CollectedCount == IF Len(m_currentBuffer) > 0 THEN bufferCount + 1 ELSE bufferCount

\* The buffer that becomes m_currentBuffer: one is made if there is none.
NextCurrent == IF newCurrentBuffer = NullBuffer THEN Empty ELSE newCurrentBuffer

\* Mutants: only the full buffers are looked at; the loop ends at once.
NoFullBuffer == bufferCount = 0
StopAtOnce == TRUE

\* The loop ends when there is nothing to write.
NothingLeft == CollectedCount = 0

\* The critical section, when it does not end the loop.
SwapBuffers ==
  /\ writer = "wait"
  /\ ~(NothingLeft /\ ~m_running)
  /\ buffersToWrite' = Collected /\ writeCount' = CollectedCount
  /\ m_buffers' = <<>> /\ bufferCount' = 0
  /\ m_currentBuffer' = NextCurrent
  /\ newCurrentBuffer' = NullBuffer
  /\ m_nextBuffer' = IF m_nextBuffer = NullBuffer THEN newNextBuffer ELSE m_nextBuffer
  /\ newNextBuffer' = IF m_nextBuffer = NullBuffer THEN NullBuffer ELSE newNextBuffer
  /\ writer' = "write"
  /\ UNCHANGED <<m_running, m_flushRequested, file, flushed, logger, callerVars, issued,
                 flushMark>>

\* The critical section, when it does: the last Flush, and the locals go.
EndWriter ==
  /\ writer = "wait"
  /\ NothingLeft /\ ~m_running
  /\ flushed' = Len(file)
  /\ writer' = "off"
  /\ newCurrentBuffer' = NullBuffer /\ newNextBuffer' = NullBuffer
  /\ UNCHANGED <<m_running, m_flushRequested, sharedVars, buffersToWrite, writeCount,
                 file, logger, callerVars, issued, flushMark>>

\* A Write flushes all that is written if the last time one did is more than
\* three seconds ago.
FlushedByWrite == {flushed} \cup Len(file) + 1..Len(file) + Len(buffersToWrite)

\* LogFile::Write of each buffer.
WriteBuffers ==
  /\ writer = "write"
  /\ file' = file \o buffersToWrite
  /\ flushed' \in FlushedByWrite
  /\ writer' = "flush"
  /\ UNCHANGED <<m_running, m_flushRequested, sharedVars, newCurrentBuffer,
                 newNextBuffer, buffersToWrite, writeCount, logger, callerVars, issued,
                 flushMark>>

\* Mutant: the request is taken and nothing is flushed.
NotFlushed == flushed

\* LogFile::Flush.
FlushedAll == Len(file)

\* m_flushRequested.exchange(false).
FlushIfRequested ==
  /\ writer = "flush"
  /\ flushed' = IF m_flushRequested THEN FlushedAll ELSE flushed
  /\ m_flushRequested' = FALSE
  /\ writer' = "recycle"
  /\ UNCHANGED <<m_running, sharedVars, newCurrentBuffer, newNextBuffer, buffersToWrite,
                 writeCount, file, logger, callerVars, issued, flushMark>>

\* A written buffer after Reset.
Recycled == Empty

\* How many of the written buffers are kept, and which of the writer's two
\* spares they become: newCurrentBuffer first, if it has none.
Kept == IF writeCount > 2 THEN 2 ELSE writeCount
ForCurrent == IF newCurrentBuffer = NullBuffer /\ Kept > 0 THEN 1 ELSE 0

\* A file over FileMaxSize is closed, which flushes it, and the next is opened.
FlushedByRolling == {flushed, Len(file)}

\* The file is rolled over; then two of the buffers are used again.
RecycleBuffers ==
  /\ writer = "recycle"
  /\ flushed' \in FlushedByRolling
  /\ newCurrentBuffer' = IF ForCurrent = 1 THEN Recycled ELSE newCurrentBuffer
  /\ newNextBuffer' = IF newNextBuffer = NullBuffer /\ Kept > ForCurrent
                      THEN Recycled ELSE newNextBuffer
  /\ buffersToWrite' = <<>> /\ writeCount' = 0
  /\ writer' = "wait"
  /\ UNCHANGED <<m_running, m_flushRequested, sharedVars, file, logger, callerVars,
                 issued, flushMark>>

WriterStep == SwapBuffers \/ EndWriter \/ WriteBuffers \/ FlushIfRequested \/ RecycleBuffers

(***************************************************************************)
(* The thread that owns the log.                                            *)
(***************************************************************************)

\* Start, up to the return of the latch; the new thread has made its buffers.
Start ==
  /\ caller = "idle" /\ ~m_running /\ starts < MaxStarts
  /\ m_running' = TRUE
  /\ starts' = starts + 1
  /\ writer' = "wait"
  /\ newCurrentBuffer' = Empty /\ newNextBuffer' = Empty
  /\ UNCHANGED <<m_flushRequested, sharedVars, buffersToWrite, writeCount, file, flushed,
                 logger, caller, issued, flushMark, stopMark>>

StopLogging ==
  /\ caller = "idle" /\ m_running
  /\ m_running' = FALSE
  /\ caller' = "joining"
  /\ stopMark' = issued
  /\ UNCHANGED <<m_flushRequested, sharedVars, writerVars, file, flushed, logger, starts,
                 issued, flushMark>>

\* m_thread.join() returns.
Joined ==
  /\ caller = "joining" /\ writer = "off"
  /\ caller' = "idle"
  /\ UNCHANGED <<m_running, m_flushRequested, sharedVars, writerVars, file, flushed,
                 logger, starts, issued, flushMark, stopMark>>

LogNext ==
  \/ \E t \in Loggers : AppendRecord(t) \/ RequestFlush(t)
  \/ WriterStep
  \/ Start \/ StopLogging \/ Joined

LogSpec == LogInit /\ [][LogNext]_logVars

\* The writer thread runs (its wait ends after three seconds at the latest), a
\* logging thread that has appended goes on, and join returns when it can.
FairSpec ==
  /\ LogSpec
  /\ WF_logVars(WriterStep) /\ WF_logVars(Joined)
  /\ \A t \in Loggers : WF_logVars(RequestFlush(t))

(***************************************************************************)
(* Properties.                                                              *)
(***************************************************************************)

Content(b) == IF b = NullBuffer THEN <<>> ELSE b

\* The records swapped out and not yet in the file.
InWriter == IF writer = "write" THEN buffersToWrite ELSE <<>>

\* The records that are not in the file yet, in the order they will be.
Pending == InWriter \o m_buffers \o Content(m_currentBuffer)

\* The file and what is on its way to it are the appended records, each once
\* and in order.
LogInOrder == file \o Pending = [i \in 1..issued |-> i]

\* No swap, no full buffer and no recycled one loses, repeats or overtakes a
\* record; Append dereferences m_currentBuffer, so it holds a buffer whenever
\* the mutex is free, although both threads move it away; and a buffer that
\* waits for its next use is empty (AsyncLogging.cpp:41, 82-97, 109-127).
BuffersInOrder ==
  /\ LogTypeOK
  /\ LogInOrder
  /\ m_currentBuffer # NullBuffer
  /\ {m_nextBuffer, newCurrentBuffer, newNextBuffer} \subseteq {Empty, NullBuffer}

\* When Stop has returned, every record appended before it was called is on the
\* disk (AsyncLogging.cpp:86, 128), restarts included.
StopWritesAll == caller = "idle" => flushed >= stopMark

\* A record appended while the log runs is written, whether or not anything is
\* appended after it and even if the log is stopped meanwhile.
RecordsAreWritten ==
  \A i \in 1..MaxRecords : (issued >= i /\ m_running) ~> (Len(file) >= i)

\* The log is a FIFO.
Fifo == INSTANCE FifoLog WITH Records <- 1..MaxRecords, accepted <- file \o Pending
ImplementsFifoLog == Fifo!Spec

\* A request that is pending when the writer is about to swap reaches the disk
\* with every record appended before it, in full buffers or not, whatever is
\* appended and requested meanwhile and even if the log is stopped
\* (AsyncLogging.cpp:79, 106).
PendingRequestHonoured ==
  \A i \in 1..MaxRecords :
    (flushMark >= i /\ m_flushRequested /\ writer = "wait") ~> (flushed >= i)

\* A record whose thread has asked for a flush reaches the disk
\* (AsyncLogging.cpp:80, 107).  It does not hold: a request made between the swap
\* and the exchange is consumed for the buffers swapped before.
FlushRequestHonoured ==
  \A i \in 1..MaxRecords : (flushMark >= i /\ m_running) ~> (flushed >= i)
==============================================================================

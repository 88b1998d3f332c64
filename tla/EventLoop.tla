------------------------------ MODULE EventLoop ------------------------------
(***************************************************************************)
(* One EventLoop (src/src/tcp/EventLoop.cpp): the thread that runs loop(),  *)
(* the threads that hand it functions with RunOneFunc / QueueFunc, the      *)
(* eventfd that wakes it, and the timers of its TimerManager as far as they *)
(* decide when epoll_wait returns.                                          *)
(*                                                                          *)
(* A turn of loop() is                                                      *)
(*                                                                          *)
(*   top -> poll -> dispatch -> todo -> timers -> top                       *)
(*                                                                          *)
(* and the other threads interleave with it at every step.  QueueFunc is    *)
(* two steps: the push under m_mtx, and the write of the eventfd after the  *)
(* unlock.  What a callback does is left open, except for the calls it can  *)
(* make into the loop it runs on.                                           *)
(***************************************************************************)
EXTENDS Naturals, Sequences, FiniteSets

CONSTANTS
  Callers,        \* the threads that call QueueFunc on a loop that is not theirs
  Loop,           \* the thread that runs loop()
  Channels,       \* the connections registered with the loop's epoll
  WakeupFd,       \* the loop's eventfd
  OwnQueuePhases, \* the phases of a turn in which a callback calls QueueFunc on its own loop
  MaxEvents,      \* MAX_EVENTS: how many events one epoll_wait returns
  MaxFuncs,       \* bound: functions queued in a behaviour
  MaxTimers       \* bound: timers alive at a time

CallbackPhases == {"dispatch", "todo", "timers"}

ASSUME ThreadsAssumption == Loop \notin Callers /\ WakeupFd \notin Channels
ASSUME PhasesAssumption == OwnQueuePhases \subseteq CallbackPhases
ASSUME BoundsAssumption == /\ MaxEvents \in Nat \ {0}
                           /\ MaxFuncs \in Nat
                           /\ MaxTimers \in Nat

VARIABLES
  phase,             \* where the loop thread is in loop()
  pc,                \* per thread: "idle", or "pushed" between the unlock and the write
  m_todoList,        \* functions pushed and not yet taken, by the number of their push
  todoListCopy,      \* what DoTodoList swapped out and has still to run
  m_callingTodoList,
  m_quit,
  wakeupCount,       \* the counter of the eventfd
  ready,             \* the channels with a pending event
  batch,             \* the fds epoll_wait returned and HandleEvent has not been called for
  armed,             \* timers in the queue that have not expired
  due,               \* timers in the queue that have
  issued,            \* history: functions pushed so far
  executed           \* history: the functions run, in the order they were

vars == <<phase, pc, m_todoList, todoListCopy, m_callingTodoList, m_quit,
          wakeupCount, ready, batch, armed, due, issued, executed>>

queueVars == <<m_todoList, wakeupCount, issued>>
timerVars == <<armed, due>>

Threads == Callers \cup {Loop}

TypeOK ==
  /\ phase \in {"top", "poll", "dispatch", "todo", "timers", "exited", "terminated"}
  /\ pc \in [Threads -> {"idle", "pushed"}]
  /\ m_todoList \in Seq(1..issued)
  /\ todoListCopy \in Seq(1..issued)
  /\ m_callingTodoList \in BOOLEAN
  /\ m_quit \in BOOLEAN
  /\ wakeupCount \in Nat
  /\ ready \subseteq Channels
  /\ batch \subseteq Channels \cup {WakeupFd}
  /\ armed \in Nat
  /\ due \in Nat
  /\ issued \in Nat
  /\ executed \in Seq(1..issued)

Init ==
  /\ phase = "top"
  /\ pc = [t \in Threads |-> "idle"]
  /\ m_todoList = <<>>
  /\ todoListCopy = <<>>
  /\ m_callingTodoList = FALSE
  /\ m_quit = FALSE
  /\ wakeupCount = 0
  /\ ready = {}
  /\ batch = {}
  /\ armed = 0
  /\ due = 0
  /\ issued = 0
  /\ executed = <<>>

(***************************************************************************)
(* QueueFunc.                                                               *)
(***************************************************************************)

\* The critical section of QueueFunc: m_todoList.push_back(func).
PushFunc(t) ==
  /\ issued < MaxFuncs
  /\ pc[t] = "idle"
  /\ m_todoList' = Append(m_todoList, issued + 1)
  /\ issued' = issued + 1
  /\ pc' = [pc EXCEPT ![t] = "pushed"]

\* Mutants of NeedsWakeup: the flag is forgotten; the test of the thread is.
WakeupFromOthersOnly(t) == t # Loop
WakeupWhileCallingOnly(t) == m_callingTodoList

\* The condition under which QueueFunc writes the eventfd.
NeedsWakeup(t) == t # Loop \/ m_callingTodoList

\* RunOneFunc from a thread that is not the loop's: it queues the function.
RunOneFunc(t) ==
  /\ t \in Callers
  /\ phase \notin {"exited", "terminated"}
  /\ PushFunc(t)
  /\ UNCHANGED <<phase, todoListCopy, m_callingTodoList, m_quit, wakeupCount,
                 ready, batch, timerVars, executed>>

\* The end of QueueFunc, after the unlock.
WakeUp(t) ==
  /\ pc[t] = "pushed"
  /\ wakeupCount' = IF NeedsWakeup(t) THEN wakeupCount + 1 ELSE wakeupCount
  /\ pc' = [pc EXCEPT ![t] = "idle"]
  /\ UNCHANGED <<phase, m_todoList, todoListCopy, m_callingTodoList, m_quit,
                 ready, batch, timerVars, issued, executed>>

\* What a callback run by the loop thread in phase p may do to its own loop:
\* nothing, AddScheduledTask (RunOneFunc runs the lambda at once), QueueFunc.
Callback(p) ==
  \/ UNCHANGED <<pc, m_todoList, issued, armed>>
  \/ /\ armed + due < MaxTimers
     /\ armed' = armed + 1
     /\ UNCHANGED <<pc, m_todoList, issued>>
  \/ /\ p \in OwnQueuePhases
     /\ PushFunc(Loop)
     /\ UNCHANGED armed

(***************************************************************************)
(* loop().  The loop thread takes no step of its turn while it is inside    *)
(* QueueFunc.                                                               *)
(***************************************************************************)
At(p) == phase = p /\ pc[Loop] = "idle"

\* Mutant: the flag, a plain bool, is read once before the loop.
ReadBefore == FALSE

\* The condition of while (!m_quit).
QuitSeen == m_quit

\* while (!m_quit), and GetNextTimeOut.
TestQuit ==
  /\ At("top")
  /\ phase' = IF QuitSeen THEN "exited" ELSE "poll"
  /\ UNCHANGED <<pc, queueVars, todoListCopy, m_callingTodoList, m_quit, ready,
                 batch, timerVars, executed>>

\* The fds epoll_wait finds ready.  The eventfd is level triggered.
ReadyFds == ready \cup (IF wakeupCount > 0 THEN {WakeupFd} ELSE {})

\* epoll_wait returns at most MaxEvents of them.
Batches ==
  {b \in SUBSET ReadyFds :
     Cardinality(b) = IF Cardinality(ReadyFds) < MaxEvents
                      THEN Cardinality(ReadyFds) ELSE MaxEvents}

\* GetNextTimeOut returned a timeout other than -1.
HasTimeout == armed + due > 0

\* epoll_wait returns, with events or because its timeout is over.
Poll ==
  /\ At("poll")
  /\ ReadyFds # {} \/ HasTimeout
  /\ batch' \in Batches
  /\ phase' = "dispatch"
  /\ UNCHANGED <<pc, queueVars, todoListCopy, m_callingTodoList, m_quit, ready,
                 timerVars, executed>>

\* epoll_wait is interrupted by a signal: Epoll::wait returns no event.
PollInterrupted ==
  /\ At("poll")
  /\ batch' = {}
  /\ phase' = "dispatch"
  /\ UNCHANGED <<pc, queueVars, todoListCopy, m_callingTodoList, m_quit, ready,
                 timerVars, executed>>

\* Mutant: the event is handled again.
EventKept(fd) == batch

\* What is left of the batch once the event of fd has been handled.
AfterEvent(fd) == batch \ {fd}

\* EventLoop::HandleRead.  Reading an eventfd whose counter is zero fails and
\* the exception ends the program.
HandleRead ==
  /\ At("dispatch")
  /\ WakeupFd \in batch
  /\ batch' = AfterEvent(WakeupFd)
  /\ phase' = IF wakeupCount > 0 THEN phase ELSE "terminated"
  /\ wakeupCount' = 0
  /\ UNCHANGED <<pc, m_todoList, issued, todoListCopy, m_callingTodoList, m_quit,
                 ready, timerVars, executed>>

\* Channel::HandleEvent of a connection: its callback consumes the event.
HandleEvent(ch) ==
  /\ At("dispatch")
  /\ ch \in batch \ {WakeupFd}
  /\ batch' = AfterEvent(ch)
  /\ ready' = ready \ {ch}
  /\ Callback("dispatch")
  /\ UNCHANGED <<phase, todoListCopy, m_callingTodoList, m_quit, wakeupCount,
                 due, executed>>

\* Mutant: the functions are copied, not swapped out.
CopiedNotSwapped == m_todoList

\* The two lists after todoListCopy.swap(m_todoList).
SwappedOut == m_todoList
SwappedIn == todoListCopy

\* The batch is done: DoTodoList sets its flag and swaps the lists under m_mtx.
BeginTodoList ==
  /\ At("dispatch")
  /\ batch = {}
  /\ phase' = "todo"
  /\ m_callingTodoList' = TRUE
  /\ todoListCopy' = SwappedOut
  /\ m_todoList' = SwappedIn
  /\ UNCHANGED <<pc, wakeupCount, issued, m_quit, ready, batch, timerVars, executed>>

\* DoTodoList runs the next function of its copy.
RunFunc ==
  /\ At("todo")
  /\ todoListCopy # <<>>
  /\ executed' = Append(executed, Head(todoListCopy))
  /\ todoListCopy' = Tail(todoListCopy)
  /\ Callback("todo")
  /\ UNCHANGED <<phase, m_callingTodoList, m_quit, wakeupCount, ready, batch, due>>

\* DoTodoList returns.
EndTodoList ==
  /\ At("todo")
  /\ todoListCopy = <<>>
  /\ m_callingTodoList' = FALSE
  /\ phase' = "timers"
  /\ UNCHANGED <<pc, queueVars, todoListCopy, m_quit, ready, batch, timerVars,
                 executed>>

\* HandleExpiredEvent finds an expired timer at the top of its queue.
TimerDue == due > 0

\* HandleExpiredEvent runs one expired timer.
RunTimer ==
  /\ At("timers")
  /\ TimerDue
  /\ due' = due - 1
  /\ Callback("timers")
  /\ UNCHANGED <<phase, todoListCopy, m_callingTodoList, m_quit, wakeupCount, ready,
                 batch, executed>>

\* HandleExpiredEvent returns.
EndTimers ==
  /\ At("timers")
  /\ ~TimerDue
  /\ phase' = "top"
  /\ UNCHANGED <<pc, queueVars, todoListCopy, m_callingTodoList, m_quit, ready,
                 batch, timerVars, executed>>

LoopStep ==
  \/ TestQuit
  \/ Poll
  \/ HandleRead
  \/ \E ch \in Channels : HandleEvent(ch)
  \/ BeginTodoList \/ RunFunc \/ EndTodoList
  \/ RunTimer \/ EndTimers
  \/ WakeUp(Loop)

(***************************************************************************)
(* What happens around the loop.                                            *)
(***************************************************************************)

\* quit(), called by ~EventLoopThread.
Quit(t) ==
  /\ t \in Callers
  /\ pc[t] = "idle"
  /\ ~m_quit
  /\ m_quit' = TRUE
  /\ UNCHANGED <<phase, pc, queueVars, todoListCopy, m_callingTodoList, ready, batch,
                 timerVars, executed>>

\* A peer sends something, or the socket becomes writable.
Arrive(ch) ==
  /\ ready' = ready \cup {ch}
  /\ UNCHANGED <<phase, pc, queueVars, todoListCopy, m_callingTodoList, m_quit,
                 batch, timerVars, executed>>

\* Time passes over the expiry of a timer.  A timer that expires while
\* HandleExpiredEvent runs is left for its next call: the loop may have read
\* the clock before.
Expire ==
  /\ phase # "timers"
  /\ armed > 0
  /\ armed' = armed - 1
  /\ due' = due + 1
  /\ UNCHANGED <<phase, pc, queueVars, todoListCopy, m_callingTodoList, m_quit,
                 ready, batch, executed>>

Next ==
  \/ LoopStep
  \/ PollInterrupted
  \/ \E t \in Callers : RunOneFunc(t) \/ WakeUp(t) \/ Quit(t)
  \/ \E ch \in Channels : Arrive(ch)
  \/ Expire

Spec == Init /\ [][Next]_vars

\* The threads run: the loop thread whenever epoll_wait has something to
\* return, and a caller until it has left QueueFunc.  Nobody has to call
\* QueueFunc, no peer has to send, and no signal has to arrive.
FairSpec ==
  /\ Spec
  /\ WF_vars(LoopStep)
  /\ \A t \in Callers : WF_vars(WakeUp(t))

(***************************************************************************)
(* Properties.                                                              *)
(***************************************************************************)

\* A function that DoTodoList has not taken never waits for an event nobody
\* has announced: after the swap of a turn and until the next epoll_wait
\* returns, either the eventfd is readable or a thread is about to write it.
\* This is what QueueFunc's condition has to achieve (EventLoop.cpp:87-89).
NoLostWakeup ==
  (phase \in {"todo", "timers", "top", "poll"} /\ m_todoList # <<>>)
    => \/ wakeupCount > 0
       \/ \E t \in Threads : pc[t] = "pushed" /\ NeedsWakeup(t)

\* Functions are run exactly once, in the order of their pushes, whatever the
\* interleaving of pushes, swaps and the functions' own pushes.
FuncsRunInOrder ==
  executed \o todoListCopy \o m_todoList = [i \in 1..issued |-> i]

\* HandleRead never reads an eventfd whose counter is zero, so it never throws:
\* every return of epoll_wait that reports the eventfd is followed by one read.
HandleReadSucceeds ==
  /\ phase # "terminated"
  /\ WakeupFd \in batch => wakeupCount > 0

\* A queued function is run without waiting for an unrelated event
\* (EventLoop.cpp:88), unless the loop is told to quit.
QueuedFuncRuns ==
  \A i \in 1..MaxFuncs : (issued >= i) ~> (Len(executed) >= i \/ m_quit)

\* quit() ends a loop that is awake, or that a wakeup is waiting for: neither a
\* callback that queues nor a timer keeps it going (EventLoop.cpp:25).
QuitEndsAwakeLoop ==
  (m_quit /\ (phase # "poll" \/ wakeupCount > 0)) ~> phase \in {"exited", "terminated"}

\* quit() makes loop() return, as ~EventLoopThread's join expects
\* (EventLoopThread.cpp:12).  It does not hold: quit() wakes nobody.
QuitEndsLoop == m_quit ~> (phase = "exited")
==============================================================================

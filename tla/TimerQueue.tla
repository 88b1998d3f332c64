----------------------------- MODULE TimerQueue -----------------------------
(***************************************************************************)
(* TimerManager (timer/Timer.h, timer/Timer.cpp): a std::priority_queue of  *)
(* timers ordered by their expiry, which Timer::Update changes while the    *)
(* timer is in the queue.  push and pop are those of libstdc++ (push_heap,  *)
(* and pop_heap's __adjust_heap), so that a queue whose order has been      *)
(* broken is treated as the program treats it.                              *)
(*                                                                          *)
(* The loop around it waits until an event arrives or the timeout of        *)
(* GetNextTimeOut is over, lets callbacks use the timers, and calls         *)
(* HandleExpiredEvent.  Time may pass between any two steps; a wait ends at *)
(* the latest when its timeout is over.                                     *)
(***************************************************************************)
EXTENDS Integers, Sequences, FiniteSets

CONSTANTS
  Timers,
  Timeouts,  \* the timeouts AddTimer and Update are called with
  MaxTime    \* bound: the clock stops there

ASSUME TimeAssumption == MaxTime \in Nat /\ Timeouts \subseteq Nat \ {0}

VARIABLES
  now,
  queue,          \* the deque under the priority_queue: its top is queue[1]
  m_expiredTime,  \* per timer
  m_deleted,      \* per timer
  state,          \* per timer: "new", "queued", "run", or "dropped" without a run
  cleared,        \* per timer: ClearCallback has been called
  updated,        \* whether Update has been called
  stage,          \* the loop: "wait", "turn", "expired" in HandleExpiredEvent,
                  \* "timeout" at the top of the loop
  deadline        \* when epoll_wait returns at the latest; -1 for never

timerQueueVars == <<now, queue, m_expiredTime, m_deleted, state, cleared,
                    updated, stage, deadline>>

TimerTypeOK ==
  /\ now \in 0..MaxTime
  /\ queue \in Seq(Timers)
  /\ m_expiredTime \in [Timers -> Nat]
  /\ m_deleted \in [Timers -> BOOLEAN]
  /\ state \in [Timers -> {"new", "queued", "run", "dropped"}]
  /\ cleared \in [Timers -> BOOLEAN] /\ updated \in BOOLEAN
  /\ stage \in {"wait", "turn", "expired", "timeout"}
  /\ deadline \in Nat \cup {-1}
  /\ stage = "wait" => IF queue = <<>> THEN deadline = -1 ELSE deadline >= now

TimerInit ==
  /\ now = 0 /\ queue = <<>>
  /\ m_expiredTime = [t \in Timers |-> 0]
  /\ m_deleted = [t \in Timers |-> FALSE]
  /\ state = [t \in Timers |-> "new"]
  /\ cleared = [t \in Timers |-> FALSE] /\ updated = FALSE
  /\ stage = "timeout" /\ deadline = -1

(***************************************************************************)
(* The heap.                                                                *)
(***************************************************************************)

\* Mutant: the timers that expire last come first.
EarlierLast(exp, a, b) == exp[a] < exp[b]

\* TimerCmp: a expires after b.
Later(exp, a, b) == exp[a] > exp[b]

\* __push_heap: while the parent of the hole at i expires after v it moves down
\* into the hole; then v goes into it.
PushUp(q, exp, hole, v) ==
  LET up[i \in 1..hole] ==
        IF i > 1 /\ Later(exp, q[i \div 2], v)
        THEN [up[i \div 2] EXCEPT ![i] = q[i \div 2]]
        ELSE [q EXCEPT ![i] = v]
  IN  up[hole]

Push(q, exp, t) == PushUp(Append(q, t), exp, Len(q) + 1, t)

\* Where the hole at i goes: to the child that expires first, the right one if
\* both expire together; it stays if there is none.
Child(q, exp, i) ==
  IF 2 * i > Len(q) THEN i
  ELSE IF 2 * i = Len(q) \/ Later(exp, q[2 * i + 1], q[2 * i]) THEN 2 * i
  ELSE 2 * i + 1

\* __adjust_heap: the hole at i goes down to a leaf, and each child on its way
\* moves up.
SinkHole(q, exp) ==
  LET sunk[i \in 1..Len(q)] ==
        LET child == Child(q, exp, i)
        IN  IF child = i THEN [hole |-> i, deque |-> q]
            ELSE [hole |-> sunk[child].hole,
                  deque |-> [sunk[child].deque EXCEPT ![i] = q[child]]]
  IN  sunk[1]

\* pop: the hole at the top sinks, and the last timer of the deque is pushed up
\* from where it ends.
Pop(q, exp) ==
  LET sunk == SinkHole(SubSeq(q, 1, Len(q) - 1), exp)
  IN  IF Len(q) = 1 THEN <<>>
      ELSE PushUp(sunk.deque, exp, sunk.hole, q[Len(q)])

(***************************************************************************)
(* The operations, called from the loop's callbacks.                        *)
(***************************************************************************)
AddTimer(t, timeout) ==
  /\ stage \in {"turn", "expired"}
  /\ state[t] = "new"
  /\ m_expiredTime' = [m_expiredTime EXCEPT ![t] = now + timeout]
  /\ queue' = Push(queue, m_expiredTime', t)
  /\ state' = [state EXCEPT ![t] = "queued"]
  /\ UNCHANGED <<now, m_deleted, cleared, stage, deadline, updated>>

\* Mutant: the timer is pushed once more to restore the order.
UpdateAndPush(t, timeout) ==
  /\ stage = "turn" /\ state[t] = "queued"
  /\ m_expiredTime' = [m_expiredTime EXCEPT ![t] = now + timeout]
  /\ updated' = TRUE
  /\ queue' = Push(queue, m_expiredTime', t)
  /\ UNCHANGED <<now, m_deleted, state, cleared, stage, deadline>>

\* Timer::Update, through the weak_ptr that HandleRequest locks: the key of a
\* queued timer changes where it is.
Update(t, timeout) ==
  /\ stage = "turn" /\ state[t] = "queued"
  /\ m_expiredTime' = [m_expiredTime EXCEPT ![t] = now + timeout]
  /\ updated' = TRUE
  /\ UNCHANGED <<now, queue, m_deleted, state, cleared, stage, deadline>>

ClearCallback(t) ==
  /\ stage = "turn" /\ state[t] = "queued"
  /\ cleared' = [cleared EXCEPT ![t] = TRUE]
  /\ m_deleted' = [m_deleted EXCEPT ![t] = TRUE]
  /\ UNCHANGED <<now, queue, m_expiredTime, state, stage, deadline, updated>>

\* Mutant: one millisecond too early.
ValidBefore(t) == now + 1 < m_expiredTime[t]

\* IsValid.
IsValid(t) == now < m_expiredTime[t]

HasCallback(t) == ~cleared[t]

TopIsDue == queue # <<>> /\ (m_deleted[queue[1]] \/ ~IsValid(queue[1]))

\* One round of HandleExpiredEvent: the top is popped, then run.
RunTop ==
  /\ stage = "expired" /\ TopIsDue
  /\ LET t == queue[1] IN
       /\ m_deleted' = [m_deleted EXCEPT ![t] = TRUE]
       /\ state' = [state EXCEPT ![t] = IF HasCallback(t) THEN "run" ELSE "dropped"]
  /\ queue' = Pop(queue, m_expiredTime)
  /\ UNCHANGED <<now, m_expiredTime, cleared, stage, deadline, updated>>

\* The loop of HandleExpiredEvent ends at the first timer that has not expired.
EndExpired ==
  /\ stage = "expired"
  /\ ~TopIsDue
  /\ stage' = "timeout"
  /\ UNCHANGED <<now, queue, m_expiredTime, m_deleted, state, cleared, deadline, updated>>

\* GetNextTimeOut.
GetNextTimeOut ==
  IF queue = <<>> THEN -1
  ELSE IF m_expiredTime[queue[1]] > now THEN m_expiredTime[queue[1]] - now ELSE 0

\* The loop goes to wait.
WaitForEvents ==
  /\ stage = "timeout"
  /\ stage' = "wait"
  /\ deadline' = IF GetNextTimeOut = -1 THEN -1 ELSE now + GetNextTimeOut
  /\ UNCHANGED <<now, queue, m_expiredTime, m_deleted, state, cleared, updated>>

\* epoll_wait returns: the timeout is over, or an event has arrived.
EndWait ==
  /\ stage = "wait"
  /\ stage' = "turn"
  /\ UNCHANGED <<now, queue, m_expiredTime, m_deleted, state, cleared, deadline, updated>>

\* Events and functions have been handled.
HandleExpiredEvent ==
  /\ stage = "turn"
  /\ stage' = "expired"
  /\ UNCHANGED <<now, queue, m_expiredTime, m_deleted, state, cleared, deadline, updated>>

Tick ==
  /\ now < MaxTime
  /\ stage = "wait" => deadline = -1 \/ now < deadline
  /\ now' = now + 1
  /\ UNCHANGED <<queue, m_expiredTime, m_deleted, state, cleared, stage, deadline, updated>>

TimerNext ==
  \/ \E t \in Timers : \/ \E d \in Timeouts : AddTimer(t, d) \/ Update(t, d)
                       \/ ClearCallback(t)
  \/ RunTop \/ EndExpired \/ WaitForEvents \/ EndWait \/ HandleExpiredEvent \/ Tick

TimerSpec == TimerInit /\ [][TimerNext]_timerQueueVars

(***************************************************************************)
(* Properties.                                                              *)
(***************************************************************************)

\* The deque holds each queued timer once, whatever Update has done to its
\* order: push and pop lose and repeat nothing.
QueueIsExact ==
  /\ TimerTypeOK
  /\ {queue[i] : i \in 1..Len(queue)} = {t \in Timers : state[t] = "queued"}
  /\ Len(queue) = Cardinality({t \in Timers : state[t] = "queued"})

\* A callback never runs before the expiry of its timer, also when the timer
\* was updated or another one expired, and never after ClearCallback.
NeverEarly ==
  [][\A t \in Timers :
       (state[t] # "run" /\ state'[t] = "run")
         => now >= m_expiredTime[t] /\ ~cleared[t]]_timerQueueVars

\* Without Update the top is the earliest timer, whatever was added, cleared and
\* popped, and the loop does not sleep on while a timer is overdue.
OnTimeUnlessUpdated ==
  (~updated /\ stage = "wait" /\ (deadline = -1 \/ now < deadline)) =>
    \A t \in Timers : state[t] = "queued" => now < m_expiredTime[t]

\* What HandleExpiredEvent and GetNextTimeOut rely on when they look at the top
\* only (Timer.cpp:50, 60), with Update too: the loop does not sleep on while a timer is overdue.
NoTimerOverdue ==
  (stage = "wait" /\ (deadline = -1 \/ now < deadline)) =>
    \A t \in Timers : state[t] = "queued" => now < m_expiredTime[t]
==============================================================================

------------------------------ MODULE ThreadPool ------------------------------
(***************************************************************************)
(* ThreadPool (base/ThreadPool.h, base/ThreadPool.cpp): callers that add    *)
(* tasks, workers that take them under m_mtx or wait on m_cv, tasks that    *)
(* add tasks of their own, and the destructor, which the owner calls when   *)
(* no caller is inside addTask any more.                                    *)
(***************************************************************************)
EXTENDS Naturals, Sequences, FiniteSets

CONSTANTS
  Workers,   \* the pool's threads; size 0 is accepted too
  Callers,   \* the other threads that call addTask
  MaxTasks   \* bound: tasks accepted in a behaviour

ASSUME WorkersAssumption == Workers \cap Callers = {} /\ MaxTasks \in Nat

VARIABLES
  m_tasks, m_stop,
  worker,    \* per worker: "start" before it has the lock, "asleep" in m_cv.wait,
             \* "run" with a task, "exited"
  task,      \* per worker: the task it runs
  notifying, \* the threads between the unlock and notify_one of addTask
  owner,     \* the destructor: "before", "stopping" before notify_all, "joining", "after"
  accepted,  \* history: tasks pushed
  started, finished \* history: tasks in the order they were taken; those that ended

threadPoolVars ==
  <<m_tasks, m_stop, worker, task, notifying, owner, accepted, started, finished>>

Tasks == 1..accepted

ThreadPoolTypeOK ==
  /\ m_tasks \in Seq(Tasks) /\ Len(m_tasks) <= MaxTasks
  /\ m_stop \in BOOLEAN
  /\ worker \in [Workers -> {"start", "asleep", "run", "exited"}]
  /\ task \in [Workers -> 0..accepted]
  /\ notifying \subseteq Workers \cup Callers
  /\ owner \in {"before", "stopping", "joining", "after"}
  /\ accepted \in 0..MaxTasks
  /\ started \in Seq(Tasks) /\ Len(started) <= MaxTasks
  /\ finished \subseteq Tasks

ThreadPoolInit ==
  /\ m_tasks = <<>> /\ m_stop = FALSE
  /\ worker = [w \in Workers |-> "start"] /\ task = [w \in Workers |-> 0]
  /\ notifying = {} /\ owner = "before"
  /\ accepted = 0 /\ started = <<>> /\ finished = {}

\* The critical section of addTask.  After the destructor has set m_stop it
\* throws, to a task whose future keeps the exception: nothing changes.
AddTask(t) ==
  /\ accepted < MaxTasks /\ t \notin notifying
  /\ IF t \in Workers THEN worker[t] = "run" ELSE owner = "before"
  /\ ~m_stop
  /\ m_tasks' = Append(m_tasks, accepted + 1)
  /\ accepted' = accepted + 1
  /\ notifying' = notifying \cup {t}
  /\ UNCHANGED <<m_stop, worker, task, owner, started, finished>>

\* Mutant: addTask does not notify.
WakesNone(ws) == {{}}

\* Which of the threads that wait may wake: by notify_one, by notify_all.
NotifyOne(ws) == IF ws = {} THEN {{}} ELSE {{w} : w \in ws}
NotifyEach(ws) == {ws}

Waiting == {w \in Workers : worker[w] = "asleep"}
Wake(ws) == worker' = [w \in Workers |-> IF w \in ws THEN "start" ELSE worker[w]]

\* The end of addTask.
Notify(t) ==
  /\ t \in notifying
  /\ notifying' = notifying \ {t}
  /\ \E ws \in NotifyOne(Waiting) : Wake(ws)
  /\ UNCHANGED <<m_tasks, m_stop, task, owner, accepted, started, finished>>

\* Mutant: a stopped pool's thread ends at once.
MayExitStopped == m_stop

\* A thread ends when the pool is stopped and no task is left.
MayExit == m_stop /\ m_tasks = <<>>

\* m_tasks.pop(), and m_tasks.front().
Popped(ts) == Tail(ts)
NextTask(ts) == ts[1]

\* The critical section of a worker: m_cv.wait with its predicate, and what
\* follows it.  A wait that begins releases m_mtx.
TakeTask(w) ==
  /\ worker[w] = "start"
  /\ \/ /\ MayExit
        /\ worker' = [worker EXCEPT ![w] = "exited"]
        /\ UNCHANGED <<m_tasks, task, started>>
     \/ /\ ~MayExit /\ m_tasks # <<>>
        /\ worker' = [worker EXCEPT ![w] = "run"]
        /\ task' = [task EXCEPT ![w] = NextTask(m_tasks)]
        /\ started' = Append(started, NextTask(m_tasks))
        /\ m_tasks' = Popped(m_tasks)
     \/ /\ ~m_stop /\ m_tasks = <<>>
        /\ worker' = [worker EXCEPT ![w] = "asleep"]
        /\ UNCHANGED <<m_tasks, task, started>>
  /\ UNCHANGED <<m_stop, notifying, owner, accepted, finished>>

\* task() returns; an exception stays in its packaged_task.
FinishTask(w) ==
  /\ worker[w] = "run" /\ w \notin notifying
  /\ finished' = finished \cup {task[w]}
  /\ worker' = [worker EXCEPT ![w] = "start"]
  /\ task' = [task EXCEPT ![w] = 0]
  /\ UNCHANGED <<m_tasks, m_stop, notifying, owner, accepted, started>>

\* ~ThreadPool sets m_stop.
Stop ==
  /\ owner = "before" /\ notifying \cap Callers = {}
  /\ m_stop' = TRUE
  /\ owner' = "stopping"
  /\ UNCHANGED <<m_tasks, worker, task, notifying, accepted, started, finished>>

\* ~ThreadPool: m_cv.notify_all, after the unlock.
StopNotifies ==
  /\ owner = "stopping"
  /\ owner' = "joining"
  /\ \E ws \in NotifyEach(Waiting) : Wake(ws)
  /\ UNCHANGED <<m_tasks, m_stop, task, notifying, accepted, started, finished>>

\* ~ThreadPool: every thread is joined.
Join ==
  /\ owner = "joining" /\ \A w \in Workers : worker[w] = "exited"
  /\ owner' = "after"
  /\ UNCHANGED <<m_tasks, m_stop, worker, task, notifying, accepted, started, finished>>

\* A wait may end without a notification.
WakeSpuriously(w) ==
  /\ worker[w] = "asleep"
  /\ Wake({w})
  /\ UNCHANGED <<m_tasks, m_stop, task, notifying, owner, accepted, started, finished>>

WorkerStep(w) == TakeTask(w) \/ FinishTask(w) \/ Notify(w)

ThreadPoolNext ==
  \/ \E t \in Workers \cup Callers : AddTask(t)
  \/ \E c \in Callers : Notify(c)
  \/ \E w \in Workers : WorkerStep(w) \/ WakeSpuriously(w)
  \/ Stop \/ StopNotifies \/ Join

ThreadPoolSpec == ThreadPoolInit /\ [][ThreadPoolNext]_threadPoolVars

\* The threads run, and a task comes to its end.  No task has to be added, the
\* pool need not be destroyed, and no wait has to end on its own.
ThreadPoolFairSpec ==
  /\ ThreadPoolSpec
  /\ \A c \in Callers : WF_threadPoolVars(Notify(c))
  /\ \A w \in Workers : WF_threadPoolVars(WorkerStep(w))
  /\ WF_threadPoolVars(StopNotifies \/ Join)

(***************************************************************************)
(* Properties.                                                              *)
(***************************************************************************)

\* Tasks start in the order they were accepted, each once, whichever worker
\* wakes for which notification, and the destructor does not return before every
\* accepted task has ended, those that tasks have added up to m_stop included
\* (ThreadPool.cpp:21, 24, 43).  A pool of size 0, which the constructor accepts
\* too, runs nothing.
TasksInOrder ==
  /\ ThreadPoolTypeOK
  /\ \A i \in DOMAIN started : started[i] = i
  /\ owner = "after" /\ Workers # {} => finished = Tasks

\* An accepted task is run, though its notification is sent after the unlock and
\* may find no thread asleep, or wake one that comes too late, and a destructor
\* that is called returns (ThreadPool.cpp:20, 43; ThreadPool.h:41).
WorkEnds ==
  /\ \A n \in 1..MaxTasks : (n <= accepted) ~> (n \in finished)
  /\ m_stop ~> (owner = "after")
=============================================================================

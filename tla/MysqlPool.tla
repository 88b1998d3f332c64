------------------------------ MODULE MysqlPool ------------------------------
(***************************************************************************)
(* MysqlPool (sql/SqlConnPool.cpp): the threads of the sub reactors borrow  *)
(* the connections that Init has made, and wait for one while the pool is   *)
(* empty.  A thread in Borrow's wait is asleep until a notification or a    *)
(* spurious wakeup makes it look at the pool again; Borrow and ReturnConn   *)
(* hold m_mutex and are one step each, Shutdown holds nothing and is two.   *)
(*                                                                          *)
(* main calls InitSqlPool before Start (MoranWebServer.cpp:21, 22), so that *)
(* nobody borrows before Init has returned, and a failed Init ends the      *)
(* process.                                                                 *)
(***************************************************************************)
EXTENDS Integers, Sequences, FiniteSets

CONSTANTS
  Threads,
  Conns,   \* the connections Init makes
  NoConn   \* the guard of a thread that has none

ASSUME ConnsAssumption == IsFiniteSet(Conns) /\ NoConn \notin Conns
ASSUME ThreadsAssumption == IsFiniteSet(Threads)

VARIABLES
  m_pool,      \* the idle connections
  m_poolSize,
  m_shutdown,
  notified,    \* Shutdown has called notify_all
  initialising, \* Init is running
  pc,          \* per thread: "idle", "asleep" or "awake" in Borrow's wait,
               \* "using" a PoolGuard, "refused" by a shutdown
  m_conn,      \* per thread: the connection of its PoolGuard
  closed       \* the connections that have been destroyed

vars == <<m_pool, m_poolSize, m_shutdown, notified, initialising, pc, m_conn, closed>>

Pooled == {m_pool[i] : i \in 1..Len(m_pool)}
Asleep == {t \in Threads : pc[t] = "asleep"}
Awake == {t \in Threads : pc[t] = "awake"}

TypeOK ==
  /\ m_pool \in Seq(Conns)
  /\ m_poolSize \in 0..Cardinality(Conns)
  /\ m_shutdown \in BOOLEAN /\ notified \in BOOLEAN /\ initialising \in BOOLEAN
  /\ pc \in [Threads -> {"idle", "asleep", "awake", "using", "refused"}]
  /\ m_conn \in [Threads -> Conns \cup {NoConn}]
  /\ \A t \in Threads : pc[t] = "using" <=> m_conn[t] # NoConn
  /\ closed \subseteq Conns

Init ==
  /\ m_pool = <<>> /\ m_poolSize = 0
  /\ m_shutdown = FALSE /\ notified = FALSE /\ initialising = TRUE
  /\ pc = [t \in Threads |-> "idle"]
  /\ m_conn = [t \in Threads |-> NoConn]
  /\ closed = {}

\* One round of MysqlPool::Init.
Connect(c) ==
  /\ initialising /\ c \notin Pooled
  /\ m_pool' = Append(m_pool, c)
  /\ UNCHANGED <<m_poolSize, m_shutdown, notified, initialising, pc, m_conn, closed>>

EndInit ==
  /\ initialising /\ Pooled = Conns
  /\ initialising' = FALSE
  /\ m_poolSize' = Cardinality(Conns)
  /\ UNCHANGED <<m_pool, m_shutdown, notified, pc, m_conn, closed>>

\* Mutant: the connection stays in the pool.
FrontOnly(t) ==
  /\ m_conn' = [m_conn EXCEPT ![t] = Head(m_pool)]
  /\ UNCHANGED m_pool

\* The guard takes the first connection out of the pool.
TakeFront(t) ==
  /\ m_conn' = [m_conn EXCEPT ![t] = Head(m_pool)]
  /\ m_pool' = Tail(m_pool)

\* Borrow, from its start or from a wakeup.  Only an empty pool makes it wait.
Borrow(t) ==
  /\ ~initialising /\ pc[t] \in {"idle", "awake"}
  /\ IF m_pool = <<>>
     THEN pc' = [pc EXCEPT ![t] = "asleep"] /\ UNCHANGED <<m_pool, m_conn>>
     ELSE IF m_shutdown
     THEN pc' = [pc EXCEPT ![t] = "refused"] /\ UNCHANGED <<m_pool, m_conn>>
     ELSE pc' = [pc EXCEPT ![t] = "using"] /\ TakeFront(t)
  /\ UNCHANGED <<m_poolSize, m_shutdown, notified, initialising, closed>>

\* A wakeup that nobody asked for, which condition variables allow.
SpuriousWakeup(t) ==
  /\ pc[t] = "asleep"
  /\ pc' = [pc EXCEPT ![t] = "awake"]
  /\ UNCHANGED <<m_pool, m_poolSize, m_shutdown, notified, initialising, m_conn, closed>>

\* Mutant: nobody is notified.
NobodyWoken == {pc}

\* notify_one, as the states of the threads after it: one of those asleep, if
\* there are any, is awake.
Notified == IF Asleep = {} THEN {pc} ELSE {[pc EXCEPT ![u] = "awake"] : u \in Asleep}

\* Mutant: a pool that is full by one less.
RoomForOneLess == Len(m_pool) + 1 < m_poolSize

HasRoom == Len(m_pool) < m_poolSize

GuardDies(t) == m_conn' = [m_conn EXCEPT ![t] = NoConn]

\* ReturnConn, from the destructor of the guard.
ReturnConn(t) ==
  /\ pc[t] = "using"
  /\ GuardDies(t)
  /\ IF ~m_shutdown /\ HasRoom
     THEN /\ m_pool' = Append(m_pool, m_conn[t])
          /\ \E p \in Notified : pc' = [p EXCEPT ![t] = "idle"]
          /\ UNCHANGED closed
     ELSE /\ closed' = closed \cup {m_conn[t]}
          /\ pc' = [pc EXCEPT ![t] = "idle"]
          /\ UNCHANGED m_pool
  /\ UNCHANGED <<m_poolSize, m_shutdown, notified, initialising>>

SetShutdown ==
  /\ ~initialising /\ ~m_shutdown
  /\ m_shutdown' = TRUE
  /\ UNCHANGED <<m_pool, m_poolSize, notified, initialising, pc, m_conn, closed>>

\* Shutdown's notify_all.
NotifyAll ==
  /\ m_shutdown /\ ~notified
  /\ notified' = TRUE
  /\ pc' = [t \in Threads |-> IF t \in Asleep THEN "awake" ELSE pc[t]]
  /\ UNCHANGED <<m_pool, m_poolSize, m_shutdown, initialising, m_conn, closed>>

Next ==
  \/ \E c \in Conns : Connect(c)
  \/ EndInit \/ SetShutdown \/ NotifyAll
  \/ \E t \in Threads : Borrow(t) \/ SpuriousWakeup(t) \/ ReturnConn(t)

Spec == Init /\ [][Next]_vars

(***************************************************************************)
(* Properties.                                                              *)
(***************************************************************************)

\* A MYSQL handle is not thread-safe: no two guards hold the same connection,
\* and one that is held or destroyed is not in the pool to be borrowed.
OneOwner ==
  /\ TypeOK
  /\ \A t, u \in Threads : t # u /\ m_conn[t] = m_conn[u] => m_conn[t] = NoConn
  /\ \A t \in Threads : m_conn[t] \notin Pooled \cup closed
  /\ Pooled \cap closed = {}
  /\ \A i, j \in 1..Len(m_pool) : m_pool[i] = m_pool[j] => i = j

\* Borrowing and returning wears nothing down: until a shutdown every
\* connection that Init made is in the pool or in a guard (a return that finds
\* no room would destroy it, SqlConnPool.cpp:150).
NoneIsLost ==
  ~initialising /\ ~m_shutdown =>
    Conns \subseteq Pooled \cup {m_conn[t] : t \in Threads}

\* No notification is lost or goes to the wrong thread for good: while a thread
\* is asleep in Borrow there are no more idle connections than threads that
\* have been woken and not looked yet.  Between the two steps of Shutdown it does
\* not hold: a woken thread may then be refused, and the connection it was woken
\* for lies beside the next sleeper until notify_all.
NoIdleConnWhileAsleep ==
  Asleep # {} /\ (m_shutdown => notified) => Len(m_pool) <= Cardinality(Awake)
==============================================================================

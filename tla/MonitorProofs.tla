---------------------------- MODULE MonitorProofs ----------------------------
(***************************************************************************)
(* Theorems about the three classes whose threads meet at a mutex and a     *)
(* condition variable: MysqlPool, for every set of threads and of           *)
(* connections, ThreadPool, for every set of workers and of callers, and    *)
(* AsyncLogging, for every set of logging threads and size of a buffer.     *)
(* They share only the theory of sequences.                                 *)
(***************************************************************************)
EXTENDS MysqlPool, ThreadPool, AsyncLogging, SequenceTheorems, FiniteSetTheorems, TLAPS

(***************************************************************************)
(* MysqlPool: the invariant.                                                *)
(***************************************************************************)

\* While Init runs nobody borrows, so that nothing is held or destroyed.
QuietWhileInit ==
  initialising =>
    /\ ~m_shutdown /\ closed = {}
    /\ \A t \in Threads : pc[t] = "idle"

\* The invariant of the pool.  A return finds room because m_poolSize counts all
\* connections and the one that comes back is not among the idle ones; and
\* sleepers and idle connections are balanced until Shutdown begins, after
\* whose notify_all only an empty pool puts a thread to sleep.
PoolInv ==
  /\ OneOwner
  /\ NoneIsLost
  /\ QuietWhileInit
  /\ ~initialising => m_poolSize = Cardinality(Conns)
  /\ notified => m_shutdown
  /\ Asleep # {} /\ ~m_shutdown => Len(m_pool) <= Cardinality(Awake)
  /\ Asleep # {} /\ notified => m_pool = <<>>

(***************************************************************************)
(* The queue of idle connections.                                           *)
(***************************************************************************)

\* What a push leaves idle, and where.
LEMMA PushPooled ==
  ASSUME m_pool \in Seq(Conns), NEW c \in Conns, m_pool' = Append(m_pool, c)
  PROVE  /\ m_pool' \in Seq(Conns)
         /\ Len(m_pool') = Len(m_pool) + 1
         /\ Pooled' = Pooled \cup {c}
         /\ \A i \in 1..Len(m_pool) : m_pool'[i] = m_pool[i]
         /\ m_pool'[Len(m_pool) + 1] = c
<1>1. /\ m_pool' \in Seq(Conns)
      /\ Len(m_pool') = Len(m_pool) + 1
      /\ \A i \in 1..Len(m_pool) : m_pool'[i] = m_pool[i]
      /\ m_pool'[Len(m_pool) + 1] = c
  BY AppendProperties
<1>2. 1..Len(m_pool') = (1..Len(m_pool)) \cup {Len(m_pool) + 1}
  BY <1>1, LenProperties
<1> QED
  BY <1>1, <1>2 DEF Pooled

\* What a pop leaves idle, when no connection is in the queue twice.
LEMMA PopPooled ==
  ASSUME m_pool \in Seq(Conns), m_pool # <<>>, m_pool' = Tail(m_pool),
         \A i, j \in 1..Len(m_pool) : m_pool[i] = m_pool[j] => i = j
  PROVE  /\ m_pool' \in Seq(Conns)
         /\ Len(m_pool') = Len(m_pool) - 1
         /\ Head(m_pool) \in Pooled
         /\ Pooled' = Pooled \ {Head(m_pool)}
         /\ \A i, j \in 1..Len(m_pool') : m_pool'[i] = m_pool'[j] => i = j
<1>1. /\ m_pool' \in Seq(Conns) /\ Len(m_pool) \in Nat \ {0}
      /\ Len(m_pool') = Len(m_pool) - 1
      /\ Head(m_pool) = m_pool[1]
      /\ \A i \in 1..Len(m_pool') : m_pool'[i] = m_pool[i + 1]
  BY HeadTailProperties, LenProperties, EmptySeq
<1>2. \A i \in 1..Len(m_pool') : i + 1 \in 1..Len(m_pool) /\ i + 1 # 1
  BY <1>1
<1>3. \A i \in 1..Len(m_pool) : i # 1 => i - 1 \in 1..Len(m_pool') /\ m_pool'[i - 1] = m_pool[i]
  BY <1>1
<1>4. Pooled' \subseteq Pooled \ {Head(m_pool)}
  BY <1>1, <1>2 DEF Pooled
<1>5. Pooled \ {Head(m_pool)} \subseteq Pooled'
  BY <1>1, <1>3 DEF Pooled
<1>6. \A i, j \in 1..Len(m_pool') : m_pool'[i] = m_pool'[j] => i = j
  BY <1>1, <1>2
<1> QED
  BY <1>1, <1>4, <1>5, <1>6 DEF Pooled

\* While a connection is in a guard, the pool has room for it.
LEMMA RoomForReturn ==
  ASSUME OneOwner, ~initialising, m_poolSize = Cardinality(Conns),
         NEW t \in Threads, pc[t] = "using"
  PROVE  HasRoom
<1> DEFINE S == Conns \ {m_conn[t]}
<1>1. m_conn[t] \in Conns /\ Len(m_pool) \in Nat
  BY LenProperties DEF OneOwner, TypeOK
<1>2. /\ IsFiniteSet(S) /\ Cardinality(S) = Cardinality(Conns) - 1
      /\ Cardinality(Conns) \in Nat /\ Cardinality(S) \in Nat
  BY <1>1, ConnsAssumption, FS_RemoveElement, FS_CardinalityType
<1>3. m_pool \in Injection(1..Len(m_pool), S)
  <2>1. \A i \in 1..Len(m_pool) : m_pool[i] \in Conns /\ m_pool[i] \in Pooled
    BY ElementOfSeq DEF OneOwner, TypeOK, Pooled
  <2>2. m_pool = [i \in 1..Len(m_pool) |-> m_pool[i]]
    BY LenProperties DEF OneOwner, TypeOK
  <2>3. m_pool \in [1..Len(m_pool) -> S]
    BY <2>1, <2>2 DEF OneOwner
  <2> QED
    BY <2>3 DEF OneOwner, Injection, IsInjective
<1>4. IsFiniteSet(1..Len(m_pool)) /\ Cardinality(1..Len(m_pool)) = Len(m_pool)
  <2>1. \A n \in Nat : IsFiniteSet(1..n) /\ Cardinality(1..n) = IF 1 > n THEN 0 ELSE n - 1 + 1
    BY FS_Interval
  <2> QED BY <1>1, <2>1
<1>5. Cardinality(1..Len(m_pool)) <= Cardinality(S)
  BY <1>2, <1>3, <1>4, FS_Injection
<1> QED
  BY <1>1, <1>2, <1>4, <1>5 DEF HasRoom

(***************************************************************************)
(* The threads that wait.                                                   *)
(***************************************************************************)

\* How many threads are awake, for whatever pc is.
LEMMA AwakeCount ==
  \A p : /\ IsFiniteSet({t \in Threads : p[t] = "awake"})
         /\ Cardinality({t \in Threads : p[t] = "awake"}) \in Nat
<1> SUFFICES ASSUME NEW p
             PROVE  /\ IsFiniteSet({t \in Threads : p[t] = "awake"})
                    /\ Cardinality({t \in Threads : p[t] = "awake"}) \in Nat
  OBVIOUS
<1>1. {t \in Threads : p[t] = "awake"} \in SUBSET Threads
  OBVIOUS
<1> QED
  BY <1>1, ThreadsAssumption, FS_Subset, FS_CardinalityType

LEMMA AwakeType ==
  /\ IsFiniteSet(Awake) /\ Cardinality(Awake) \in Nat
  /\ IsFiniteSet(Awake') /\ Cardinality(Awake') \in Nat
<1>1. IsFiniteSet(Awake) /\ Cardinality(Awake) \in Nat
  BY AwakeCount DEF Awake
<1>2. IsFiniteSet(Awake') /\ Cardinality(Awake') \in Nat
  BY AwakeCount DEF Awake
<1> QED
  BY <1>1, <1>2

\* A thread that is woken is one more that is awake.
LEMMA OneMoreAwake ==
  ASSUME NEW u, u \notin Awake, Awake' = Awake \cup {u}
  PROVE  Cardinality(Awake') = Cardinality(Awake) + 1
BY AwakeType, FS_AddElement

\* notify_one wakes a thread that was asleep, or there was none; the thread that
\* returned the connection is neither.
LEMMA ReturnWakes ==
  ASSUME TypeOK, NEW t \in Threads, pc[t] = "using", NEW p \in Notified,
         pc' = [p EXCEPT ![t] = "idle"]
  PROVE  /\ pc' \in [Threads -> {"idle", "asleep", "awake", "using", "refused"}]
         /\ \A u \in Threads : u # t => (pc'[u] = "using" <=> pc[u] = "using")
         /\ pc'[t] = "idle"
         /\ Asleep = {} => Asleep' = {}
         /\ Asleep # {} => Cardinality(Awake') = Cardinality(Awake) + 1
<1>1. CASE Asleep = {}
  BY <1>1 DEF Notified, TypeOK, Asleep
<1>2. CASE Asleep # {}
  <2>1. PICK u \in Asleep : p = [pc EXCEPT ![u] = "awake"]
    BY <1>2 DEF Notified
  <2>2. u \in Threads /\ u # t /\ u \notin Awake /\ pc[u] = "asleep"
    BY <2>1 DEF Asleep, Awake
  <2>3. pc' = [v \in Threads |-> IF v = t THEN "idle" ELSE IF v = u THEN "awake" ELSE pc[v]]
    BY <2>1, <2>2 DEF TypeOK
  <2>4. Awake' = Awake \cup {u}
    BY <2>2, <2>3 DEF Awake
  <2> QED
    BY <1>2, <2>2, <2>3, <2>4, OneMoreAwake DEF TypeOK
<1> QED
  BY <1>1, <1>2

(***************************************************************************)
(* The invariant.                                                           *)
(***************************************************************************)

LEMMA InitPool == Init => PoolInv
<1> SUFFICES ASSUME Init PROVE PoolInv
  OBVIOUS
<1> USE DEF Init
<1>1. m_pool \in Seq(Conns) /\ Pooled = {} /\ 1..Len(m_pool) = {}
  BY EmptySeq DEF Pooled
<1>2. 0 \in 0..Cardinality(Conns)
  BY ConnsAssumption, FS_CardinalityType
<1>3. OneOwner
  BY <1>1, <1>2, ConnsAssumption DEF OneOwner, TypeOK
<1> QED
  BY <1>3 DEF PoolInv, NoneIsLost, QuietWhileInit, Asleep

LEMMA ConnectStep ==
  ASSUME PoolInv, NEW c \in Conns, Connect(c)
  PROVE  PoolInv'
<1> USE DEF Connect, PoolInv, OneOwner, TypeOK
<1>1. /\ m_pool' \in Seq(Conns) /\ Len(m_pool') = Len(m_pool) + 1 /\ Len(m_pool) \in Nat
      /\ Pooled' = Pooled \cup {c}
      /\ \A i \in 1..Len(m_pool) : m_pool'[i] = m_pool[i]
      /\ m_pool'[Len(m_pool) + 1] = c
  BY PushPooled, LenProperties
<1>2. \A t \in Threads : m_conn[t] = NoConn
  BY DEF QuietWhileInit
<1>3. \A i \in 1..Len(m_pool) : m_pool[i] \in Pooled
  BY DEF Pooled
<1>4. \A i, j \in 1..Len(m_pool') : m_pool'[i] = m_pool'[j] => i = j
  BY <1>1, <1>3
<1>5. OneOwner'
  BY <1>1, <1>2, <1>4, ConnsAssumption DEF QuietWhileInit
<1> QED
  BY <1>5 DEF NoneIsLost, QuietWhileInit, Asleep

LEMMA EndInitStep ==
  ASSUME PoolInv, EndInit
  PROVE  PoolInv'
<1> USE DEF EndInit, PoolInv, OneOwner, TypeOK
<1>1. Pooled' = Pooled /\ Cardinality(Conns) \in 0..Cardinality(Conns)
  BY ConnsAssumption, FS_CardinalityType DEF Pooled
<1>2. OneOwner'
  BY <1>1
<1> QED
  BY <1>1, <1>2 DEF NoneIsLost, QuietWhileInit, Asleep, Awake

LEMMA BorrowStep ==
  ASSUME PoolInv, NEW t \in Threads, Borrow(t)
  PROVE  PoolInv'
<1> USE DEF Borrow, PoolInv
<1>0. TypeOK
  BY DEF OneOwner
<1>1. CASE m_pool = <<>>
  <2>1. pc' = [pc EXCEPT ![t] = "asleep"] /\ UNCHANGED <<m_pool, m_conn>> /\ Pooled' = Pooled
    BY <1>1 DEF Pooled
  <2>2. OneOwner'
    BY <2>1 DEF OneOwner, TypeOK
  <2>3. Len(m_pool') = 0 /\ Len(m_pool') <= Cardinality(Awake')
    BY <1>1, <2>1, AwakeType, EmptySeq
  <2> QED
    BY <1>1, <2>1, <2>2, <2>3 DEF NoneIsLost, QuietWhileInit
<1>2. CASE m_pool # <<>> /\ m_shutdown
  <2>1. pc' = [pc EXCEPT ![t] = "refused"] /\ UNCHANGED <<m_pool, m_conn>> /\ Pooled' = Pooled
    BY <1>2 DEF Pooled
  <2>2. OneOwner'
    BY <2>1 DEF OneOwner, TypeOK
  <2>3. Asleep' = Asleep
    BY <1>0, <2>1 DEF Asleep, TypeOK
  <2> QED
    BY <1>2, <2>1, <2>2, <2>3 DEF NoneIsLost, QuietWhileInit
<1>3. CASE m_pool # <<>> /\ ~m_shutdown
  <2>1. /\ pc' = [pc EXCEPT ![t] = "using"]
        /\ m_conn' = [m_conn EXCEPT ![t] = Head(m_pool)]
        /\ m_pool' = Tail(m_pool)
        /\ m_conn[t] = NoConn
    BY <1>0, <1>3 DEF TakeFront, TypeOK
  <2>2. /\ m_pool' \in Seq(Conns) /\ Len(m_pool') = Len(m_pool) - 1
        /\ Head(m_pool) \in Pooled /\ Pooled' = Pooled \ {Head(m_pool)}
        /\ \A i, j \in 1..Len(m_pool') : m_pool'[i] = m_pool'[j] => i = j
    BY <1>3, <2>1, PopPooled DEF OneOwner, TypeOK
  <2>3. Pooled \subseteq Conns /\ Len(m_pool) \in Nat
    BY <1>0, ElementOfSeq, LenProperties DEF TypeOK, Pooled
  <2>4. OneOwner'
    <3>1. TypeOK'
      BY <1>0, <2>1, <2>2, <2>3, ConnsAssumption DEF TypeOK
    <3>2. \A u \in Threads : m_conn'[u] = IF u = t THEN Head(m_pool) ELSE m_conn[u]
      BY <1>0, <2>1 DEF TypeOK
    <3>3. \A u \in Threads : m_conn[u] \notin Pooled \cup closed
      BY DEF OneOwner
    <3>4. Head(m_pool) \notin closed
      BY <2>2 DEF OneOwner
    <3> QED
      BY <2>2, <3>1, <3>2, <3>3, <3>4 DEF OneOwner
  <2>5. NoneIsLost'
    <3>1. Head(m_pool) = m_conn'[t] /\ \A u \in Threads : u # t => m_conn'[u] = m_conn[u]
      BY <1>0, <2>1 DEF TypeOK
    <3> QED
      BY <2>1, <2>2, <2>3, <3>1, ConnsAssumption DEF NoneIsLost
  <2>6. Asleep' = Asleep
    BY <1>0, <2>1 DEF Asleep, TypeOK
  <2>7. Cardinality(Awake') >= Cardinality(Awake) - 1
    <3>1. Awake' = Awake \ {t}
      BY <1>0, <2>1 DEF Awake, TypeOK
    <3> QED BY <3>1, AwakeType, FS_RemoveElement
  <2>8. Asleep' # {} => Len(m_pool') <= Cardinality(Awake')
    BY <1>3, <2>2, <2>3, <2>6, <2>7, AwakeType
  <2> QED
    BY <1>3, <2>4, <2>5, <2>8 DEF QuietWhileInit
<1> QED
  BY <1>1, <1>2, <1>3

LEMMA WakeupStep ==
  ASSUME PoolInv, NEW t \in Threads, SpuriousWakeup(t)
  PROVE  PoolInv'
<1> USE DEF SpuriousWakeup, PoolInv
<1>1. TypeOK /\ Pooled' = Pooled
  BY DEF OneOwner, Pooled
<1>2. OneOwner'
  BY <1>1 DEF OneOwner, TypeOK
<1>3. t \in Asleep /\ t \notin Awake /\ Awake' = Awake \cup {t}
  BY <1>1 DEF Awake, Asleep, TypeOK
<1>4. Cardinality(Awake') = Cardinality(Awake) + 1 /\ Len(m_pool) \in Nat
  BY <1>1, <1>3, OneMoreAwake, LenProperties DEF TypeOK
<1>5. Asleep' # {} /\ ~m_shutdown' => Len(m_pool') <= Cardinality(Awake')
  BY <1>3, <1>4, AwakeType
<1> QED
  BY <1>1, <1>2, <1>3, <1>5 DEF NoneIsLost, QuietWhileInit

LEMMA ReturnStep ==
  ASSUME PoolInv, NEW t \in Threads, ReturnConn(t)
  PROVE  PoolInv'
<1> USE DEF ReturnConn, GuardDies, PoolInv
<1>0. TypeOK /\ ~initialising /\ m_conn[t] \in Conns /\ Len(m_pool) \in Nat
  BY LenProperties DEF OneOwner, TypeOK, QuietWhileInit
<1>1. HasRoom
  BY <1>0, RoomForReturn
<1>2. \A u \in Threads : m_conn'[u] = IF u = t THEN NoConn ELSE m_conn[u]
  BY <1>0 DEF TypeOK
<1>3. m_conn' \in [Threads -> Conns \cup {NoConn}]
  BY <1>0 DEF TypeOK
<1>4. CASE ~m_shutdown
  <2>1. PICK p \in Notified : pc' = [p EXCEPT ![t] = "idle"]
    BY <1>1, <1>4
  <2>2. /\ pc' \in [Threads -> {"idle", "asleep", "awake", "using", "refused"}]
        /\ \A u \in Threads : u # t => (pc'[u] = "using" <=> pc[u] = "using")
        /\ pc'[t] = "idle"
        /\ Asleep = {} => Asleep' = {}
        /\ Asleep # {} => Cardinality(Awake') = Cardinality(Awake) + 1
    BY <1>0, <2>1, ReturnWakes
  <2>3. /\ m_pool' \in Seq(Conns) /\ Len(m_pool') = Len(m_pool) + 1
        /\ Pooled' = Pooled \cup {m_conn[t]}
        /\ \A i \in 1..Len(m_pool) : m_pool'[i] = m_pool[i]
        /\ m_pool'[Len(m_pool) + 1] = m_conn[t]
    BY <1>0, <1>1, <1>4, PushPooled DEF TypeOK
  <2>4. OneOwner'
    <3>1. TypeOK'
      BY <1>0, <1>1, <1>2, <1>3, <1>4, <2>2, <2>3 DEF TypeOK
    <3>2. \A i \in 1..Len(m_pool) : m_pool[i] \in Pooled
      BY DEF Pooled
    <3>3. \A i, j \in 1..Len(m_pool') : m_pool'[i] = m_pool'[j] => i = j
      BY <1>0, <2>3, <3>2 DEF OneOwner
    <3>4. NoConn \notin Pooled' \cup closed'
      BY <1>0, <1>1, <1>4, <2>3, <3>1, ElementOfSeq, ConnsAssumption DEF Pooled, TypeOK
    <3>5. closed' = closed /\ m_conn[t] \notin closed
      BY <1>1, <1>4 DEF OneOwner
    <3>6. \A u \in Threads : m_conn'[u] \notin Pooled' \cup closed'
      BY <1>0, <1>2, <2>3, <3>4, <3>5, ConnsAssumption DEF OneOwner
    <3> QED
      BY <1>2, <2>3, <3>1, <3>3, <3>5, <3>6 DEF OneOwner
  <2>5. NoneIsLost'
    BY <1>0, <1>2, <1>4, <2>3 DEF NoneIsLost
  <2>6. Asleep' # {} => Len(m_pool') <= Cardinality(Awake')
    BY <1>0, <1>4, <2>2, <2>3, AwakeType
  <2> QED
    BY <1>0, <1>4, <2>4, <2>5, <2>6 DEF QuietWhileInit
<1>5. CASE m_shutdown
  <2>1. /\ pc' = [pc EXCEPT ![t] = "idle"] /\ UNCHANGED m_pool /\ Pooled' = Pooled
        /\ closed' = closed \cup {m_conn[t]}
    BY <1>5 DEF Pooled
  <2>2. OneOwner'
    <3>1. TypeOK'
      BY <1>0, <1>2, <1>3, <2>1 DEF TypeOK
    <3>2. NoConn \notin Pooled' \cup closed'
      BY <1>0, <2>1, <3>1, ElementOfSeq, ConnsAssumption DEF Pooled, TypeOK
    <3>3. \A u \in Threads : m_conn'[u] \notin Pooled' \cup closed'
      BY <1>0, <1>2, <2>1, <3>2, ConnsAssumption DEF OneOwner
    <3> QED
      BY <1>2, <2>1, <3>1, <3>3 DEF OneOwner
  <2>3. Asleep' = Asleep
    BY <1>0, <2>1 DEF Asleep, TypeOK
  <2> QED
    BY <1>0, <1>5, <2>1, <2>2, <2>3 DEF NoneIsLost, QuietWhileInit
<1> QED
  BY <1>4, <1>5 DEF OneOwner, TypeOK

LEMMA ShutdownStep ==
  ASSUME PoolInv, SetShutdown \/ NotifyAll
  PROVE  PoolInv'
<1> USE DEF SetShutdown, NotifyAll, PoolInv
<1>1. TypeOK /\ Pooled' = Pooled /\ ~initialising
  BY DEF OneOwner, Pooled, QuietWhileInit
<1>2. OneOwner'
  BY <1>1 DEF OneOwner, TypeOK, Asleep
<1>3. CASE SetShutdown
  BY <1>1, <1>2, <1>3 DEF NoneIsLost, QuietWhileInit
<1>4. CASE NotifyAll
  <2>1. Asleep' = {}
    BY <1>4 DEF Asleep
  <2> QED
    BY <1>1, <1>2, <1>4, <2>1 DEF NoneIsLost, QuietWhileInit
<1> QED
  BY <1>3, <1>4

LEMMA PoolInvariant == Spec => []PoolInv
<1>1. PoolInv /\ [Next]_vars => PoolInv'
  <2> SUFFICES ASSUME PoolInv, [Next]_vars PROVE PoolInv'
    OBVIOUS
  <2>1. ASSUME NEW c \in Conns, Connect(c) PROVE PoolInv'
    BY <2>1, ConnectStep
  <2>2. CASE EndInit
    BY <2>2, EndInitStep
  <2>3. CASE SetShutdown \/ NotifyAll
    BY <2>3, ShutdownStep
  <2>4. ASSUME NEW t \in Threads, Borrow(t) PROVE PoolInv'
    BY <2>4, BorrowStep
  <2>5. ASSUME NEW t \in Threads, SpuriousWakeup(t) PROVE PoolInv'
    BY <2>5, WakeupStep
  <2>6. ASSUME NEW t \in Threads, ReturnConn(t) PROVE PoolInv'
    BY <2>6, ReturnStep
  <2>7. CASE UNCHANGED vars
    BY <2>7 DEF vars, PoolInv, OneOwner, TypeOK, NoneIsLost, QuietWhileInit, Pooled, Asleep, Awake
  <2> QED
    BY <2>1, <2>2, <2>3, <2>4, <2>5, <2>6, <2>7 DEF Next
<1> QED
  BY <1>1, InitPool, PTL DEF Spec

(***************************************************************************)
(* What follows from it.                                                    *)
(***************************************************************************)

\* No connection is ever in two guards, or in a guard and in the pool, or used
\* after it was destroyed (Borrow and ReturnConn).
THEOREM OwnerTheorem == Spec => []OneOwner
<1>1. PoolInv => OneOwner
  BY DEF PoolInv
<1> QED
  BY <1>1, PoolInvariant, PTL

\* ReturnConn never destroys a connection before a shutdown: the pool always has
\* room for one that comes back.
THEOREM NoneIsLostTheorem == Spec => []NoneIsLost
<1>1. PoolInv => NoneIsLost
  BY DEF PoolInv
<1> QED
  BY <1>1, PoolInvariant, PTL

\* notify_one is enough: while a thread sleeps in Borrow every idle connection has
\* a woken thread of its own to take it, whatever wakes spuriously and whoever
\* comes in between.
THEOREM NotificationTheorem == Spec => []NoIdleConnWhileAsleep
<1>1. PoolInv => NoIdleConnWhileAsleep
  <2> SUFFICES ASSUME PoolInv, Asleep # {}, m_shutdown => notified
               PROVE  Len(m_pool) <= Cardinality(Awake)
    BY DEF NoIdleConnWhileAsleep
  <2>1. CASE ~m_shutdown
    BY <2>1 DEF PoolInv
  <2>2. CASE notified
    BY <2>2, AwakeType, EmptySeq DEF PoolInv
  <2> QED
    BY <2>1, <2>2
<1> QED
  BY <1>1, PoolInvariant, PTL

(***************************************************************************)
(* ThreadPool: the invariant.                                               *)
(***************************************************************************)

\* The tasks that were taken and those that wait are the accepted ones, in order.
QueueInv ==
  /\ Len(started) + Len(m_tasks) = accepted
  /\ \A i \in 1..Len(started) : started[i] = i
  /\ \A i \in 1..Len(m_tasks) : m_tasks[i] = Len(started) + i

\* A task that was taken has ended, or a worker runs it.
RunInv ==
  /\ \A w \in Workers : worker[w] = "run" => task[w] # 0
  /\ \A i \in 1..Len(started) :
       i \in finished \/ \E w \in Workers : worker[w] = "run" /\ task[w] = i

\* A worker ends only when nothing can be left to it: the pool is stopped, which
\* keeps tasks from being added, and its queue is empty.
ExitInv ==
  /\ m_stop <=> owner # "before"
  /\ \A w \in Workers : worker[w] = "exited" => m_stop /\ m_tasks = <<>>
  /\ owner = "after" => \A w \in Workers : worker[w] = "exited"

WorkInv == ThreadPoolTypeOK /\ QueueInv /\ RunInv /\ ExitInv

LEMMA InitWork == ThreadPoolInit => WorkInv
<1> SUFFICES ASSUME ThreadPoolInit PROVE WorkInv
  OBVIOUS
<1>1. /\ m_tasks \in Seq(Tasks) /\ Len(m_tasks) = 0
      /\ started \in Seq(Tasks) /\ Len(started) = 0
  BY EmptySeq DEF ThreadPoolInit
<1>2. ThreadPoolTypeOK
  <2>1. accepted \in 0..MaxTasks /\ 0 \in 0..accepted /\ 0 <= MaxTasks
    BY WorkersAssumption DEF ThreadPoolInit
  <2>2. worker \in [Workers -> {"start", "asleep", "run", "exited"}] /\ task \in [Workers -> 0..accepted]
    BY <2>1 DEF ThreadPoolInit
  <2> QED
    BY <1>1, <2>1, <2>2 DEF ThreadPoolInit, ThreadPoolTypeOK
<1>3. QueueInv
  BY <1>1 DEF ThreadPoolInit, QueueInv
<1> QED
  BY <1>1, <1>2, <1>3 DEF ThreadPoolInit, WorkInv, RunInv, ExitInv

\* addTask appends the next number, while no worker has ended.
LEMMA AddTaskStep ==
  ASSUME WorkInv, NEW t \in Workers \cup Callers, AddTask(t)
  PROVE  WorkInv'
<1> USE DEF WorkInv
<1>0. /\ accepted < MaxTasks /\ ~m_stop
      /\ accepted' = accepted + 1 /\ notifying' = notifying \cup {t}
      /\ UNCHANGED <<m_stop, worker, task, owner, started, finished>>
  BY DEF AddTask
<1>1. /\ Len(m_tasks) \in Nat /\ Len(started) \in Nat /\ accepted \in Nat
      /\ accepted + 1 \in 1..(accepted + 1) /\ 1..accepted \subseteq 1..(accepted + 1)
  BY LenProperties DEF ThreadPoolTypeOK
<1>2. m_tasks \in Seq(1..(accepted + 1)) /\ started \in Seq(1..(accepted + 1))
  BY <1>1, SeqMonotonic DEF ThreadPoolTypeOK, Tasks
<1>3. /\ m_tasks' \in Seq(1..accepted')
      /\ Len(m_tasks') = Len(m_tasks) + 1
      /\ \A i \in 1..Len(m_tasks) : m_tasks'[i] = m_tasks[i]
      /\ m_tasks'[Len(m_tasks) + 1] = accepted + 1
  BY <1>1, <1>2, AppendProperties DEF AddTask
<1>4. QueueInv'
  <2>1. Len(started) + Len(m_tasks') = accepted'
    BY <1>0, <1>1, <1>3 DEF QueueInv
  <2>2. ASSUME NEW i \in 1..Len(m_tasks') PROVE m_tasks'[i] = Len(started) + i
    <3>1. CASE i = Len(m_tasks) + 1
      BY <1>1, <1>3, <3>1 DEF QueueInv
    <3>2. CASE i \in 1..Len(m_tasks)
      BY <1>3, <3>2 DEF QueueInv
    <3> QED BY <1>1, <1>3, <3>1, <3>2
  <2> QED BY <1>0, <2>1, <2>2 DEF QueueInv
<1>5. ThreadPoolTypeOK'
  BY <1>0, <1>1, <1>2, <1>3, <1>4, WorkersAssumption DEF ThreadPoolTypeOK, Tasks, QueueInv
<1>6. RunInv'
  BY <1>0 DEF RunInv
<1>7. ExitInv'
  BY <1>0 DEF ExitInv
<1> QED
  BY <1>4, <1>5, <1>6, <1>7

\* A worker takes the task with the next number, or it waits, or it ends.
LEMMA TakeTaskStep ==
  ASSUME WorkInv, NEW w \in Workers, TakeTask(w)
  PROVE  WorkInv'
<1> USE DEF WorkInv
<1>0. worker[w] = "start" /\ UNCHANGED <<m_stop, notifying, owner, accepted, finished>>
  BY DEF TakeTask
<1>1. CASE MayExit /\ worker' = [worker EXCEPT ![w] = "exited"] /\ UNCHANGED <<m_tasks, task, started>>
  <2>1. ThreadPoolTypeOK' /\ QueueInv'
    BY <1>0, <1>1 DEF ThreadPoolTypeOK, QueueInv, Tasks
  <2>2. RunInv'
    BY <1>0, <1>1 DEF RunInv, ThreadPoolTypeOK
  <2>3. ExitInv'
    BY <1>0, <1>1 DEF ExitInv, MayExit, ThreadPoolTypeOK
  <2> QED BY <2>1, <2>2, <2>3
<1>2. CASE /\ ~MayExit /\ m_tasks # <<>>
           /\ worker' = [worker EXCEPT ![w] = "run"]
           /\ task' = [task EXCEPT ![w] = NextTask(m_tasks)]
           /\ started' = Append(started, NextTask(m_tasks))
           /\ m_tasks' = Popped(m_tasks)
  <2> DEFINE n == Len(started) + 1
  <2>1. /\ Len(m_tasks) \in Nat \ {0} /\ Len(started) \in Nat /\ accepted \in Nat
        /\ m_tasks' \in Seq(Tasks) /\ Len(m_tasks') = Len(m_tasks) - 1
        /\ \A i \in 1..Len(m_tasks') : m_tasks'[i] = m_tasks[i + 1]
    BY <1>2, LenProperties, EmptySeq, HeadTailProperties DEF ThreadPoolTypeOK, Popped
  <2>2. NextTask(m_tasks) = n /\ n \in Tasks /\ Len(started) + Len(m_tasks) = accepted
    BY <2>1 DEF QueueInv, NextTask, Tasks
  <2>3. /\ started' \in Seq(Tasks) /\ Len(started') = n
        /\ \A i \in 1..Len(started) : started'[i] = started[i]
        /\ started'[n] = n
    BY <1>2, <2>1, <2>2, AppendProperties DEF ThreadPoolTypeOK
  <2>4. QueueInv'
    <3>1. \A i \in 1..Len(started') : started'[i] = i
      BY <2>1, <2>3, SMTT(30) DEF QueueInv
    <3>2. \A i \in 1..Len(m_tasks') : m_tasks'[i] = Len(started') + i
      BY <2>1, <2>3 DEF QueueInv
    <3>3. Len(started') + Len(m_tasks') = accepted'
      <4>1. PICK x, y : x = Len(started) /\ y = Len(m_tasks)
        OBVIOUS
      <4>2. x \in Nat /\ y \in Nat /\ x + y = accepted /\ accepted' = accepted
        BY <1>0, <2>1, <2>2, <4>1
      <4>3. Len(started') = x + 1 /\ Len(m_tasks') = y - 1
        BY <2>1, <2>3, <4>1
      <4> QED BY <4>2, <4>3
    <3> QED BY <3>1, <3>2, <3>3 DEF QueueInv
  <2>5. ThreadPoolTypeOK'
    BY <1>0, <1>2, <2>1, <2>2, <2>3, WorkersAssumption, SMTT(30) DEF ThreadPoolTypeOK, Tasks
  <2>6. RunInv'
    <3>1. /\ \A v \in Workers : v # w => worker'[v] = worker[v] /\ task'[v] = task[v]
          /\ worker'[w] = "run" /\ task'[w] = n /\ worker[w] = "start"
      BY <1>0, <1>2, <2>2 DEF ThreadPoolTypeOK
    <3>2. ASSUME NEW i \in 1..Len(started')
          PROVE  i \in finished' \/ \E v \in Workers : worker'[v] = "run" /\ task'[v] = i
      <4>1. CASE i = n
        BY <3>1, <4>1
      <4>2. CASE i \in 1..Len(started)
        BY <1>0, <3>1, <4>2 DEF RunInv
      <4> QED BY <2>1, <2>3, <4>1, <4>2
    <3>3. \A v \in Workers : worker'[v] = "run" => task'[v] # 0
      BY <2>1, <3>1 DEF RunInv
    <3> QED BY <3>2, <3>3 DEF RunInv
  <2>7. ExitInv'
    BY <1>0, <1>2 DEF ExitInv, ThreadPoolTypeOK
  <2> QED BY <2>4, <2>5, <2>6, <2>7
<1>3. CASE ~m_stop /\ m_tasks = <<>> /\ worker' = [worker EXCEPT ![w] = "asleep"] /\ UNCHANGED <<m_tasks, task, started>>
  <2>1. ThreadPoolTypeOK' /\ QueueInv'
    BY <1>0, <1>3 DEF ThreadPoolTypeOK, QueueInv, Tasks
  <2>2. RunInv'
    BY <1>0, <1>3 DEF RunInv, ThreadPoolTypeOK
  <2>3. ExitInv'
    BY <1>0, <1>3 DEF ExitInv, ThreadPoolTypeOK
  <2> QED BY <2>1, <2>2, <2>3
<1> QED
  BY <1>1, <1>2, <1>3 DEF TakeTask

LEMMA FinishTaskStep ==
  ASSUME WorkInv, NEW w \in Workers, FinishTask(w)
  PROVE  WorkInv'
<1> USE DEF WorkInv, FinishTask
<1>1. ThreadPoolTypeOK'
  <2>1. task[w] \in Tasks
    BY DEF ThreadPoolTypeOK, RunInv, Tasks
  <2>2. /\ finished' \subseteq Tasks
        /\ worker' \in [Workers -> {"start", "asleep", "run", "exited"}]
        /\ task' \in [Workers -> 0..accepted]
    BY <2>1 DEF ThreadPoolTypeOK
  <2> QED BY <2>2 DEF ThreadPoolTypeOK, Tasks
<1>2. QueueInv'
  BY DEF QueueInv
<1>3. RunInv'
  <2>1. /\ \A v \in Workers : v # w => worker'[v] = worker[v] /\ task'[v] = task[v]
        /\ worker'[w] = "start" /\ task[w] \in finished'
    BY DEF ThreadPoolTypeOK
  <2> QED BY <2>1 DEF RunInv
<1>4. ExitInv'
  BY DEF ExitInv, ThreadPoolTypeOK
<1> QED
  BY <1>1, <1>2, <1>3, <1>4

\* A wakeup only moves threads that sleep to where they look again.
LEMMA WakeStep ==
  ASSUME WorkInv, NEW ws, ws \subseteq Waiting, Wake(ws),
         UNCHANGED <<m_tasks, m_stop, task, accepted, started, finished>>,
         notifying' \subseteq notifying,
         owner' = owner \/ (owner = "stopping" /\ owner' = "joining")
  PROVE  WorkInv'
<1> USE DEF WorkInv, Wake, Waiting
<1>1. ThreadPoolTypeOK'
  BY DEF ThreadPoolTypeOK, Tasks
<1>2. QueueInv'
  BY DEF QueueInv
<1>3. \A v \in Workers : (worker'[v] = "run" <=> worker[v] = "run") /\ (worker'[v] = "exited" <=> worker[v] = "exited")
  OBVIOUS
<1>4. RunInv'
  BY <1>3 DEF RunInv
<1>5. ExitInv'
  BY <1>3 DEF ExitInv
<1> QED
  BY <1>1, <1>2, <1>4, <1>5

LEMMA WorkInvariant == ThreadPoolSpec => []WorkInv
<1>1. WorkInv /\ [ThreadPoolNext]_threadPoolVars => WorkInv'
  <2> SUFFICES ASSUME WorkInv, [ThreadPoolNext]_threadPoolVars PROVE WorkInv'
    OBVIOUS
  <2>1. ASSUME NEW t \in Workers \cup Callers, AddTask(t) PROVE WorkInv'
    BY <2>1, AddTaskStep
  <2>2. ASSUME NEW t \in Workers \cup Callers, Notify(t) PROVE WorkInv'
    <3>1. PICK ws \in NotifyOne(Waiting) : Wake(ws)
      BY <2>2 DEF Notify
    <3>2. ws \subseteq Waiting
      BY <3>1 DEF NotifyOne
    <3> QED BY <2>2, <3>1, <3>2, WakeStep DEF Notify
  <2>3. ASSUME NEW w \in Workers, TakeTask(w) PROVE WorkInv'
    BY <2>3, TakeTaskStep
  <2>4. ASSUME NEW w \in Workers, FinishTask(w) PROVE WorkInv'
    BY <2>4, FinishTaskStep
  <2>5. ASSUME NEW w \in Workers, WakeSpuriously(w) PROVE WorkInv'
    <3>1. {w} \subseteq Waiting /\ Wake({w})
      BY <2>5 DEF WakeSpuriously, Waiting
    <3> QED BY <2>5, <3>1, WakeStep DEF WakeSpuriously
  <2>6. CASE Stop
    BY <2>6 DEF Stop, WorkInv, ThreadPoolTypeOK, QueueInv, RunInv, ExitInv, Tasks
  <2>7. CASE StopNotifies
    <3>1. Wake(Waiting)
      BY <2>7 DEF StopNotifies, NotifyEach
    <3> QED BY <2>7, <3>1, WakeStep DEF StopNotifies
  <2>8. CASE Join
    BY <2>8 DEF Join, WorkInv, ThreadPoolTypeOK, QueueInv, RunInv, ExitInv, Tasks
  <2>9. CASE UNCHANGED threadPoolVars
    BY <2>9 DEF threadPoolVars, WorkInv, ThreadPoolTypeOK, QueueInv, RunInv, ExitInv, Tasks
  <2> QED
    BY <2>1, <2>2, <2>3, <2>4, <2>5, <2>6, <2>7, <2>8, <2>9 DEF ThreadPoolNext, WorkerStep
<1> QED
  BY <1>1, InitWork, PTL DEF ThreadPoolSpec

\* Tasks start in the order in which addTask accepted them, each once, and
\* ~ThreadPool returns only when all of them have ended, whatever the number of
\* workers.
THEOREM TasksTheorem == ThreadPoolSpec => []TasksInOrder
<1>1. WorkInv => TasksInOrder
  <2> SUFFICES ASSUME WorkInv PROVE TasksInOrder
    OBVIOUS
  <2>1. Len(started) \in Nat /\ DOMAIN started = 1..Len(started)
    BY LenProperties DEF WorkInv, ThreadPoolTypeOK
  <2>2. \A i \in DOMAIN started : started[i] = i
    BY <2>1 DEF WorkInv, QueueInv
  <2>3. ASSUME owner = "after", Workers # {} PROVE finished = Tasks
    <3>1. m_tasks = <<>> /\ \A w \in Workers : worker[w] = "exited"
      BY <2>3 DEF WorkInv, ExitInv
    <3>2. Len(started) = accepted
      BY <2>1, <3>1, EmptySeq DEF WorkInv, QueueInv, ThreadPoolTypeOK
    <3> QED
      BY <3>1, <3>2 DEF WorkInv, RunInv, ThreadPoolTypeOK, Tasks
  <2> QED
    BY <2>2, <2>3 DEF WorkInv, TasksInOrder
<1> QED
  BY <1>1, WorkInvariant, PTL

(***************************************************************************)
(* AsyncLogging: the invariant.                                             *)
(***************************************************************************)

\* The list of full buffers counts as empty only when it is: the writer ends
\* the loop on the count and must leave no record behind.
CountInv == bufferCount = 0 => m_buffers = <<>>

\* The thread of a running log is there; Stop waits for it.
OwnerInv ==
  /\ m_running => writer # "off" /\ caller = "idle"
  /\ caller = "idle" /\ ~m_running => writer = "off"

\* What was appended before the last Stop is on the disk when that Stop has
\* returned and when only its join is left to do.
StopInv == caller = "idle" \/ writer = "off" => flushed >= stopMark

LogInv == BuffersInOrder /\ CountInv /\ OwnerInv /\ StopInv

\* Records are written in their order, and those not yet written are kept.
FileGrows ==
  \/ issued' = issued /\ Len(file') >= Len(file)
  \/ issued' = issued + 1 /\ issued < MaxRecords /\ file' = file

(***************************************************************************)
(* The records 1..n in order.                                               *)
(***************************************************************************)
UpTo(n) == [i \in 1..n |-> i]

LEMMA UpToIsSeq ==
  ASSUME NEW n \in Nat
  PROVE  /\ UpTo(n) \in Seq(Nat) /\ Len(UpTo(n)) = n
         /\ \A i \in 1..n : UpTo(n)[i] = i
<1>1. UpTo(n) \in [1..n -> Nat]
  BY DEF UpTo
<1> QED BY <1>1, SeqDef DEF UpTo

LEMMA UpToNext ==
  ASSUME NEW n \in Nat
  PROVE  UpTo(n + 1) = Append(UpTo(n), n + 1)
<1> DEFINE s == Append(UpTo(n), n + 1)
<1>1. UpTo(n) \in Seq(Nat) /\ Len(UpTo(n)) = n /\ n + 1 \in Nat
  BY UpToIsSeq
<1>2. /\ s \in Seq(Nat) /\ Len(s) = n + 1
      /\ \A i \in 1..n : s[i] = UpTo(n)[i]
      /\ s[n + 1] = n + 1
  BY <1>1, AppendProperties
<1>3. \A i \in 1..n : UpTo(n)[i] = i
  BY UpToIsSeq
<1>4. /\ UpTo(n + 1) \in Seq(Nat) /\ Len(UpTo(n + 1)) = n + 1
      /\ \A i \in 1..(n + 1) : UpTo(n + 1)[i] = i
  BY <1>1, UpToIsSeq
<1> HIDE DEF s
<1>5. UpTo(n + 1) = s
  <2>1. \A i \in 1..(n + 1) : s[i] = i
    BY <1>2, <1>3
  <2> QED BY <1>2, <1>4, <2>1, SeqEqual
<1> QED BY <1>5 DEF s

LEMMA UpToCut ==
  ASSUME NEW n \in Nat, NEW m \in 0..n
  PROVE  SubSeq(UpTo(n), 1, m) = UpTo(m)
<1> DEFINE s == SubSeq(UpTo(n), 1, m)
<1>1. \A i \in 1..m : UpTo(n)[i] \in Nat /\ UpTo(n)[i] = i
  BY DEF UpTo
<1>2. s \in Seq(Nat) /\ Len(s) = m /\ \A i \in 1..m : s[i] = i
  BY <1>1, SubSeqProperties
<1>3. UpTo(m) \in Seq(Nat) /\ Len(UpTo(m)) = m /\ \A i \in 1..m : UpTo(m)[i] = i
  BY UpToIsSeq
<1> HIDE DEF s
<1>4. s = UpTo(m)
  BY <1>2, <1>3, SeqEqual
<1> QED BY <1>4 DEF s

\* What comes first of the records in order is the records in order.
LEMMA UpToPrefix ==
  ASSUME NEW n \in Nat, NEW s \in Seq(Nat), NEW t \in Seq(Nat), s \o t = UpTo(n)
  PROVE  s = UpTo(Len(s)) /\ Len(s) + Len(t) = n
<1>1. Len(s) \in Nat /\ Len(t) \in Nat /\ Len(UpTo(n)) = n
  BY LenProperties, UpToIsSeq
<1>2. Len(s) + Len(t) = n
  BY <1>1, ConcatProperties
<1>3. \A i \in 1..Len(s) : s[i] = UpTo(n)[i]
  BY <1>1, ConcatProperties
<1>4. \A i \in 1..Len(s) : s[i] = i
  <2>1. \A i \in 1..n : UpTo(n)[i] = i
    BY UpToIsSeq
  <2>2. \A i \in 1..Len(s) : i \in 1..n
    BY <1>1, <1>2
  <2> QED BY <1>3, <2>1, <2>2
<1>5. UpTo(Len(s)) \in Seq(Nat) /\ Len(UpTo(Len(s))) = Len(s)
      /\ \A i \in 1..Len(s) : UpTo(Len(s))[i] = i
  BY <1>1, UpToIsSeq
<1>6. s = UpTo(Len(s))
  BY <1>4, <1>5, SeqEqual
<1> QED BY <1>2, <1>6

(***************************************************************************)
(* The buffers.                                                             *)
(***************************************************************************)
LEMMA SeqGrows ==
  ASSUME NEW n \in Nat
  PROVE  /\ Seq(1..n) \subseteq Seq(1..(n + 1)) /\ Seq(1..n) \subseteq Seq(Nat)
         /\ NullBuffer \notin Seq(1..n) /\ <<>> \in Seq(1..n)
<1>1. 1..n \subseteq 1..(n + 1) /\ 1..n \subseteq Nat
  OBVIOUS
<1>2. Seq(1..n) \subseteq Seq(1..(n + 1)) /\ Seq(1..n) \subseteq Seq(Nat)
  BY <1>1, SeqMonotonic
<1> QED BY <1>2, NullAssumption, EmptySeq

\* What the invariant says of the buffers, over the naturals.
LEMMA BuffersAreSeqs ==
  ASSUME LogInv
  PROVE  /\ issued \in Nat /\ m_currentBuffer \in Seq(1..issued)
         /\ m_currentBuffer \in Seq(Nat) /\ m_buffers \in Seq(Nat)
         /\ buffersToWrite \in Seq(Nat) /\ file \in Seq(Nat)
         /\ InWriter \in Seq(Nat) /\ Content(m_currentBuffer) = m_currentBuffer
         /\ Pending = (InWriter \o m_buffers) \o m_currentBuffer /\ Pending \in Seq(Nat)
         /\ file \o Pending = UpTo(issued)
         /\ SpareBuffer = <<>> /\ NextCurrent = <<>> /\ Len(m_currentBuffer) \in 0..BufferSize
<1>1. /\ issued \in Nat /\ m_currentBuffer \in Seq(1..issued) /\ m_buffers \in Seq(1..issued)
      /\ buffersToWrite \in Seq(1..issued) /\ file \in Seq(1..issued)
      /\ Len(m_currentBuffer) <= BufferSize
  BY DEF LogInv, BuffersInOrder, LogTypeOK, Buffer
<1>2. /\ m_currentBuffer \in Seq(Nat) /\ m_buffers \in Seq(Nat)
      /\ buffersToWrite \in Seq(Nat) /\ file \in Seq(Nat)
  BY <1>1, SeqGrows
<1>3. InWriter \in Seq(Nat)
  BY <1>2, EmptySeq DEF InWriter
<1>4. Content(m_currentBuffer) = m_currentBuffer
  BY DEF LogInv, BuffersInOrder, Content
<1>5. Pending = (InWriter \o m_buffers) \o m_currentBuffer
  BY <1>4 DEF Pending
<1>6. InWriter \o m_buffers \in Seq(Nat)
  BY <1>2, <1>3, ConcatProperties
<1>7. Pending \in Seq(Nat)
  BY <1>2, <1>5, <1>6, ConcatProperties
<1>8. file \o Pending = UpTo(issued)
  BY DEF LogInv, BuffersInOrder, LogInOrder, UpTo
<1>9. SpareBuffer = <<>> /\ NextCurrent = <<>>
  BY DEF LogInv, BuffersInOrder, SpareBuffer, NextCurrent, Empty
<1>10. Len(m_currentBuffer) \in 0..BufferSize
  BY <1>1, LenProperties, SizeAssumption
<1> QED BY <1>1, <1>2, <1>3, <1>4, <1>5, <1>7, <1>8, <1>9, <1>10

LEMMA ConcatGrouping == \A u, v, w \in Seq(Nat) : (u \o v) \o w = u \o (v \o w)
  BY ConcatAssociative, SMTT(30)

(***************************************************************************)
(* The steps of the logging threads.                                        *)
(***************************************************************************)

\* A record goes to the end, in the current buffer or in the one after it.
LEMMA AppendStep ==
  ASSUME LogInv, NEW t \in Loggers, AppendRecord(t)
  PROVE  LogInv' /\ FileGrows
<1>1. /\ LogTypeOK /\ issued \in Nat /\ issued' = issued + 1 /\ issued < MaxRecords
      /\ logger' \in {logger, [logger EXCEPT ![t] = "flush"]}
      /\ UNCHANGED <<m_running, m_flushRequested, newCurrentBuffer, newNextBuffer,
                     buffersToWrite, writeCount, writer, file, flushed, caller, starts,
                     stopMark, flushMark>>
  BY DEF LogInv, BuffersInOrder, LogTypeOK, AppendRecord, writerVars, callerVars
<1>2. /\ m_currentBuffer \in Seq(1..issued) /\ m_currentBuffer \in Seq(Nat)
      /\ m_buffers \in Seq(Nat) /\ buffersToWrite \in Seq(Nat) /\ file \in Seq(Nat)
      /\ InWriter \in Seq(Nat) /\ Pending \in Seq(Nat)
      /\ Pending = (InWriter \o m_buffers) \o m_currentBuffer
      /\ file \o Pending = UpTo(issued)
      /\ SpareBuffer = <<>> /\ Len(m_currentBuffer) \in 0..BufferSize
  BY BuffersAreSeqs
<1>3. PICK r : r = issued + 1
  OBVIOUS
<1>4. /\ r \in 1..r /\ r \in Nat /\ Seq(1..issued) \subseteq Seq(1..r) /\ Seq(1..r) \subseteq Seq(Nat)
      /\ NullBuffer \notin Seq(1..r) /\ <<>> \in Seq(1..r)
  BY <1>1, <1>3, SeqGrows
<1>5. /\ m_currentBuffer' \in Seq(1..r) /\ Len(m_currentBuffer') <= BufferSize
      /\ m_buffers' \in Seq(1..r) /\ bufferCount' \in Nat /\ (bufferCount' = 0 => m_buffers' = <<>>)
      /\ m_nextBuffer' \in {m_nextBuffer, NullBuffer}
      /\ (InWriter \o m_buffers') \o m_currentBuffer' = Append(Pending, r)
  <2>0. /\ m_buffers \in Seq(1..issued) /\ bufferCount \in Nat
        /\ (bufferCount = 0 => m_buffers = <<>>)
    BY <1>1 DEF LogTypeOK, LogInv, CountInv
  <2>1. InWriter \o m_buffers \in Seq(Nat)
    BY <1>2, ConcatProperties
  <2>2. CASE Fits
    <3>1. /\ m_currentBuffer' = Append(m_currentBuffer, r)
          /\ UNCHANGED <<m_nextBuffer, m_buffers, bufferCount>>
      BY <1>3, <2>2 DEF AppendRecord
    <3>2. /\ m_currentBuffer' \in Seq(1..r) /\ Len(m_currentBuffer') = Len(m_currentBuffer) + 1
      BY <1>2, <1>4, <3>1, AppendProperties
    <3>3. \A u, v \in Seq(Nat) : u \o Append(v, r) = Append(u \o v, r)
      <4> TAKE u, v \in Seq(Nat)
      <4>1. Append(v, r) = v \o <<r>> /\ <<r>> \in Seq(Nat) /\ u \o v \in Seq(Nat)
        BY <1>4, AppendIsConcat, ConcatProperties
      <4>2. Append(u \o v, r) = (u \o v) \o <<r>>
        BY <1>4, <4>1, AppendIsConcat
      <4> QED BY <4>1, <4>2, ConcatGrouping
    <3>4. (InWriter \o m_buffers) \o Append(m_currentBuffer, r) = Append(Pending, r)
      BY <1>2, <2>1, <3>3
    <3>5. Len(m_currentBuffer') <= BufferSize
      BY <1>2, <2>2, <3>2, SizeAssumption DEF Fits
    <3> QED BY <1>4, <2>0, <3>1, <3>2, <3>4, <3>5
  <2>3. CASE ~Fits
    <3>1. /\ m_buffers' = m_buffers \o m_currentBuffer /\ bufferCount' = bufferCount + 1
          /\ m_currentBuffer' = Append(<<>>, r) /\ m_nextBuffer' = NullBuffer
      BY <1>2, <1>3, <2>3 DEF AppendRecord
    <3>2. m_currentBuffer' \in Seq(1..r) /\ Len(m_currentBuffer') = 1
      BY <1>4, <3>1, AppendProperties
    <3>3. m_buffers' \in Seq(1..r)
      BY <1>2, <1>4, <2>0, <3>1, ConcatProperties
    <3>4. InWriter \o (m_buffers \o m_currentBuffer) = Pending
      <4>1. InWriter \in Seq(Nat) /\ m_buffers \in Seq(Nat) /\ m_currentBuffer \in Seq(Nat)
        BY <1>2
      <4>2. (InWriter \o m_buffers) \o m_currentBuffer = InWriter \o (m_buffers \o m_currentBuffer)
        BY <4>1, ConcatGrouping
      <4> QED BY <1>2, <4>2
    <3>5. Append(Pending, r) = Pending \o <<r>> /\ Append(<<>>, r) = <<r>>
      BY <1>2, <1>4, AppendIsConcat
    <3> QED BY <2>0, <3>1, <3>2, <3>3, <3>4, <3>5, SizeAssumption
  <2> QED BY <2>2, <2>3
<1>6. LogTypeOK' /\ m_currentBuffer' # NullBuffer
  <2>1. /\ m_nextBuffer' \in Seq(1..r) \cup {NullBuffer}
        /\ newCurrentBuffer' \in Seq(1..r) \cup {NullBuffer}
        /\ newNextBuffer' \in Seq(1..r) \cup {NullBuffer}
        /\ buffersToWrite' \in Seq(1..r) /\ file' \in Seq(1..r)
    BY <1>1, <1>4, <1>5 DEF LogTypeOK, Buffer
  <2>2. issued' = r /\ flushMark' \in 0..r /\ stopMark' \in 0..r
    BY <1>1, <1>3 DEF LogTypeOK
  <2>3. /\ m_running' \in BOOLEAN /\ m_flushRequested' \in BOOLEAN /\ writeCount' \in Nat
        /\ writer' \in {"off", "wait", "write", "flush", "recycle"}
        /\ flushed' \in 0..Len(file') /\ logger' \in [Loggers -> {"idle", "flush"}]
        /\ caller' \in {"idle", "joining"} /\ starts' \in Nat
    BY <1>1 DEF LogTypeOK
  <2> QED BY <1>4, <1>5, <2>1, <2>2, <2>3 DEF LogTypeOK, Buffer
<1>7. LogInOrder'
  <2>1. Pending' = Append(Pending, r)
    BY <1>1, <1>5, <1>6 DEF Pending, InWriter, Content
  <2>2. file \o Append(Pending, r) = Append(file \o Pending, r)
    <3>1. PICK one : one = <<r>>
      OBVIOUS
    <3>0. file \in Seq(Nat) /\ Pending \in Seq(Nat) /\ r \in Nat
      BY <1>2, <1>4
    <3>2. one \in Seq(Nat) /\ file \o Pending \in Seq(Nat)
      BY <3>0, <3>1, ConcatProperties
    <3>3. \A u \in Seq(Nat) : Append(u, r) = u \o one
      BY <1>4, <3>1, AppendIsConcat
    <3>4. (file \o Pending) \o one = file \o (Pending \o one)
      BY <3>0, <3>2, ConcatGrouping
    <3> QED BY <3>0, <3>2, <3>3, <3>4
  <2>3. file' \o Pending' = UpTo(r)
    BY <1>1, <1>2, <1>3, <2>1, <2>2, UpToNext
  <2> QED BY <1>1, <1>3, <2>3 DEF LogInOrder, UpTo
<1>8. CountInv' /\ OwnerInv' /\ StopInv'
  BY <1>1, <1>5 DEF LogInv, CountInv, OwnerInv, StopInv
<1>9. {m_nextBuffer, newCurrentBuffer, newNextBuffer}' \subseteq {Empty, NullBuffer}
  BY <1>1, <1>5 DEF LogInv, BuffersInOrder, Empty
<1> QED
  BY <1>1, <1>6, <1>7, <1>8, <1>9 DEF LogInv, BuffersInOrder, FileGrows, Empty

LEMMA RequestStep ==
  ASSUME LogInv, NEW t \in Loggers, RequestFlush(t)
  PROVE  LogInv' /\ FileGrows
<1> USE DEF LogInv, BuffersInOrder
<1>1. /\ m_flushRequested' = TRUE /\ logger' = [logger EXCEPT ![t] = "idle"]
      /\ flushMark' = issued
      /\ UNCHANGED <<m_running, m_currentBuffer, m_nextBuffer, m_buffers, bufferCount,
                     newCurrentBuffer, newNextBuffer, buffersToWrite, writeCount, writer,
                     file, flushed, caller, starts, stopMark, issued>>
  BY DEF RequestFlush, sharedVars, writerVars, callerVars
<1>2. LogTypeOK'
  <2>1. logger' \in [Loggers -> {"idle", "flush"}] /\ flushMark' \in 0..issued
    BY <1>1 DEF LogTypeOK
  <2> QED BY <1>1, <2>1 DEF LogTypeOK, Buffer
<1>3. LogInOrder' /\ Len(file) \in Nat
  BY <1>1, LenProperties DEF LogInOrder, Pending, InWriter, Content, LogTypeOK
<1> QED
  BY <1>1, <1>2, <1>3 DEF CountInv, OwnerInv, StopInv, FileGrows, Empty

(***************************************************************************)
(* The steps of the writer thread.                                          *)
(***************************************************************************)

\* The current buffer joins the full ones, and an empty one takes its place.
LEMMA SwapStep ==
  ASSUME LogInv, SwapBuffers
  PROVE  LogInv' /\ FileGrows
<1>1. /\ LogTypeOK /\ writer = "wait" /\ writer' = "write"
      /\ buffersToWrite' = Collected /\ writeCount' = CollectedCount
      /\ m_buffers' = <<>> /\ bufferCount' = 0 /\ m_currentBuffer' = NextCurrent
      /\ newCurrentBuffer' = NullBuffer
      /\ m_nextBuffer' \in {m_nextBuffer, newNextBuffer}
      /\ newNextBuffer' \in {NullBuffer, newNextBuffer}
      /\ UNCHANGED <<m_running, m_flushRequested, file, flushed, logger, caller, starts,
                     stopMark, issued, flushMark>>
  BY DEF LogInv, BuffersInOrder, SwapBuffers, callerVars
<1>2. /\ issued \in Nat /\ m_currentBuffer \in Seq(Nat) /\ m_buffers \in Seq(Nat)
      /\ m_currentBuffer \in Seq(1..issued)
      /\ Pending = (<<>> \o m_buffers) \o m_currentBuffer
      /\ NextCurrent = <<>>
      /\ NullBuffer \notin Seq(1..issued) /\ <<>> \in Seq(1..issued) /\ <<>> \in Seq(Nat)
  BY <1>1, BuffersAreSeqs, SeqGrows, EmptySeq DEF InWriter
<1>3. Collected = m_buffers \o m_currentBuffer
  <2>1. CASE Len(m_currentBuffer) > 0
    BY <2>1 DEF Collected
  <2>2. CASE ~(Len(m_currentBuffer) > 0)
    <3>1. m_currentBuffer = <<>>
      BY <1>2, <2>2, EmptySeq, LenProperties
    <3> QED BY <1>2, <2>2, <3>1, ConcatEmptySeq DEF Collected
  <2> QED BY <2>1, <2>2
<1>4. Collected \in Seq(1..issued) /\ CollectedCount \in Nat
  <2>1. m_buffers \in Seq(1..issued) /\ bufferCount \in Nat
    BY <1>1 DEF LogTypeOK
  <2> QED BY <1>2, <1>3, <2>1, ConcatProperties DEF CollectedCount
<1>5. LogTypeOK'
  <2>1. /\ m_currentBuffer' \in Seq(1..issued) /\ Len(m_currentBuffer') <= BufferSize
        /\ m_buffers' \in Seq(1..issued) /\ bufferCount' \in Nat
    BY <1>1, <1>2, SizeAssumption
  <2>2. /\ m_nextBuffer' \in Buffer /\ newCurrentBuffer' \in Buffer /\ newNextBuffer' \in Buffer
    BY <1>1 DEF LogTypeOK, Buffer
  <2>3. writer' \in {"off", "wait", "write", "flush", "recycle"}
    BY <1>1
  <2> QED BY <1>1, <1>4, <2>1, <2>2, <2>3 DEF LogTypeOK, Buffer
<1>6. Pending' = Pending
  <2>1. Pending' = (Collected \o <<>>) \o <<>>
    BY <1>1, <1>2 DEF Pending, InWriter, Content
  <2>2. \A u \in Seq(Nat) : u \o <<>> = u /\ <<>> \o u = u
    BY ConcatEmptySeq
  <2>3. m_buffers \o m_currentBuffer \in Seq(Nat)
    BY <1>2, ConcatProperties
  <2> QED BY <1>2, <1>3, <2>1, <2>2, <2>3
<1>7. LogInOrder' /\ Len(file) \in Nat
  BY <1>1, <1>6, LenProperties DEF LogInv, BuffersInOrder, LogInOrder, LogTypeOK
<1>8. m_currentBuffer' # NullBuffer
  BY <1>1, <1>2
<1>9. {m_nextBuffer, newCurrentBuffer, newNextBuffer}' \subseteq {Empty, NullBuffer}
  BY <1>1 DEF LogInv, BuffersInOrder, Empty
<1>10. CountInv' /\ OwnerInv' /\ StopInv'
  BY <1>1 DEF LogInv, CountInv, OwnerInv, StopInv
<1> QED
  BY <1>1, <1>5, <1>7, <1>8, <1>9, <1>10 DEF LogInv, BuffersInOrder, FileGrows, Empty

\* The thread ends when no record is left: all of them are in the file.
LEMMA EndStep ==
  ASSUME LogInv, EndWriter
  PROVE  LogInv' /\ FileGrows
<1> USE DEF LogInv, BuffersInOrder
<1>1. /\ LogTypeOK /\ writer = "wait" /\ NothingLeft /\ ~m_running
      /\ flushed' = Len(file) /\ writer' = "off"
      /\ newCurrentBuffer' = NullBuffer /\ newNextBuffer' = NullBuffer
      /\ UNCHANGED <<m_running, m_flushRequested, m_currentBuffer, m_nextBuffer, m_buffers,
                     bufferCount, buffersToWrite, writeCount, file, logger, caller, starts,
                     stopMark, issued, flushMark>>
  BY DEF EndWriter, sharedVars, callerVars
<1>2. /\ issued \in Nat /\ m_currentBuffer \in Seq(Nat) /\ file \in Seq(Nat)
      /\ Pending = (InWriter \o m_buffers) \o m_currentBuffer
      /\ file \o Pending = UpTo(issued)
  BY BuffersAreSeqs
<1>3. Pending = <<>>
  <2>1. bufferCount \in Nat /\ Len(m_currentBuffer) \in Nat
    BY <1>1, <1>2, LenProperties DEF LogTypeOK
  <2>2. bufferCount = 0 /\ Len(m_currentBuffer) = 0
    BY <1>1, <2>1 DEF NothingLeft, CollectedCount
  <2>3. m_buffers = <<>> /\ m_currentBuffer = <<>> /\ InWriter = <<>>
    BY <1>1, <1>2, <2>2, EmptySeq DEF CountInv, InWriter
  <2>4. <<>> \o <<>> = <<>>
    BY EmptySeq, ConcatEmptySeq
  <2> QED BY <1>2, <2>3, <2>4
<1>4. Len(file) = issued /\ issued >= stopMark
  <2>1. file \o <<>> = file
    BY <1>2, ConcatEmptySeq
  <2> QED BY <1>1, <1>2, <1>3, <2>1, UpToIsSeq DEF LogTypeOK
<1>5. LogTypeOK'
  <2>1. flushed' \in 0..Len(file) /\ writer' \in {"off", "wait", "write", "flush", "recycle"}
    BY <1>1, <1>2, <1>4
  <2> QED BY <1>1, <2>1 DEF LogTypeOK, Buffer
<1>6. LogInOrder'
  BY <1>1 DEF LogInOrder, Pending, InWriter, Content
<1>7. CountInv' /\ OwnerInv' /\ StopInv'
  BY <1>1, <1>4 DEF CountInv, OwnerInv, StopInv
<1> QED
  BY <1>1, <1>2, <1>4, <1>5, <1>6, <1>7 DEF FileGrows, Empty

\* What was swapped out moves to the end of the file.
LEMMA WriteStep ==
  ASSUME LogInv, WriteBuffers
  PROVE  LogInv' /\ FileGrows
<1> USE DEF LogInv, BuffersInOrder
<1>1. /\ LogTypeOK /\ writer = "write" /\ writer' = "flush"
      /\ file' = file \o buffersToWrite /\ flushed' \in FlushedByWrite
      /\ UNCHANGED <<m_running, m_flushRequested, m_currentBuffer, m_nextBuffer, m_buffers,
                     bufferCount, newCurrentBuffer, newNextBuffer, buffersToWrite,
                     writeCount, logger, caller, starts, stopMark, issued, flushMark>>
  BY DEF WriteBuffers, sharedVars, callerVars
<1>2. /\ issued \in Nat /\ m_currentBuffer \in Seq(Nat) /\ file \in Seq(Nat)
      /\ m_buffers \in Seq(Nat) /\ buffersToWrite \in Seq(Nat)
      /\ Content(m_currentBuffer) = m_currentBuffer
      /\ Pending = (buffersToWrite \o m_buffers) \o m_currentBuffer
      /\ file \o Pending = UpTo(issued)
  BY <1>1, BuffersAreSeqs DEF InWriter
<1>3. /\ file' \in Seq(1..issued) /\ Len(file') = Len(file) + Len(buffersToWrite)
      /\ Len(file) \in Nat /\ Len(buffersToWrite) \in Nat
  <2>1. file \in Seq(1..issued) /\ buffersToWrite \in Seq(1..issued)
    BY <1>1 DEF LogTypeOK
  <2> QED BY <1>1, <2>1, ConcatProperties, LenProperties
<1>4. flushed' \in 0..Len(file') /\ flushed' >= flushed
  BY <1>1, <1>3 DEF FlushedByWrite, LogTypeOK
<1>5. LogTypeOK'
  BY <1>1, <1>3, <1>4 DEF LogTypeOK, Buffer
<1>6. LogInOrder'
  <2>1. Pending' = m_buffers \o m_currentBuffer
    BY <1>1, <1>2, ConcatEmptySeq DEF Pending, InWriter, Content
  <2>2. file' \o Pending' = UpTo(issued)
    <3>1. file \o Pending = (file \o buffersToWrite) \o (m_buffers \o m_currentBuffer)
      <4>1. /\ file \in Seq(Nat) /\ buffersToWrite \in Seq(Nat) /\ m_buffers \in Seq(Nat)
            /\ m_currentBuffer \in Seq(Nat)
        BY <1>2
      <4>2. PICK rest : rest = m_buffers \o m_currentBuffer
        OBVIOUS
      <4>3. rest \in Seq(Nat)
        BY <4>1, <4>2, ConcatProperties
      <4>4. (buffersToWrite \o m_buffers) \o m_currentBuffer = buffersToWrite \o rest
        BY <4>1, <4>2, ConcatGrouping
      <4>5. (file \o buffersToWrite) \o rest = file \o (buffersToWrite \o rest)
        <5>1. file \in Seq(Nat) /\ buffersToWrite \in Seq(Nat) /\ rest \in Seq(Nat)
          BY <4>1, <4>3
        <5> QED BY <5>1, ConcatGrouping
      <4> QED BY <1>2, <4>2, <4>4, <4>5
    <3> QED BY <1>1, <1>2, <2>1, <3>1
  <2> QED BY <1>1, <2>2 DEF LogInOrder, UpTo
<1>7. CountInv' /\ OwnerInv' /\ StopInv'
  BY <1>1, <1>4 DEF CountInv, OwnerInv, StopInv, LogTypeOK
<1> QED
  BY <1>1, <1>3, <1>5, <1>6, <1>7 DEF FileGrows, Empty

\* A flush and a rolling of the file change only what has reached the disk.
LEMMA FlushStep ==
  ASSUME LogInv, FlushIfRequested \/ RecycleBuffers
  PROVE  LogInv' /\ FileGrows
<1> USE DEF LogInv, BuffersInOrder
<1>1. /\ LogTypeOK /\ writer \in {"flush", "recycle"} /\ writer' \in {"recycle", "wait"}
      /\ m_flushRequested' \in {FALSE, m_flushRequested}
      /\ flushed' \in {flushed, Len(file)}
      /\ newCurrentBuffer' \in {<<>>, newCurrentBuffer}
      /\ newNextBuffer' \in {<<>>, newNextBuffer}
      /\ buffersToWrite' \in {<<>>, buffersToWrite} /\ writeCount' \in {0, writeCount}
      /\ UNCHANGED <<m_running, m_currentBuffer, m_nextBuffer, m_buffers, bufferCount, file,
                     logger, caller, starts, stopMark, issued, flushMark>>
  BY DEF FlushIfRequested, RecycleBuffers, FlushedByRolling, FlushedAll, Recycled, Empty,
         sharedVars, callerVars
<1>2. issued \in Nat /\ <<>> \in Seq(1..issued) /\ Len(file) \in Nat
  BY <1>1, SeqGrows, LenProperties DEF LogTypeOK
<1>3. flushed' \in 0..Len(file) /\ flushed' >= flushed
  BY <1>1, <1>2 DEF LogTypeOK
<1>4. LogTypeOK'
  <2>1. /\ newCurrentBuffer' \in Seq(1..issued) \cup {NullBuffer}
        /\ newNextBuffer' \in Seq(1..issued) \cup {NullBuffer}
    BY <1>1, <1>2 DEF LogTypeOK, Buffer
  <2>2. /\ buffersToWrite' \in Seq(1..issued) /\ writeCount' \in Nat
        /\ m_flushRequested' \in BOOLEAN
    <3>1. buffersToWrite \in Seq(1..issued) /\ writeCount \in Nat /\ m_flushRequested \in BOOLEAN
      BY <1>1 DEF LogTypeOK
    <3>2. buffersToWrite' \in Seq(1..issued)
      BY <1>1, <1>2, <3>1
    <3>3. writeCount' \in Nat
      BY <1>1, <3>1
    <3>4. m_flushRequested' \in BOOLEAN
      BY <1>1, <3>1
    <3> QED BY <3>2, <3>3, <3>4
  <2>3. writer' \in {"off", "wait", "write", "flush", "recycle"}
    BY <1>1
  <2> QED BY <1>1, <1>3, <2>1, <2>2, <2>3 DEF LogTypeOK, Buffer
<1>5. LogInOrder'
  BY <1>1 DEF LogInOrder, Pending, InWriter, Content
<1>6. CountInv' /\ OwnerInv' /\ StopInv'
  BY <1>1, <1>3 DEF CountInv, OwnerInv, StopInv, LogTypeOK
<1> QED
  BY <1>1, <1>2, <1>4, <1>5, <1>6 DEF FileGrows, Empty

(***************************************************************************)
(* The steps of the thread that owns the log.                               *)
(***************************************************************************)
LEMMA OwnerStep ==
  ASSUME LogInv, Start \/ StopLogging \/ Joined
  PROVE  LogInv' /\ FileGrows
<1> USE DEF LogInv, BuffersInOrder
<1>1. /\ LogTypeOK
      /\ UNCHANGED <<m_flushRequested, m_currentBuffer, m_nextBuffer, m_buffers, bufferCount,
                     buffersToWrite, writeCount, file, flushed, logger, issued, flushMark>>
  BY DEF Start, StopLogging, Joined, sharedVars, writerVars
<1>2. /\ m_running' \in BOOLEAN /\ starts' \in Nat /\ caller' \in {"idle", "joining"}
      /\ stopMark' \in {stopMark, issued}
      /\ newCurrentBuffer' \in {newCurrentBuffer, <<>>}
      /\ newNextBuffer' \in {newNextBuffer, <<>>}
      /\ writer' = writer \/ (writer = "off" /\ writer' = "wait")
  <2>1. CASE Start
    <3>1. writer = "off"
      BY <2>1 DEF Start, OwnerInv
    <3> QED BY <1>1, <2>1, <3>1 DEF Start, Empty, LogTypeOK
  <2>2. CASE StopLogging
    BY <1>1, <2>2 DEF StopLogging, writerVars, LogTypeOK
  <2>3. CASE Joined
    BY <1>1, <2>3 DEF Joined, writerVars, LogTypeOK
  <2> QED BY <1>1, <2>1, <2>2, <2>3
<1>3. issued \in Nat /\ <<>> \in Seq(1..issued) /\ Len(file) \in Nat
  BY <1>1, SeqGrows, LenProperties DEF LogTypeOK
<1>4. LogTypeOK'
  <2>1. /\ newCurrentBuffer' \in Seq(1..issued) \cup {NullBuffer}
        /\ newNextBuffer' \in Seq(1..issued) \cup {NullBuffer}
    BY <1>1, <1>2, <1>3 DEF LogTypeOK, Buffer
  <2>2. /\ writer' \in {"off", "wait", "write", "flush", "recycle"}
        /\ stopMark' \in 0..issued
    BY <1>1, <1>2, <1>3 DEF LogTypeOK
  <2> QED BY <1>1, <1>2, <2>1, <2>2 DEF LogTypeOK, Buffer
<1>5. LogInOrder'
  BY <1>1, <1>2 DEF LogInOrder, Pending, InWriter, Content
<1>6. CountInv' /\ OwnerInv' /\ StopInv'
  <2>1. CASE Start
    BY <1>1, <2>1 DEF Start, CountInv, OwnerInv, StopInv
  <2>2. CASE StopLogging
    BY <1>1, <2>2 DEF StopLogging, writerVars, CountInv, OwnerInv, StopInv
  <2>3. CASE Joined
    BY <1>1, <2>3 DEF Joined, writerVars, CountInv, OwnerInv, StopInv
  <2> QED BY <2>1, <2>2, <2>3
<1> QED
  BY <1>1, <1>2, <1>3, <1>4, <1>5, <1>6 DEF FileGrows, Empty

(***************************************************************************)
(* The theorems.                                                            *)
(***************************************************************************)
LEMMA InitLog == LogInit => LogInv
<1> SUFFICES ASSUME LogInit PROVE LogInv
  OBVIOUS
<1> USE DEF LogInit
<1>1. /\ <<>> \in Seq(1..0) /\ <<>> \in Seq(Nat) /\ Len(<<>>) = 0 /\ NullBuffer # <<>>
      /\ <<>> \o <<>> = <<>>
  BY EmptySeq, ConcatEmptySeq, NullAssumption
<1>2. LogTypeOK
  <2>1. /\ m_currentBuffer \in Buffer /\ m_nextBuffer \in Buffer
        /\ newCurrentBuffer \in Buffer /\ newNextBuffer \in Buffer
        /\ m_buffers \in Seq(1..issued) /\ buffersToWrite \in Seq(1..issued)
        /\ file \in Seq(1..issued)
    BY <1>1 DEF Buffer, Empty
  <2>2. Len(m_currentBuffer) <= BufferSize /\ flushed \in 0..Len(file)
    BY <1>1, SizeAssumption DEF Empty
  <2>3. logger \in [Loggers -> {"idle", "flush"}] /\ 0 \in 0..0
    OBVIOUS
  <2> QED BY <2>1, <2>2, <2>3 DEF LogTypeOK
<1>3. LogInOrder
  <2>1. UpTo(0) = <<>>
    BY UpToIsSeq, EmptySeq
  <2> QED BY <1>1, <2>1 DEF LogInOrder, Pending, InWriter, Content, Empty, UpTo
<1> QED
  BY <1>1, <1>2, <1>3 DEF LogInv, BuffersInOrder, CountInv, OwnerInv, StopInv, Empty

LEMMA NextLog == LogInv /\ [LogNext]_logVars => LogInv' /\ FileGrows
<1> SUFFICES ASSUME LogInv, [LogNext]_logVars PROVE LogInv' /\ FileGrows
  OBVIOUS
<1>1. ASSUME NEW t \in Loggers, AppendRecord(t) \/ RequestFlush(t) PROVE LogInv' /\ FileGrows
  BY <1>1, AppendStep, RequestStep
<1>2. CASE WriterStep
  BY <1>2, SwapStep, EndStep, WriteStep, FlushStep DEF WriterStep
<1>3. CASE Start \/ StopLogging \/ Joined
  BY <1>3, OwnerStep
<1>4. CASE UNCHANGED logVars
  <2>1. Len(file) \in Nat /\ issued \in Nat
    BY BuffersAreSeqs, LenProperties
  <2> QED
    <3>1. LogTypeOK'
      BY <1>4 DEF logVars, LogInv, BuffersInOrder, LogTypeOK, Buffer
    <3>2. LogInOrder'
      BY <1>4 DEF logVars, LogInv, BuffersInOrder, LogInOrder, Pending, InWriter, Content
    <3>3. CountInv' /\ OwnerInv' /\ StopInv' /\ FileGrows
      BY <1>4, <2>1 DEF logVars, LogInv, CountInv, OwnerInv, StopInv, FileGrows
    <3> QED BY <1>4, <3>1, <3>2, <3>3 DEF logVars, LogInv, BuffersInOrder, Empty
<1> QED
  BY <1>1, <1>2, <1>3, <1>4 DEF LogNext

\* A step of the log is one of a FIFO, or none.
LEMMA FifoStep == LogInv /\ LogInv' /\ FileGrows => [Fifo!Next]_(Fifo!vars)
<1> SUFFICES ASSUME LogInv, LogInv', FileGrows PROVE Fifo!Next \/ UNCHANGED Fifo!vars
  OBVIOUS
<1>1. issued \in Nat /\ file \in Seq(Nat) /\ Pending \in Seq(Nat) /\ file \o Pending = UpTo(issued)
  BY BuffersAreSeqs
<1>2. /\ issued' \in Nat /\ file' \in Seq(Nat) /\ Pending' \in Seq(Nat)
      /\ file' \o Pending' = UpTo(issued')
  <2>1. /\ issued' \in Nat /\ Seq(1..issued') \subseteq Seq(Nat) /\ NullBuffer \notin Seq(1..issued')
        /\ m_currentBuffer' \in Seq(1..issued') /\ m_buffers' \in Seq(1..issued')
        /\ buffersToWrite' \in Seq(1..issued') /\ file' \in Seq(1..issued')
    BY SeqGrows DEF LogInv, BuffersInOrder, LogTypeOK, Buffer
  <2>2. InWriter' \in Seq(Nat) /\ Content(m_currentBuffer)' \in Seq(Nat)
    BY <2>1, EmptySeq DEF InWriter, Content
  <2>3. (InWriter \o m_buffers)' \in Seq(Nat)
    BY <2>1, <2>2, ConcatProperties
  <2>4. Pending' \in Seq(Nat)
    BY <2>2, <2>3, ConcatProperties DEF Pending
  <2> QED BY <2>1, <2>4 DEF LogInv, BuffersInOrder, LogInOrder, UpTo
<1>3. /\ file = UpTo(Len(file)) /\ Len(file) \in 0..issued
      /\ file' = UpTo(Len(file')) /\ Len(file') \in 0..issued'
  <2>1. Len(file) \in Nat /\ Len(Pending) \in Nat /\ Len(file') \in Nat /\ Len(Pending') \in Nat
    BY <1>1, <1>2, LenProperties
  <2>2. /\ file = UpTo(Len(file)) /\ Len(file) + Len(Pending) = issued
    BY <1>1, UpToPrefix
  <2>3. /\ file' = UpTo(Len(file')) /\ Len(file') + Len(Pending') = issued'
    BY <1>2, UpToPrefix
  <2> QED BY <1>1, <1>2, <2>1, <2>2, <2>3
<1>4. CASE issued' = issued /\ Len(file') >= Len(file)
  <2>1. CASE Len(file') = Len(file)
    BY <1>1, <1>2, <1>3, <1>4, <2>1 DEF Fifo!vars
  <2>2. CASE Len(file') > Len(file)
    <3>1. Len(UpTo(issued)) = issued /\ SubSeq(UpTo(issued), 1, Len(file')) = UpTo(Len(file'))
      BY <1>1, <1>3, <1>4, UpToIsSeq, UpToCut
    <3>2. /\ Len(file') \in Len(file) + 1..Len(file \o Pending)
          /\ file' = SubSeq(file \o Pending, 1, Len(file'))
      BY <1>1, <1>3, <1>4, <2>2, <3>1
    <3>3. (file \o Pending)' = file \o Pending
      BY <1>1, <1>2, <1>4
    <3> QED BY <3>2, <3>3 DEF Fifo!Next, Fifo!Write
  <2> QED BY <1>3, <1>4, <2>1, <2>2
<1>5. CASE issued' = issued + 1 /\ issued < MaxRecords /\ file' = file
  <2>1. issued + 1 \in 1..MaxRecords
    BY <1>1, <1>5, BoundsAssumption
  <2>2. (file \o Pending)' = Append(file \o Pending, issued + 1)
    BY <1>1, <1>2, <1>5, UpToNext
  <2> QED BY <1>5, <2>1, <2>2 DEF Fifo!Next, Fifo!Accept
<1> QED
  BY <1>4, <1>5 DEF FileGrows

LEMMA LogIsInvariant == LogSpec => []LogInv
<1> QED
  BY InitLog, NextLog, PTL DEF LogSpec

\* No swap, no full buffer and no recycled one loses, repeats or overtakes a
\* record, and Append always has a buffer (AsyncLogging::Append, ThreadFunc).
THEOREM OrderTheorem == LogSpec => []BuffersInOrder
<1>1. LogInv => BuffersInOrder
  BY DEF LogInv
<1> QED
  BY <1>1, LogIsInvariant, PTL

\* When Stop has returned, every record appended before it was called is on the
\* disk, restarts included (AsyncLogging::Stop).
THEOREM StopTheorem == LogSpec => []StopWritesAll
<1>1. LogInv => StopWritesAll
  BY DEF LogInv, StopInv, StopWritesAll
<1> QED
  BY <1>1, LogIsInvariant, PTL

\* The log implements a FIFO: threads, swaps, flushes, stops and restarts are
\* invisible in what the file holds (AsyncLogging, LogFile::Write).
THEOREM FifoTheorem == LogSpec => ImplementsFifoLog
<1>1. LogInit => Fifo!Init
  <2>1. <<>> \o <<>> = <<>>
    BY EmptySeq, ConcatEmptySeq
  <2>2. ASSUME LogInit PROVE Pending = <<>>
    BY <2>1, <2>2, NullAssumption, EmptySeq DEF LogInit, Pending, InWriter, Content, Empty
  <2> QED BY <2>1, <2>2 DEF LogInit, Fifo!Init
<1>2. LogInv /\ LogInv' /\ [LogNext]_logVars => [Fifo!Next]_(Fifo!vars)
  BY NextLog, FifoStep
<1> QED
  BY <1>1, <1>2, LogIsInvariant, PTL DEF LogSpec, ImplementsFifoLog, Fifo!Spec
==============================================================================

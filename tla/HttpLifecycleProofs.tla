------------------------- MODULE HttpLifecycleProofs -------------------------
(***************************************************************************)
(* Theorems about HttpLifecycle, for every set of connections, of fds and   *)
(* of loops, and every backlog.                                             *)
(***************************************************************************)
EXTENDS HttpLifecycle, SequenceTheorems, FiniteSetTheorems, TLAPS

(***************************************************************************)
(* The invariant.                                                           *)
(***************************************************************************)

\* The functions a loop keeps alive, and those it has not called yet.
Queue(l) == ToSet(todo[l]) \cup ToSet(copy[l])
Pending(l) == ToSet(todo[l]) \cup {copy[l][i] : i \in (pos[l] + 1)..Len(copy[l])}

DestroyPending(c) == Func("destroy", c) \in Pending(m_loop[c])
ClosePending(c) == \E l \in Loops : Func("closeInLoop", c) \in Pending(l)

\* Events exist only during dispatch, a copy only while its functions are called.
TurnInv ==
  \A l \in Loops :
    /\ phase[l] # "todo" => copy[l] = <<>> /\ pos[l] = 0
    /\ phase[l] # "dispatch" => batch[l] = {}

MapInv == \A f \in Fds : m_connections[f] # NoConn => fd[m_connections[f]] = f

\* Nothing refers to a connection that has not been constructed.
FreshInv ==
  \A c \in Conns :
    m_state[c] = "none" => ~InMap(c) /\ ~Queued(c) /\ timer[c] = "none" /\ ~inEpoll[c]

\* The fd of a connection is its own while the connection is alive.
FdInv == \A c, d \in Conns : Alive(c) /\ Alive(d) /\ fd[c] = fd[d] => c = d

BatchInv ==
  \A l \in Loops : \A e \in batch[l] : inEpoll[e.conn] /\ m_loop[e.conn] = l

\* EstablishConnection and DestroyConnection run on the connection's own loop,
\* and the second is queued only for a connection that has left the map.
QueueInv ==
  \A l \in Loops : \A f \in Queue(l) :
    /\ f.op # "closeInLoop" => m_loop[f.conn] = l
    /\ f.op = "destroy" => ~InMap(f.conn)

\* No connection is destroyed before it is established: the queue is a FIFO, and
\* EstablishConnection is the first function that names the connection.
OrderInv ==
  \A l \in Loops, c \in Conns :
    /\ \A i, j \in DOMAIN todo[l] :
         todo[l][i] = Func("destroy", c) /\ todo[l][j] = Func("establish", c) => j < i
    /\ \A i, j \in DOMAIN copy[l] :
         copy[l][i] = Func("destroy", c) /\ copy[l][j] = Func("establish", c) => j < i
    /\ Func("destroy", c) \in ToSet(copy[l]) => Func("establish", c) \notin ToSet(todo[l])

\* A CloseConnectionInLoop that has been called has emptied the map's entry.
CalledInv ==
  \A l \in Loops : \A i \in 1..pos[l] :
    copy[l][i].op = "closeInLoop" => ~InMap(copy[l][i].conn)

\* A channel that is in epoll belongs to a connection of the map or to one that
\* is going to be destroyed, and EnableRead never puts one back.
EpollInv ==
  \A c \in Conns :
    /\ InMap(c) => inEpoll[c]
    /\ inEpoll[c] => InMap(c) \/ DestroyPending(c)
    /\ Func("establish", c) \in Pending(m_loop[c]) => inEpoll[c]

\* A read error is final: nothing is read from the socket any more.
KindInv == \A c \in Conns : m_state[c] = "Closed" /\ inEpoll[c] => kind[c] = "dead"

ExpiryInv ==
  \A c \in Conns :
    timer[c] = "run" /\ InMap(c) => ClosePending(c) \/ m_state[c] = "Closed"

LifeInv ==
  /\ TypeOK /\ TurnInv /\ MapInv /\ FreshInv /\ FdInv /\ BatchInv /\ QueueInv /\ OrderInv
  /\ CalledInv /\ EpollInv /\ KindInv /\ ExpiryInv
(***************************************************************************)
(* The operators.                                                           *)
(***************************************************************************)

LEMMA AliveIs ==
  ASSUME NEW c
  PROVE  /\ Alive(c) <=> m_state[c] # "none" /\ (InMap(c) \/ Queued(c) \/ timer[c] = "armed")
         /\ Alive(c)' <=> m_state'[c] # "none" /\ (InMap(c)' \/ Queued(c)' \/ timer'[c] = "armed")
<1>1. Holders(c) # {} <=> InMap(c) \/ Queued(c) \/ timer[c] = "armed"
  BY DEF Holders
<1>2. Holders(c)' # {} <=> InMap(c)' \/ Queued(c)' \/ timer'[c] = "armed"
  BY DEF Holders
<1> QED
  BY <1>1, <1>2 DEF Alive

LEMMA QueuedIs ==
  ASSUME NEW c
  PROVE  /\ Queued(c) <=> \E l \in Loops : \E f \in Queue(l) : f.conn = c
         /\ Queued(c)' <=> \E l \in Loops : \E f \in Queue(l)' : f.conn = c
BY DEF Queued, Queue

LEMMA ToSetIs ==
  ASSUME NEW S, NEW s \in Seq(S)
  PROVE  /\ ToSet(s) = {s[i] : i \in 1..Len(s)}
         /\ ToSet(s) \subseteq S
BY LenProperties, ElementOfSeq DEF ToSet

\* A function that waits is one that is kept alive.
LEMMA PendingQueued ==
  ASSUME TypeOK, NEW l \in Loops
  PROVE  Pending(l) \subseteq Queue(l) /\ Queue(l) \subseteq Funcs
<1>1. todo[l] \in Seq(Funcs) /\ copy[l] \in Seq(Funcs) /\ pos[l] \in Nat
  BY DEF TypeOK
<1>2. ToSet(todo[l]) \subseteq Funcs /\ ToSet(copy[l]) \subseteq Funcs
  BY <1>1, ToSetIs
<1>3. {copy[l][i] : i \in (pos[l] + 1)..Len(copy[l])} \subseteq ToSet(copy[l])
  BY <1>1, ToSetIs, LenProperties
<1> QED
  BY <1>2, <1>3 DEF Pending, Queue

LEMMA FuncType ==
  \A c \in Conns, o \in {"establish", "closeInLoop", "destroy"} :
    Func(o, c) \in Funcs /\ Func(o, c).op = o /\ Func(o, c).conn = c
BY DEF Func, Funcs

\* k more functions at the end of the list of L.
LEMMA TodoPush ==
  ASSUME TypeOK, NEW L \in Loops, NEW k \in Nat, NEW g \in Funcs,
         todo' = [todo EXCEPT ![L] = @ \o Times(k, g)]
  PROVE  /\ todo' \in [Loops -> Seq(Funcs)]
         /\ \A l \in Loops : l # L => todo'[l] = todo[l]
         /\ DOMAIN todo[L] = 1..Len(todo[L])
         /\ DOMAIN todo'[L] = 1..(Len(todo[L]) + k)
         /\ \A i \in 1..Len(todo[L]) : todo'[L][i] = todo[L][i]
         /\ \A i \in (Len(todo[L]) + 1)..(Len(todo[L]) + k) : todo'[L][i] = g
         /\ \A l \in Loops : ToSet(todo'[l]) = ToSet(todo[l]) \cup {f \in {g} : l = L /\ k > 0}
<1> DEFINE s == todo[L]
           t == Times(k, g)
<1>1. todo \in [Loops -> Seq(Funcs)] /\ s \in Seq(Funcs) /\ Len(s) \in Nat
  BY LenProperties DEF TypeOK
<1>2. t \in Seq(Funcs) /\ Len(t) = k /\ \A i \in 1..k : t[i] = g
  <2>1. t \in [1..k -> Funcs]
    BY DEF Times
  <2>2. t \in Seq(Funcs)
    BY <2>1, IsASeq
  <2> QED
    BY <2>1, <2>2, LenProperties DEF Times
<1>3. todo'[L] = s \o t /\ \A l \in Loops : l # L => todo'[l] = todo[l]
  BY <1>1
<1>4. /\ todo'[L] \in Seq(Funcs) /\ Len(todo'[L]) = Len(s) + k
      /\ \A i \in 1..Len(s) + k : todo'[L][i] = IF i <= Len(s) THEN s[i] ELSE t[i - Len(s)]
  <2>1. ASSUME NEW u \in Seq(Funcs), NEW v \in Seq(Funcs)
        PROVE  /\ u \o v \in Seq(Funcs) /\ Len(u \o v) = Len(u) + Len(v)
               /\ \A i \in 1..Len(u) + Len(v) : (u \o v)[i] = IF i <= Len(u) THEN u[i] ELSE v[i - Len(u)]
    BY ConcatProperties
  <2> HIDE DEF s, t
  <2>2. /\ s \o t \in Seq(Funcs) /\ Len(s \o t) = Len(s) + Len(t)
        /\ \A i \in 1..Len(s) + Len(t) : (s \o t)[i] = IF i <= Len(s) THEN s[i] ELSE t[i - Len(s)]
    BY <1>1, <1>2, <2>1
  <2> QED BY <1>2, <1>3, <2>2
<1>5. todo' \in [Loops -> Seq(Funcs)]
  BY <1>1, <1>4
<1>6. \A i \in 1..Len(s) : todo'[L][i] = s[i]
  BY <1>1, <1>4
<1>7. \A i \in (Len(s) + 1)..(Len(s) + k) : todo'[L][i] = g
  BY <1>1, <1>2, <1>4
<1>8. DOMAIN todo[L] = 1..Len(s) /\ DOMAIN todo'[L] = 1..(Len(s) + k)
  BY <1>1, <1>4, LenProperties
<1>9. ToSet(todo'[L]) = ToSet(todo[L]) \cup {f \in {g} : k > 0}
  <2>1. ToSet(todo'[L]) \subseteq ToSet(todo[L]) \cup {f \in {g} : k > 0}
    BY <1>1, <1>6, <1>7, <1>8 DEF ToSet
  <2>2. ToSet(todo[L]) \subseteq ToSet(todo'[L])
    BY <1>1, <1>6, <1>8 DEF ToSet
  <2>3. k > 0 => g \in ToSet(todo'[L])
    <3> SUFFICES ASSUME k > 0 PROVE g \in ToSet(todo'[L])
      OBVIOUS
    <3>1. Len(s) + k \in (Len(s) + 1)..(Len(s) + k) /\ Len(s) + k \in 1..(Len(s) + k)
      BY <1>1
    <3>2. todo'[L][Len(s) + k] = g
      BY <1>7, <3>1
    <3> QED BY <1>8, <3>1, <3>2 DEF ToSet
  <2> QED BY <2>1, <2>2, <2>3
<1>10. \A l \in Loops : ToSet(todo'[l]) = ToSet(todo[l]) \cup {f \in {g} : l = L /\ k > 0}
  BY <1>3, <1>9
<1> QED
  BY <1>3, <1>5, <1>6, <1>7, <1>8, <1>10
(***************************************************************************)
(* Closing.                                                                 *)
(***************************************************************************)

\* What the calls of HandleClose, and the functions they queue, do to the map and
\* the lists: k functions at the end of one list, the entry emptied together
\* with the queueing of DestroyConnection.
CloseEffect(c, L, k, o) ==
  /\ todo' = [todo EXCEPT ![L] = @ \o Times(k, Func(o, c))]
  /\ \/ (o = "closeInLoop" \/ k = 0) /\ UNCHANGED m_connections
     \/ /\ o = "destroy" /\ k > 0 /\ L = m_loop[c]
        /\ m_connections' = [m_connections EXCEPT ![fd[c]] = NoConn]

LEMMA CloseInLoopEffect ==
  ASSUME TypeOK, NEW c \in Conns, NEW n \in Nat \ {0}, CloseInLoop(c, n)
  PROVE  CloseEffect(c, m_loop[c], n, "destroy")
BY DEF CloseInLoop, CloseEffect, DestroyLoop, DestroyWork

LEMMA CloseConnectionEffect ==
  ASSUME TypeOK, NEW c \in Conns, NEW n \in Nat, CloseConnection(c, n)
  PROVE  \E L \in Loops, o \in {"closeInLoop", "destroy"} :
           /\ CloseEffect(c, L, n, o)
           /\ n > 0 /\ o = "closeInLoop" => L = Main
<1>1. m_loop[c] \in Loops /\ Main \in Loops /\ todo \in [Loops -> Seq(Funcs)]
  BY DEF TypeOK, Loops
<1>2. CASE n = 0
  <2>1. todo[Main] \o Times(0, Func("closeInLoop", c)) = todo[Main]
    <3>1. Times(0, Func("closeInLoop", c)) = <<>>
      BY DEF Times
    <3> QED BY <1>1, <3>1, ConcatEmptySeq
  <2>2. todo' = [todo EXCEPT ![Main] = @ \o Times(0, Func("closeInLoop", c))]
    BY <1>1, <1>2, <2>1 DEF CloseConnection
  <2>3. UNCHANGED m_connections
    BY <1>2 DEF CloseConnection
  <2> QED
    BY <1>1, <1>2, <2>2, <2>3 DEF CloseEffect
<1>3. CASE n > 0 /\ m_loop[c] = Main
  BY <1>1, <1>3, CloseInLoopEffect DEF CloseConnection
<1>4. CASE n > 0 /\ m_loop[c] # Main
  <2>1. CloseEffect(c, Main, n, "closeInLoop")
    BY <1>4 DEF CloseConnection, CloseEffect
  <2> QED BY <1>1, <2>1
<1> QED
  BY <1>2, <1>3, <1>4

\* What a step leaves alone that closes c: it may call closeInLoop functions of c
\* that have emptied the entry, and use up timers.
CloseFrame(c) ==
  /\ UNCHANGED <<fd, m_loop, copy, inEpoll>>
  /\ \A d \in Conns : m_state'[d] = "none" <=> m_state[d] = "none"
  /\ timer' \in [Conns -> {"none", "armed", "run"}]
  /\ \A d \in Conns : timer'[d] = timer[d] \/ (timer[d] = "armed" /\ timer'[d] = "run")
  /\ pos' \in [Loops -> Nat]
  /\ \A l \in Loops :
       /\ pos'[l] = pos[l] \/ (pos'[l] = pos[l] + 1 /\ pos'[l] <= Len(copy[l]))
       /\ pos'[l] # pos[l] => /\ copy[l][pos'[l]] = Func("closeInLoop", c)
                              /\ ~InMap(c)'
  /\ phase' = phase

\* Who leaves the map in a step has its DestroyConnection queued by it.
LeavesByDestroy ==
  \A c \in Conns :
    InMap(c) /\ ~InMap(c)' => \E l \in Loops : Func("destroy", c) \in ToSet(todo'[l])

LEMMA CloseKeeps ==
  ASSUME LifeInv, NEW c \in Conns, Alive(c), NEW L \in Loops, NEW k \in Nat,
         NEW o \in {"closeInLoop", "destroy"}, CloseEffect(c, L, k, o), CloseFrame(c)
  PROVE  /\ todo' \in [Loops -> Seq(Funcs)]
         /\ m_connections' \in [Fds -> Conns \cup {NoConn}]
         /\ MapInv' /\ FreshInv' /\ FdInv' /\ QueueInv' /\ OrderInv' /\ CalledInv' /\ EpollInv'
         /\ \A d \in Conns : InMap(d)' => InMap(d) /\ (ClosePending(d) => ClosePending(d)')
         /\ k > 0 => ~InMap(c)' \/ ClosePending(c)'
         /\ LeavesByDestroy
<1> DEFINE g == Func(o, c)
<1>0. /\ TypeOK /\ MapInv /\ FreshInv /\ FdInv /\ QueueInv /\ OrderInv /\ CalledInv /\ EpollInv
      /\ g \in Funcs /\ g.op = o /\ g.conn = c
      /\ m_loop \in [Conns -> Loops] /\ fd \in [Conns -> Fds]
      /\ m_connections \in [Fds -> Conns \cup {NoConn}]
  BY FuncType DEF LifeInv, TypeOK
<1>1. /\ todo' \in [Loops -> Seq(Funcs)]
      /\ \A l \in Loops : l # L => todo'[l] = todo[l]
      /\ DOMAIN todo[L] = 1..Len(todo[L])
      /\ DOMAIN todo'[L] = 1..(Len(todo[L]) + k)
      /\ \A i \in 1..Len(todo[L]) : todo'[L][i] = todo[L][i]
      /\ \A i \in (Len(todo[L]) + 1)..(Len(todo[L]) + k) : todo'[L][i] = g
      /\ \A l \in Loops : ToSet(todo'[l]) = ToSet(todo[l]) \cup {f \in {g} : l = L /\ k > 0}
  <2> HIDE DEF g
  <2>1. todo' = [todo EXCEPT ![L] = @ \o Times(k, g)]
    BY DEF CloseEffect, g
  <2> QED BY <1>0, <2>1, TodoPush, ZenonT(30)
<1>2. /\ m_connections' \in [Fds -> Conns \cup {NoConn}]
      /\ \A f \in Fds : m_connections'[f] = m_connections[f] \/ (m_connections'[f] = NoConn /\ f = fd[c])
      /\ o = "destroy" /\ k > 0 => m_connections'[fd[c]] = NoConn /\ L = m_loop[c]
      /\ m_connections' # m_connections => o = "destroy" /\ k > 0
  BY <1>0 DEF CloseEffect
<1>3. \A d \in Conns : InMap(d)' => InMap(d)
  BY <1>0, <1>2, LoopsAssumption DEF InMap, CloseFrame
<1>4. \A l \in Loops : Queue(l)' = Queue(l) \cup {f \in {g} : l = L /\ k > 0}
  BY <1>1 DEF Queue, CloseFrame
<1>5. \A d \in Conns : Queued(d)' => Queued(d) \/ d = c
  BY <1>0, <1>4, QueuedIs
<1>6. \A d \in Conns : Alive(d)' => Alive(d)
  BY <1>3, <1>5, AliveIs DEF CloseFrame
<1>7. \A d \in Conns : Alive(d) /\ InMap(d) /\ d # c => InMap(d)'
  BY <1>0, <1>2 DEF InMap, CloseFrame, FdInv
<1>8. ~InMap(c)' \/ (o = "closeInLoop" \/ k = 0)
  BY <1>0, <1>2, LoopsAssumption DEF InMap, CloseFrame
<1>9. \A l \in Loops : /\ Pending(l) \ {Func("closeInLoop", c)} \subseteq Pending(l)'
                       /\ Pending(l)' \subseteq Pending(l) \cup {f \in {g} : l = L /\ k > 0}
                       /\ l = L /\ k > 0 => g \in Pending(l)'
                       /\ InMap(c)' => Pending(l) \subseteq Pending(l)'
  <2> SUFFICES ASSUME NEW l \in Loops
               PROVE  /\ Pending(l) \ {Func("closeInLoop", c)} \subseteq Pending(l)'
                      /\ Pending(l)' \subseteq Pending(l) \cup {f \in {g} : l = L /\ k > 0}
                      /\ l = L /\ k > 0 => g \in Pending(l)'
                      /\ InMap(c)' => Pending(l) \subseteq Pending(l)'
    OBVIOUS
  <2>1. /\ pos[l] \in Nat /\ copy[l] \in Seq(Funcs) /\ Len(copy[l]) \in Nat
        /\ pos'[l] = pos[l] \/ pos'[l] = pos[l] + 1
        /\ pos'[l] # pos[l] => copy[l][pos'[l]] = Func("closeInLoop", c) /\ ~InMap(c)'
        /\ copy' = copy
    BY <1>0, LenProperties DEF TypeOK, CloseFrame
  <2> DEFINE waits == {copy[l][i] : i \in (pos[l] + 1)..Len(copy[l])}
             waits2 == {copy[l][i] : i \in (pos'[l] + 1)..Len(copy[l])}
  <2>2. waits2 \subseteq waits
    BY <2>1
  <2>3. waits \ {Func("closeInLoop", c)} \subseteq waits2
    BY <2>1
  <2>4. InMap(c)' => waits = waits2
    BY <2>1
  <2>5. Pending(l) = ToSet(todo[l]) \cup waits /\ Pending(l)' = ToSet(todo'[l]) \cup waits2
    BY <2>1 DEF Pending
  <2> HIDE DEF waits, waits2, g
  <2> QED BY <1>1, <2>2, <2>3, <2>4, <2>5
<1> HIDE DEF g
<1>10. MapInv'
  BY <1>0, <1>2 DEF MapInv, CloseFrame
<1>11. FreshInv'
  BY <1>0, <1>3, <1>5, AliveIs DEF FreshInv, CloseFrame
<1>12. FdInv'
  BY <1>0, <1>6 DEF FdInv, CloseFrame
<1>13. QueueInv'
  <2> SUFFICES ASSUME NEW l \in Loops, NEW f \in Queue(l)'
               PROVE  /\ f.op # "closeInLoop" => m_loop[f.conn] = l
                      /\ f.op = "destroy" => ~InMap(f.conn)'
    BY DEF QueueInv, CloseFrame
  <2>1. CASE f \in Queue(l)
    <3>1. f \in Funcs /\ f.conn \in Conns
      BY <1>0, <2>1, PendingQueued DEF Funcs
    <3> QED BY <1>0, <1>3, <2>1, <3>1 DEF QueueInv
  <2>2. CASE f = g /\ l = L /\ k > 0
    BY <1>0, <1>2, <1>8, <2>2
  <2> QED BY <1>4, <2>1, <2>2
<1>14. OrderInv'
  <2> SUFFICES ASSUME NEW l \in Loops, NEW d \in Conns
        PROVE /\ \A i, j \in DOMAIN todo'[l] :
                   todo'[l][i] = Func("destroy", d) /\ todo'[l][j] = Func("establish", d) => j < i
              /\ Func("destroy", d) \in ToSet(copy[l]) => Func("establish", d) \notin ToSet(todo'[l])
    BY <1>0 DEF OrderInv, CloseFrame
  <2>0. Func("establish", d) # g /\ Func("establish", d) # Func("destroy", d)
    BY <1>0, FuncType
  <2>1. Func("destroy", d) \in ToSet(copy[l]) => Func("establish", d) \notin ToSet(todo'[l])
    BY <1>0, <1>1, <2>0 DEF OrderInv
  <2>2. CASE l # L
    BY <1>0, <1>1, <2>1, <2>2, SMTT(30) DEF OrderInv
  <2>3. ASSUME l = L, NEW i \in DOMAIN todo'[l], NEW j \in DOMAIN todo'[l],
               todo'[l][i] = Func("destroy", d), todo'[l][j] = Func("establish", d)
        PROVE  j < i
    <3>1. Len(todo[L]) \in Nat
      BY <1>0, LenProperties DEF TypeOK
    <3>2. j \in 1..Len(todo[L]) /\ i \in 1..(Len(todo[L]) + k)
      BY <1>1, <2>0, <2>3, <3>1
    <3>3. CASE i \in 1..Len(todo[L])
      <4>1. /\ i \in DOMAIN todo[l] /\ todo[l][i] = Func("destroy", d)
            /\ j \in DOMAIN todo[l] /\ todo[l][j] = Func("establish", d)
        BY <1>1, <2>3, <3>2, <3>3
      <4> QED BY <1>0, <4>1 DEF OrderInv
    <3>4. CASE i > Len(todo[L])
      BY <3>1, <3>2, <3>4
    <3> QED BY <3>1, <3>2, <3>3, <3>4
  <2> QED BY <2>1, <2>2, <2>3
<1>15. CalledInv'
  <2> SUFFICES ASSUME NEW l \in Loops, NEW i \in 1..pos'[l], copy[l][i].op = "closeInLoop"
               PROVE  ~InMap(copy[l][i].conn)'
    BY DEF CalledInv, CloseFrame
  <2>1. pos[l] \in Nat /\ pos'[l] \in Nat /\ copy[l] \in Seq(Funcs) /\ pos'[l] <= Len(copy[l])
    BY <1>0 DEF TypeOK, CloseFrame
  <2>2. copy[l][i] \in Funcs /\ copy[l][i].conn \in Conns
    <3>1. i \in 1..Len(copy[l])
      BY <2>1, LenProperties
    <3>2. copy[l][i] \in Funcs
      BY <2>1, <3>1, ElementOfSeq
    <3> QED BY <3>2 DEF Funcs
  <2>3. CASE i \in 1..pos[l]
    <3>1. ~InMap(copy[l][i].conn)
      BY <1>0, <2>3 DEF CalledInv
    <3> QED BY <1>3, <2>2, <3>1 DEF CloseFrame
  <2>4. CASE i \notin 1..pos[l]
    BY <2>1, <2>4, FuncType DEF CloseFrame
  <2> QED BY <2>3, <2>4
<1>16. ASSUME NEW d \in Conns, DestroyPending(d) PROVE DestroyPending(d)'
  BY <1>0, <1>9, <1>16, FuncType, SMTT(30) DEF DestroyPending, CloseFrame
<1>17. ASSUME NEW d \in Conns, InMap(d), ~InMap(d)'
       PROVE  d = c /\ o = "destroy" /\ k > 0 /\ L = m_loop[c]
  <2>1. Alive(d)
    BY <1>0, <1>17, AliveIs DEF FreshInv
  <2> QED BY <1>2, <1>7, <1>17, <2>1 DEF InMap, CloseFrame
<1>18. EpollInv'
  <2> SUFFICES ASSUME NEW d \in Conns
        PROVE /\ InMap(d)' => inEpoll[d]
              /\ inEpoll[d] => InMap(d)' \/ DestroyPending(d)'
              /\ Func("establish", d) \in Pending(m_loop[d])' => inEpoll[d]
    BY DEF EpollInv, CloseFrame
  <2>1. Func("establish", d) # g /\ m_loop[d] \in Loops
    BY <1>0, FuncType
  <2>2. Func("establish", d) \in Pending(m_loop[d])' => Func("establish", d) \in Pending(m_loop[d])
    BY <1>9, <2>1 DEF CloseFrame
  <2>3. InMap(d) /\ ~InMap(d)' => DestroyPending(d)'
    BY <1>9, <1>17 DEF DestroyPending, CloseFrame, g
  <2> QED
    BY <1>0, <1>3, <1>16, <2>2, <2>3 DEF EpollInv
<1>19. ASSUME NEW d \in Conns, InMap(d)', ClosePending(d) PROVE ClosePending(d)'
  <2>1. PICK l \in Loops : Func("closeInLoop", d) \in Pending(l)
    BY <1>19 DEF ClosePending
  <2>2. d # c => Func("closeInLoop", d) # Func("closeInLoop", c)
    BY FuncType
  <2> QED BY <1>9, <1>19, <2>1, <2>2 DEF ClosePending
<1>20. k > 0 => ~InMap(c)' \/ ClosePending(c)'
  BY <1>8, <1>9 DEF ClosePending, g
<1>21. LeavesByDestroy
  BY <1>0, <1>1, <1>17 DEF LeavesByDestroy, g
<1> QED
  BY <1>1, <1>2, <1>3, <1>10, <1>11, <1>12, <1>13, <1>14, <1>15, <1>18, <1>19, <1>20, <1>21
\* The calls of HandleClose in a callback of c, whatever they do besides.
LEMMA CloseConnectionKeeps ==
  ASSUME LifeInv, NEW c \in Conns, Alive(c), NEW n \in Nat, CloseConnection(c, n), CloseFrame(c)
  PROVE  /\ todo' \in [Loops -> Seq(Funcs)]
         /\ m_connections' \in [Fds -> Conns \cup {NoConn}]
         /\ MapInv' /\ FreshInv' /\ FdInv' /\ QueueInv' /\ OrderInv' /\ CalledInv' /\ EpollInv'
         /\ \A d \in Conns : InMap(d)' => InMap(d) /\ (ClosePending(d) => ClosePending(d)')
         /\ n > 0 => ~InMap(c)' \/ ClosePending(c)'
         /\ LeavesByDestroy
<1>1. PICK L \in Loops, o \in {"closeInLoop", "destroy"} : CloseEffect(c, L, n, o)
  BY CloseConnectionEffect DEF LifeInv
<1> QED
  BY <1>1, CloseKeeps

\* A connection that is in epoll, or whose timer is armed, is alive.
LEMMA InEpollAlive ==
  ASSUME LifeInv, NEW c \in Conns, inEpoll[c] \/ timer[c] = "armed"
  PROVE  Alive(c) /\ m_state[c] # "none"
<1>1. m_state[c] # "none"
  BY DEF LifeInv, FreshInv
<1>2. DestroyPending(c) => Queued(c)
  <2>1. m_loop[c] \in Loops /\ TypeOK
    BY DEF LifeInv, TypeOK
  <2>2. Func("destroy", c).conn = c
    BY FuncType
  <2> QED
    BY <2>1, <2>2, PendingQueued, QueuedIs DEF DestroyPending
<1> QED
  BY <1>1, <1>2, AliveIs DEF LifeInv, EpollInv

(***************************************************************************)
(* The steps that touch neither the map nor the lists.                      *)
(***************************************************************************)

LEMMA StayKeeps ==
  ASSUME LifeInv,
         UNCHANGED <<todo, copy, pos, m_connections, fd, m_loop, timer, inEpoll, m_state>>
  PROVE  /\ MapInv' /\ FreshInv' /\ FdInv' /\ QueueInv' /\ OrderInv' /\ CalledInv' /\ EpollInv'
         /\ ExpiryInv' /\ LeavesByDestroy
<1>1. \A c : (InMap(c)' <=> InMap(c)) /\ (Queued(c)' <=> Queued(c))
  BY DEF InMap, Queued
<1>2. \A c : Alive(c)' <=> Alive(c)
  BY <1>1, AliveIs
<1>3. \A l : Queue(l)' = Queue(l) /\ Pending(l)' = Pending(l)
  BY DEF Queue, Pending
<1>4. \A c : (DestroyPending(c)' <=> DestroyPending(c)) /\ (ClosePending(c)' <=> ClosePending(c))
  BY <1>3 DEF DestroyPending, ClosePending
<1> USE DEF LifeInv
<1>5. MapInv' /\ FreshInv' /\ FdInv'
  BY <1>1, <1>2 DEF MapInv, FreshInv, FdInv
<1>6. QueueInv' /\ OrderInv' /\ CalledInv'
  BY <1>1, <1>3 DEF QueueInv, OrderInv, CalledInv
<1>7. EpollInv' /\ ExpiryInv'
  BY <1>1, <1>3, <1>4 DEF EpollInv, ExpiryInv
<1> QED
  BY <1>1, <1>5, <1>6, <1>7 DEF LeavesByDestroy

LEMMA PollStep ==
  ASSUME LifeInv, NEW l \in Loops, Poll(l)
  PROVE  LifeInv' /\ LeavesByDestroy
<1> DEFINE chans == {c \in Conns : m_loop[c] = l /\ Reported(c)}
<1>1. /\ batch' = [batch EXCEPT ![l] = {[conn |-> c, ready |-> edge[c] \cap want[c]] : c \in chans}]
      /\ edge' = [c \in Conns |-> IF c \in chans THEN {} ELSE edge[c]]
      /\ phase' = [phase EXCEPT ![l] = "dispatch"] /\ phase[l] = "timers"
      /\ UNCHANGED <<todo, copy, pos, m_connections, m_state, fd, m_loop, m_closeAfterWrite,
                     timer, inEpoll, want, kind>>
  BY DEF Poll, connVars
<1>2. TypeOK /\ batch'[l] = {[conn |-> c, ready |-> edge[c] \cap want[c]] : c \in chans}
  BY <1>1 DEF LifeInv, TypeOK
<1>3. \A e \in batch'[l] : e \in Events /\ e.conn \in chans
  BY <1>2 DEF TypeOK, Events
<1>4. TypeOK'
  <2>1. batch' \in [Loops -> SUBSET Events]
    BY <1>1, <1>2, <1>3 DEF TypeOK
  <2>2. edge' \in [Conns -> SUBSET {"in", "out"}]
    BY <1>1, <1>2 DEF TypeOK
  <2> QED BY <1>1, <1>2, <2>1, <2>2 DEF TypeOK
<1>5. TurnInv'
  BY <1>1, <1>2 DEF LifeInv, TurnInv, TypeOK
<1>6. BatchInv'
  <2>1. \A k \in Loops : k # l => batch'[k] = batch[k]
    BY <1>1, <1>2 DEF TypeOK
  <2>2. \A e \in batch'[l] : inEpoll[e.conn] /\ m_loop[e.conn] = l
    BY <1>3 DEF Reported
  <2> QED BY <1>1, <2>1, <2>2 DEF LifeInv, BatchInv
<1>7. KindInv'
  BY <1>1 DEF LifeInv, KindInv
<1> QED
  BY <1>1, <1>4, <1>5, <1>6, <1>7, StayKeeps DEF LifeInv

\* A peer acts: the kernel remembers it for epoll.
LEMMA PeerStep ==
  ASSUME LifeInv, NEW c \in Conns,
         PeerReads(c) \/ \E k \in {"data", "eof", "reset"} : PeerActs(c, k)
  PROVE  LifeInv' /\ LeavesByDestroy
<1>1. UNCHANGED <<phase, batch, todo, copy, pos, m_connections, m_state, fd, m_loop,
                  m_closeAfterWrite, timer, inEpoll, want>>
  BY DEF PeerReads, PeerActs, loopVars, connVars
<1>2. TypeOK /\ KindInv
  BY DEF LifeInv
<1>3. /\ kind' \in [Conns -> Kinds] /\ edge' \in [Conns -> SUBSET {"in", "out"}]
      /\ \A d \in Conns : kind[d] = "dead" => kind'[d] = "dead"
  <2>1. CASE PeerReads(c)
    BY <1>2, <2>1 DEF PeerReads, TypeOK
  <2>2. ASSUME NEW k \in {"data", "eof", "reset"}, PeerActs(c, k)
        PROVE  /\ kind' \in [Conns -> Kinds] /\ edge' \in [Conns -> SUBSET {"in", "out"}]
               /\ \A d \in Conns : kind[d] = "dead" => kind'[d] = "dead"
    <3>1. kind' = [kind EXCEPT ![c] = k] /\ edge' = [edge EXCEPT ![c] = @ \cup {"in"}] /\ kind[c] # "dead"
      BY <2>2 DEF PeerActs
    <3>2. k \in Kinds
      BY DEF Kinds
    <3> QED BY <1>2, <3>1, <3>2 DEF TypeOK
  <2> QED BY <2>1, <2>2
<1>4. TypeOK' /\ TurnInv' /\ BatchInv' /\ KindInv'
  BY <1>1, <1>2, <1>3 DEF LifeInv, TypeOK, TurnInv, BatchInv, KindInv
<1> QED
  BY <1>1, <1>4, StayKeeps DEF LifeInv

LEMMA IgnoreEventStep ==
  ASSUME LifeInv, NEW l \in Loops, NEW e \in batch[l], IgnoreEvent(l, e)
  PROVE  LifeInv' /\ LeavesByDestroy
<1>1. /\ UNCHANGED <<phase, todo, copy, pos, m_connections, m_state, fd, m_loop,
                     m_closeAfterWrite, timer, inEpoll, want, kind, edge>>
      /\ batch' = [batch EXCEPT ![l] = @ \ {e}] /\ phase[l] = "dispatch"
  BY DEF IgnoreEvent, connVars, chanVars
<1>2. TypeOK' /\ TurnInv' /\ BatchInv' /\ KindInv'
  BY <1>1 DEF LifeInv, TypeOK, TurnInv, BatchInv, KindInv
<1> QED
  BY <1>1, <1>2, StayKeeps DEF LifeInv

(***************************************************************************)
(* The lists of functions.                                                  *)
(***************************************************************************)

LEMMA BeginTodoListStep ==
  ASSUME LifeInv, NEW l \in Loops, BeginTodoList(l)
  PROVE  LifeInv' /\ LeavesByDestroy
<1>1. /\ phase[l] = "dispatch" /\ batch[l] = {}
      /\ phase' = [phase EXCEPT ![l] = "todo"]
      /\ copy' = [copy EXCEPT ![l] = todo[l]]
      /\ todo' = [todo EXCEPT ![l] = <<>>]
      /\ UNCHANGED <<batch, pos, m_connections, m_state, fd, m_loop, m_closeAfterWrite, timer,
                     inEpoll, want, kind, edge>>
  BY DEF BeginTodoList, connVars, chanVars
<1>2. TypeOK /\ copy[l] = <<>> /\ pos[l] = 0
  BY <1>1 DEF LifeInv, TurnInv
<1>3. \A k \in Loops : /\ k # l => todo'[k] = todo[k] /\ copy'[k] = copy[k]
                       /\ todo'[l] = <<>> /\ copy'[l] = todo[l]
  BY <1>1, <1>2 DEF TypeOK
<1>4. ToSet(<<>>) = {} /\ 1..Len(<<>>) = {} /\ todo[l] \in Seq(Funcs)
  BY <1>2 DEF ToSet, TypeOK
<1>5. \A k \in Loops : Queue(k)' = Queue(k) /\ Pending(k)' = Pending(k)
  <2>1. \A k \in Loops : k # l => Queue(k)' = Queue(k) /\ Pending(k)' = Pending(k)
    BY <1>1, <1>3 DEF Queue, Pending
  <2>2. Queue(l)' = Queue(l)
    BY <1>2, <1>3, <1>4 DEF Queue
  <2>3. Pending(l)' = Pending(l)
    <3>1. Pending(l) = ToSet(todo[l])
      BY <1>2, <1>4 DEF Pending
    <3>2. Pending(l)' = {todo[l][i] : i \in 1..Len(todo[l])}
      BY <1>1, <1>2, <1>3, <1>4 DEF Pending
    <3> QED BY <1>4, <3>1, <3>2, ToSetIs
  <2> QED BY <2>1, <2>2, <2>3
<1>6. \A c \in Conns : /\ InMap(c)' <=> InMap(c)
                       /\ Queued(c)' <=> Queued(c)
                       /\ DestroyPending(c)' <=> DestroyPending(c)
                       /\ ClosePending(c)' <=> ClosePending(c)
  BY <1>1, <1>2, <1>5, QueuedIs DEF InMap, DestroyPending, ClosePending, TypeOK
<1>7. \A c \in Conns : Alive(c)' <=> Alive(c)
  BY <1>1, <1>6, AliveIs
<1> USE DEF LifeInv
<1>8. TypeOK'
  <2>1. todo' \in [Loops -> Seq(Funcs)] /\ copy' \in [Loops -> Seq(Funcs)]
    BY <1>1, <1>2, <1>4, EmptySeq DEF TypeOK
  <2>2. \A k \in Loops : pos[k] <= Len(copy'[k])
    <3>1. Len(todo[l]) \in Nat
      BY <1>4, LenProperties
    <3>2. \A k \in Loops : k # l => pos[k] <= Len(copy'[k])
      BY <1>2, <1>3 DEF TypeOK
    <3> QED BY <1>2, <1>3, <3>1, <3>2
  <2>3. phase' \in [Loops -> {"dispatch", "todo", "timers"}]
    BY <1>1, <1>2 DEF TypeOK
  <2> QED BY <1>1, <1>2, <2>1, <2>2, <2>3 DEF TypeOK
<1>9. TurnInv'
  BY <1>1, <1>2, <1>3 DEF TurnInv, TypeOK
<1>10. MapInv' /\ FreshInv' /\ FdInv' /\ BatchInv' /\ KindInv'
  BY <1>1, <1>6, <1>7 DEF MapInv, FreshInv, FdInv, BatchInv, KindInv
<1>11. QueueInv'
  <2>1. ASSUME NEW k \in Loops, NEW f \in Queue(k) PROVE f.conn \in Conns
    BY <1>2, <2>1, PendingQueued DEF Funcs
  <2> QED BY <1>1, <1>5, <1>6, <2>1 DEF QueueInv
<1>12. OrderInv'
  <2>1. DOMAIN <<>> = {}
    OBVIOUS
  <2> QED BY <1>1, <1>3, <1>4, <2>1 DEF OrderInv
<1>13. CalledInv'
  <2>1. ASSUME NEW k \in Loops, NEW i \in 1..pos'[k], copy'[k][i].op = "closeInLoop"
        PROVE  ~InMap(copy[k][i].conn)'
    <3>1. k # l /\ copy'[k] = copy[k]
      BY <1>1, <1>2, <1>3, <2>1
    <3> QED BY <1>1, <2>1, <3>1 DEF CalledInv, InMap
  <2> QED BY <2>1 DEF CalledInv
<1>14. EpollInv' /\ ExpiryInv' /\ LeavesByDestroy
  <2>1. \A c \in Conns : Pending(m_loop[c])' = Pending(m_loop[c])
    BY <1>1, <1>2, <1>5 DEF TypeOK
  <2> QED BY <1>1, <1>6, <2>1 DEF EpollInv, ExpiryInv, LeavesByDestroy
<1> QED
  BY <1>8, <1>9, <1>10, <1>11, <1>12, <1>13, <1>14
LEMMA EndTodoListStep ==
  ASSUME LifeInv, NEW l \in Loops, EndTodoList(l)
  PROVE  LifeInv' /\ LeavesByDestroy
<1>1. /\ phase[l] = "todo" /\ pos[l] = Len(copy[l])
      /\ phase' = [phase EXCEPT ![l] = "timers"]
      /\ copy' = [copy EXCEPT ![l] = <<>>]
      /\ pos' = [pos EXCEPT ![l] = 0]
      /\ UNCHANGED <<batch, todo, m_connections, m_state, fd, m_loop, m_closeAfterWrite, timer,
                     inEpoll, want, kind, edge>>
  BY DEF EndTodoList, connVars, chanVars
<1>2. TypeOK
  BY DEF LifeInv
<1>3. \A k \in Loops : /\ k # l => pos'[k] = pos[k] /\ copy'[k] = copy[k]
                       /\ pos'[l] = 0 /\ copy'[l] = <<>>
  BY <1>1, <1>2 DEF TypeOK
<1>4. ToSet(<<>>) = {} /\ Len(<<>>) = 0 /\ DOMAIN <<>> = {}
  BY DEF ToSet
<1>5. \A k \in Loops : Queue(k)' \subseteq Queue(k) /\ Pending(k)' = Pending(k)
  <2>1. \A k \in Loops : k # l => Queue(k)' = Queue(k) /\ Pending(k)' = Pending(k)
    BY <1>1, <1>3 DEF Queue, Pending
  <2>2. Queue(l)' \subseteq Queue(l)
    BY <1>1, <1>3, <1>4 DEF Queue
  <2>3. Pending(l)' = ToSet(todo[l])
    BY <1>1, <1>3, <1>4 DEF Pending
  <2>4. Pending(l) = ToSet(todo[l])
    <3>1. pos[l] \in Nat /\ (pos[l] + 1)..Len(copy[l]) = {}
      BY <1>1, <1>2 DEF TypeOK
    <3> QED BY <3>1 DEF Pending
  <2> QED BY <2>1, <2>2, <2>3, <2>4
<1>6. \A c \in Conns : /\ InMap(c)' <=> InMap(c)
                       /\ Queued(c)' => Queued(c)
                       /\ DestroyPending(c)' <=> DestroyPending(c)
                       /\ ClosePending(c)' <=> ClosePending(c)
  BY <1>1, <1>2, <1>5, QueuedIs DEF InMap, DestroyPending, ClosePending, TypeOK
<1>7. \A c \in Conns : Alive(c)' => Alive(c)
  BY <1>1, <1>6, AliveIs
<1> USE DEF LifeInv
<1>8. TypeOK'
  <2>1. copy' \in [Loops -> Seq(Funcs)] /\ pos' \in [Loops -> Nat]
    BY <1>1, <1>2, EmptySeq DEF TypeOK
  <2>2. \A k \in Loops : pos'[k] <= Len(copy'[k])
    <3>1. \A k \in Loops : k # l => pos'[k] <= Len(copy'[k])
      BY <1>2, <1>3 DEF TypeOK
    <3> QED BY <1>3, <1>4, <3>1
  <2>3. phase' \in [Loops -> {"dispatch", "todo", "timers"}]
    BY <1>1, <1>2 DEF TypeOK
  <2> QED BY <1>1, <1>2, <2>1, <2>2, <2>3 DEF TypeOK
<1>9. TurnInv'
  BY <1>1, <1>2, <1>3 DEF TurnInv, TypeOK
<1>10. MapInv' /\ FreshInv' /\ FdInv' /\ BatchInv' /\ KindInv'
  BY <1>1, <1>6, <1>7 DEF MapInv, FreshInv, FdInv, BatchInv, KindInv
<1>11. QueueInv'
  <2>1. ASSUME NEW k \in Loops, NEW f \in Queue(k) PROVE f.conn \in Conns
    BY <1>2, <2>1, PendingQueued DEF Funcs
  <2> QED BY <1>1, <1>5, <1>6, <2>1 DEF QueueInv
<1>12. OrderInv'
  BY <1>1, <1>3, <1>4 DEF OrderInv
<1>13. CalledInv'
  <2>1. ASSUME NEW k \in Loops, NEW i \in 1..pos'[k], copy'[k][i].op = "closeInLoop"
        PROVE  ~InMap(copy[k][i].conn)'
    <3>1. k # l /\ copy'[k] = copy[k] /\ pos'[k] = pos[k]
      BY <1>3, <2>1
    <3> QED BY <1>1, <2>1, <3>1 DEF CalledInv, InMap
  <2> QED BY <2>1 DEF CalledInv
<1>14. EpollInv' /\ ExpiryInv' /\ LeavesByDestroy
  <2>1. \A c \in Conns : Pending(m_loop[c])' = Pending(m_loop[c])
    BY <1>1, <1>2, <1>5 DEF TypeOK
  <2> QED BY <1>1, <1>6, <2>1 DEF EpollInv, ExpiryInv, LeavesByDestroy
<1> QED
  BY <1>8, <1>9, <1>10, <1>11, <1>12, <1>13, <1>14

\* A function that is called is kept alive, and its connection with it.
LEMMA CallNextFacts ==
  ASSUME LifeInv, NEW l \in Loops, NEW o \in {"establish", "closeInLoop", "destroy"},
         CallNext(l, o), NEW c, c = copy[l][pos[l] + 1].conn
  PROVE  /\ c \in Conns /\ copy[l][pos[l] + 1] = Func(o, c)
         /\ Func(o, c) \in Queue(l) /\ Func(o, c) \in Pending(l)
         /\ Alive(c) /\ m_state[c] # "none"
         /\ pos' \in [Loops -> Nat] /\ pos'[l] = pos[l] + 1 /\ pos'[l] <= Len(copy[l])
         /\ \A k \in Loops : k # l => pos'[k] = pos[k]
         /\ \A k \in Loops : \A g \in Pending(k) \ {Func(o, c)} :
              g \in ToSet(todo[k]) \cup {copy[k][i] : i \in (pos'[k] + 1)..Len(copy[k])}
<1> DEFINE f == copy[l][pos[l] + 1]
<1>1. /\ TypeOK /\ pos[l] \in Nat /\ copy[l] \in Seq(Funcs) /\ Len(copy[l]) \in Nat
      /\ pos[l] < Len(copy[l]) /\ pos' = [pos EXCEPT ![l] = pos[l] + 1] /\ f.op = o
  BY LenProperties DEF LifeInv, TypeOK, CallNext
<1>2. pos[l] + 1 \in 1..Len(copy[l]) /\ pos[l] + 1 \in (pos[l] + 1)..Len(copy[l])
  BY <1>1
<1>3. f \in Funcs
  BY <1>1, <1>2, ElementOfSeq
<1>4. c \in Conns /\ f = Func(o, c)
  BY <1>1, <1>3 DEF Funcs, Func
<1>5. f \in Pending(l)
  BY <1>2 DEF Pending
<1>6. f \in Queue(l)
  BY <1>1, <1>5, PendingQueued
<1>7. Queued(c)
  BY <1>6, QueuedIs
<1>8. Alive(c) /\ m_state[c] # "none"
  BY <1>4, <1>7, AliveIs DEF LifeInv, FreshInv
<1>9. /\ pos' \in [Loops -> Nat] /\ pos'[l] = pos[l] + 1 /\ pos'[l] <= Len(copy[l])
      /\ \A k \in Loops : k # l => pos'[k] = pos[k]
  BY <1>1 DEF TypeOK
<1>10. ASSUME NEW k \in Loops, NEW g \in Pending(k), g # f
       PROVE  g \in ToSet(todo[k]) \cup {copy[k][i] : i \in (pos'[k] + 1)..Len(copy[k])}
  <2>1. CASE k # l
    BY <1>9, <1>10, <2>1 DEF Pending
  <2>2. CASE k = l
    BY <1>1, <1>9, <1>10, <2>2 DEF Pending
  <2> QED BY <2>1, <2>2
<1> QED
  BY <1>4, <1>5, <1>6, <1>8, <1>9, <1>10
\* What a called function of c leaves pending, and what it does not bring back.
LEMMA CalledPending ==
  ASSUME LifeInv, NEW l \in Loops, NEW o \in {"establish", "closeInLoop", "destroy"},
         CallNext(l, o), NEW c, c = copy[l][pos[l] + 1].conn,
         UNCHANGED <<todo, m_loop>>
  PROVE  \A k \in Loops : /\ Queue(k)' = Queue(k)
                          /\ Pending(k)' \subseteq Pending(k)
                          /\ Pending(k) \ {Func(o, c)} \subseteq Pending(k)'
<1>1. copy' = copy /\ TypeOK
  BY DEF CallNext, LifeInv
<1>2. /\ \A k \in Loops : k # l => pos'[k] = pos[k]
      /\ pos'[l] = pos[l] + 1
      /\ \A k \in Loops : \A g \in Pending(k) \ {Func(o, c)} :
           g \in ToSet(todo[k]) \cup {copy[k][i] : i \in (pos'[k] + 1)..Len(copy[k])}
  BY CallNextFacts
<1>3. \A k \in Loops : Queue(k)' = Queue(k)
  BY <1>1 DEF Queue
<1>4. \A k \in Loops : Pending(k)' = ToSet(todo[k]) \cup {copy[k][i] : i \in (pos'[k] + 1)..Len(copy[k])}
  BY <1>1 DEF Pending
<1>5. \A k \in Loops : pos[k] \in Nat /\ (pos'[k] = pos[k] \/ pos'[k] = pos[k] + 1)
  BY <1>1, <1>2 DEF TypeOK
<1>6. ASSUME NEW k \in Loops PROVE Pending(k)' \subseteq Pending(k)
  <2>1. (pos'[k] + 1)..Len(copy[k]) \subseteq (pos[k] + 1)..Len(copy[k])
    <3>1. Len(copy[k]) \in Nat
      BY <1>1, LenProperties DEF TypeOK
    <3> QED BY <1>5, <3>1
  <2>2. {copy[k][i] : i \in (pos'[k] + 1)..Len(copy[k])} \subseteq {copy[k][i] : i \in (pos[k] + 1)..Len(copy[k])}
    BY <2>1
  <2> QED BY <1>4, <2>2 DEF Pending
<1> QED
  BY <1>2, <1>3, <1>4, <1>6

LEMMA EstablishStep ==
  ASSUME LifeInv, NEW l \in Loops, EstablishConnection(l)
  PROVE  LifeInv' /\ LeavesByDestroy
<1>0. PICK c : c = copy[l][pos[l] + 1].conn
  OBVIOUS
<1>1. /\ CallNext(l, "establish") /\ Establish(c) /\ copy' = copy /\ phase' = phase
      /\ UNCHANGED <<batch, todo, m_connections, m_state, fd, m_loop, m_closeAfterWrite, kind>>
  BY <1>0 DEF EstablishConnection, CallNext, connVars
<1>2. TypeOK
  BY DEF LifeInv
<1>3. /\ c \in Conns /\ copy[l][pos[l] + 1] = Func("establish", c)
      /\ Func("establish", c) \in Queue(l) /\ Func("establish", c) \in Pending(l)
      /\ Alive(c) /\ m_state[c] # "none"
      /\ pos' \in [Loops -> Nat] /\ pos'[l] = pos[l] + 1 /\ pos'[l] <= Len(copy[l])
      /\ \A k \in Loops : k # l => pos'[k] = pos[k]
  BY <1>0, <1>1, CallNextFacts
<1>4. \A k \in Loops : /\ Queue(k)' = Queue(k)
                       /\ Pending(k)' \subseteq Pending(k)
                       /\ Pending(k) \ {Func("establish", c)} \subseteq Pending(k)'
  BY <1>0, <1>1, CalledPending
<1>5. m_loop[c] = l /\ inEpoll[c]
  BY <1>2, <1>3, FuncType DEF LifeInv, QueueInv, EpollInv
<1>6. inEpoll' = inEpoll /\ timer' = [timer EXCEPT ![c] = "armed"]
  BY <1>1, <1>2, <1>3, <1>5 DEF Establish, TypeOK
<1>7. want' \in [Conns -> SUBSET {"in", "out"}] /\ edge' \in [Conns -> SUBSET {"in", "out"}]
  BY <1>1, <1>2, <1>3 DEF Establish, TypeOK
<1>8. \A d \in Conns : /\ InMap(d)' <=> InMap(d)
                       /\ Queued(d)' <=> Queued(d)
                       /\ DestroyPending(d) => DestroyPending(d)'
                       /\ ClosePending(d) => ClosePending(d)'
                       /\ timer'[d] = "armed" => timer[d] = "armed" \/ d = c
                       /\ timer'[d] # "none" => timer[d] # "none" \/ d = c
  <2>1. \A d \in Conns : Func("destroy", d) # Func("establish", c) /\ Func("closeInLoop", d) # Func("establish", c)
    BY <1>3, FuncType
  <2> QED BY <1>1, <1>2, <1>3, <1>4, <1>6, <2>1, QueuedIs
          DEF InMap, DestroyPending, ClosePending, TypeOK
<1>9. \A d \in Conns : Alive(d)' => Alive(d)
  BY <1>1, <1>3, <1>8, AliveIs
<1> USE DEF LifeInv
<1>10. TypeOK'
  <2>1. \A k \in Loops : pos'[k] <= Len(copy[k])
    BY <1>2, <1>3 DEF TypeOK
  <2> QED BY <1>1, <1>2, <1>3, <1>6, <1>7, <2>1 DEF TypeOK
<1>11. TurnInv'
  <2>1. phase[l] = "todo"
    BY <1>1 DEF CallNext
  <2> QED BY <1>1, <1>3, <2>1 DEF TurnInv
<1>12. MapInv' /\ FreshInv' /\ FdInv' /\ BatchInv' /\ KindInv'
  BY <1>1, <1>3, <1>6, <1>8, <1>9 DEF MapInv, FreshInv, FdInv, BatchInv, KindInv
<1>13. QueueInv'
  <2>1. ASSUME NEW k \in Loops, NEW f \in Queue(k) PROVE f.conn \in Conns
    BY <1>2, <2>1, PendingQueued DEF Funcs
  <2> QED BY <1>1, <1>4, <1>8, <2>1 DEF QueueInv
<1>14. OrderInv'
  BY <1>1 DEF OrderInv
<1>15. CalledInv'
  <2>1. ASSUME NEW k \in Loops, NEW i \in 1..pos'[k], copy[k][i].op = "closeInLoop"
        PROVE  ~InMap(copy[k][i].conn)'
    <3>1. pos[k] \in Nat
      BY <1>2 DEF TypeOK
    <3>2. i \in 1..pos[k]
      BY <1>3, <2>1, <3>1, FuncType
    <3> QED BY <1>1, <2>1, <3>2 DEF CalledInv, InMap
  <2> QED BY <1>1, <2>1 DEF CalledInv
<1>16. EpollInv'
  BY <1>1, <1>2, <1>4, <1>6, <1>8 DEF EpollInv, TypeOK
<1>17. ExpiryInv' /\ LeavesByDestroy
  BY <1>1, <1>2, <1>3, <1>6, <1>8 DEF ExpiryInv, LeavesByDestroy, TypeOK
<1> QED
  BY <1>10, <1>11, <1>12, <1>13, <1>14, <1>15, <1>16, <1>17

LEMMA CloseConnectionInLoopStep ==
  ASSUME LifeInv, NEW l \in Loops, CloseConnectionInLoop(l)
  PROVE  LifeInv' /\ LeavesByDestroy
<1>0. PICK c : c = copy[l][pos[l] + 1].conn
  OBVIOUS
<1>1. /\ CallNext(l, "closeInLoop") /\ CloseInLoop(c, 1) /\ copy' = copy /\ phase' = phase
      /\ UNCHANGED <<batch, m_state, fd, m_loop, m_closeAfterWrite, timer, inEpoll, want, kind, edge>>
  BY <1>0 DEF CloseConnectionInLoop, CallNext, connVars, chanVars
<1>2. TypeOK
  BY DEF LifeInv
<1>3. /\ c \in Conns /\ copy[l][pos[l] + 1] = Func("closeInLoop", c)
      /\ Alive(c)
      /\ pos' \in [Loops -> Nat] /\ pos'[l] = pos[l] + 1 /\ pos'[l] <= Len(copy[l])
      /\ \A k \in Loops : k # l => pos'[k] = pos[k]
  BY <1>0, <1>1, CallNextFacts
<1>4. CloseEffect(c, m_loop[c], 1, "destroy")
  BY <1>1, <1>2, <1>3, CloseInLoopEffect
<1>5. ~InMap(c)'
  <2>1. m_connections' = [m_connections EXCEPT ![fd[c]] = NoConn]
    BY <1>4 DEF CloseEffect
  <2>2. fd[c] \in Fds /\ m_connections'[fd[c]] = NoConn /\ fd' = fd
    BY <1>1, <1>2, <1>3, <2>1 DEF TypeOK
  <2> QED BY <1>3, <2>2, LoopsAssumption DEF InMap
<1>6. CloseFrame(c)
  BY <1>1, <1>2, <1>3, <1>5 DEF CloseFrame, TypeOK
<1>7. /\ todo' \in [Loops -> Seq(Funcs)]
      /\ m_connections' \in [Fds -> Conns \cup {NoConn}]
      /\ MapInv' /\ FreshInv' /\ FdInv' /\ QueueInv' /\ OrderInv' /\ CalledInv' /\ EpollInv'
      /\ \A d \in Conns : InMap(d)' => InMap(d) /\ (ClosePending(d) => ClosePending(d)')
      /\ LeavesByDestroy
  BY <1>2, <1>3, <1>4, <1>6, CloseKeeps DEF TypeOK
<1> USE DEF LifeInv
<1>8. TypeOK'
  <2>1. \A k \in Loops : pos'[k] <= Len(copy[k])
    BY <1>2, <1>3 DEF TypeOK
  <2> QED BY <1>1, <1>2, <1>3, <1>7, <2>1 DEF TypeOK
<1>9. TurnInv'
  <2>1. phase[l] = "todo"
    BY <1>1 DEF CallNext
  <2> QED BY <1>1, <1>3, <2>1 DEF TurnInv
<1>10. BatchInv' /\ KindInv' /\ ExpiryInv'
  BY <1>1, <1>7 DEF BatchInv, KindInv, ExpiryInv
<1> QED
  BY <1>7, <1>8, <1>9, <1>10

LEMMA DestroyStep ==
  ASSUME LifeInv, NEW l \in Loops, DestroyConnection(l)
  PROVE  LifeInv' /\ LeavesByDestroy
<1>0. PICK c : c = copy[l][pos[l] + 1].conn
  OBVIOUS
<1>1. /\ CallNext(l, "destroy") /\ copy' = copy /\ phase' = phase
      /\ want' = [want EXCEPT ![c] = {}]
      /\ inEpoll' = [inEpoll EXCEPT ![c] = FALSE]
      /\ edge' = [edge EXCEPT ![c] = {}]
      /\ m_state' = [m_state EXCEPT ![c] = "Closed"]
      /\ UNCHANGED <<batch, todo, m_connections, fd, m_loop, timer>>
  BY <1>0 DEF DestroyConnection, CallNext, Removed
<1>2. TypeOK
  BY DEF LifeInv
<1>3. /\ c \in Conns /\ copy[l][pos[l] + 1] = Func("destroy", c)
      /\ Func("destroy", c) \in Queue(l) /\ Func("destroy", c) \in Pending(l)
      /\ Alive(c) /\ m_state[c] # "none"
      /\ pos' \in [Loops -> Nat] /\ pos'[l] = pos[l] + 1 /\ pos'[l] <= Len(copy[l])
      /\ \A k \in Loops : k # l => pos'[k] = pos[k]
  BY <1>0, <1>1, CallNextFacts
<1>4. \A k \in Loops : /\ Queue(k)' = Queue(k)
                       /\ Pending(k)' \subseteq Pending(k)
                       /\ Pending(k) \ {Func("destroy", c)} \subseteq Pending(k)'
  BY <1>0, <1>1, CalledPending
<1>5. /\ kind' \in [Conns -> Kinds] /\ m_closeAfterWrite' \in [Conns -> BOOLEAN]
      /\ \A d \in Conns : d # c => kind'[d] = kind[d]
  <2> DEFINE eventLeft == \E e \in batch[m_loop[c]] : e.conn = c
  <2>1. /\ kind' = [kind EXCEPT ![c] = IF eventLeft THEN @ ELSE "quiet"]
        /\ m_closeAfterWrite' = [m_closeAfterWrite EXCEPT ![c] = @ /\ eventLeft]
    BY <1>0 DEF DestroyConnection
  <2> HIDE DEF eventLeft
  <2>2. "quiet" \in Kinds
    BY DEF Kinds
  <2>3. kind' \in [Conns -> Kinds] /\ \A d \in Conns : d # c => kind'[d] = kind[d]
    BY <1>2, <1>3, <2>1, <2>2 DEF TypeOK
  <2>4. m_closeAfterWrite' \in [Conns -> BOOLEAN]
    BY <1>2, <1>3, <2>1 DEF TypeOK
  <2> QED BY <2>3, <2>4
<1>6. m_loop[c] = l /\ ~InMap(c) /\ batch[l] = {}
  <2>1. m_loop[c] = l /\ ~InMap(c)
    BY <1>2, <1>3, FuncType DEF LifeInv, QueueInv
  <2>2. phase[l] = "todo"
    BY <1>1 DEF CallNext
  <2> QED BY <2>1, <2>2 DEF LifeInv, TurnInv
<1>7. Func("establish", c) \notin Pending(l)'
  <2>1. pos[l] + 1 \in DOMAIN copy[l] /\ pos[l] \in Nat /\ copy[l] \in Seq(Funcs)
    BY <1>2, <1>3, LenProperties DEF TypeOK
  <2>2. Func("establish", c) \notin ToSet(todo[l])
    <3>1. Func("destroy", c) \in ToSet(copy[l])
      BY <1>3, <2>1 DEF ToSet
    <3> QED BY <1>3, <3>1 DEF LifeInv, OrderInv
  <2>3. ASSUME NEW i \in (pos'[l] + 1)..Len(copy[l]), copy[l][i] = Func("establish", c)
        PROVE  FALSE
    <3>1. i \in DOMAIN copy[l] /\ ~(i < pos[l] + 1)
      BY <1>3, <2>1, LenProperties
    <3> QED BY <1>3, <2>1, <2>3, <3>1 DEF LifeInv, OrderInv
  <2> QED BY <1>1, <2>2, <2>3 DEF Pending
<1>8. \A d \in Conns : /\ InMap(d)' <=> InMap(d)
                       /\ Queued(d)' <=> Queued(d)
                       /\ d # c => inEpoll'[d] = inEpoll[d] /\ m_state'[d] = m_state[d]
                       /\ ~inEpoll'[c] /\ m_state'[c] = "Closed"
  <2>1. \A d \in Conns : d # c => inEpoll'[d] = inEpoll[d] /\ m_state'[d] = m_state[d]
    BY <1>1, <1>2, <1>3 DEF TypeOK
  <2>2. ~inEpoll'[c] /\ m_state'[c] = "Closed"
    BY <1>1, <1>2, <1>3 DEF TypeOK
  <2>3. \A d \in Conns : (InMap(d)' <=> InMap(d)) /\ (Queued(d)' <=> Queued(d))
    BY <1>1, <1>4, QueuedIs DEF InMap
  <2> QED BY <2>1, <2>2, <2>3
<1>9. \A d \in Conns : /\ d # c /\ DestroyPending(d) => DestroyPending(d)'
                       /\ ClosePending(d) => ClosePending(d)'
  <2>1. \A d \in Conns : d # c => Func("destroy", d) # Func("destroy", c)
    BY <1>3, FuncType
  <2>2. \A d \in Conns : Func("closeInLoop", d) # Func("destroy", c)
    BY <1>3, FuncType
  <2>3. \A d \in Conns : m_loop[d] \in Loops /\ m_loop'[d] = m_loop[d]
    BY <1>1, <1>2 DEF TypeOK
  <2>4. \A d \in Conns : d # c /\ DestroyPending(d) => DestroyPending(d)'
    BY <1>4, <2>1, <2>3 DEF DestroyPending
  <2>5. \A d \in Conns : ClosePending(d) => ClosePending(d)'
    BY <1>4, <2>2 DEF ClosePending
  <2> QED BY <2>4, <2>5
<1>10. \A d \in Conns : Alive(d)' => Alive(d)
  BY <1>1, <1>3, <1>8, AliveIs
<1> USE DEF LifeInv
<1>11. TypeOK'
  <2>1. \A k \in Loops : pos'[k] <= Len(copy[k])
    BY <1>2, <1>3 DEF TypeOK
  <2>2. /\ want' \in [Conns -> SUBSET {"in", "out"}] /\ edge' \in [Conns -> SUBSET {"in", "out"}]
        /\ inEpoll' \in [Conns -> BOOLEAN]
        /\ m_state' \in [Conns -> {"none", "Connected", "Failed", "Closed"}]
    BY <1>1, <1>2, <1>3 DEF TypeOK
  <2> QED BY <1>1, <1>2, <1>3, <1>5, <2>1, <2>2 DEF TypeOK
<1>12. TurnInv'
  <2>1. phase[l] = "todo"
    BY <1>1 DEF CallNext
  <2> QED BY <1>1, <1>3, <2>1 DEF TurnInv
<1>13. MapInv' /\ FreshInv' /\ FdInv' /\ KindInv'
  <2>1. MapInv'
    BY <1>1 DEF MapInv
  <2>2. FreshInv'
    BY <1>1, <1>3, <1>5, <1>8 DEF FreshInv
  <2>3. FdInv'
    BY <1>1, <1>10 DEF FdInv
  <2>4. KindInv'
    BY <1>1, <1>3, <1>5, <1>8 DEF KindInv
  <2> QED BY <2>1, <2>2, <2>3, <2>4
<1>14. BatchInv'
  <2>1. ASSUME NEW k \in Loops, NEW e \in batch[k] PROVE e.conn \in Conns /\ e.conn # c
    BY <1>2, <1>6, <2>1 DEF BatchInv, TypeOK, Events
  <2> QED BY <1>1, <1>8, <2>1 DEF BatchInv
<1>15. QueueInv'
  <2>1. ASSUME NEW k \in Loops, NEW f \in Queue(k) PROVE f.conn \in Conns
    BY <1>2, <2>1, PendingQueued DEF Funcs
  <2>2. \A d \in Conns : InMap(d)' <=> InMap(d)
    BY <1>8
  <2> QED BY <1>1, <1>4, <2>1, <2>2 DEF QueueInv
<1>16. OrderInv'
  BY <1>1 DEF OrderInv
<1>17. CalledInv'
  <2>1. ASSUME NEW k \in Loops, NEW i \in 1..pos'[k], copy[k][i].op = "closeInLoop"
        PROVE  ~InMap(copy[k][i].conn)'
    <3>1. pos[k] \in Nat
      BY <1>2 DEF TypeOK
    <3>2. i \in 1..pos[k]
      BY <1>3, <2>1, <3>1, FuncType
    <3> QED BY <1>1, <2>1, <3>2 DEF CalledInv, InMap
  <2> QED BY <1>1, <2>1 DEF CalledInv
<1>18. EpollInv'
  <2> SUFFICES ASSUME NEW d \in Conns
        PROVE /\ InMap(d)' => inEpoll'[d]
              /\ inEpoll'[d] => InMap(d)' \/ DestroyPending(d)'
              /\ Func("establish", d) \in Pending(m_loop[d])' => inEpoll'[d]
    BY DEF EpollInv
  <2>1. CASE d = c
    BY <1>1, <1>3, <1>6, <1>7, <1>8, <2>1
  <2>2. CASE d # c
    <3>1. Pending(m_loop[d])' \subseteq Pending(m_loop[d])
      BY <1>1, <1>2, <1>4 DEF TypeOK
    <3>2. /\ InMap(d) => inEpoll[d]
          /\ inEpoll[d] => InMap(d) \/ DestroyPending(d)
          /\ Func("establish", d) \in Pending(m_loop[d]) => inEpoll[d]
      BY DEF EpollInv
    <3>3. (InMap(d)' <=> InMap(d)) /\ inEpoll'[d] = inEpoll[d] /\ (DestroyPending(d) => DestroyPending(d)')
      BY <1>8, <1>9, <2>2
    <3> QED BY <3>1, <3>2, <3>3
  <2> QED BY <2>1, <2>2
<1>19. ExpiryInv' /\ LeavesByDestroy
  <2>1. \A d \in Conns : (InMap(d)' <=> InMap(d)) /\ (m_state[d] = "Closed" => m_state'[d] = "Closed")
    BY <1>8
  <2>2. LeavesByDestroy
    BY <2>1 DEF LeavesByDestroy
  <2>3. \A d \in Conns : ClosePending(d) => ClosePending(d)'
    BY <1>9
  <2> QED BY <1>1, <2>1, <2>2, <2>3 DEF ExpiryInv
<1> QED
  BY <1>11, <1>12, <1>13, <1>14, <1>15, <1>16, <1>17, <1>18, <1>19
(***************************************************************************)
(* The callbacks.                                                           *)
(***************************************************************************)

LEMMA RunTimerStep ==
  ASSUME LifeInv, NEW l \in Loops, NEW c \in Conns, RunTimer(l, c)
  PROVE  LifeInv' /\ LeavesByDestroy
<1> DEFINE n == IF MayClose(m_state[c]) THEN 1 ELSE 0
<1>1. /\ timer[c] = "armed" /\ timer' = [timer EXCEPT ![c] = "run"] /\ CloseConnection(c, n)
      /\ UNCHANGED <<phase, batch, copy, pos, m_state, fd, m_loop, m_closeAfterWrite,
                     inEpoll, want, kind, edge>>
  BY DEF RunTimer, loopVars, connVars, chanVars
<1>2. TypeOK /\ n \in Nat
  BY DEF LifeInv
<1>3. Alive(c)
  BY <1>1, InEpollAlive
<1>4. CloseFrame(c)
  BY <1>1, <1>2 DEF CloseFrame, TypeOK
<1>5. /\ todo' \in [Loops -> Seq(Funcs)]
      /\ m_connections' \in [Fds -> Conns \cup {NoConn}]
      /\ MapInv' /\ FreshInv' /\ FdInv' /\ QueueInv' /\ OrderInv' /\ CalledInv' /\ EpollInv'
      /\ \A d \in Conns : InMap(d)' => InMap(d) /\ (ClosePending(d) => ClosePending(d)')
      /\ n > 0 => ~InMap(c)' \/ ClosePending(c)'
      /\ LeavesByDestroy
  <2> HIDE DEF n
  <2> QED BY <1>1, <1>2, <1>3, <1>4, CloseConnectionKeeps
<1> USE DEF LifeInv
<1>6. TypeOK' /\ TurnInv' /\ BatchInv' /\ KindInv'
  BY <1>1, <1>2, <1>5 DEF TypeOK, TurnInv, BatchInv, KindInv
<1>7. ExpiryInv'
  <2>1. \A d \in Conns : d # c => timer'[d] = timer[d]
    BY <1>1, <1>2 DEF TypeOK
  <2>2. InMap(c)' => ClosePending(c)' \/ m_state[c] = "Closed"
    BY <1>5 DEF MayClose
  <2> QED BY <1>1, <1>5, <2>1, <2>2 DEF ExpiryInv
<1> QED
  BY <1>5, <1>6, <1>7

LEMMA ClosingWritesType ==
  ASSUME NEW ws, NEW caw, DOMAIN ws \in SUBSET (1..2)
  PROVE  ClosingWrites(ws, caw) \in Nat
<1>1. IsFiniteSet(1..2)
  <2>1. \A n \in Nat : IsFiniteSet(1..n)
    BY FS_Interval
  <2> QED BY <2>1
<1>2. {i \in DOMAIN ws : ws[i] = "error" \/ (ws[i] = "done" /\ caw)} \in SUBSET (1..2)
  OBVIOUS
<1> QED
  BY <1>1, <1>2, FS_Subset, FS_CardinalityType DEF ClosingWrites

LEMMA WantAfterType ==
  ASSUME NEW s \in SUBSET {"in", "out"}, NEW w \in WriteEnds
  PROVE  WantAfter(s, w) \in SUBSET {"in", "out"}
BY DEF WantAfter, WriteEnds

\* The writes of one callback.
LEMMA WritesType ==
  ASSUME NEW p \in Outcomes, NEW ws \in Writes(p), NEW s \in SUBSET {"in", "out"}
  PROVE  DOMAIN ws \in SUBSET (1..2) /\ WantAfterAll(s, ws) \in SUBSET {"in", "out"}
<1>1. ws = <<>> \/ (\E w \in WriteEnds : ws = <<w>>) \/ (\E v, w \in WriteEnds : ws = <<v, w>>)
  BY DEF Outcomes, Writes
<1>2. CASE ws = <<>>
  BY <1>2 DEF WantAfterAll
<1>3. ASSUME NEW w \in WriteEnds, ws = <<w>>
      PROVE  DOMAIN ws \in SUBSET (1..2) /\ WantAfterAll(s, ws) \in SUBSET {"in", "out"}
  <2>1. Len(ws) = 1 /\ ws[1] = w /\ DOMAIN ws = 1..1
    BY <1>3
  <2>2. WantAfterAll(s, ws) = WantAfter(s, w)
    BY <2>1 DEF WantAfterAll
  <2> QED BY <2>1, <2>2, WantAfterType
<1>4. ASSUME NEW v \in WriteEnds, NEW w \in WriteEnds, ws = <<v, w>>
      PROVE  DOMAIN ws \in SUBSET (1..2) /\ WantAfterAll(s, ws) \in SUBSET {"in", "out"}
  <2>1. Len(ws) = 2 /\ ws[1] = v /\ ws[2] = w /\ DOMAIN ws = 1..2
    BY <1>4
  <2>2. WantAfterAll(s, ws) = WantAfter(WantAfter(s, v), w)
    BY <2>1 DEF WantAfterAll
  <2> QED BY <2>1, <2>2, WantAfterType
<1> QED
  BY <1>1, <1>2, <1>3, <1>4

\* A channel that is in epoll stays there, and its types hold.
LEMMA ChannelAfterKeeps ==
  ASSUME TypeOK, NEW c \in Conns, inEpoll[c], NEW ws, NEW k \in Kinds, ChannelAfter(c, ws, k),
         WantAfterAll(want[c], ws) \in SUBSET {"in", "out"}
  PROVE  /\ inEpoll' = inEpoll
         /\ want' \in [Conns -> SUBSET {"in", "out"}]
         /\ kind' \in [Conns -> Kinds]
         /\ edge' \in [Conns -> SUBSET {"in", "out"}]
         /\ kind'[c] \in {k, "dead"}
         /\ \A d \in Conns : d # c => kind'[d] = kind[d]
<1> DEFINE rearmed == "blocked" \in ToSet(ws) \/ ("out" \in want[c] /\ "done" \in ToSet(ws))
<1>1. /\ want' = [want EXCEPT ![c] = WantAfterAll(want[c], ws)]
      /\ inEpoll' = [inEpoll EXCEPT ![c] = inEpoll[c] \/ rearmed]
      /\ kind' = [kind EXCEPT ![c] = IF "error" \in ToSet(ws) THEN "dead" ELSE k]
      /\ edge' = [edge EXCEPT ![c] = IF rearmed /\ kind'[c] # "quiet" THEN edge[c] \cup {"in"} ELSE edge[c]]
  BY DEF ChannelAfter, TypeOK
<1> HIDE DEF rearmed
<1>2. "dead" \in Kinds
  BY DEF Kinds
<1>3. inEpoll' = inEpoll
  BY <1>1 DEF TypeOK
<1>4. want' \in [Conns -> SUBSET {"in", "out"}]
  BY <1>1 DEF TypeOK
<1>5. /\ kind' \in [Conns -> Kinds] /\ kind'[c] \in {k, "dead"}
      /\ \A d \in Conns : d # c => kind'[d] = kind[d]
  BY <1>1, <1>2 DEF TypeOK
<1>6. edge' \in [Conns -> SUBSET {"in", "out"}]
  BY <1>1 DEF TypeOK
<1> QED
  BY <1>3, <1>4, <1>5, <1>6

LEMMA HandleRequestStep ==
  ASSUME LifeInv, NEW l \in Loops, NEW e \in batch[l], HandleRequest(l, e)
  PROVE  LifeInv' /\ LeavesByDestroy
<1> DEFINE c == e.conn
           k == kind[c]
<1>1. /\ TypeOK /\ c \in Conns /\ k \in Kinds /\ inEpoll[c] /\ m_loop[c] = l
      /\ e \in Events
  BY DEF LifeInv, TypeOK, BatchInv, Events
<1>2. Alive(c) /\ m_state[c] \in {"Connected", "Failed", "Closed"}
  BY <1>1, InEpollAlive DEF TypeOK
<1>3. PICK p, ws, k2 :
        p \in OutcomesOf(c) /\ ws \in Writes(p) /\ k2 \in Kinds /\
        LET tooLarge == p = "tooLarge"
            s1 == IF tooLarge THEN m_state[c] ELSE StateAfterRead(m_state[c], k)
            s2 == IF p \in {"bad", "tooLarge"} THEN "Failed" ELSE s1
            caw == m_closeAfterWrite[c] \/ p \in {"close", "bad", "tooLarge"}
            atEof == k \in {"eof", "ended", "dead"} /\ ~tooLarge /\ MayClose(m_state[c])
        IN  /\ m_state' = [m_state EXCEPT ![c] = s2]
            /\ m_closeAfterWrite' = [m_closeAfterWrite EXCEPT ![c] = caw]
            /\ CloseConnection(c, (IF atEof THEN 1 ELSE 0)
                                  + IF MayClose(s2) THEN ClosingWrites(ws, caw) ELSE 0)
            /\ ChannelAfter(c, ws, k2)
            /\ ~tooLarge /\ k \in {"reset", "dead"} => k2 = "dead"
  <2> DEFINE K2(q) == CASE q = "tooLarge" -> k
                        [] k = "data" -> "quiet"
                        [] k = "eof" -> "ended"
                        [] k = "reset" -> "dead"
                        [] OTHER -> k
  <2>1. \A q : K2(q) \in Kinds /\ (q # "tooLarge" /\ k \in {"reset", "dead"} => K2(q) = "dead")
    BY <1>1 DEF Kinds
  <2> QED BY <2>1 DEF HandleRequest
<1> DEFINE tooLarge == p = "tooLarge"
           s1 == IF tooLarge THEN m_state[c] ELSE StateAfterRead(m_state[c], k)
           s2 == IF p \in {"bad", "tooLarge"} THEN "Failed" ELSE s1
           caw == m_closeAfterWrite[c] \/ p \in {"close", "bad", "tooLarge"}
           atEof == k \in {"eof", "ended", "dead"} /\ ~tooLarge /\ MayClose(m_state[c])
           n == (IF atEof THEN 1 ELSE 0) + IF MayClose(s2) THEN ClosingWrites(ws, caw) ELSE 0
<1>4. /\ m_state' = [m_state EXCEPT ![c] = s2] /\ CloseConnection(c, n)
      /\ ChannelAfter(c, ws, k2) /\ (~tooLarge /\ k \in {"reset", "dead"} => k2 = "dead")
      /\ p \in OutcomesOf(c) /\ ws \in Writes(p) /\ k2 \in Kinds
      /\ m_closeAfterWrite' = [m_closeAfterWrite EXCEPT ![c] = caw]
  BY <1>3
<1>5. /\ p \in Outcomes /\ (k = "dead" => p = "incomplete")
      /\ s2 \in {"Connected", "Failed", "Closed"}
      /\ s2 = "Closed" => ~tooLarge /\ (k = "reset" \/ m_state[c] = "Closed")
      /\ m_state[c] = "Closed" /\ k = "dead" => s2 = "Closed"
  <2>1. p \in Outcomes /\ (k = "dead" => p = "incomplete")
    BY <1>4 DEF OutcomesOf, Outcomes
  <2> QED BY <1>2, <2>1 DEF StateAfterRead
<1>6. n \in Nat /\ WantAfterAll(want[c], ws) \in SUBSET {"in", "out"}
  <2>1. want[c] \in SUBSET {"in", "out"}
    BY <1>1 DEF TypeOK
  <2>2. DOMAIN ws \in SUBSET (1..2) /\ WantAfterAll(want[c], ws) \in SUBSET {"in", "out"}
    BY <1>4, <1>5, <2>1, WritesType
  <2>3. ClosingWrites(ws, caw) \in Nat
    <3> HIDE DEF caw
    <3> QED BY <2>2, ClosingWritesType
  <2> QED BY <2>2, <2>3
<1>7. /\ batch' = [batch EXCEPT ![l] = (@ \ {e}) \cup {r \in {Rest(e)} : r.ready # {}}]
      /\ phase[l] = "dispatch"
      /\ UNCHANGED <<phase, copy, pos, fd, m_loop, timer>>
  BY DEF HandleRequest
<1> HIDE DEF n, s2, caw
<1>8. /\ inEpoll' = inEpoll
      /\ want' \in [Conns -> SUBSET {"in", "out"}]
      /\ kind' \in [Conns -> Kinds]
      /\ edge' \in [Conns -> SUBSET {"in", "out"}]
      /\ kind'[c] \in {k2, "dead"}
      /\ \A d \in Conns : d # c => kind'[d] = kind[d]
  BY <1>1, <1>4, <1>6, ChannelAfterKeeps
<1>9. /\ m_state' \in [Conns -> {"none", "Connected", "Failed", "Closed"}]
      /\ m_state'[c] = s2 /\ \A d \in Conns : d # c => m_state'[d] = m_state[d]
  BY <1>1, <1>4, <1>5 DEF TypeOK
<1>10. CloseFrame(c)
  <2>1. \A d \in Conns : m_state'[d] = "none" <=> m_state[d] = "none"
    BY <1>2, <1>5, <1>9
  <2> QED BY <1>1, <1>7, <1>8, <2>1 DEF CloseFrame, TypeOK
<1>11. /\ todo' \in [Loops -> Seq(Funcs)]
       /\ m_connections' \in [Fds -> Conns \cup {NoConn}]
       /\ MapInv' /\ FreshInv' /\ FdInv' /\ QueueInv' /\ OrderInv' /\ CalledInv' /\ EpollInv'
       /\ \A d \in Conns : InMap(d)' => InMap(d) /\ (ClosePending(d) => ClosePending(d)')
       /\ LeavesByDestroy
  BY <1>1, <1>2, <1>4, <1>6, <1>10, CloseConnectionKeeps
<1>12. Rest(e) \in Events /\ Rest(e).conn = c
  BY <1>1 DEF Rest, Events
<1> USE DEF LifeInv
<1>13. TypeOK'
  <2>1. batch' \in [Loops -> SUBSET Events]
    BY <1>1, <1>7, <1>12 DEF TypeOK
  <2>2. m_closeAfterWrite' \in [Conns -> BOOLEAN]
    BY <1>1, <1>4 DEF TypeOK, caw
  <2> QED BY <1>1, <1>7, <1>8, <1>9, <1>11, <2>1, <2>2 DEF TypeOK
<1>14. TurnInv'
  BY <1>1, <1>7 DEF TurnInv, TypeOK
<1>15. BatchInv'
  <2>1. \A j \in Loops : \A x \in batch'[j] : x \in batch[j] \/ (j = l /\ x.conn = c)
    BY <1>1, <1>7, <1>12 DEF TypeOK
  <2> QED BY <1>1, <1>7, <1>8, <2>1 DEF BatchInv
<1>16. KindInv'
  <2>1. m_state'[c] = "Closed" => kind'[c] = "dead"
    <3>1. m_state'[c] = "Closed" => ~tooLarge /\ k \in {"reset", "dead"}
      BY <1>1, <1>5, <1>9 DEF KindInv
    <3> QED BY <1>4, <1>8, <3>1
  <2> QED BY <1>8, <1>9, <2>1 DEF KindInv
<1>17. ExpiryInv'
  <2>1. m_state[c] = "Closed" => m_state'[c] = "Closed"
    BY <1>1, <1>5, <1>9 DEF KindInv
  <2> QED BY <1>7, <1>9, <1>11, <2>1 DEF ExpiryInv
<1> QED
  BY <1>11, <1>13, <1>14, <1>15, <1>16, <1>17

LEMMA WriteStep ==
  ASSUME LifeInv, NEW l \in Loops, NEW e \in batch[l], Write(l, e)
  PROVE  LifeInv' /\ LeavesByDestroy
<1> DEFINE c == e.conn
<1>1. /\ TypeOK /\ c \in Conns /\ inEpoll[c] /\ m_loop[c] = l
  BY DEF LifeInv, TypeOK, BatchInv, Events
<1>2. Alive(c)
  BY <1>1, InEpollAlive
<1>3. /\ batch' = [batch EXCEPT ![l] = @ \ {e}] /\ phase[l] = "dispatch"
      /\ UNCHANGED <<phase, copy, pos, m_state, fd, m_loop, m_closeAfterWrite, timer>>
  BY DEF Write, connVars
<1>4. \E n \in Nat : CloseConnection(c, n)
  <2>1. CASE m_state[c] = "Closed"
    <3>1. CloseConnection(c, 0)
      BY <2>1 DEF Write, CloseConnection
    <3> QED BY <3>1
  <2>2. CASE m_state[c] # "Closed"
    <3>1. PICK w \in WriteEnds : CloseConnection(c, ClosingWrites(<<w>>, m_closeAfterWrite[c]))
      BY <2>2 DEF Write
    <3>2. DOMAIN <<w>> \in SUBSET (1..2)
      OBVIOUS
    <3>3. \A caw : ClosingWrites(<<w>>, caw) \in Nat
      BY <3>2, ClosingWritesType
    <3> QED BY <3>1, <3>3
  <2> QED BY <2>1, <2>2
<1>5. /\ inEpoll' = inEpoll
      /\ want' \in [Conns -> SUBSET {"in", "out"}]
      /\ kind' \in [Conns -> Kinds]
      /\ edge' \in [Conns -> SUBSET {"in", "out"}]
      /\ kind[c] = "dead" => kind'[c] = "dead"
      /\ \A d \in Conns : d # c => kind'[d] = kind[d]
  <2>1. CASE m_state[c] = "Closed"
    BY <1>1, <2>1 DEF Write, chanVars, TypeOK
  <2>2. CASE m_state[c] # "Closed"
    <3>1. PICK w \in WriteEnds : ChannelAfter(c, <<w>>, kind[c])
      BY <2>2 DEF Write
    <3>2. WantAfterAll(want[c], <<w>>) \in SUBSET {"in", "out"}
      <4>1. want[c] \in SUBSET {"in", "out"}
        BY <1>1 DEF TypeOK
      <4>2. "bad" \in Outcomes /\ <<w>> \in Writes("bad")
        BY DEF Outcomes, Writes
      <4> QED BY <4>1, <4>2, WritesType
    <3>3. kind[c] \in Kinds
      BY <1>1 DEF TypeOK
    <3> QED BY <1>1, <3>1, <3>2, <3>3, ChannelAfterKeeps
  <2> QED BY <2>1, <2>2
<1>6. CloseFrame(c)
  BY <1>1, <1>3, <1>5 DEF CloseFrame, TypeOK
<1>7. /\ todo' \in [Loops -> Seq(Funcs)]
      /\ m_connections' \in [Fds -> Conns \cup {NoConn}]
      /\ MapInv' /\ FreshInv' /\ FdInv' /\ QueueInv' /\ OrderInv' /\ CalledInv' /\ EpollInv'
      /\ \A d \in Conns : InMap(d)' => InMap(d) /\ (ClosePending(d) => ClosePending(d)')
      /\ LeavesByDestroy
  BY <1>1, <1>2, <1>4, <1>6, CloseConnectionKeeps
<1> USE DEF LifeInv
<1>8. TypeOK' /\ TurnInv'
  BY <1>1, <1>3, <1>5, <1>7, ZenonT(30) DEF TypeOK, TurnInv
<1>9. BatchInv'
  BY <1>1, <1>3, <1>5 DEF BatchInv, TypeOK
<1>10. KindInv' /\ ExpiryInv'
  BY <1>1, <1>3, <1>5, <1>7 DEF KindInv, ExpiryInv
<1> QED
  BY <1>7, <1>8, <1>9, <1>10

(***************************************************************************)
(* A new connection.                                                        *)
(***************************************************************************)

\* The fd it gets is nobody's, and nothing has named it before.
LEMMA CreateConnectionStep ==
  ASSUME LifeInv, NEW c \in Conns, NEW f \in Fds, NEW l \in Owners, CreateConnection(c, f, l)
  PROVE  LifeInv' /\ LeavesByDestroy
<1>0. PICK g : g = Func("establish", c)
  OBVIOUS
<1>1. /\ TypeOK /\ m_state[c] = "none" /\ FdFree(f) /\ l \in Loops /\ phase[Main] = "dispatch"
      /\ m_state' = [m_state EXCEPT ![c] = "Connected"]
      /\ fd' = [fd EXCEPT ![c] = f]
      /\ m_loop' = [m_loop EXCEPT ![c] = l]
      /\ m_connections' = [m_connections EXCEPT ![f] = c]
      /\ UNCHANGED <<phase, batch, copy, pos, m_closeAfterWrite, kind>>
  BY DEF LifeInv, CreateConnection, Owners, Loops, loopVars
<1>2. ~InMap(c) /\ ~Queued(c) /\ timer[c] = "none" /\ ~inEpoll[c]
  BY <1>1 DEF LifeInv, FreshInv
<1>3. \E n \in Nat : todo' = [todo EXCEPT ![l] = @ \o Times(n, g)]
  <2>1. todo \in [Loops -> Seq(Funcs)] /\ g \in Funcs
    BY <1>0, <1>1, FuncType DEF TypeOK
  <2>2. CASE l = Main
    <3>1. Times(0, g) = <<>>
      BY DEF Times
    <3>2. todo[l] \o Times(0, g) = todo[l]
      BY <1>1, <2>1, <3>1, ConcatEmptySeq
    <3>3. todo' = [todo EXCEPT ![l] = @ \o Times(0, g)]
      BY <1>1, <2>1, <2>2, <3>2 DEF CreateConnection
    <3> QED BY <3>3
  <2>3. CASE l # Main
    <3>1. Times(1, g) = <<g>>
      BY DEF Times
    <3>2. Append(todo[l], g) = todo[l] \o <<g>>
      BY <1>1, <2>1, AppendIsConcat
    <3>3. todo' = [todo EXCEPT ![l] = Append(@, g)]
      BY <1>0, <2>3 DEF CreateConnection
    <3>4. todo' = [todo EXCEPT ![l] = @ \o Times(1, g)]
      BY <3>1, <3>2, <3>3
    <3> QED BY <3>4
  <2> QED BY <2>2, <2>3
<1>4. /\ inEpoll' = [inEpoll EXCEPT ![c] = TRUE]
      /\ timer' \in [Conns -> {"none", "armed", "run"}]
      /\ timer'[c] # "run" /\ \A d \in Conns : d # c => timer'[d] = timer[d]
      /\ want' \in [Conns -> SUBSET {"in", "out"}]
      /\ edge' \in [Conns -> SUBSET {"in", "out"}]
  <2>1. CASE l = Main
    <3>1. /\ inEpoll' = [inEpoll EXCEPT ![c] = TRUE]
          /\ timer' = [timer EXCEPT ![c] = "armed"]
          /\ want' = [want EXCEPT ![c] = @ \cup {"in"}]
          /\ edge' = [edge EXCEPT ![c] = IF kind[c] = "quiet" THEN @ ELSE @ \cup {"in"}]
      BY <2>1 DEF CreateConnection, Establish
    <3>2. /\ timer \in [Conns -> {"none", "armed", "run"}]
          /\ want \in [Conns -> SUBSET {"in", "out"}]
          /\ edge \in [Conns -> SUBSET {"in", "out"}]
      BY <1>1 DEF TypeOK
    <3>3. /\ timer' \in [Conns -> {"none", "armed", "run"}]
          /\ timer'[c] # "run" /\ \A d \in Conns : d # c => timer'[d] = timer[d]
      BY <3>1, <3>2
    <3>4. want' \in [Conns -> SUBSET {"in", "out"}]
      BY <3>1, <3>2
    <3>5. edge' \in [Conns -> SUBSET {"in", "out"}]
      BY <3>1, <3>2
    <3> QED BY <3>1, <3>3, <3>4, <3>5
  <2>2. CASE l # Main
    BY <1>1, <1>2, <2>2 DEF CreateConnection, TypeOK
  <2> QED BY <2>1, <2>2
<1>5. PICK n \in Nat : todo' = [todo EXCEPT ![l] = @ \o Times(n, g)]
  BY <1>3
<1>6. g \in Funcs /\ g.op = "establish" /\ g.conn = c
  BY <1>0, FuncType
<1>7. /\ todo' \in [Loops -> Seq(Funcs)]
      /\ \A j \in Loops : j # l => todo'[j] = todo[j]
      /\ DOMAIN todo[l] = 1..Len(todo[l])
      /\ DOMAIN todo'[l] = 1..(Len(todo[l]) + n)
      /\ \A i \in 1..Len(todo[l]) : todo'[l][i] = todo[l][i]
      /\ \A i \in (Len(todo[l]) + 1)..(Len(todo[l]) + n) : todo'[l][i] = g
      /\ \A j \in Loops : ToSet(todo'[j]) = ToSet(todo[j]) \cup {h \in {g} : j = l /\ n > 0}
  <2>1. TypeOK /\ l \in Loops /\ n \in Nat /\ g \in Funcs
    BY <1>1, <1>5, <1>6
  <2> HIDE DEF TypeOK
  <2> QED BY <1>5, <2>1, TodoPush
<1>8. \A j \in Loops : /\ Queue(j)' = Queue(j) \cup {h \in {g} : j = l /\ n > 0}
                       /\ Pending(j)' = Pending(j) \cup {h \in {g} : j = l /\ n > 0}
  BY <1>1, <1>7 DEF Queue, Pending
<1>9. \A j \in Loops : \A h \in Queue(j) : h \in Funcs /\ h.conn \in Conns /\ h.conn # c
  <2>1. \A j \in Loops : \A h \in Queue(j) : h \in Funcs /\ h.conn \in Conns
    BY <1>1, PendingQueued DEF Funcs
  <2> QED BY <1>2, <2>1, QueuedIs
<1>10. /\ fd'[c] = f /\ m_loop'[c] = l /\ m_state'[c] = "Connected" /\ inEpoll'[c]
       /\ m_connections'[f] = c
       /\ \A d \in Conns : d # c => /\ fd'[d] = fd[d] /\ m_loop'[d] = m_loop[d]
                                    /\ m_state'[d] = m_state[d] /\ inEpoll'[d] = inEpoll[d]
       /\ \A h \in Fds : h # f => m_connections'[h] = m_connections[h]
  BY <1>1, <1>4 DEF TypeOK
<1>11. InMap(c)' /\ \A d \in Conns : d # c => (InMap(d)' <=> InMap(d))
  <2>1. InMap(c)'
    BY <1>10 DEF InMap
  <2>2. ASSUME NEW d \in Conns, d # c PROVE InMap(d)' <=> InMap(d)
    <3>1. CASE fd[d] # f
      BY <1>1, <1>10, <2>2, <3>1 DEF InMap, TypeOK
    <3>2. CASE fd[d] = f
      <4>1. ~Alive(d)
        BY <1>1, <3>2 DEF FdFree
      <4>2. ~InMap(d)
        BY <4>1, AliveIs DEF LifeInv, FreshInv
      <4> QED BY <1>10, <2>2, <3>2, <4>2 DEF InMap
    <3> QED BY <3>1, <3>2
  <2> QED BY <2>1, <2>2
<1>12. \A d \in Conns : d # c => (Queued(d)' <=> Queued(d))
  BY <1>6, <1>8, QueuedIs
<1>13. \A d \in Conns : d # c => (Alive(d)' <=> Alive(d))
  BY <1>4, <1>10, <1>11, <1>12, AliveIs
<1>14. \A d \in Conns : Func("destroy", d) # g /\ Func("closeInLoop", d) # g
  BY <1>6, FuncType
<1>15. \A j \in Loops : Pending(j) \subseteq Queue(j)
  BY <1>1, PendingQueued
<1> USE DEF LifeInv
<1>16. TypeOK'
  <2>1. /\ m_state' \in [Conns -> {"none", "Connected", "Failed", "Closed"}]
        /\ fd' \in [Conns -> Fds] /\ m_loop' \in [Conns -> Loops]
        /\ m_connections' \in [Fds -> Conns \cup {NoConn}]
        /\ inEpoll' \in [Conns -> BOOLEAN]
    BY <1>1, <1>4 DEF TypeOK
  <2> QED BY <1>1, <1>4, <1>7, <2>1 DEF TypeOK
<1>17. TurnInv' /\ KindInv'
  BY <1>1, <1>10 DEF TurnInv, KindInv
<1>18. MapInv'
  <2>1. ASSUME NEW h \in Fds, m_connections'[h] # NoConn, h # f
        PROVE  fd'[m_connections'[h]] = h
    <3>1. m_connections'[h] = m_connections[h] /\ m_connections[h] \in Conns /\ fd[m_connections[h]] = h
      BY <1>1, <1>10, <2>1 DEF MapInv, TypeOK
    <3>2. m_connections[h] # c
      BY <1>2, <3>1 DEF InMap
    <3> QED BY <1>10, <3>1, <3>2
  <2> QED BY <1>10, <2>1 DEF MapInv
<1>19. FreshInv'
  BY <1>4, <1>10, <1>11, <1>12 DEF FreshInv
<1>20. FdInv'
  BY <1>1, <1>10, <1>13 DEF FdInv, FdFree
<1>21. BatchInv'
  <2>1. ASSUME NEW j \in Loops, NEW e \in batch[j] PROVE e.conn \in Conns /\ e.conn # c
    BY <1>1, <1>2, <2>1 DEF BatchInv, TypeOK, Events
  <2> QED BY <1>1, <1>10, <2>1 DEF BatchInv
<1>22. QueueInv'
  <2> SUFFICES ASSUME NEW j \in Loops, NEW h \in Queue(j)'
               PROVE  /\ h.op # "closeInLoop" => m_loop'[h.conn] = j
                      /\ h.op = "destroy" => ~InMap(h.conn)'
    BY DEF QueueInv
  <2>1. CASE h \in Queue(j)
    BY <1>9, <1>10, <1>11, <2>1 DEF QueueInv
  <2>2. CASE h = g /\ j = l
    BY <1>6, <1>10, <2>2
  <2> QED BY <1>8, <2>1, <2>2
<1>23. OrderInv'
  <2> SUFFICES ASSUME NEW j \in Loops, NEW d \in Conns
        PROVE /\ \A i, k \in DOMAIN todo'[j] :
                   todo'[j][i] = Func("destroy", d) /\ todo'[j][k] = Func("establish", d) => k < i
              /\ Func("destroy", d) \in ToSet(copy[j]) => Func("establish", d) \notin ToSet(todo'[j])
    BY <1>1 DEF OrderInv
  <2>1. CASE d = c
    <3>1. Func("destroy", c) \notin ToSet(todo'[j]) /\ Func("destroy", c) \notin ToSet(copy[j])
      <4>1. Func("destroy", c) \notin Queue(j)'
        BY <1>8, <1>9, <1>14, FuncType
      <4> QED BY <1>1, <4>1 DEF Queue
    <3> QED BY <2>1, <3>1 DEF ToSet
  <2>2. CASE d # c
    <3>1. Func("establish", d) # g /\ Func("destroy", d) # g
      BY <1>6, <2>2, FuncType
    <3>2. Func("destroy", d) \in ToSet(copy[j]) => Func("establish", d) \notin ToSet(todo'[j])
      BY <1>7, <3>1 DEF OrderInv
    <3>3. CASE j # l
      BY <1>7, <3>2, <3>3 DEF OrderInv
    <3>4. CASE j = l
      <4>1. Len(todo[l]) \in Nat
        BY <1>1, LenProperties DEF TypeOK
      <4>2. \A i \in DOMAIN todo'[l] : todo'[l][i] # g => i \in DOMAIN todo[l] /\ todo[l][i] = todo'[l][i]
        BY <1>7, <4>1
      <4> QED BY <3>1, <3>2, <3>4, <4>2 DEF OrderInv
    <3> QED BY <3>3, <3>4
  <2> QED BY <2>1, <2>2
<1>24. CalledInv'
  <2>1. ASSUME NEW j \in Loops, NEW i \in 1..pos[j], copy[j][i].op = "closeInLoop"
        PROVE  ~InMap(copy[j][i].conn)'
    <3>1. pos[j] \in Nat /\ copy[j] \in Seq(Funcs) /\ pos[j] <= Len(copy[j]) /\ Len(copy[j]) \in Nat
      BY <1>1, LenProperties DEF TypeOK
    <3>2. copy[j][i] \in Queue(j)
      <4>1. i \in DOMAIN copy[j]
        BY <3>1, LenProperties
      <4> QED BY <4>1 DEF Queue, ToSet
    <3>3. copy[j][i].conn \in Conns /\ copy[j][i].conn # c /\ ~InMap(copy[j][i].conn)
      BY <1>9, <2>1, <3>2 DEF CalledInv
    <3> QED BY <1>1, <1>11, <3>3
  <2> QED BY <1>1, <2>1 DEF CalledInv
<1>25. ASSUME NEW d \in Conns, d # c
       PROVE  /\ DestroyPending(d)' <=> DestroyPending(d)
              /\ Func("establish", d) \in Pending(m_loop[d])' => Func("establish", d) \in Pending(m_loop[d])
              /\ ClosePending(d)' <=> ClosePending(d)
  <2>1. m_loop'[d] = m_loop[d] /\ m_loop[d] \in Loops /\ Func("establish", d) # g
    BY <1>1, <1>6, <1>10, <1>25, FuncType DEF TypeOK
  <2> QED BY <1>8, <1>14, <2>1 DEF DestroyPending, ClosePending
<1>26. EpollInv'
  <2> SUFFICES ASSUME NEW d \in Conns
        PROVE /\ InMap(d)' => inEpoll'[d]
              /\ inEpoll'[d] => InMap(d)' \/ DestroyPending(d)'
              /\ Func("establish", d) \in Pending(m_loop[d])' => inEpoll'[d]
    BY DEF EpollInv
  <2>1. CASE d = c
    BY <1>10, <1>11, <2>1
  <2>2. CASE d # c
    <3>1. inEpoll'[d] = inEpoll[d] /\ (InMap(d)' <=> InMap(d))
      BY <1>10, <1>11, <2>2
    <3> QED BY <1>25, <2>2, <3>1 DEF EpollInv
  <2> QED BY <2>1, <2>2
<1>27. ExpiryInv'
  BY <1>4, <1>10, <1>11, <1>25 DEF ExpiryInv
<1>28. LeavesByDestroy
  BY <1>11 DEF LeavesByDestroy
<1> QED
  BY <1>16, <1>17, <1>18, <1>19, <1>20, <1>21, <1>22, <1>23, <1>24, <1>26, <1>27, <1>28

(***************************************************************************)
(* The theorems.                                                            *)
(***************************************************************************)

LEMMA InitLife == Init => LifeInv
<1> SUFFICES ASSUME Init PROVE LifeInv
  OBVIOUS
<1> USE DEF Init
<1>1. \A l \in Loops : todo[l] = <<>> /\ copy[l] = <<>> /\ pos[l] = 0 /\ batch[l] = {}
  OBVIOUS
<1>2. ToSet(<<>>) = {} /\ DOMAIN <<>> = {} /\ Len(<<>>) = 0
  BY DEF ToSet
<1>3. fd \in [Conns -> Fds] /\ \A c \in Conns : m_state[c] = "none" /\ ~inEpoll[c]
  OBVIOUS
<1>4. \A l \in Loops : Queue(l) = {} /\ Pending(l) = {}
  BY <1>1, <1>2 DEF Queue, Pending
<1>5. \A c \in Conns : ~InMap(c) /\ ~Queued(c) /\ ~Alive(c)
  BY <1>3, <1>4, QueuedIs, LoopsAssumption DEF InMap, Alive
<1>6. TypeOK
  <2>1. "quiet" \in Kinds /\ Main \in Loops
    BY DEF Kinds, Loops
  <2>2. todo \in [Loops -> Seq(Funcs)] /\ copy \in [Loops -> Seq(Funcs)] /\ pos \in [Loops -> Nat]
    BY EmptySeq
  <2>3. \A l \in Loops : pos[l] <= Len(copy[l])
    BY <1>1, <1>2
  <2>4. /\ phase \in [Loops -> {"dispatch", "todo", "timers"}] /\ batch \in [Loops -> SUBSET Events]
        /\ m_connections \in [Fds -> Conns \cup {NoConn}]
        /\ m_state \in [Conns -> {"none", "Connected", "Failed", "Closed"}]
        /\ m_loop \in [Conns -> Loops]
        /\ m_closeAfterWrite \in [Conns -> BOOLEAN]
        /\ timer \in [Conns -> {"none", "armed", "run"}]
    BY <2>1
  <2>5. /\ inEpoll \in [Conns -> BOOLEAN] /\ want \in [Conns -> SUBSET {"in", "out"}]
        /\ kind \in [Conns -> Kinds] /\ edge \in [Conns -> SUBSET {"in", "out"}]
    BY <2>1
  <2> QED BY <1>3, <2>2, <2>3, <2>4, <2>5 DEF TypeOK
<1>7. TurnInv /\ MapInv /\ BatchInv
  BY <1>1 DEF TurnInv, MapInv, BatchInv
<1>8. FreshInv /\ FdInv /\ KindInv /\ ExpiryInv
  BY <1>3, <1>5 DEF FreshInv, FdInv, KindInv, ExpiryInv
<1>9. QueueInv /\ OrderInv /\ CalledInv
  BY <1>1, <1>2, <1>4 DEF QueueInv, OrderInv, CalledInv
<1>10. EpollInv
  <2>1. \A c \in Conns : m_loop[c] \in Loops
    BY DEF Loops
  <2> QED BY <1>3, <1>4, <1>5, <2>1 DEF EpollInv
<1> QED
  BY <1>6, <1>7, <1>8, <1>9, <1>10 DEF LifeInv

LEMMA NextLife == LifeInv /\ [Next]_vars => LifeInv' /\ LeavesByDestroy
<1> SUFFICES ASSUME LifeInv, [Next]_vars PROVE LifeInv' /\ LeavesByDestroy
  OBVIOUS
<1>1. ASSUME NEW l \in Loops, LoopStep(l) PROVE LifeInv' /\ LeavesByDestroy
  <2>1. CASE Poll(l)
    BY <2>1, PollStep
  <2>2. ASSUME NEW e \in batch[l], HandleRequest(l, e) \/ Write(l, e) \/ IgnoreEvent(l, e)
        PROVE  LifeInv' /\ LeavesByDestroy
    BY <2>2, HandleRequestStep, WriteStep, IgnoreEventStep
  <2>3. CASE BeginTodoList(l) \/ EndTodoList(l)
    BY <2>3, BeginTodoListStep, EndTodoListStep
  <2>4. CASE EstablishConnection(l) \/ CloseConnectionInLoop(l) \/ DestroyConnection(l)
    BY <2>4, EstablishStep, CloseConnectionInLoopStep, DestroyStep
  <2> QED BY <1>1, <2>1, <2>2, <2>3, <2>4 DEF LoopStep
<1>2. ASSUME NEW l \in Loops, NEW c \in Conns, RunTimer(l, c) PROVE LifeInv' /\ LeavesByDestroy
  BY <1>2, RunTimerStep
<1>3. ASSUME NEW c \in Conns, NEW f \in Fds, NEW l \in Owners, CreateConnection(c, f, l)
      PROVE  LifeInv' /\ LeavesByDestroy
  BY <1>3, CreateConnectionStep
<1>4. ASSUME NEW c \in Conns, PeerReads(c) \/ \E k \in {"data", "eof", "reset"} : PeerActs(c, k)
      PROVE  LifeInv' /\ LeavesByDestroy
  BY <1>4, PeerStep
<1>5. CASE UNCHANGED vars
  <2>1. TypeOK' /\ TurnInv' /\ BatchInv' /\ KindInv'
    BY <1>5 DEF vars, LifeInv, TypeOK, TurnInv, BatchInv, KindInv
  <2> QED BY <1>5, <2>1, StayKeeps DEF vars, LifeInv
<1> QED
  BY <1>1, <1>2, <1>3, <1>4, <1>5 DEF Next

LEMMA LifeInvariant == Spec => []LifeInv
BY InitLife, NextLife, PTL DEF Spec

\* No raw Channel pointer of epoll or of a batch outlives its connection, and no
\* event is handled for a channel that was removed (Channel.cpp:7,
\* HttpConnect.cpp:127).
THEOREM ChannelTheorem == Spec => []NoDanglingChannel
<1>1. LifeInv => NoDanglingChannel
  <2> SUFFICES ASSUME LifeInv PROVE NoDanglingChannel
    OBVIOUS
  <2>1. \A c \in Conns : inEpoll[c] => Alive(c)
    BY InEpollAlive
  <2>2. \A l \in Loops : \A e \in batch[l] : e.conn \in Conns /\ inEpoll[e.conn]
    BY DEF LifeInv, BatchInv, TypeOK, Events
  <2> QED BY <2>1, <2>2 DEF NoDanglingChannel, LifeInv
<1> QED
  BY <1>1, LifeInvariant, PTL

\* An fd that is reused is never taken from its new connection: the map forgets a
\* connection only where its own destruction is queued (HttpServer.cpp:975, 993).
THEOREM EntryTheorem == Spec => ErasesOwnEntry
<1>1. LifeInv /\ [Next]_vars =>
        [\A c \in Conns :
           (InMap(c) /\ ~InMap(c)')
             => \E l \in Loops : Func("destroy", c) \in ToSet(todo'[l])]_vars
  BY NextLife DEF LeavesByDestroy
<1> QED
  BY <1>1, LifeInvariant, PTL DEF Spec, ErasesOwnEntry

\* An expired idle timer has its connection closed, but for a connection whose
\* read failed (HttpConnect.cpp:140, 268).
THEOREM ExpiryTheorem == Spec => []ExpiryRequestsClose
<1>1. LifeInv => ExpiryRequestsClose
  <2> SUFFICES ASSUME LifeInv, NEW c \in Conns, timer[c] = "run", InMap(c)
               PROVE  CloseRequested(c) \/ (m_state[c] = "Closed" /\ inEpoll[c])
    BY DEF ExpiryRequestsClose
  <2>1. CASE ClosePending(c)
    <3>1. PICK l \in Loops : Func("closeInLoop", c) \in Pending(l)
      BY <2>1 DEF ClosePending
    <3>2. Func("closeInLoop", c) \in Queue(l)
      BY <3>1, PendingQueued DEF LifeInv
    <3> QED BY <3>2 DEF CloseRequested, Queue
  <2>2. CASE m_state[c] = "Closed"
    BY <2>2 DEF LifeInv, EpollInv
  <2> QED BY <2>1, <2>2 DEF LifeInv, ExpiryInv
<1> QED
  BY <1>1, LifeInvariant, PTL
=============================================================================

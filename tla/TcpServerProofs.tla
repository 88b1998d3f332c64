--------------------------- MODULE TcpServerProofs ---------------------------
(***************************************************************************)
(* Theorems about TcpServer, for every number of connections, threads,      *)
(* bytes and replies, and every set of fds.                                 *)
(***************************************************************************)
EXTENDS TcpServer, SequenceTheorems, TLAPS

(***************************************************************************)
(* The invariant, a part for each group of variables.                       *)
(***************************************************************************)

\* The pool: m_next is an index of m_loops once the main loop is entered.
StartInv ==
  /\ m_threadNum \in 0..MaxThreads /\ m_loops \in Seq(Threads) /\ Len(m_loops) <= m_threadNum
  /\ m_next \in 0..MaxThreads /\ (m_next = 0 \/ m_next < m_threadNum)
  /\ published \in [Threads -> {"none", "new", "set"}]
  /\ start \in {"spawn", "test", "asleep", "loop"}
  /\ start \in {"test", "asleep"} => Len(m_loops) < m_threadNum
  /\ start = "loop" => Len(m_loops) = m_threadNum

Events == [conn : Conns, in : BOOLEAN]

\* The steps of CreateConnection and of HandleMessage, and those of them in Write.
EstablishSteps == {"enable", "tie", "connect", "greet"}
WorkSteps == {"message", "write"}
WriteSteps == {"greet", "write"}

Tasks == [step : EstablishSteps \cup WorkSteps, conn : Conns,
          guard : BOOLEAN, left : 0..ReplyLen]
Crashes == {"accept", "read", "write", "append", "sigpipe", "race"}

\* The loops: events exist only during dispatch, as does a handler in progress, and
\* a copy only while its functions are called.
LoopInv ==
  /\ phase \in [Loops -> {"poll", "dispatch", "todo"}]
  /\ batch \in [Loops -> SUBSET Events]
  /\ todo \in [Loops -> Seq(Funcs)] /\ copy \in [Loops -> Seq(Funcs)]
  /\ pos \in [Loops -> Nat] /\ \A l \in Loops : pos[l] <= Len(copy[l])
  /\ task \in [Loops -> {Idle} \cup Tasks]
  /\ crash \in {"no"} \cup Crashes
  /\ \A l \in Loops : /\ phase[l] # "todo" => copy[l] = <<>> /\ pos[l] = 0
                      /\ phase[l] # "dispatch" => batch[l] = {} /\ task[l] = Idle

ConnType ==
  /\ m_connections \in [Fds -> Conns \cup {NoConn}]
  /\ m_state \in [Conns -> {"none", "Connected", "Closed"}]
  /\ fd \in [Conns -> Fds] /\ m_loop \in [Conns -> Loops]
  /\ m_tied \in [Conns -> BOOLEAN] /\ inEpoll \in [Conns -> BOOLEAN]
  /\ want \in [Conns -> BOOLEAN] /\ edge \in [Conns -> BOOLEAN]
  /\ end \in [Conns -> {"open", "eof", "reset", "dead"}]
  /\ early \subseteq Conns

\* The functions a loop keeps alive, and those it has not called yet.
Queue(l) == ToSet(todo[l]) \cup ToSet(copy[l])
Pending(l) == ToSet(todo[l]) \cup {copy[l][i] : i \in (pos[l] + 1)..Len(copy[l])}

DestroyPending(c) == Func("destroy", c) \in Pending(m_loop[c])

Establishing(c) == task[Main].step \in EstablishSteps /\ task[Main].conn = c

MapInv == \A f \in Fds : m_connections[f] # NoConn => fd[m_connections[f]] = f

\* Nothing refers to a connection that has not been constructed.
FreshInv ==
  \A c \in Conns :
    m_state[c] = "none" => ~InMap(c) /\ ~Queued(c) /\ ~inEpoll[c] /\ c \notin early

\* The fd of a connection is its own while the connection is alive.
FdInv == \A c, d \in Conns : Alive(c) /\ Alive(d) /\ fd[c] = fd[d] => c = d

BatchInv ==
  \A l \in Loops : \A e \in batch[l] : inEpoll[e.conn] /\ m_loop[e.conn] = l

\* A thread handles connections of its own loop, and the main thread establishes
\* one; until this ends the connection is not destroyed, even if its loop has asked
\* for its close, unless its connect callback has closed it.
Untouched(c) == inEpoll[c] /\ \A k \in Loops : Func("destroy", c) \notin Queue(k)

TaskInv ==
  \A l \in Loops :
    /\ task[l].step \in WorkSteps => inEpoll[task[l].conn] /\ m_loop[task[l].conn] = l
    /\ task[l].step \in EstablishSteps =>
         /\ l = Main /\ task[l].guard
         /\ task[l].conn \in early \/ Untouched(task[l].conn)

\* The map is changed by the main thread; a connection is destroyed by its own,
\* and after it has left the map, to which only an early one returns.
QueueInv ==
  \A l \in Loops : \A f \in Queue(l) :
    /\ f.op = "closeInLoop" => l = Main
    /\ f.op = "destroy" => m_loop[f.conn] = l /\ (~InMap(f.conn) \/ f.conn \in early)

\* A channel in epoll belongs to a connection of the map, to one that is on its way
\* there, or to one that is going to be destroyed.
EpollInv ==
  \A c \in Conns :
    /\ InMap(c) => inEpoll[c] \/ c \in early
    /\ inEpoll[c] => InMap(c) \/ DestroyPending(c) \/ Establishing(c)

HoldInv == MapInv /\ FreshInv /\ FdInv /\ BatchInv /\ TaskInv /\ QueueInv /\ EpollInv

\* A read error is final: nothing is read from the socket any more; so is a failed
\* write, while the connect callback goes on.
KindInv ==
  \A c \in Conns :
    /\ m_state[c] = "Closed" /\ inEpoll[c] => end[c] = "dead"
    /\ c \in early /\ Establishing(c) => end[c] = "dead"

ReadType ==
  /\ sent \in [Conns -> 0..MaxBytes] /\ nread \in [Conns -> Nat]
  /\ DOMAIN m_readBuffer = Conns /\ DOMAIN delivered = Conns
  /\ \A c \in Conns : /\ nread[c] <= sent[c]
                      /\ m_readBuffer[c] \in Seq(1..nread[c])
                      /\ delivered[c] \in Seq(1..nread[c])

ReadInv ==
  \A c \in Conns : /\ \A i \in DOMAIN delivered[c] : delivered[c][i] = i
                   /\ Len(delivered[c]) = nread[c]

WriteType ==
  /\ m_writeBuffer \in [Conns -> Seq(Bytes)] /\ taken \in [Conns -> Seq(Bytes)]
  /\ replies \in [Conns -> 0..MaxReplies]

InOrder(s) ==
  \A i \in DOMAIN s :
    LET b == s[i] IN
    IF b[2] = 1 THEN i = 1 \/ s[i - 1][1] < b[1]
    ELSE i > 1 /\ s[i - 1] = <<b[1], b[2] - 1>>

\* What the peer of c was sent, n bytes of reply r being left to send.
SentUpTo(c, r, n) ==
  IF n = ReplyLen THEN \A i \in DOMAIN taken[c] : taken[c][i][1] < r
  ELSE taken[c] # <<>> /\ taken[c][Len(taken[c])] = <<r, ReplyLen - n>>

Writes(l, c) == task[l].step \in WriteSteps /\ task[l].conn = c

\* What a thread in Write of c relies on: m_writeBuffer is its own.
WriterInv(l, c) ==
  /\ replies[c] \in 1..MaxReplies
  /\ m_writeBuffer[c] = SendBuffer(replies[c])
  /\ SentUpTo(c, replies[c], task[l].left)
  /\ \A k \in Loops : Writes(k, c) => k = l

WriteInv ==
  \A c \in Conns :
    /\ InOrder(taken[c])
    /\ \A i \in DOMAIN taken[c] : taken[c][i][1] <= replies[c]
    /\ crash = "no" => \A l \in Loops : Writes(l, c) => WriterInv(l, c)

TypeInv == StartInv /\ LoopInv /\ ConnType /\ ReadType /\ WriteType

ServerInv ==
  /\ TypeInv /\ HoldInv /\ KindInv /\ ReadInv /\ WriteInv /\ CrashHasCause

(***************************************************************************)
(* The operators.                                                           *)
(***************************************************************************)

LEMMA Basics ==
  /\ Main \in Loops /\ NoConn \notin Conns
  /\ MaxConns \in Nat /\ MaxThreads \in Nat /\ MaxBytes \in Nat /\ MaxReplies \in Nat
  /\ ReplyLen \in Nat \ {0}
  /\ Idle.step = "none" /\ Idle.conn = NoConn /\ ~Idle.guard
BY BoundsAssumption DEF Main, Loops, NoConn, Conns, ReplyLen, Idle, Task

LEMMA FuncType ==
  \A c \in Conns, o \in {"closeInLoop", "destroy"} :
    Func(o, c) \in Funcs /\ Func(o, c).op = o /\ Func(o, c).conn = c
BY DEF Func, Funcs

LEMMA FuncIs == \A f \in Funcs : f.conn \in Conns /\ f = Func(f.op, f.conn)
BY DEF Func, Funcs

LEMMA TaskType ==
  ASSUME NEW s \in EstablishSteps \cup WorkSteps, NEW c \in Conns,
         NEW g \in BOOLEAN, NEW n \in 0..ReplyLen
  PROVE  /\ Task(s, c, g, n) \in Tasks
         /\ Task(s, c, g, n).step = s /\ Task(s, c, g, n).conn = c
         /\ Task(s, c, g, n).guard = g /\ Task(s, c, g, n).left = n
         /\ Task(s, c, g, n) # Idle
BY DEF Task, Tasks, Idle, NoConn, Conns, EstablishSteps, WorkSteps

LEMMA TaskIs ==
  ASSUME LoopInv, NEW l \in Loops
  PROVE  /\ task[l] # Idle <=> task[l] \in Tasks
         /\ task[l] # Idle <=> task[l].step # "none"
         /\ task[l] # Idle => /\ task[l].conn \in Conns /\ task[l].guard \in BOOLEAN
                              /\ task[l].left \in 0..ReplyLen
                              /\ task[l].step \in EstablishSteps \cup WorkSteps
<1>1. task[l] \in {Idle} \cup Tasks
  BY DEF LoopInv
<1>2. CASE task[l] = Idle
  <2>1. Idle \notin Tasks
    BY Basics DEF Tasks
  <2> QED BY <1>2, <2>1, Basics
<1>3. CASE task[l] \in Tasks
  BY <1>3, Basics DEF Tasks, EstablishSteps, WorkSteps
<1> QED BY <1>1, <1>2, <1>3

LEMMA ToSetIs ==
  ASSUME NEW S, NEW s \in Seq(S)
  PROVE  /\ ToSet(s) = {s[i] : i \in 1..Len(s)}
         /\ ToSet(s) \subseteq S
BY LenProperties, ElementOfSeq DEF ToSet

LEMMA QueuedIs ==
  ASSUME NEW c
  PROVE  /\ Queued(c) <=> \E l \in Loops : \E f \in Queue(l) : f.conn = c
         /\ Queued(c)' <=> \E l \in Loops : \E f \in Queue(l)' : f.conn = c
BY DEF Queued, Queue

LEMMA AliveIs ==
  ASSUME NEW c
  PROVE  /\ Alive(c) <=> m_state[c] # "none" /\ (InMap(c) \/ Queued(c) \/ OnStack(c))
         /\ Alive(c)' <=> m_state'[c] # "none" /\ (InMap(c)' \/ Queued(c)' \/ OnStack(c)')
BY DEF Alive

\* A function that waits is one that is kept alive.
LEMMA PendingQueued ==
  ASSUME LoopInv, NEW l \in Loops
  PROVE  Pending(l) \subseteq Queue(l) /\ Queue(l) \subseteq Funcs
<1>1. todo[l] \in Seq(Funcs) /\ copy[l] \in Seq(Funcs) /\ pos[l] \in Nat
  BY DEF LoopInv
<1>2. ToSet(todo[l]) \subseteq Funcs /\ ToSet(copy[l]) \subseteq Funcs
  BY <1>1, ToSetIs
<1>3. {copy[l][i] : i \in (pos[l] + 1)..Len(copy[l])} \subseteq ToSet(copy[l])
  BY <1>1, ToSetIs, LenProperties
<1> QED BY <1>2, <1>3 DEF Pending, Queue

LEMMA TodoAppend ==
  ASSUME LoopInv, NEW L \in Loops, NEW g \in Funcs, todo' = [todo EXCEPT ![L] = Append(@, g)]
  PROVE  /\ todo' \in [Loops -> Seq(Funcs)]
         /\ \A l \in Loops : ToSet(todo'[l]) = ToSet(todo[l]) \cup {f \in {g} : l = L}
<1>1. PICK s : s = todo[L]
  OBVIOUS
<1>2. s \in Seq(Funcs) /\ Len(s) \in Nat /\ todo \in [Loops -> Seq(Funcs)]
  BY <1>1, LenProperties DEF LoopInv
<1>3. /\ Append(s, g) \in Seq(Funcs) /\ Len(Append(s, g)) = Len(s) + 1
      /\ \A i \in 1..Len(s) : Append(s, g)[i] = s[i]
      /\ Append(s, g)[Len(s) + 1] = g
  BY <1>2, AppendProperties
<1>4. todo'[L] = Append(s, g) /\ \A l \in Loops : l # L => todo'[l] = todo[l]
  BY <1>1, <1>2
<1>5. ToSet(Append(s, g)) = ToSet(s) \cup {g}
  <2>1. ToSet(s) = {s[i] : i \in 1..Len(s)}
    BY <1>2, ToSetIs
  <2>2. ToSet(Append(s, g)) = {Append(s, g)[i] : i \in 1..(Len(s) + 1)}
    BY <1>3, ToSetIs
  <2>3. 1..(Len(s) + 1) = 1..Len(s) \cup {Len(s) + 1}
    BY <1>2
  <2> QED BY <1>3, <2>1, <2>2, <2>3
<1>6. todo' \in [Loops -> Seq(Funcs)]
  BY <1>2, <1>3, <1>1
<1> QED BY <1>1, <1>4, <1>5, <1>6

\* A channel that is in epoll belongs to a connection that is alive.
LEMMA InEpollAlive ==
  ASSUME TypeInv, HoldInv, NEW c \in Conns, inEpoll[c]
  PROVE  Alive(c) /\ m_state[c] # "none"
<1>1. m_state[c] # "none" /\ LoopInv
  BY DEF HoldInv, FreshInv, TypeInv
<1>2. DestroyPending(c) => Queued(c)
  <2>1. m_loop[c] \in Loops
    BY DEF TypeInv, ConnType
  <2>2. Func("destroy", c).conn = c
    BY FuncType
  <2> QED BY <1>1, <2>1, <2>2, PendingQueued, QueuedIs DEF DestroyPending
<1>3. Establishing(c) => OnStack(c)
  <2> SUFFICES ASSUME Establishing(c) PROVE OnStack(c)
    OBVIOUS
  <2>1. task[Main] # Idle
    BY Basics DEF Establishing, EstablishSteps
  <2> QED BY <2>1, Basics DEF HoldInv, TaskInv, Establishing, OnStack
<1> QED BY <1>1, <1>2, <1>3, AliveIs DEF HoldInv, EpollInv

\* The connection that a thread works on.
LEMMA TaskAlive ==
  ASSUME TypeInv, HoldInv, NEW l \in Loops, task[l] # Idle
  PROVE  /\ task[l].conn \in Conns
         /\ inEpoll[task[l].conn] \/ task[l].conn \in early
         /\ Alive(task[l].conn) /\ m_state[task[l].conn] \in {"Connected", "Closed"}
         /\ task[l].step \in WorkSteps => inEpoll[task[l].conn] /\ m_loop[task[l].conn] = l
         /\ task[l].step \in EstablishSteps => l = Main
<1>1. task[l].conn \in Conns /\ task[l].step \in EstablishSteps \cup WorkSteps
  BY TaskIs DEF TypeInv
<1>2. CASE task[l].step \in WorkSteps
  <2>1. inEpoll[task[l].conn] /\ m_loop[task[l].conn] = l
    BY <1>2 DEF HoldInv, TaskInv
  <2>2. task[l].step \notin EstablishSteps
    BY <1>2 DEF EstablishSteps, WorkSteps
  <2> QED BY <1>1, <2>1, <2>2, InEpollAlive DEF TypeInv, ConnType
<1>3. CASE task[l].step \in EstablishSteps
  <2>1. /\ l = Main /\ task[l].guard
        /\ inEpoll[task[l].conn] \/ task[l].conn \in early
    BY <1>3 DEF HoldInv, TaskInv, Untouched
  <2>2. OnStack(task[l].conn)
    BY <2>1 DEF OnStack
  <2>3. m_state[task[l].conn] \in {"Connected", "Closed"}
    BY <1>1, <2>1 DEF HoldInv, FreshInv, TypeInv, ConnType
  <2>4. task[l].step \notin WorkSteps
    BY <1>3 DEF EstablishSteps, WorkSteps
  <2> QED BY <1>1, <2>1, <2>2, <2>3, <2>4, AliveIs
<1> QED BY <1>1, <1>2, <1>3

(***************************************************************************)
(* Closing, and every step that moves no function and constructs nothing.   *)
(***************************************************************************)

\* What a step does to the lists and the map: nothing; the request to close c; or
\* its closing, by the main thread.
CloseEffect(c) ==
  \/ UNCHANGED <<todo, m_connections>>
  \/ /\ c \in Conns /\ Alive(c)
     /\ todo' = [todo EXCEPT ![Main] = Append(@, Func("closeInLoop", c))]
     /\ UNCHANGED m_connections
  \/ /\ c \in Conns /\ Alive(c) /\ CloseConnectionInLoop(c)
     /\ task[Main].step \notin EstablishSteps \/ c \in early'

\* What else it may do: call closeInLoop functions, and let threads go on with
\* connections that are alive.
HoldFrame ==
  /\ UNCHANGED <<fd, m_loop, copy, inEpoll>>
  /\ \A d \in Conns : m_state'[d] = "none" <=> m_state[d] = "none"
  /\ early \subseteq early' /\ \A d \in Conns : m_state[d] = "none" => d \notin early'
  /\ \A d \in Conns : /\ OnStack(d)' => Alive(d)
                      /\ Establishing(d)' <=> Establishing(d)
  /\ pos' \in [Loops -> Nat]
  /\ \A l \in Loops :
       \/ pos'[l] = pos[l]
       \/ /\ pos'[l] = pos[l] + 1 /\ pos'[l] <= Len(copy[l])
          /\ copy[l][pos'[l]].op = "closeInLoop"

LEMMA HoldKeeps ==
  ASSUME TypeInv, HoldInv, NEW c, CloseEffect(c), HoldFrame
  PROVE  /\ todo' \in [Loops -> Seq(Funcs)]
         /\ m_connections' \in [Fds -> Conns \cup {NoConn}]
         /\ MapInv' /\ FreshInv' /\ FdInv' /\ QueueInv' /\ EpollInv'
         /\ \A d \in Conns, l \in Loops :
              Func("destroy", d) \in Queue(l)' => Func("destroy", d) \in Queue(l) \/ ~Establishing(d)
                                                            \/ d \in early'
<1>0. /\ LoopInv /\ ConnType /\ MapInv /\ FreshInv /\ FdInv /\ QueueInv /\ EpollInv
      /\ m_loop \in [Conns -> Loops] /\ fd \in [Conns -> Fds]
      /\ m_connections \in [Fds -> Conns \cup {NoConn}] /\ todo \in [Loops -> Seq(Funcs)]
      /\ UNCHANGED <<fd, m_loop, copy, inEpoll>>
  BY DEF TypeInv, HoldInv, LoopInv, ConnType, HoldFrame
<1>1. CASE UNCHANGED <<todo, m_connections>>
  <2>1. /\ \A l \in Loops : Queue(l)' = Queue(l)
        /\ \A d \in Conns : (InMap(d)' <=> InMap(d)) /\ (Queued(d)' <=> Queued(d))
    BY <1>0, <1>1 DEF Queue, InMap, Queued
  <2>2. \A d \in Conns : Alive(d)' => Alive(d)
    BY <2>1, AliveIs DEF HoldFrame
  <2>3. ASSUME NEW d \in Conns, DestroyPending(d) PROVE DestroyPending(d)'
    <3>1. PICK l : l = m_loop[d]
      OBVIOUS
    <3>2. l \in Loops /\ pos[l] \in Nat /\ copy[l] \in Seq(Funcs) /\ Len(copy[l]) \in Nat
      BY <1>0, <3>1, LenProperties DEF LoopInv
    <3>3. CASE Func("destroy", d) \in ToSet(todo[l])
      BY <1>0, <1>1, <3>1, <3>3 DEF DestroyPending, Pending
    <3>4. CASE Func("destroy", d) \notin ToSet(todo[l])
      <4>1. PICK i \in (pos[l] + 1)..Len(copy[l]) : copy[l][i] = Func("destroy", d)
        BY <2>3, <3>1, <3>4 DEF DestroyPending, Pending
      <4>2. pos'[l] \in Nat /\ (i # pos'[l] \/ pos'[l] = pos[l])
        BY <3>2, <4>1, FuncType DEF HoldFrame
      <4>3. i \in (pos'[l] + 1)..Len(copy[l])
        BY <3>2, <4>1, <4>2 DEF HoldFrame
      <4> QED BY <1>0, <3>1, <4>1, <4>3 DEF DestroyPending, Pending
    <3> QED BY <3>3, <3>4
  <2>4. MapInv' /\ FreshInv' /\ FdInv'
    BY <1>0, <1>1, <2>1, <2>2 DEF MapInv, FreshInv, FdInv, HoldFrame
  <2>5. QueueInv'
    <3>1. \A l \in Loops : \A f \in Queue(l) : f.conn \in Conns
      BY <1>0, PendingQueued, FuncIs
    <3> QED BY <1>0, <2>1, <3>1 DEF QueueInv, HoldFrame
  <2>6. EpollInv'
    BY <1>0, <2>1, <2>3 DEF EpollInv, HoldFrame
  <2> QED BY <1>0, <1>1, <2>1, <2>4, <2>5, <2>6
<1>2. ASSUME NEW L \in Loops, NEW o \in {"closeInLoop", "destroy"}, c \in Conns, Alive(c),
             todo' = [todo EXCEPT ![L] = Append(@, Func(o, c))],
             \/ o = "closeInLoop" /\ L = Main /\ UNCHANGED m_connections
             \/ /\ o = "destroy" /\ L = m_loop[c]
                /\ task[Main].step \notin EstablishSteps \/ c \in early'
                /\ m_connections' = [m_connections EXCEPT ![fd[c]] = NoConn]
      PROVE  /\ todo' \in [Loops -> Seq(Funcs)]
             /\ m_connections' \in [Fds -> Conns \cup {NoConn}]
             /\ MapInv' /\ FreshInv' /\ FdInv' /\ QueueInv' /\ EpollInv'
             /\ \A d \in Conns, l \in Loops :
                  Func("destroy", d) \in Queue(l)' => Func("destroy", d) \in Queue(l) \/ ~Establishing(d)
                                                                \/ d \in early'
  <2>0. PICK g : g = Func(o, c)
    OBVIOUS
  <2>1. g \in Funcs /\ g.op = o /\ g.conn = c
    BY <1>2, <2>0, FuncType
  <2>2. /\ todo' \in [Loops -> Seq(Funcs)]
        /\ \A l \in Loops : ToSet(todo'[l]) = ToSet(todo[l]) \cup {f \in {g} : l = L}
    BY <1>0, <1>2, <2>0, <2>1, TodoAppend
  <2>3. \A l \in Loops : Queue(l)' = Queue(l) \cup {f \in {g} : l = L}
    BY <1>0, <2>2 DEF Queue
  <2>4. /\ m_connections' \in [Fds -> Conns \cup {NoConn}]
        /\ \A f \in Fds : m_connections'[f] = m_connections[f] \/ (m_connections'[f] = NoConn /\ f = fd[c])
        /\ m_connections' # m_connections => o = "destroy"
        /\ o = "destroy" => m_connections'[fd[c]] = NoConn
    BY <1>0, <1>2
  <2>5. \A d \in Conns : InMap(d)' => InMap(d)
    BY <1>0, <2>4, Basics DEF InMap
  <2>6. o = "destroy" => ~InMap(c)'
    BY <1>0, <1>2, <2>4, Basics DEF InMap
  <2>7. \A d \in Conns : Queued(d)' => Queued(d) \/ d = c
    BY <2>1, <2>3, QueuedIs
  <2>8. \A d \in Conns : Alive(d)' => Alive(d)
    BY <1>2, <2>5, <2>7, AliveIs DEF HoldFrame
  <2>9. \A d \in Conns : InMap(d) /\ ~InMap(d)' => d = c /\ o = "destroy"
    <3> SUFFICES ASSUME NEW d \in Conns, InMap(d), ~InMap(d)' PROVE d = c /\ o = "destroy"
      OBVIOUS
    <3>1. fd[d] = fd[c] /\ o = "destroy"
      BY <1>0, <2>4 DEF InMap
    <3>2. Alive(d)
      BY <1>0, AliveIs DEF FreshInv
    <3> QED BY <1>0, <1>2, <3>1, <3>2 DEF FdInv
  <2>10. MapInv' /\ FdInv'
    BY <1>0, <2>4, <2>8 DEF MapInv, FdInv
  <2>11. FreshInv'
    BY <1>0, <1>2, <2>5, <2>7, AliveIs DEF FreshInv, HoldFrame
  <2>12. QueueInv'
    <3> SUFFICES ASSUME NEW l \in Loops, NEW f \in Queue(l)'
                 PROVE  /\ f.op = "closeInLoop" => l = Main
                        /\ f.op = "destroy" => /\ m_loop[f.conn] = l
                                               /\ ~InMap(f.conn)' \/ f.conn \in early'
      BY <1>0 DEF QueueInv
    <3>1. CASE f \in Queue(l)
      <4>1. f.conn \in Conns
        BY <1>0, <3>1, PendingQueued, FuncIs
      <4> QED BY <1>0, <2>5, <3>1, <4>1 DEF QueueInv, HoldFrame
    <3>2. CASE f = g /\ l = L
      BY <1>2, <2>1, <2>6, <3>2
    <3> QED BY <2>3, <3>1, <3>2
  <2>13. \A d \in Conns : DestroyPending(d) \/ (d = c /\ o = "destroy") => DestroyPending(d)'
    <3> SUFFICES ASSUME NEW d \in Conns, DestroyPending(d) \/ (d = c /\ o = "destroy")
                 PROVE  DestroyPending(d)'
      OBVIOUS
    <3>1. PICK l : l = m_loop[d]
      OBVIOUS
    <3>2. l \in Loops /\ pos[l] \in Nat /\ copy[l] \in Seq(Funcs) /\ Len(copy[l]) \in Nat
      BY <1>0, <3>1, LenProperties DEF LoopInv
    <3>3. CASE Func("destroy", d) \in ToSet(todo[l]) \/ (d = c /\ o = "destroy")
      <4>1. Func("destroy", d) \in ToSet(todo'[l])
        BY <1>2, <2>0, <2>2, <3>1, <3>2, <3>3
      <4> QED BY <1>0, <3>1, <4>1 DEF DestroyPending, Pending
    <3>4. CASE Func("destroy", d) \notin ToSet(todo[l]) /\ DestroyPending(d)
      <4>1. PICK i \in (pos[l] + 1)..Len(copy[l]) : copy[l][i] = Func("destroy", d)
        BY <3>1, <3>4 DEF DestroyPending, Pending
      <4>2. pos'[l] \in Nat /\ (i # pos'[l] \/ pos'[l] = pos[l])
        BY <3>2, <4>1, FuncType DEF HoldFrame
      <4>3. i \in (pos'[l] + 1)..Len(copy[l])
        BY <3>2, <4>1, <4>2 DEF HoldFrame
      <4> QED BY <1>0, <3>1, <4>1, <4>3 DEF DestroyPending, Pending
    <3> QED BY <3>3, <3>4
  <2>14. EpollInv'
    BY <1>0, <2>5, <2>9, <2>13 DEF EpollInv, HoldFrame
  <2>15. \A d \in Conns, l \in Loops :
           Func("destroy", d) \in Queue(l)' => Func("destroy", d) \in Queue(l) \/ ~Establishing(d)
                                                         \/ d \in early'
    BY <1>2, <2>1, <2>3, FuncType DEF Establishing
  <2> QED BY <2>2, <2>4, <2>10, <2>11, <2>12, <2>14, <2>15
<1>3. CASE /\ c \in Conns /\ Alive(c)
           /\ todo' = [todo EXCEPT ![Main] = Append(@, Func("closeInLoop", c))]
           /\ UNCHANGED m_connections
  BY <1>2, <1>3, Basics
<1>4. CASE /\ c \in Conns /\ Alive(c) /\ CloseConnectionInLoop(c)
           /\ task[Main].step \notin EstablishSteps \/ c \in early'
  <2>1. m_loop[c] \in Loops
    BY <1>0, <1>4
  <2> QED BY <1>2, <1>4, <2>1 DEF CloseConnectionInLoop
<1> QED BY <1>1, <1>3, <1>4 DEF CloseEffect
(***************************************************************************)
(* What steps keep that leave a group of variables alone.                   *)
(***************************************************************************)

LEMMA ReadKept ==
  ASSUME ReadType, ReadInv, UNCHANGED <<readVars, sent>>
  PROVE  ReadType' /\ ReadInv'
<1>1. ReadType'
  BY DEF ReadType, readVars
<1>2. ReadInv'
  BY DEF ReadInv, readVars
<1> QED BY <1>1, <1>2

LEMMA WriteKept ==
  ASSUME WriteType, WriteInv, UNCHANGED writeVars, crash' = "no" => crash = "no",
         \A l \in Loops : task'[l].step \in WriteSteps => task'[l] = task[l]
  PROVE  WriteType' /\ WriteInv'
<1>1. WriteType'
  BY DEF WriteType, writeVars
<1>2. /\ UNCHANGED <<m_writeBuffer, taken, replies>>
      /\ \A c, r, n : SentUpTo(c, r, n)' <=> SentUpTo(c, r, n)
  BY DEF writeVars, SentUpTo
<1>3. \A l \in Loops, c \in Conns : Writes(l, c)' => Writes(l, c) /\ task'[l] = task[l]
  BY DEF Writes
<1>4. ASSUME NEW c \in Conns, NEW l \in Loops, Writes(l, c)', crash' = "no"
      PROVE  WriterInv(l, c)'
  <2>1. task'[l] = task[l] /\ WriterInv(l, c)
    BY <1>3, <1>4 DEF WriteInv
  <2>2. PICK r, n : r = replies[c] /\ n = task[l].left
    OBVIOUS
  <2>3. r \in 1..MaxReplies /\ m_writeBuffer[c] = SendBuffer(r) /\ SentUpTo(c, r, n)
    BY <2>1, <2>2 DEF WriterInv
  <2>4. SentUpTo(c, r, n)' /\ r = replies'[c] /\ n = task'[l].left
    BY <1>2, <2>1, <2>2, <2>3
  <2>5. SentUpTo(c, replies[c], task[l].left)'
    BY <2>4
  <2>6. \A k \in Loops : Writes(k, c)' => k = l
    BY <1>3, <2>1 DEF WriterInv
  <2> QED BY <1>2, <2>3, <2>4, <2>5, <2>6 DEF WriterInv
<1>5. WriteInv'
  BY <1>2, <1>4 DEF WriteInv, InOrder
<1> QED BY <1>1, <1>5

\* A step in which no exception is thrown.
LEMMA ThrowKept ==
  ASSUME crash' \in {"no", "accept"}
  PROVE  CrashHasCause'
BY DEF CrashHasCause

\* A thread that is not establishing a connection takes up t, or the main thread
\* goes on in the connect callback.
TakesUp(l, t) ==
  /\ task' = [task EXCEPT ![l] = t]
  /\ \/ /\ task[l].step \notin EstablishSteps
        /\ t \in Tasks => t.step \in WorkSteps /\ inEpoll[t.conn] /\ m_loop[t.conn] = l
     \/ /\ task[l].step \in EstablishSteps /\ t \in Tasks /\ t.step \in EstablishSteps
        /\ t.conn = task[l].conn /\ t.guard = task[l].guard

LEMMA TaskFrame ==
  ASSUME TypeInv, HoldInv, NEW l \in Loops, NEW t \in {Idle} \cup Tasks, TakesUp(l, t)
  PROVE  /\ task' \in [Loops -> {Idle} \cup Tasks]
         /\ task'[l] = t /\ \A k \in Loops : k # l => task'[k] = task[k]
         /\ \A d \in Conns : OnStack(d)' => Alive(d)
         /\ \A d \in Conns : Establishing(d)' <=> Establishing(d)
<1>1. /\ task \in [Loops -> {Idle} \cup Tasks] /\ task' \in [Loops -> {Idle} \cup Tasks]
      /\ task'[l] = t /\ \A k \in Loops : k # l => task'[k] = task[k]
  BY DEF TakesUp, TypeInv, LoopInv
<1>2. \A k \in Loops : \A d \in Conns : task[k].conn = d => Alive(d)
  <2> SUFFICES ASSUME NEW k \in Loops, NEW d \in Conns, task[k].conn = d PROVE Alive(d)
    OBVIOUS
  <2>1. task[k] # Idle
    BY Basics
  <2> QED BY <2>1, TaskAlive
<1>3. CASE /\ task[l].step \notin EstablishSteps
           /\ t \in Tasks => t.step \in WorkSteps /\ inEpoll[t.conn] /\ m_loop[t.conn] = l
  <2>1. t \in Tasks => t.conn \in Conns /\ t.step \notin EstablishSteps
    BY <1>3 DEF Tasks, EstablishSteps, WorkSteps
  <2>2. t.step \notin EstablishSteps
    BY <2>1, Basics DEF EstablishSteps
  <2>3. ASSUME NEW d \in Conns, OnStack(d)' PROVE Alive(d)
    <3>1. PICK k \in Loops : task'[k].conn = d /\ task'[k].guard
      BY <2>3 DEF OnStack
    <3>2. CASE k = l
      <4>1. t \in Tasks /\ t.conn = d
        BY <1>1, <3>1, <3>2, Basics
      <4> QED BY <1>3, <4>1, InEpollAlive
    <3>3. CASE k # l
      BY <1>1, <1>2, <3>1, <3>3
    <3> QED BY <3>2, <3>3
  <2>4. \A d \in Conns : Establishing(d)' <=> Establishing(d)
    BY <1>1, <1>3, <2>2, Basics DEF Establishing
  <2> QED BY <1>1, <2>3, <2>4
<1>4. CASE /\ task[l].step \in EstablishSteps /\ t \in Tasks /\ t.step \in EstablishSteps
           /\ t.conn = task[l].conn /\ t.guard = task[l].guard
  <2>1. \A k \in Loops : task'[k].conn = task[k].conn
    BY <1>1, <1>4
  <2>2. \A d \in Conns : OnStack(d)' => Alive(d)
    BY <1>2, <2>1 DEF OnStack
  <2>3. \A d \in Conns : Establishing(d)' <=> Establishing(d)
    BY <1>1, <1>4, <2>1, Basics DEF Establishing
  <2> QED BY <1>1, <2>2, <2>3
<1> QED BY <1>3, <1>4 DEF TakesUp

\* What the task of k requires after the step.
TaskOk(k) ==
  /\ task[k].step \in WorkSteps => inEpoll[task[k].conn] /\ m_loop[task[k].conn] = k
  /\ task[k].step \in EstablishSteps =>
       /\ k = Main /\ task[k].guard
       /\ task[k].conn \in early \/ Untouched(task[k].conn)

\* A task that stays as it was, or goes on within EstablishConnection.
LEMMA TaskStays ==
  ASSUME TypeInv, HoldInv, NEW k \in Loops,
         \/ task'[k] = task[k]
         \/ /\ task[k].step \in EstablishSteps /\ task'[k].step \in EstablishSteps
            /\ task'[k].conn = task[k].conn /\ task'[k].guard = task[k].guard,
         UNCHANGED <<inEpoll, m_loop>>, early \subseteq early',
         \A d \in Conns, j \in Loops :
           Func("destroy", d) \in Queue(j)' => Func("destroy", d) \in Queue(j) \/ ~Establishing(d)
                                              \/ d \in early'
  PROVE  TaskOk(k)'
<1>1. TaskOk(k)
  BY DEF HoldInv, TaskInv, TaskOk
<1>2. PICK c : c = task[k].conn /\ c = task'[k].conn
  OBVIOUS
<1>3. CASE task[k].step \in EstablishSteps
  <2>1. task[k] # Idle /\ task'[k].step \in EstablishSteps /\ task'[k].guard = task[k].guard
    BY <1>3, Basics DEF EstablishSteps
  <2>2. c \in Conns
    BY <1>2, <2>1, TaskIs DEF TypeInv
  <2>3. k = Main /\ task[k].guard /\ (c \in early \/ Untouched(c))
    BY <1>1, <1>2, <1>3 DEF TaskOk
  <2>4. Establishing(c)
    BY <1>2, <1>3, <2>3 DEF Establishing
  <2>5. c \in early' \/ Untouched(c)'
    BY <2>2, <2>3, <2>4 DEF Untouched
  <2>6. task'[k].step \notin WorkSteps
    BY <2>1 DEF EstablishSteps, WorkSteps
  <2> QED BY <1>2, <2>1, <2>3, <2>5, <2>6 DEF TaskOk
<1>4. CASE task[k].step \notin EstablishSteps
  BY <1>1, <1>4 DEF TaskOk
<1> QED BY <1>3, <1>4

LEMMA TaskKept ==
  ASSUME TypeInv, HoldInv, NEW l \in Loops, NEW t \in {Idle} \cup Tasks, TakesUp(l, t),
         UNCHANGED <<inEpoll, m_loop>>, early \subseteq early',
         \A d \in Conns, j \in Loops :
           Func("destroy", d) \in Queue(j)' => Func("destroy", d) \in Queue(j) \/ ~Establishing(d)
                                              \/ d \in early'
  PROVE  TaskInv'
<1>1. /\ task'[l] = t /\ \A k \in Loops : k # l => task'[k] = task[k]
  BY TaskFrame
<1>2. ASSUME NEW k \in Loops PROVE TaskOk(k)'
  <2>1. CASE k # l
    BY <1>1, <2>1, TaskStays
  <2>2. CASE k = l /\ task[l].step \in EstablishSteps
    <3>1. /\ t.step \in EstablishSteps /\ t.conn = task[l].conn /\ t.guard = task[l].guard
      BY <2>2 DEF TakesUp
    <3> QED BY <1>1, <2>2, <3>1, TaskStays
  <2>3. CASE k = l /\ task[l].step \notin EstablishSteps
    <3>1. t \in Tasks => t.step \in WorkSteps /\ inEpoll[t.conn] /\ m_loop[t.conn] = l
      BY <2>3 DEF TakesUp
    <3>2. t.step \notin EstablishSteps /\ (t.step \in WorkSteps => t \in Tasks)
      BY <3>1, Basics DEF EstablishSteps, WorkSteps
    <3> QED BY <1>1, <2>3, <3>1, <3>2 DEF TaskOk
  <2> QED BY <2>1, <2>2, <2>3
<1> QED BY <1>2 DEF TaskInv, TaskOk

\* The steps in which no thread takes up or leaves a handler.
LEMMA SameTasks ==
  ASSUME TypeInv, HoldInv, task' = task
  PROVE  /\ \A d \in Conns : OnStack(d)' => Alive(d)
         /\ \A d \in Conns : Establishing(d)' <=> Establishing(d)
<1>1. ASSUME NEW d \in Conns, OnStack(d)' PROVE Alive(d)
  <2>1. PICK k \in Loops : task[k].conn = d /\ task[k].guard
    BY <1>1 DEF OnStack
  <2>2. task[k] # Idle
    BY <2>1, Basics
  <2> QED BY <2>1, <2>2, TaskAlive
<1> QED BY <1>1 DEF Establishing

LEMMA SameTasksKept ==
  ASSUME TypeInv, HoldInv, UNCHANGED <<task, inEpoll, m_loop>>, early \subseteq early',
         \A d \in Conns, j \in Loops :
           Func("destroy", d) \in Queue(j)' => Func("destroy", d) \in Queue(j) \/ ~Establishing(d)
                                              \/ d \in early'
  PROVE  TaskInv'
<1>1. \A k \in Loops : TaskOk(k)'
  BY TaskStays
<1> QED BY <1>1 DEF TaskInv, TaskOk

\* The steps in which neither a function, nor the map, nor a handler changes.
LEMMA QuietHold ==
  ASSUME TypeInv, HoldInv, BatchInv',
         UNCHANGED <<todo, copy, pos, m_connections, m_state, fd, m_loop, inEpoll, task, early>>
  PROVE  HoldInv'
<1>1. \A l \in Loops : Queue(l)' = Queue(l)
  BY DEF Queue
<1>2. HoldFrame
  <2>1. pos' \in [Loops -> Nat]
    BY DEF TypeInv, LoopInv
  <2>2. \A d \in Conns : m_state[d] = "none" => d \notin early
    BY DEF HoldInv, FreshInv
  <2> QED BY <2>1, <2>2, SameTasks DEF HoldFrame
<1>3. CloseEffect(NoConn)
  BY DEF CloseEffect
<1>4. MapInv' /\ FreshInv' /\ FdInv' /\ QueueInv' /\ EpollInv'
  BY <1>2, <1>3, HoldKeeps
<1>5. TaskInv'
  BY <1>1, SameTasksKept
<1> QED BY <1>4, <1>5 DEF HoldInv

LEMMA SameBatches ==
  ASSUME HoldInv, UNCHANGED <<batch, inEpoll, m_loop>> PROVE BatchInv'
BY DEF HoldInv, BatchInv

\* Everything but the start of the pool.
LEMMA StartOnly ==
  ASSUME ServerInv, StartInv', StartVarsOnly
  PROVE  ServerInv'
<1>1. /\ UNCHANGED <<phase, batch, todo, copy, pos, task, crash, early>>
      /\ UNCHANGED <<m_connections, m_state, fd, m_loop, m_tied, inEpoll, want, edge, end>>
      /\ UNCHANGED readVars /\ UNCHANGED writeVars /\ sent' = sent
  BY DEF StartVarsOnly, turnVars, chanVars, objVars, sockVars
<1>2. LoopInv' /\ ConnType'
  <2>1. LoopInv'
    BY <1>1 DEF ServerInv, TypeInv, LoopInv
  <2>2. ConnType'
    BY <1>1 DEF ServerInv, TypeInv, ConnType
  <2> QED BY <2>1, <2>2
<1>3. HoldInv'
  BY <1>1, SameBatches, QuietHold DEF ServerInv
<1>4. KindInv' /\ CrashHasCause'
  <2>1. sent' = sent /\ nread' = nread
    BY <1>1 DEF readVars
  <2>2. KindInv'
    BY <1>1 DEF ServerInv, KindInv, Establishing
  <2>3. CrashHasCause'
    BY <1>1, <2>1 DEF ServerInv, CrashHasCause, ResetSeen
  <2> QED BY <2>2, <2>3
<1>5. ReadType' /\ ReadInv'
  BY <1>1, ReadKept DEF ServerInv, TypeInv
<1>6. WriteType' /\ WriteInv'
  BY <1>1, WriteKept DEF ServerInv, TypeInv
<1> QED BY <1>2, <1>3, <1>4, <1>5, <1>6 DEF ServerInv, TypeInv

(***************************************************************************)
(* The start.                                                               *)
(***************************************************************************)

LEMMA StartingStep ==
  ASSUME ServerInv, Starting \/ \E t \in Threads : ThreadFunc(t)
  PROVE  ServerInv'
<1>0. /\ StartInv /\ Len(m_loops) \in Nat /\ m_threadNum \in 0..MaxThreads
      /\ m_loops \in Seq(Threads)
  BY LenProperties DEF ServerInv, TypeInv, StartInv
<1>1. CASE StartLoop
  <2>1. /\ start' = "test" /\ Len(m_loops) < m_threadNum
        /\ published' = [published EXCEPT ![Len(m_loops) + 1] = "new"]
        /\ UNCHANGED <<m_loops, m_threadNum, m_next>> /\ StartVarsOnly
    BY <1>1 DEF StartLoop, StartVarsOnly
  <2>2. published' \in [Threads -> {"none", "new", "set"}]
    BY <1>0, <2>1 DEF StartInv
  <2>3. StartInv'
    BY <1>0, <2>1, <2>2 DEF StartInv
  <2> QED BY <2>1, <2>3, StartOnly
<1>2. CASE AwaitLoop
  <2>1. PICK t : t = Len(m_loops) + 1
    OBVIOUS
  <2>2. /\ start = "test" /\ UNCHANGED <<published, m_threadNum, m_next>> /\ StartVarsOnly
        /\ \/ m_loops' = Append(m_loops, t) /\ start' = "spawn"
           \/ m_loops' = m_loops /\ start' = "asleep"
    BY <1>2, <2>1 DEF AwaitLoop, StartVarsOnly
  <2>3. Len(m_loops) < m_threadNum
    BY <1>0, <2>2 DEF StartInv
  <2>4. t \in Threads
    BY <1>0, <2>1, <2>3, Basics DEF Threads
  <2>5. CASE m_loops' = Append(m_loops, t) /\ start' = "spawn"
    <3>1. m_loops' \in Seq(Threads) /\ Len(m_loops') = Len(m_loops) + 1
      BY <1>0, <2>4, <2>5, AppendProperties
    <3>2. Len(m_loops') <= m_threadNum
      BY <1>0, <2>3, <3>1
    <3>3. StartInv'
      BY <1>0, <2>2, <2>5, <3>1, <3>2 DEF StartInv
    <3> QED BY <2>2, <3>3, StartOnly
  <2>6. CASE m_loops' = m_loops /\ start' = "asleep"
    <3>1. StartInv'
      BY <1>0, <2>2, <2>3, <2>6 DEF StartInv
    <3> QED BY <2>2, <3>1, StartOnly
  <2> QED BY <2>2, <2>5, <2>6
<1>3. CASE EnterLoop
  <2>1. /\ start' = "loop" /\ Len(m_loops) = m_threadNum
        /\ UNCHANGED <<m_loops, published, m_threadNum, m_next>> /\ StartVarsOnly
    BY <1>3 DEF EnterLoop, StartVarsOnly
  <2>2. StartInv'
    BY <1>0, <2>1 DEF StartInv
  <2> QED BY <2>1, <2>2, StartOnly
<1>4. ASSUME NEW t \in Threads, ThreadFunc(t) PROVE ServerInv'
  <2>1. /\ published' = [published EXCEPT ![t] = "set"]
        /\ start' = Notified(start)
        /\ UNCHANGED <<m_loops, m_threadNum, m_next>> /\ StartVarsOnly
    BY <1>4 DEF ThreadFunc, StartVarsOnly
  <2>2. published' \in [Threads -> {"none", "new", "set"}]
    BY <1>0, <2>1 DEF StartInv
  <2>3. /\ start' \in {"spawn", "test", "asleep", "loop"}
        /\ start' \in {"test", "asleep"} => start \in {"test", "asleep"}
        /\ start' = "loop" => start = "loop"
    BY <1>0, <2>1 DEF StartInv, Notified
  <2>4. StartInv'
    BY <1>0, <2>1, <2>2, <2>3 DEF StartInv
  <2> QED BY <2>1, <2>4, StartOnly
<1> QED BY <1>1, <1>2, <1>3, <1>4 DEF Starting

(***************************************************************************)
(* A new connection.                                                        *)
(***************************************************************************)

\* The loop that the next connection gets.
LEMMA NextLoop ==
  ASSUME StartInv, start = "loop"
  PROVE  /\ GetNextLoop \in Loops
         /\ m_loops # <<>> => NextIndex(m_next) \in 0..MaxThreads /\ NextIndex(m_next) < m_threadNum
<1>1. /\ Len(m_loops) = m_threadNum /\ m_threadNum \in Nat /\ m_next \in Nat
      /\ m_loops \in Seq(Threads) /\ (m_next = 0 \/ m_next < m_threadNum)
      /\ m_threadNum <= MaxThreads /\ MaxThreads \in Nat
  BY Basics DEF StartInv
<1>2. CASE m_loops = <<>>
  BY <1>2, Basics DEF GetNextLoop
<1>3. CASE m_loops # <<>>
  <2>1. m_threadNum > 0
    BY <1>1, <1>3, EmptySeq, LenProperties
  <2>2. m_next + 1 \in 1..Len(m_loops)
    BY <1>1, <2>1
  <2>3. m_loops[m_next + 1] \in Threads
    BY <1>1, <2>2, ElementOfSeq
  <2>4. (m_next + 1) % m_threadNum \in 0..(m_threadNum - 1)
    BY <1>1, <2>1
  <2>5. GetNextLoop \in Loops
    BY <1>3, <2>3 DEF GetNextLoop, Loops
  <2>6. NextIndex(m_next) \in 0..MaxThreads /\ NextIndex(m_next) < m_threadNum
    BY <1>1, <2>1, <2>4 DEF NextIndex
  <2> QED BY <2>5, <2>6
<1> QED BY <1>2, <1>3

LEMMA CreateStep ==
  ASSUME ServerInv, NEW c \in Conns, NEW f \in Fds, CreateConnection(c, f)
  PROVE  ServerInv'
<1>0. /\ StartInv /\ LoopInv /\ ConnType /\ MapInv /\ FreshInv /\ FdInv /\ BatchInv /\ TaskInv
      /\ QueueInv /\ EpollInv /\ KindInv
  BY DEF ServerInv, TypeInv, HoldInv
<1>1. /\ crash = "no" /\ start = "loop" /\ task[Main] = Idle /\ phase[Main] = "dispatch"
      /\ m_state[c] = "none" /\ FdFree(f)
      /\ m_next' = IF m_loops = <<>> THEN m_next ELSE NextIndex(m_next)
      /\ m_state' = [m_state EXCEPT ![c] = "Connected"]
      /\ fd' = [fd EXCEPT ![c] = f]
      /\ m_loop' = [m_loop EXCEPT ![c] = GetNextLoop]
      /\ inEpoll' = [inEpoll EXCEPT ![c] = TRUE]
      /\ task' = [task EXCEPT ![Main] = Task("enable", c, TRUE, 0)]
  BY DEF CreateConnection, Between, Running
<1>2. /\ UNCHANGED <<m_threadNum, m_loops, published, start>>
      /\ UNCHANGED <<phase, batch, todo, copy, pos, crash, early>>
      /\ UNCHANGED <<m_connections, m_tied, want, edge, end>>
      /\ UNCHANGED readVars /\ UNCHANGED writeVars /\ sent' = sent
  BY DEF CreateConnection, startVars, turnVars, sockVars
<1>3. PICK t, L : t = Task("enable", c, TRUE, 0) /\ L = GetNextLoop
  OBVIOUS
<1>4. /\ t \in Tasks /\ t.step = "enable" /\ t.conn = c /\ t.guard /\ t # Idle
  <2>1. 0 \in 0..ReplyLen /\ TRUE \in BOOLEAN
    BY Basics
  <2>2. t = [step |-> "enable", conn |-> c, guard |-> TRUE, left |-> 0]
    BY <1>3 DEF Task
  <2>3. t \in Tasks
    BY <2>1, <2>2 DEF Tasks, EstablishSteps
  <2>4. Idle \notin Tasks
    BY Basics DEF Tasks
  <2> QED BY <2>2, <2>3, <2>4
<1>5. L \in Loops
  BY <1>0, <1>1, <1>3, NextLoop
<1>6. StartInv'
  BY <1>0, <1>1, <1>2, NextLoop DEF StartInv
<1>7. /\ task' \in [Loops -> {Idle} \cup Tasks]
      /\ task'[Main] = t /\ \A l \in Loops : l # Main => task'[l] = task[l]
  BY <1>0, <1>1, <1>3, <1>4, Basics DEF LoopInv
<1>8. LoopInv'
  BY <1>0, <1>1, <1>2, <1>7 DEF LoopInv
<1>9. /\ m_state' \in [Conns -> {"none", "Connected", "Closed"}] /\ m_state'[c] = "Connected"
      /\ fd' \in [Conns -> Fds] /\ fd'[c] = f
      /\ m_loop' \in [Conns -> Loops] /\ m_loop'[c] = L
      /\ inEpoll' \in [Conns -> BOOLEAN] /\ inEpoll'[c]
      /\ \A d \in Conns : d # c => /\ m_state'[d] = m_state[d] /\ fd'[d] = fd[d]
                                   /\ m_loop'[d] = m_loop[d] /\ inEpoll'[d] = inEpoll[d]
  BY <1>0, <1>1, <1>3, <1>5 DEF ConnType
<1>10. ConnType'
  BY <1>0, <1>2, <1>9 DEF ConnType
<1>11. ~InMap(c) /\ ~Queued(c) /\ ~inEpoll[c] /\ c \notin early
  BY <1>0, <1>1 DEF FreshInv
<1>12. \A d \in Conns : InMap(d)' <=> InMap(d)
  <2>1. m_connections[f] # c
    BY <1>0, <1>11, Basics DEF MapInv, InMap
  <2> QED BY <1>2, <1>9, <1>11, <2>1 DEF InMap
<1>13. /\ \A l \in Loops : Queue(l)' = Queue(l) /\ Pending(l)' = Pending(l)
       /\ \A d \in Conns : Queued(d)' <=> Queued(d)
  BY <1>2 DEF Queue, Pending, Queued
<1>14. \A d \in Conns : OnStack(d)' => OnStack(d) \/ d = c
  BY <1>4, <1>7 DEF OnStack
<1>15. \A d \in Conns : Alive(d)' => Alive(d) \/ d = c
  BY <1>9, <1>12, <1>13, <1>14, AliveIs
<1>16. MapInv'
  <2>1. ASSUME NEW g \in Fds, m_connections[g] # NoConn PROVE fd'[m_connections[g]] = g
    <3>1. m_connections[g] \in Conns /\ fd[m_connections[g]] = g
      BY <1>0, <2>1 DEF ConnType, MapInv
    <3>2. m_connections[g] # c
      BY <1>11, <3>1 DEF InMap
    <3> QED BY <1>9, <3>1, <3>2
  <2> QED BY <1>2, <2>1 DEF MapInv
<1>17. FreshInv'
  BY <1>0, <1>2, <1>9, <1>12, <1>13 DEF FreshInv
<1>18. FdInv'
  <2>1. \A d \in Conns : Alive(d) => fd[d] # f
    BY <1>1 DEF FdFree
  <2> SUFFICES ASSUME NEW d \in Conns, NEW e \in Conns, Alive(d)', Alive(e)', fd'[d] = fd'[e]
               PROVE  d = e
    BY DEF FdInv
  <2>2. CASE d # c /\ e # c
    BY <1>0, <1>9, <1>15, <2>2 DEF FdInv
  <2>3. CASE d = c \/ e = c
    BY <1>9, <1>15, <2>1, <2>3
  <2> QED BY <2>2, <2>3
<1>19. BatchInv'
  <2> SUFFICES ASSUME NEW l \in Loops, NEW e \in batch[l]
               PROVE  inEpoll'[e.conn] /\ m_loop'[e.conn] = l
    BY <1>2 DEF BatchInv
  <2>1. e.conn \in Conns
    BY <1>0 DEF LoopInv, Events
  <2>2. inEpoll[e.conn] /\ m_loop[e.conn] = l
    BY <1>0 DEF BatchInv
  <2> QED BY <1>9, <1>11, <2>1, <2>2
<1>20. TaskInv'
  <2>1. Untouched(c)'
    <3>1. \A n \in Loops : Func("destroy", c) \notin Queue(n)
      BY <1>11, FuncType, QueuedIs
    <3> QED BY <1>9, <1>13, <3>1 DEF Untouched
  <2>2. t.step \notin WorkSteps /\ t.step \in EstablishSteps
    BY <1>4 DEF EstablishSteps, WorkSteps
  <2>3. ASSUME NEW k \in Loops PROVE TaskOk(k)'
    <3>1. CASE k = Main
      BY <1>4, <1>7, <2>1, <2>2, <3>1 DEF TaskOk
    <3>2. CASE k # Main
      <4>1. task'[k] = task[k] /\ task[k].step \notin EstablishSteps
        BY <1>0, <1>7, <3>2 DEF TaskInv
      <4>2. CASE task[k].step \in WorkSteps
        <5>1. task[k] # Idle /\ inEpoll[task[k].conn] /\ m_loop[task[k].conn] = k
          BY <1>0, <4>2, Basics DEF TaskInv, WorkSteps
        <5>2. task[k].conn \in Conns /\ task[k].conn # c
          BY <1>0, <1>11, <5>1, TaskIs
        <5> QED BY <1>9, <4>1, <5>1, <5>2 DEF TaskOk
      <4> QED BY <4>1, <4>2 DEF TaskOk
    <3> QED BY <3>1, <3>2
  <2> QED BY <2>3 DEF TaskInv, TaskOk
<1>21. QueueInv'
  <2> SUFFICES ASSUME NEW l \in Loops, NEW g \in Queue(l)
       PROVE  /\ g.op = "closeInLoop" => l = Main
              /\ g.op = "destroy" => /\ m_loop'[g.conn] = l
                                     /\ ~InMap(g.conn)' \/ g.conn \in early
    BY <1>2, <1>13 DEF QueueInv
  <2>1. g.conn \in Conns /\ g.conn # c
    BY <1>0, <1>11, PendingQueued, FuncIs, QueuedIs
  <2> QED BY <1>0, <1>9, <1>12, <2>1 DEF QueueInv
<1>22. EpollInv'
  <2>1. Establishing(c)'
    BY <1>4, <1>7 DEF Establishing, EstablishSteps
  <2>2. \A d \in Conns : ~Establishing(d)
    BY <1>1, Basics DEF Establishing, EstablishSteps
  <2>3. \A d \in Conns : d # c /\ DestroyPending(d) => DestroyPending(d)'
    <3>1. \A d \in Conns : m_loop[d] \in Loops
      BY <1>0 DEF ConnType
    <3> QED BY <1>9, <1>13, <3>1 DEF DestroyPending
  <2> SUFFICES ASSUME NEW d \in Conns
       PROVE  /\ InMap(d)' => inEpoll'[d] \/ d \in early
              /\ inEpoll'[d] => InMap(d)' \/ DestroyPending(d)' \/ Establishing(d)'
    BY <1>2 DEF EpollInv
  <2>4. CASE d = c
    BY <1>9, <2>1, <2>4
  <2>5. CASE d # c
    BY <1>0, <1>9, <1>12, <2>2, <2>3, <2>5 DEF EpollInv
  <2> QED BY <2>4, <2>5
<1>23. KindInv'
  <2>1. \A d \in Conns : Establishing(d)' => d = c
    BY <1>4, <1>7 DEF Establishing
  <2> QED BY <1>0, <1>2, <1>9, <1>11, <2>1 DEF KindInv
<1>24. ReadType' /\ ReadInv'
  BY <1>2, ReadKept DEF ServerInv, TypeInv
<1>25. WriteType' /\ WriteInv'
  <2>1. \A k \in Loops : task'[k].step \in WriteSteps => task'[k] = task[k]
    BY <1>4, <1>7 DEF WriteSteps
  <2> QED BY <1>2, <2>1, WriteKept DEF ServerInv, TypeInv
<1>26. CrashHasCause'
  BY <1>1, <1>2, ThrowKept
<1> QED
  BY <1>6, <1>8, <1>10, <1>16, <1>17, <1>18, <1>19, <1>20, <1>21, <1>22, <1>23, <1>24, <1>25,
     <1>26 DEF ServerInv, TypeInv, HoldInv

\* The fields of a task that goes on.
LEMMA GoOnIs ==
  ASSUME LoopInv, NEW l \in Loops, task[l] # Idle,
         NEW s \in EstablishSteps \cup WorkSteps,
         task' = [task EXCEPT ![l].step = s]
  PROVE  /\ task' \in [Loops -> {Idle} \cup Tasks]
         /\ task'[l].step = s /\ task'[l].conn = task[l].conn /\ task'[l].guard = task[l].guard
         /\ task'[l].left = task[l].left /\ task'[l] \in Tasks
         /\ \A k \in Loops : k # l => task'[k] = task[k]
<1>1. PICK r, u : r = task[l] /\ u = [r EXCEPT !.step = s]
  OBVIOUS
<1>2. r \in Tasks /\ task \in [Loops -> {Idle} \cup Tasks]
  BY <1>1, TaskIs DEF LoopInv
<1>3. /\ u \in Tasks /\ u.step = s /\ u.conn = r.conn /\ u.guard = r.guard /\ u.left = r.left
  BY <1>1, <1>2 DEF Tasks
<1>4. task' = [task EXCEPT ![l] = u]
  BY <1>1
<1> QED BY <1>1, <1>2, <1>3, <1>4

\* EnableRead and Tie.
LEMMA EstablishOn ==
  ASSUME ServerInv, NEW s \in {"tie", "connect"}, GoOn(Main, s),
         task[Main].step \in {"enable", "tie"}, crash = "no",
         UNCHANGED <<startVars, turnVars, todo, m_next, crash, early>>,
         UNCHANGED <<m_connections, m_state, fd, m_loop, inEpoll, end>>,
         UNCHANGED readVars, UNCHANGED writeVars, sent' = sent,
         m_tied' \in [Conns -> BOOLEAN], want' \in [Conns -> BOOLEAN], edge' \in [Conns -> BOOLEAN]
  PROVE  ServerInv'
<1>1. /\ UNCHANGED <<m_threadNum, m_loops, published, start>>
      /\ UNCHANGED <<phase, batch, copy, pos>>
  BY DEF startVars, turnVars
<1>2. /\ StartInv /\ LoopInv /\ ConnType /\ TaskInv /\ task[Main] # Idle
      /\ TypeInv /\ HoldInv /\ FreshInv
  BY Basics DEF ServerInv, TypeInv, HoldInv
<1>3. s \in EstablishSteps /\ task[Main].step \in EstablishSteps
  BY DEF EstablishSteps
<1>4. phase[Main] = "dispatch"
  BY <1>2, Basics DEF LoopInv
<1>5. PICK t : t = [task[Main] EXCEPT !.step = s]
  OBVIOUS
<1>6. /\ task' = [task EXCEPT ![Main] = t] /\ t \in Tasks
      /\ t.step = s /\ t.conn = task[Main].conn /\ t.guard = task[Main].guard
  <2>1. task[Main] \in Tasks
    BY <1>2, TaskIs, Basics
  <2> QED BY <1>3, <1>5, <2>1 DEF GoOn, Tasks
<1>7. TakesUp(Main, t)
  BY <1>3, <1>6 DEF TakesUp
<1>8. /\ task' \in [Loops -> {Idle} \cup Tasks]
      /\ task'[Main] = t /\ \A k \in Loops : k # Main => task'[k] = task[k]
      /\ \A d \in Conns : OnStack(d)' => Alive(d)
      /\ \A d \in Conns : Establishing(d)' <=> Establishing(d)
  BY <1>2, <1>6, <1>7, TaskFrame, Basics
<1>9. HoldFrame
  <2>1. pos' \in [Loops -> Nat] /\ pos' = pos
    BY <1>1, <1>2 DEF LoopInv
  <2>2. \A d \in Conns : m_state[d] = "none" => d \notin early
    BY <1>2 DEF FreshInv
  <2> QED BY <1>1, <1>8, <2>1, <2>2 DEF HoldFrame
<1>10. CloseEffect(NoConn)
  BY DEF CloseEffect
<1>11. /\ MapInv' /\ FreshInv' /\ FdInv' /\ QueueInv' /\ EpollInv'
       /\ \A d \in Conns, j \in Loops :
            Func("destroy", d) \in Queue(j)' => Func("destroy", d) \in Queue(j) \/ ~Establishing(d)
                                               \/ d \in early'
  BY <1>2, <1>9, <1>10, HoldKeeps
<1>12. BatchInv'
  BY <1>1, SameBatches DEF ServerInv
<1>13. TaskInv'
  BY <1>2, <1>6, <1>7, <1>11, TaskKept, Basics
<1>14. StartInv' /\ ConnType'
  BY <1>1, <1>2 DEF StartInv, ConnType
<1>15. LoopInv'
  BY <1>1, <1>2, <1>4, <1>8 DEF LoopInv
<1>16. KindInv' /\ CrashHasCause'
  BY <1>8, ThrowKept DEF ServerInv, KindInv
<1>17. ReadType' /\ ReadInv'
  BY ReadKept DEF ServerInv, TypeInv
<1>18. WriteType' /\ WriteInv'
  <2>1. \A k \in Loops : task'[k].step \in WriteSteps => task'[k] = task[k]
    BY <1>6, <1>8 DEF WriteSteps
  <2> QED BY <2>1, WriteKept DEF ServerInv, TypeInv
<1> QED
  BY <1>11, <1>12, <1>13, <1>14, <1>15, <1>16, <1>17, <1>18 DEF ServerInv, TypeInv, HoldInv

LEMMA EnableReadStep ==
  ASSUME ServerInv, EnableRead
  PROVE  ServerInv'
<1>1. PICK c, b : c = task[Main].conn /\ b = (edge[c] \/ Readable(c))
  OBVIOUS
<1>2. /\ task[Main].step = "enable" /\ crash = "no"
      /\ want' = [want EXCEPT ![c] = TRUE] /\ edge' = [edge EXCEPT ![c] = b]
      /\ GoOn(Main, "tie") /\ m_tied' = m_tied
      /\ UNCHANGED <<startVars, turnVars, todo, m_next, crash, early>>
      /\ UNCHANGED <<m_connections, m_state, fd, m_loop, inEpoll, end>>
      /\ UNCHANGED readVars /\ UNCHANGED writeVars /\ sent' = sent
  BY <1>1 DEF EnableRead, In, Running, objVars
<1>3. b \in BOOLEAN /\ ConnType
  BY <1>1 DEF ServerInv, TypeInv, ConnType, Readable
<1>4. /\ want' \in [Conns -> BOOLEAN] /\ m_tied' \in [Conns -> BOOLEAN]
      /\ edge' \in [Conns -> BOOLEAN]
  BY <1>2, <1>3 DEF ConnType
<1> QED BY <1>2, <1>4, EstablishOn

LEMMA TieStep ==
  ASSUME ServerInv, Tie
  PROVE  ServerInv'
<1>1. PICK c : c = task[Main].conn
  OBVIOUS
<1>2. /\ task[Main].step = "tie" /\ crash = "no"
      /\ m_tied' = [m_tied EXCEPT ![c] = TRUE] /\ UNCHANGED <<want, edge>>
      /\ GoOn(Main, "connect")
      /\ UNCHANGED <<startVars, turnVars, todo, m_next, crash, early>>
      /\ UNCHANGED <<m_connections, m_state, fd, m_loop, inEpoll, end>>
      /\ UNCHANGED readVars /\ UNCHANGED writeVars /\ sent' = sent
  BY <1>1 DEF Tie, In, Running, objVars, sockVars
<1>3. /\ want' \in [Conns -> BOOLEAN] /\ m_tied' \in [Conns -> BOOLEAN]
      /\ edge' \in [Conns -> BOOLEAN]
  BY <1>2 DEF ServerInv, TypeInv, ConnType
<1> QED BY <1>2, <1>3, EstablishOn

LEMMA InsertStep ==
  ASSUME ServerInv, Insert
  PROVE  ServerInv'
<1>0. /\ StartInv /\ LoopInv /\ ConnType /\ MapInv /\ FreshInv /\ FdInv /\ BatchInv /\ TaskInv
      /\ QueueInv /\ EpollInv /\ KindInv
  BY DEF ServerInv, TypeInv, HoldInv
<1>1. PICK c : c = task[Main].conn
  OBVIOUS
<1>2. /\ task[Main].step = "connect" /\ crash = "no"
      /\ m_connections' = [m_connections EXCEPT ![fd[c]] = c]
      /\ task' = [task EXCEPT ![Main] = Idle]
      /\ UNCHANGED <<m_threadNum, m_loops, published, start, m_next>>
      /\ UNCHANGED <<phase, batch, todo, copy, pos, crash, early>>
      /\ UNCHANGED <<m_state, fd, m_loop, m_tied, inEpoll, want, edge, end>>
      /\ UNCHANGED readVars /\ UNCHANGED writeVars /\ sent' = sent
  BY <1>1 DEF Insert, In, Running, Return, startVars, turnVars, chanVars, objVars, sockVars
<1>3. task[Main] # Idle /\ task[Main].step \in EstablishSteps
  BY <1>2, Basics DEF EstablishSteps
<1>4. c \in Conns /\ Alive(c) /\ m_state[c] # "none"
  BY <1>1, <1>3, TaskAlive, Basics DEF ServerInv
<1>5. c \in early \/ Untouched(c)
  BY <1>0, <1>1, <1>3, Basics DEF TaskInv
<1>6. /\ task' \in [Loops -> {Idle} \cup Tasks]
      /\ task'[Main] = Idle /\ \A k \in Loops : k # Main => task'[k] = task[k]
  BY <1>0, <1>2, Basics DEF LoopInv
<1>7. fd[c] \in Fds /\ m_connections \in [Fds -> Conns \cup {NoConn}]
  BY <1>0, <1>4 DEF ConnType
<1>8. /\ m_connections' \in [Fds -> Conns \cup {NoConn}] /\ m_connections'[fd[c]] = c
      /\ \A f \in Fds : f # fd[c] => m_connections'[f] = m_connections[f]
  BY <1>2, <1>4, <1>7
<1>9. /\ InMap(c)'
      /\ \A d \in Conns : InMap(d)' => InMap(d) \/ d = c
      /\ \A d \in Conns : InMap(d) => InMap(d)'
  <2>1. InMap(c)' /\ \A d \in Conns : InMap(d)' => InMap(d) \/ d = c
    BY <1>0, <1>2, <1>8 DEF InMap, ConnType
  <2>2. ASSUME NEW d \in Conns, InMap(d), d # c PROVE InMap(d)'
    <3>1. Alive(d)
      BY <1>0, <2>2, AliveIs DEF FreshInv
    <3>2. fd[d] # fd[c] /\ fd[d] \in Fds
      BY <1>0, <1>4, <2>2, <3>1 DEF FdInv, ConnType
    <3> QED BY <1>2, <1>8, <2>2, <3>2 DEF InMap
  <2> QED BY <2>1, <2>2
<1>10. /\ \A l \in Loops : Queue(l)' = Queue(l) /\ Pending(l)' = Pending(l)
       /\ \A d \in Conns : (Queued(d)' <=> Queued(d)) /\ (DestroyPending(d)' <=> DestroyPending(d))
  <2>1. \A l : Queue(l)' = Queue(l) /\ Pending(l)' = Pending(l)
    BY <1>2 DEF Queue, Pending
  <2> QED BY <1>2, <2>1, QueuedIs DEF DestroyPending
<1>11. \A d \in Conns : OnStack(d)' => OnStack(d)
  BY <1>6, Basics DEF OnStack
<1>12. \A d \in Conns : Alive(d)' => Alive(d)
  BY <1>2, <1>4, <1>9, <1>10, <1>11, AliveIs
<1>13. StartInv' /\ ConnType'
  BY <1>0, <1>2, <1>8 DEF StartInv, ConnType
<1>14. LoopInv'
  BY <1>0, <1>2, <1>6 DEF LoopInv
<1>15. MapInv'
  BY <1>0, <1>2, <1>8 DEF MapInv
<1>16. FreshInv' /\ FdInv'
  <2>1. FreshInv'
    BY <1>0, <1>2, <1>4, <1>9, <1>10 DEF FreshInv
  <2>2. FdInv'
    BY <1>0, <1>2, <1>12 DEF FdInv
  <2> QED BY <2>1, <2>2
<1>17. BatchInv'
  BY <1>2, SameBatches DEF ServerInv
<1>18. TaskInv'
  <2>1. ASSUME NEW k \in Loops PROVE TaskOk(k)'
    <3>1. CASE k = Main
      BY <1>6, <3>1, Basics DEF TaskOk, EstablishSteps, WorkSteps
    <3>2. CASE k # Main
      BY <1>0, <1>2, <1>6, <3>2 DEF TaskInv, TaskOk
    <3> QED BY <3>1, <3>2
  <2> QED BY <2>1 DEF TaskInv, TaskOk
<1>19. QueueInv'
  <2> SUFFICES ASSUME NEW l \in Loops, NEW g \in Queue(l)
       PROVE  /\ g.op = "closeInLoop" => l = Main
              /\ g.op = "destroy" => /\ m_loop[g.conn] = l
                                     /\ ~InMap(g.conn)' \/ g.conn \in early
    BY <1>2, <1>10 DEF QueueInv
  <2>1. g.conn \in Conns /\ g = Func(g.op, g.conn)
    BY <1>0, PendingQueued, FuncIs
  <2>2. g.op = "destroy" => g.conn # c \/ c \in early
    BY <1>5, <2>1 DEF Untouched
  <2> QED BY <1>0, <1>9, <2>1, <2>2 DEF QueueInv
<1>20. EpollInv'
  <2>1. \A d \in Conns : d # c => ~Establishing(d)
    BY <1>1 DEF Establishing
  <2> SUFFICES ASSUME NEW d \in Conns
       PROVE  /\ InMap(d)' => inEpoll[d] \/ d \in early
              /\ inEpoll[d] => InMap(d)' \/ DestroyPending(d)' \/ Establishing(d)'
    BY <1>2 DEF EpollInv
  <2>2. CASE d = c
    BY <1>4, <1>5, <1>9, <2>2 DEF Untouched
  <2>3. CASE d # c
    BY <1>0, <1>9, <1>10, <2>1, <2>3 DEF EpollInv
  <2> QED BY <2>2, <2>3
<1>21. KindInv' /\ CrashHasCause'
  <2>1. \A d \in Conns : ~Establishing(d)'
    BY <1>6, Basics DEF Establishing, EstablishSteps
  <2> QED BY <1>0, <1>2, <2>1, ThrowKept DEF KindInv
<1>22. ReadType' /\ ReadInv'
  BY <1>2, ReadKept DEF ServerInv, TypeInv
<1>23. WriteType' /\ WriteInv'
  <2>1. \A k \in Loops : task'[k].step \in WriteSteps => task'[k] = task[k]
    BY <1>6, Basics DEF WriteSteps
  <2> QED BY <1>2, <2>1, WriteKept DEF ServerInv, TypeInv
<1> QED
  BY <1>13, <1>14, <1>15, <1>16, <1>17, <1>18, <1>19, <1>20, <1>21, <1>22, <1>23
  DEF ServerInv, TypeInv, HoldInv

(***************************************************************************)
(* The kernel and the peers.                                                *)
(***************************************************************************)

\* The end of the process.
LEMMA Ended ==
  ASSUME ServerInv, crash' \in Crashes, CrashHasCause', WriteType', WriteInv',
         UNCHANGED <<startVars, turnVars, chanVars, objVars, readVars, sockVars>>,
         UNCHANGED <<m_next, todo, task, m_connections, m_state, early>>
  PROVE  ServerInv'
<1>1. /\ UNCHANGED <<m_threadNum, m_loops, published, start>>
      /\ UNCHANGED <<phase, batch, copy, pos>>
      /\ UNCHANGED <<fd, m_loop, m_tied, inEpoll, want, edge, end>>
      /\ UNCHANGED readVars /\ sent' = sent
  BY DEF startVars, turnVars, chanVars, objVars, sockVars
<1>2. StartInv' /\ ConnType'
  BY <1>1 DEF ServerInv, TypeInv, StartInv, ConnType
<1>3. LoopInv'
  BY <1>1 DEF ServerInv, TypeInv, LoopInv
<1>4. HoldInv'
  BY <1>1, SameBatches, QuietHold DEF ServerInv
<1>5. KindInv'
  BY <1>1 DEF ServerInv, KindInv, Establishing
<1>6. ReadType' /\ ReadInv'
  BY <1>1, ReadKept DEF ServerInv, TypeInv
<1> QED BY <1>2, <1>3, <1>4, <1>5, <1>6 DEF ServerInv, TypeInv

LEMMA ThrowsStep ==
  ASSUME ServerInv, CreateConnectionThrows
  PROVE  ServerInv'
<1>1. /\ crash = "no" /\ crash' = "accept"
      /\ UNCHANGED <<startVars, turnVars, chanVars, objVars, readVars, sockVars>>
      /\ UNCHANGED <<m_next, todo, task, m_connections, m_state, early>> /\ UNCHANGED writeVars
  BY DEF CreateConnectionThrows, Between, Running, Throw
<1>2. WriteType' /\ WriteInv'
  BY <1>1, WriteKept DEF ServerInv, TypeInv
<1>3. crash' \in Crashes /\ CrashHasCause'
  BY <1>1, ThrowKept DEF Crashes
<1> QED BY <1>1, <1>2, <1>3, Ended

\* epoll_wait returns, or an event of its batch is passed over.
LEMMA EventsOnly ==
  ASSUME ServerInv, NEW l \in Loops, crash = "no",
         phase' \in [Loops -> {"poll", "dispatch", "todo"}], phase'[l] = "dispatch",
         phase[l] \in {"poll", "dispatch"}, \A k \in Loops : k # l => phase'[k] = phase[k],
         batch' \in [Loops -> SUBSET Events], \A k \in Loops : k # l => batch'[k] = batch[k],
         \A e \in batch'[l] : inEpoll[e.conn] /\ m_loop[e.conn] = l,
         edge' \in [Conns -> BOOLEAN],
         UNCHANGED <<m_threadNum, m_loops, published, start, m_next>>,
         UNCHANGED <<todo, copy, pos, task, crash, early>>,
         UNCHANGED <<m_connections, m_state, fd, m_loop, m_tied, inEpoll, want, end>>,
         UNCHANGED readVars, UNCHANGED writeVars, sent' = sent
  PROVE  ServerInv'
<1>1. StartInv' /\ ConnType'
  BY DEF ServerInv, TypeInv, StartInv, ConnType
<1>2. LoopInv'
  BY DEF ServerInv, TypeInv, LoopInv
<1>3. BatchInv'
  BY DEF ServerInv, HoldInv, BatchInv
<1>4. HoldInv'
  BY <1>3, QuietHold DEF ServerInv
<1>5. KindInv' /\ CrashHasCause'
  BY ThrowKept DEF ServerInv, KindInv, Establishing
<1>6. ReadType' /\ ReadInv'
  BY ReadKept DEF ServerInv, TypeInv
<1>7. WriteType' /\ WriteInv'
  BY WriteKept DEF ServerInv, TypeInv
<1> QED BY <1>1, <1>2, <1>4, <1>5, <1>6, <1>7 DEF ServerInv, TypeInv

LEMMA PollStep ==
  ASSUME ServerInv, NEW l \in Loops, Poll(l)
  PROVE  ServerInv'
<1>1. PICK chans : chans = {c \in Conns : m_loop[c] = l /\ Reported(c)}
  OBVIOUS
<1>2. /\ crash = "no" /\ phase[l] = "poll" /\ phase' = [phase EXCEPT ![l] = "dispatch"]
      /\ batch' = [batch EXCEPT ![l] = {[conn |-> c, in |-> want[c]] : c \in chans}]
      /\ edge' = [c \in Conns |-> edge[c] /\ c \notin chans]
  BY <1>1 DEF Poll, Between, Running
<1>3. /\ UNCHANGED <<m_threadNum, m_loops, published, start, m_next>>
      /\ UNCHANGED <<todo, copy, pos, task, crash, early>>
      /\ UNCHANGED <<m_connections, m_state, fd, m_loop, m_tied, inEpoll, want, end>>
      /\ UNCHANGED readVars /\ UNCHANGED writeVars /\ sent' = sent
  BY DEF Poll, startVars, chanVars, objVars
<1>4. LoopInv /\ ConnType
  BY DEF ServerInv, TypeInv
<1>5. /\ phase' \in [Loops -> {"poll", "dispatch", "todo"}] /\ phase'[l] = "dispatch"
      /\ \A k \in Loops : k # l => phase'[k] = phase[k]
  BY <1>2, <1>4 DEF LoopInv
<1>6. \A c \in chans : [conn |-> c, in |-> want[c]] \in Events
  BY <1>1, <1>4 DEF ConnType, Events
<1>7. /\ batch' \in [Loops -> SUBSET Events] /\ \A k \in Loops : k # l => batch'[k] = batch[k]
      /\ batch'[l] = {[conn |-> c, in |-> want[c]] : c \in chans}
  BY <1>2, <1>4, <1>6 DEF LoopInv
<1>8. \A e \in batch'[l] : inEpoll[e.conn] /\ m_loop[e.conn] = l
  BY <1>1, <1>7 DEF Reported
<1>9. edge' \in [Conns -> BOOLEAN]
  BY <1>2
<1> QED BY <1>2, <1>3, <1>5, <1>7, <1>8, <1>9, EventsOnly

LEMMA IgnoreEventStep ==
  ASSUME ServerInv, NEW l \in Loops, NEW e \in batch[l], IgnoreEvent(l, e)
  PROVE  ServerInv'
<1>1. /\ crash = "no" /\ phase[l] = "dispatch" /\ batch' = [batch EXCEPT ![l] = @ \ {e}]
      /\ UNCHANGED <<m_threadNum, m_loops, published, start, m_next>>
      /\ UNCHANGED <<phase, todo, copy, pos, task, crash, early>>
      /\ UNCHANGED <<m_connections, m_state, fd, m_loop, m_tied, inEpoll, want, edge, end>>
      /\ UNCHANGED readVars /\ UNCHANGED writeVars /\ sent' = sent
  BY DEF IgnoreEvent, Between, Running, startVars, chanVars, objVars, sockVars
<1>2. LoopInv /\ ConnType /\ BatchInv
  BY DEF ServerInv, TypeInv, HoldInv
<1>3. /\ batch' \in [Loops -> SUBSET Events] /\ \A k \in Loops : k # l => batch'[k] = batch[k]
      /\ batch'[l] = batch[l] \ {e}
  BY <1>1, <1>2 DEF LoopInv
<1>4. \A x \in batch'[l] : inEpoll[x.conn] /\ m_loop[x.conn] = l
  BY <1>2, <1>3 DEF BatchInv
<1>5. phase' \in [Loops -> {"poll", "dispatch", "todo"}] /\ edge' \in [Conns -> BOOLEAN]
  BY <1>1, <1>2 DEF LoopInv, ConnType
<1> QED BY <1>1, <1>3, <1>4, <1>5, EventsOnly

LEMMA PeerStep ==
  ASSUME ServerInv, NEW c \in Conns, PeerActs(c)
  PROVE  ServerInv'
<1>1. /\ crash = "no" /\ end[c] \in {"open", "eof"}
      /\ edge' = [edge EXCEPT ![c] = TRUE]
      /\ UNCHANGED <<m_threadNum, m_loops, published, start, m_next>>
      /\ UNCHANGED <<phase, batch, todo, copy, pos, task, crash, early>>
      /\ UNCHANGED <<m_connections, m_state, fd, m_loop, m_tied, inEpoll, want>>
      /\ UNCHANGED readVars /\ UNCHANGED writeVars
  BY DEF PeerActs, startVars, turnVars, chanVars, objVars
<1>2. /\ end' \in [Conns -> {"open", "eof", "reset", "dead"}]
      /\ \A d \in Conns : d # c => end'[d] = end[d]
      /\ sent' \in [Conns -> 0..MaxBytes] /\ \A d \in Conns : sent'[d] >= sent[d]
  <2>1. /\ end \in [Conns -> {"open", "eof", "reset", "dead"}] /\ sent \in [Conns -> 0..MaxBytes]
        /\ MaxBytes \in Nat
    BY Basics DEF ServerInv, TypeInv, ConnType, ReadType
  <2>2. CASE sent[c] < MaxBytes /\ sent' = [sent EXCEPT ![c] = @ + 1] /\ UNCHANGED end
    BY <2>1, <2>2
  <2>3. CASE end' = [end EXCEPT ![c] = "eof"] /\ UNCHANGED sent
    BY <2>1, <2>3
  <2>4. CASE end' = [end EXCEPT ![c] = "reset"] /\ UNCHANGED sent
    BY <2>1, <2>4
  <2> QED BY <2>2, <2>3, <2>4 DEF PeerActs
<1>3. StartInv'
  BY <1>1 DEF ServerInv, TypeInv, StartInv
<1>4. LoopInv'
  BY <1>1 DEF ServerInv, TypeInv, LoopInv
<1>5. ConnType'
  <2>1. edge' \in [Conns -> BOOLEAN]
    BY <1>1 DEF ServerInv, TypeInv, ConnType
  <2> QED BY <1>1, <1>2, <2>1 DEF ServerInv, TypeInv, ConnType
<1>6. HoldInv'
  BY <1>1, SameBatches, QuietHold DEF ServerInv
<1>7. KindInv'
  BY <1>1, <1>2 DEF ServerInv, KindInv, Establishing
<1>8. CrashHasCause'
  BY <1>1, ThrowKept
<1>9. ReadType'
  <2>1. UNCHANGED <<m_readBuffer, nread, delivered>>
    BY <1>1 DEF readVars
  <2>2. ASSUME NEW d \in Conns PROVE nread[d] <= sent'[d]
    <3>1. nread[d] \in Nat /\ sent[d] \in Nat /\ sent'[d] \in Nat /\ nread[d] <= sent[d]
      BY <1>2, Basics DEF ServerInv, TypeInv, ReadType
    <3> QED BY <1>2, <3>1
  <2> QED BY <1>2, <2>1, <2>2 DEF ServerInv, TypeInv, ReadType
<1>10. ReadInv'
  BY <1>1 DEF ServerInv, ReadInv, readVars
<1>11. WriteType' /\ WriteInv'
  BY <1>1, WriteKept DEF ServerInv, TypeInv
<1> QED BY <1>3, <1>4, <1>5, <1>6, <1>7, <1>8, <1>9, <1>10, <1>11 DEF ServerInv, TypeInv
(***************************************************************************)
(* The lists of functions.                                                  *)
(***************************************************************************)

LEMMA BeginTodoListStep ==
  ASSUME ServerInv, NEW l \in Loops, BeginTodoList(l)
  PROVE  ServerInv'
<1>0. /\ StartInv /\ LoopInv /\ ConnType /\ MapInv /\ FreshInv /\ FdInv /\ BatchInv /\ TaskInv
      /\ QueueInv /\ EpollInv /\ KindInv
  BY DEF ServerInv, TypeInv, HoldInv
<1>1. /\ crash = "no" /\ task[l] = Idle /\ phase[l] = "dispatch" /\ batch[l] = {}
      /\ phase' = [phase EXCEPT ![l] = "todo"]
      /\ copy' = [copy EXCEPT ![l] = todo[l]]
      /\ todo' = [todo EXCEPT ![l] = <<>>]
      /\ UNCHANGED <<m_threadNum, m_loops, published, start, m_next>>
      /\ UNCHANGED <<batch, pos, task, crash, early>>
      /\ UNCHANGED <<m_connections, m_state, fd, m_loop, m_tied, inEpoll, want, edge, end>>
      /\ UNCHANGED readVars /\ UNCHANGED writeVars /\ sent' = sent
  BY DEF BeginTodoList, Between, Running, startVars, chanVars, objVars, sockVars
<1>2. copy[l] = <<>> /\ pos[l] = 0
  BY <1>0, <1>1 DEF LoopInv
<1>3. /\ \A k \in Loops : k # l => todo'[k] = todo[k] /\ copy'[k] = copy[k] /\ phase'[k] = phase[k]
      /\ todo'[l] = <<>> /\ copy'[l] = todo[l] /\ phase'[l] = "todo"
  BY <1>0, <1>1 DEF LoopInv
<1>4. ToSet(<<>>) = {} /\ 1..Len(<<>>) = {} /\ todo[l] \in Seq(Funcs) /\ Len(todo[l]) \in Nat
  BY <1>0, LenProperties DEF ToSet, LoopInv
<1>5. \A k \in Loops : Queue(k)' = Queue(k) /\ Pending(k)' = Pending(k)
  <2>1. \A k \in Loops : k # l => Queue(k)' = Queue(k) /\ Pending(k)' = Pending(k)
    BY <1>1, <1>3 DEF Queue, Pending
  <2>2. Queue(l)' = Queue(l)
    BY <1>2, <1>3, <1>4 DEF Queue
  <2>3. Pending(l)' = Pending(l)
    <3>1. Pending(l) = ToSet(todo[l])
      BY <1>2, <1>4 DEF Pending
    <3>2. Pending(l)' = {todo[l][i] : i \in 1..Len(todo[l])}
      BY <1>1, <1>2, <1>3, <1>4 DEF Pending
    <3> QED BY <1>4, <3>1, <3>2, ToSetIs
  <2> QED BY <2>1, <2>2, <2>3
<1>6. /\ \A d \in Conns : InMap(d)' <=> InMap(d)
      /\ \A d \in Conns : Queued(d)' <=> Queued(d)
      /\ \A d \in Conns : OnStack(d)' <=> OnStack(d)
      /\ \A d \in Conns : Establishing(d)' <=> Establishing(d)
      /\ \A d \in Conns : DestroyPending(d)' <=> DestroyPending(d)
  <2>1. \A d \in Conns : m_loop[d] \in Loops
    BY <1>0 DEF ConnType
  <2> QED
    BY <1>1, <1>5, <2>1, QueuedIs DEF InMap, OnStack, Establishing, DestroyPending
<1>7. \A d \in Conns : Alive(d)' => Alive(d)
  BY <1>1, <1>6, AliveIs
<1>8. LoopInv'
  <2>1. todo' \in [Loops -> Seq(Funcs)] /\ copy' \in [Loops -> Seq(Funcs)]
    BY <1>0, <1>1, <1>4, EmptySeq DEF LoopInv
  <2>2. \A k \in Loops : pos[k] <= Len(copy'[k])
    <3>1. \A k \in Loops : k # l => pos[k] <= Len(copy'[k])
      BY <1>0, <1>3 DEF LoopInv
    <3> QED BY <1>2, <1>3, <1>4, <3>1
  <2>3. phase' \in [Loops -> {"poll", "dispatch", "todo"}]
    BY <1>0, <1>1 DEF LoopInv
  <2>4. \A k \in Loops : /\ phase'[k] # "todo" => copy'[k] = <<>> /\ pos[k] = 0
                         /\ phase'[k] # "dispatch" => batch[k] = {} /\ task[k] = Idle
    BY <1>0, <1>1, <1>3 DEF LoopInv
  <2> QED BY <1>0, <1>1, <2>1, <2>2, <2>3, <2>4 DEF LoopInv
<1>9. StartInv' /\ ConnType'
  BY <1>0, <1>1 DEF StartInv, ConnType
<1>10. MapInv' /\ FreshInv' /\ FdInv' /\ BatchInv'
  BY <1>0, <1>1, <1>6, <1>7 DEF MapInv, FreshInv, FdInv, BatchInv
<1>11. TaskInv'
  BY <1>1, <1>5, SameTasksKept DEF ServerInv
<1>12. QueueInv'
  <2>1. \A k \in Loops : \A f \in Queue(k) : f.conn \in Conns
    BY <1>0, PendingQueued, FuncIs
  <2> QED BY <1>0, <1>1, <1>5, <1>6, <2>1 DEF QueueInv
<1>13. EpollInv'
  BY <1>0, <1>1, <1>6 DEF EpollInv
<1>14. KindInv' /\ CrashHasCause'
  BY <1>0, <1>1, <1>6, ThrowKept DEF KindInv
<1>15. ReadType' /\ ReadInv'
  BY <1>1, ReadKept DEF ServerInv, TypeInv
<1>16. WriteType' /\ WriteInv'
  BY <1>1, WriteKept DEF ServerInv, TypeInv
<1> QED
  BY <1>8, <1>9, <1>10, <1>11, <1>12, <1>13, <1>14, <1>15, <1>16 DEF ServerInv, TypeInv, HoldInv

LEMMA EndTodoListStep ==
  ASSUME ServerInv, NEW l \in Loops, EndTodoList(l)
  PROVE  ServerInv'
<1>0. /\ StartInv /\ LoopInv /\ ConnType /\ MapInv /\ FreshInv /\ FdInv /\ BatchInv /\ TaskInv
      /\ QueueInv /\ EpollInv /\ KindInv
  BY DEF ServerInv, TypeInv, HoldInv
<1>1. /\ crash = "no" /\ phase[l] = "todo" /\ pos[l] = Len(copy[l])
      /\ phase' = [phase EXCEPT ![l] = "poll"]
      /\ copy' = [copy EXCEPT ![l] = <<>>]
      /\ pos' = [pos EXCEPT ![l] = 0]
      /\ UNCHANGED <<m_threadNum, m_loops, published, start, m_next>>
      /\ UNCHANGED <<batch, todo, task, crash, early>>
      /\ UNCHANGED <<m_connections, m_state, fd, m_loop, m_tied, inEpoll, want, edge, end>>
      /\ UNCHANGED readVars /\ UNCHANGED writeVars /\ sent' = sent
  BY DEF EndTodoList, Between, Running, startVars, chanVars, objVars, sockVars
<1>2. batch[l] = {} /\ task[l] = Idle
  BY <1>0, <1>1 DEF LoopInv
<1>3. /\ \A k \in Loops : k # l => pos'[k] = pos[k] /\ copy'[k] = copy[k] /\ phase'[k] = phase[k]
      /\ pos'[l] = 0 /\ copy'[l] = <<>> /\ phase'[l] = "poll"
  BY <1>0, <1>1 DEF LoopInv
<1>4. ToSet(<<>>) = {} /\ Len(<<>>) = 0
  BY DEF ToSet
<1>5. \A k \in Loops : Queue(k)' \subseteq Queue(k) /\ Pending(k)' = Pending(k)
  <2>1. \A k \in Loops : k # l => Queue(k)' = Queue(k) /\ Pending(k)' = Pending(k)
    BY <1>1, <1>3 DEF Queue, Pending
  <2>2. Queue(l)' \subseteq Queue(l)
    BY <1>1, <1>3, <1>4 DEF Queue
  <2>3. Pending(l)' = ToSet(todo[l])
    BY <1>1, <1>3, <1>4 DEF Pending
  <2>4. Pending(l) = ToSet(todo[l])
    <3>1. pos[l] \in Nat /\ (pos[l] + 1)..Len(copy[l]) = {}
      BY <1>0, <1>1 DEF LoopInv
    <3> QED BY <3>1 DEF Pending
  <2> QED BY <2>1, <2>2, <2>3, <2>4
<1>6. /\ \A d \in Conns : InMap(d)' <=> InMap(d)
      /\ \A d \in Conns : Queued(d)' => Queued(d)
      /\ \A d \in Conns : OnStack(d)' <=> OnStack(d)
      /\ \A d \in Conns : Establishing(d)' <=> Establishing(d)
      /\ \A d \in Conns : DestroyPending(d)' <=> DestroyPending(d)
  <2>1. \A d \in Conns : m_loop[d] \in Loops
    BY <1>0 DEF ConnType
  <2> QED
    BY <1>1, <1>5, <2>1, QueuedIs DEF InMap, OnStack, Establishing, DestroyPending
<1>7. \A d \in Conns : Alive(d)' => Alive(d)
  BY <1>1, <1>6, AliveIs
<1>8. LoopInv'
  <2>1. copy' \in [Loops -> Seq(Funcs)] /\ pos' \in [Loops -> Nat]
    BY <1>0, <1>1, EmptySeq DEF LoopInv
  <2>2. \A k \in Loops : pos'[k] <= Len(copy'[k])
    <3>1. \A k \in Loops : k # l => pos'[k] <= Len(copy'[k])
      BY <1>0, <1>3 DEF LoopInv
    <3> QED BY <1>3, <1>4, <3>1
  <2>3. phase' \in [Loops -> {"poll", "dispatch", "todo"}]
    BY <1>0, <1>1 DEF LoopInv
  <2>4. \A k \in Loops : /\ phase'[k] # "todo" => copy'[k] = <<>> /\ pos'[k] = 0
                         /\ phase'[k] # "dispatch" => batch[k] = {} /\ task[k] = Idle
    BY <1>0, <1>2, <1>3 DEF LoopInv
  <2> QED BY <1>0, <1>1, <2>1, <2>2, <2>3, <2>4 DEF LoopInv
<1>9. StartInv' /\ ConnType'
  BY <1>0, <1>1 DEF StartInv, ConnType
<1>10. MapInv' /\ FreshInv' /\ FdInv' /\ BatchInv'
  BY <1>0, <1>1, <1>6, <1>7 DEF MapInv, FreshInv, FdInv, BatchInv
<1>11. TaskInv'
  BY <1>1, <1>5, SameTasksKept DEF ServerInv
<1>12. QueueInv'
  <2>1. \A k \in Loops : \A f \in Queue(k) : f.conn \in Conns
    BY <1>0, PendingQueued, FuncIs
  <2> QED BY <1>0, <1>1, <1>5, <1>6, <2>1 DEF QueueInv
<1>13. EpollInv'
  BY <1>0, <1>1, <1>6 DEF EpollInv
<1>14. KindInv' /\ CrashHasCause'
  BY <1>0, <1>1, <1>6, ThrowKept DEF KindInv
<1>15. ReadType' /\ ReadInv'
  BY <1>1, ReadKept DEF ServerInv, TypeInv
<1>16. WriteType' /\ WriteInv'
  BY <1>1, WriteKept DEF ServerInv, TypeInv
<1> QED
  BY <1>8, <1>9, <1>10, <1>11, <1>12, <1>13, <1>14, <1>15, <1>16 DEF ServerInv, TypeInv, HoldInv

\* A function that is called is kept alive, and its connection with it.
LEMMA CallNextFacts ==
  ASSUME ServerInv, NEW l \in Loops, NEW o \in {"closeInLoop", "destroy"},
         CallNext(l, o), NEW c, c = copy[l][pos[l] + 1].conn
  PROVE  /\ c \in Conns /\ copy[l][pos[l] + 1] = Func(o, c)
         /\ Func(o, c) \in Queue(l) /\ Alive(c) /\ m_state[c] # "none"
         /\ pos' \in [Loops -> Nat] /\ pos'[l] = pos[l] + 1 /\ pos'[l] <= Len(copy[l])
         /\ \A k \in Loops : k # l => pos'[k] = pos[k]
<1>1. /\ LoopInv /\ pos[l] \in Nat /\ copy[l] \in Seq(Funcs) /\ Len(copy[l]) \in Nat
      /\ pos[l] < Len(copy[l]) /\ pos' = [pos EXCEPT ![l] = pos[l] + 1]
      /\ copy[l][pos[l] + 1].op = o
  BY LenProperties DEF ServerInv, TypeInv, LoopInv, CallNext
<1>2. pos[l] + 1 \in 1..Len(copy[l]) /\ pos[l] + 1 \in (pos[l] + 1)..Len(copy[l])
  BY <1>1
<1>3. copy[l][pos[l] + 1] \in Funcs
  BY <1>1, <1>2, ElementOfSeq
<1>4. c \in Conns /\ copy[l][pos[l] + 1] = Func(o, c)
  BY <1>1, <1>3, FuncIs
<1>5. Func(o, c) \in Queue(l)
  <2>1. copy[l][pos[l] + 1] \in Pending(l)
    BY <1>2 DEF Pending
  <2> QED BY <1>1, <1>4, <2>1, PendingQueued
<1>6. Queued(c)
  BY <1>4, <1>5, FuncType, QueuedIs
<1>7. Alive(c) /\ m_state[c] # "none"
  BY <1>4, <1>6, AliveIs DEF ServerInv, HoldInv, FreshInv
<1>8. /\ pos' \in [Loops -> Nat] /\ pos'[l] = pos[l] + 1 /\ pos'[l] <= Len(copy[l])
      /\ \A k \in Loops : k # l => pos'[k] = pos[k]
  BY <1>1 DEF LoopInv
<1> QED BY <1>4, <1>5, <1>7, <1>8

LEMMA CallCloseStep ==
  ASSUME ServerInv, NEW l \in Loops, CallCloseConnectionInLoop(l)
  PROVE  ServerInv'
<1>0. /\ StartInv /\ LoopInv /\ ConnType /\ TaskInv /\ QueueInv /\ KindInv
  BY DEF ServerInv, TypeInv, HoldInv
<1>1. PICK c : c = copy[l][pos[l] + 1].conn
  OBVIOUS
<1>2. /\ CallNext(l, "closeInLoop") /\ CloseConnectionInLoop(c)
      /\ crash = "no" /\ phase[l] = "todo" /\ task[l] = Idle
      /\ UNCHANGED <<m_threadNum, m_loops, published, start, m_next>>
      /\ UNCHANGED <<phase, batch, copy, task, crash, early>>
      /\ UNCHANGED <<m_state, fd, m_loop, m_tied, inEpoll, want, edge, end>>
      /\ UNCHANGED readVars /\ UNCHANGED writeVars /\ sent' = sent
  BY <1>1 DEF CallCloseConnectionInLoop, CallNext, Between, Running, startVars, chanVars, objVars,
              sockVars
<1>3. /\ c \in Conns /\ copy[l][pos[l] + 1] = Func("closeInLoop", c)
      /\ Func("closeInLoop", c) \in Queue(l) /\ Alive(c)
      /\ pos' \in [Loops -> Nat] /\ pos'[l] = pos[l] + 1 /\ pos'[l] <= Len(copy[l])
      /\ \A k \in Loops : k # l => pos'[k] = pos[k]
  BY <1>1, <1>2, CallNextFacts
<1>4. l = Main /\ task[Main].step \notin EstablishSteps
  <2>1. l = Main
    BY <1>0, <1>3, FuncType DEF QueueInv
  <2> QED BY <1>2, <2>1, Basics DEF EstablishSteps
<1>5. CloseEffect(c)
  BY <1>2, <1>3, <1>4 DEF CloseEffect
<1>6. HoldFrame
  <2>1. /\ \A d \in Conns : OnStack(d)' => Alive(d)
        /\ \A d \in Conns : Establishing(d)' <=> Establishing(d)
    BY <1>2, SameTasks DEF ServerInv
  <2>2. \A d \in Conns : m_state[d] = "none" => d \notin early
    BY DEF ServerInv, HoldInv, FreshInv
  <2>3. \A k \in Loops :
          \/ pos'[k] = pos[k]
          \/ /\ pos'[k] = pos[k] + 1 /\ pos'[k] <= Len(copy[k])
             /\ copy[k][pos'[k]].op = "closeInLoop"
    BY <1>3, FuncType
  <2> QED BY <1>2, <1>3, <2>1, <2>2, <2>3 DEF HoldFrame
<1>7. /\ todo' \in [Loops -> Seq(Funcs)]
      /\ m_connections' \in [Fds -> Conns \cup {NoConn}]
      /\ MapInv' /\ FreshInv' /\ FdInv' /\ QueueInv' /\ EpollInv'
      /\ \A d \in Conns, k \in Loops :
           Func("destroy", d) \in Queue(k)' => Func("destroy", d) \in Queue(k) \/ ~Establishing(d)
                                                         \/ d \in early'
  BY <1>5, <1>6, HoldKeeps DEF ServerInv
<1>8. StartInv' /\ ConnType'
  BY <1>0, <1>2, <1>7 DEF StartInv, ConnType
<1>9. LoopInv'
  <2>1. \A k \in Loops : pos'[k] <= Len(copy[k])
    BY <1>0, <1>3 DEF LoopInv
  <2>2. \A k \in Loops : phase[k] # "todo" => pos'[k] = pos[k]
    BY <1>2, <1>3
  <2> QED BY <1>0, <1>2, <1>3, <1>7, <2>1, <2>2 DEF LoopInv
<1>10. BatchInv' /\ TaskInv'
  BY <1>2, <1>7, SameBatches, SameTasksKept DEF ServerInv
<1>11. KindInv' /\ CrashHasCause'
  BY <1>0, <1>2, ThrowKept DEF KindInv, Establishing
<1>12. ReadType' /\ ReadInv'
  BY <1>2, ReadKept DEF ServerInv, TypeInv
<1>13. WriteType' /\ WriteInv'
  BY <1>2, WriteKept DEF ServerInv, TypeInv
<1> QED
  BY <1>7, <1>8, <1>9, <1>10, <1>11, <1>12, <1>13 DEF ServerInv, TypeInv, HoldInv

\* What DestroyConnection leaves of what the socket and the buffers of d hold.
Same(d) ==
  /\ end'[d] = end[d] /\ sent'[d] = sent[d] /\ nread'[d] = nread[d]
  /\ m_readBuffer'[d] = m_readBuffer[d] /\ delivered'[d] = delivered[d]
  /\ m_writeBuffer'[d] = m_writeBuffer[d] /\ taken'[d] = taken[d] /\ replies'[d] = replies[d]
Forgotten(d) ==
  /\ sent'[d] = 0 /\ nread'[d] = 0 /\ m_readBuffer'[d] = <<>> /\ delivered'[d] = <<>>
  /\ m_writeBuffer'[d] = <<>> /\ taken'[d] = <<>> /\ replies'[d] = 0

LEMMA ForgetKeeps ==
  ASSUME ReadType, ReadInv, WriteType, WriteInv, task' = task, crash' = crash,
         \A d \in Conns : Same(d) \/ (Forgotten(d) /\ \A l \in Loops : ~Writes(l, d)),
         DOMAIN m_readBuffer' = Conns, DOMAIN delivered' = Conns,
         sent' = [d \in Conns |-> sent'[d]], nread' = [d \in Conns |-> nread'[d]],
         m_writeBuffer' = [d \in Conns |-> m_writeBuffer'[d]], taken' = [d \in Conns |-> taken'[d]],
         replies' = [d \in Conns |-> replies'[d]]
  PROVE  ReadType' /\ ReadInv' /\ WriteType' /\ WriteInv'
<1>0. <<>> \in Seq(1..0) /\ <<>> \in Seq(Bytes) /\ Len(<<>>) = 0 /\ DOMAIN <<>> = {}
  OBVIOUS
<1>1. ReadType'
  <2>1. ASSUME NEW d \in Conns
        PROVE  /\ sent'[d] \in 0..MaxBytes /\ nread'[d] \in Nat /\ nread'[d] <= sent'[d]
               /\ m_readBuffer'[d] \in Seq(1..nread'[d])
               /\ delivered'[d] \in Seq(1..nread'[d])
    <3>1. CASE Same(d)
      BY <3>1 DEF ReadType, Same
    <3>2. CASE Forgotten(d)
      BY <1>0, <3>2, Basics DEF Forgotten
    <3> QED BY <3>1, <3>2
  <2> QED BY <2>1 DEF ReadType
<1>2. ReadInv'
  <2>1. ASSUME NEW d \in Conns
        PROVE  /\ \A i \in DOMAIN delivered'[d] : delivered'[d][i] = i
               /\ Len(delivered'[d]) = nread'[d]
    <3>1. CASE Same(d)
      <4>1. PICK u : u = delivered[d]
        OBVIOUS
      <4>2. (\A i \in DOMAIN u : u[i] = i) /\ Len(u) = nread[d]
        BY <4>1 DEF ReadInv
      <4>3. delivered'[d] = u /\ nread'[d] = nread[d]
        BY <3>1, <4>1 DEF Same
      <4> QED BY <4>2, <4>3
    <3>2. CASE Forgotten(d)
      BY <1>0, <3>2 DEF Forgotten
    <3> QED BY <3>1, <3>2
  <2> QED BY <2>1 DEF ReadInv
<1>3. WriteType'
  <2>1. ASSUME NEW d \in Conns
        PROVE  /\ m_writeBuffer'[d] \in Seq(Bytes) /\ taken'[d] \in Seq(Bytes)
               /\ replies'[d] \in 0..MaxReplies
    <3>1. CASE Same(d)
      BY <3>1 DEF WriteType, Same
    <3>2. CASE Forgotten(d)
      BY <1>0, <3>2, Basics DEF Forgotten
    <3> QED BY <3>1, <3>2
  <2> QED BY <2>1 DEF WriteType
<1>4. WriteInv'
  <2>1. ASSUME NEW d \in Conns
        PROVE  /\ InOrder(taken'[d])
               /\ \A i \in DOMAIN taken'[d] : taken'[d][i][1] <= replies'[d]
    <3>1. CASE Same(d)
      BY <3>1 DEF WriteInv, Same
    <3>2. CASE Forgotten(d)
      BY <1>0, <3>2 DEF Forgotten, InOrder
    <3> QED BY <3>1, <3>2
  <2>2. ASSUME NEW d \in Conns, NEW l \in Loops, Writes(l, d)', crash' = "no"
        PROVE  WriterInv(l, d)'
    <3>1. Writes(l, d) /\ \A k \in Loops : Writes(k, d)' <=> Writes(k, d)
      BY <2>2 DEF Writes
    <3>2. Same(d) /\ WriterInv(l, d)
      BY <2>2, <3>1 DEF WriteInv
    <3>3. PICK r, n : r = replies[d] /\ n = task[l].left
      OBVIOUS
    <3>4. SentUpTo(d, r, n)
      BY <3>2, <3>3 DEF WriterInv
    <3>5. SentUpTo(d, r, n)' /\ r = replies'[d] /\ n = task'[l].left
      BY <3>2, <3>3, <3>4 DEF SentUpTo, Same
    <3>6. SentUpTo(d, replies[d], task[l].left)'
      BY <3>5
    <3>7. /\ replies'[d] \in 1..MaxReplies /\ m_writeBuffer'[d] = SendBuffer(replies'[d])
          /\ \A k \in Loops : Writes(k, d)' => k = l
      BY <3>1, <3>2 DEF WriterInv, Same
    <3> QED BY <3>6, <3>7 DEF WriterInv
  <2> QED BY <2>1, <2>2 DEF WriteInv, InOrder
<1> QED BY <1>1, <1>2, <1>3, <1>4

LEMMA DestroyStep ==
  ASSUME ServerInv, NEW l \in Loops, DestroyConnection(l)
  PROVE  ServerInv'
<1>0. /\ StartInv /\ LoopInv /\ ConnType /\ MapInv /\ FreshInv /\ FdInv /\ BatchInv /\ TaskInv
      /\ QueueInv /\ EpollInv /\ KindInv /\ ReadType /\ ReadInv /\ WriteType /\ WriteInv
  BY DEF ServerInv, TypeInv, HoldInv
<1>1. PICK c : c = copy[l][pos[l] + 1].conn
  OBVIOUS
<1>2. /\ CallNext(l, "destroy") /\ crash = "no" /\ phase[l] = "todo" /\ task[l] = Idle
      /\ want' = [want EXCEPT ![c] = FALSE] /\ inEpoll' = [inEpoll EXCEPT ![c] = FALSE]
      /\ edge' = [edge EXCEPT ![c] = FALSE]
      /\ m_state' = [m_state EXCEPT ![c] = "Closed"]
      /\ UNCHANGED <<m_threadNum, m_loops, published, start, m_next>>
      /\ UNCHANGED <<phase, batch, todo, copy, task, crash, early>>
      /\ UNCHANGED <<m_connections, fd, m_loop, m_tied>>
  BY <1>1 DEF DestroyConnection, CallNext, Between, Running, startVars, objVars
<1>3. \/ /\ task[Main].conn = c
         /\ UNCHANGED <<end, sent, nread, m_readBuffer, m_writeBuffer, delivered, taken, replies>>
      \/ /\ task[Main].conn # c
         /\ end' = [end EXCEPT ![c] = "open"]
         /\ sent' = [sent EXCEPT ![c] = 0] /\ nread' = [nread EXCEPT ![c] = 0]
         /\ m_readBuffer' = [m_readBuffer EXCEPT ![c] = <<>>]
         /\ m_writeBuffer' = [m_writeBuffer EXCEPT ![c] = <<>>]
         /\ delivered' = [delivered EXCEPT ![c] = <<>>] /\ taken' = [taken EXCEPT ![c] = <<>>]
         /\ replies' = [replies EXCEPT ![c] = 0]
  BY <1>1 DEF DestroyConnection
<1>4. /\ c \in Conns /\ copy[l][pos[l] + 1] = Func("destroy", c)
      /\ Func("destroy", c) \in Queue(l) /\ m_state[c] # "none"
      /\ pos' \in [Loops -> Nat] /\ pos'[l] = pos[l] + 1 /\ pos'[l] <= Len(copy[l])
      /\ \A k \in Loops : k # l => pos'[k] = pos[k]
  BY <1>1, <1>2, CallNextFacts
<1>5. m_loop[c] = l /\ (~InMap(c) \/ c \in early) /\ batch[l] = {}
  <2>1. Func("destroy", c).op = "destroy" /\ Func("destroy", c).conn = c
    BY <1>4, FuncType
  <2>2. m_loop[c] = l /\ (~InMap(c) \/ c \in early)
    BY <1>0, <1>4, <2>1 DEF QueueInv
  <2>3. batch[l] = {}
    BY <1>0, <1>2 DEF LoopInv
  <2> QED BY <2>2, <2>3
<1>6. \A k \in Loops : task[k].conn = c => k = Main /\ Establishing(c) /\ c \in early
  <2> SUFFICES ASSUME NEW k \in Loops, task[k].conn = c
               PROVE  k = Main /\ Establishing(c) /\ c \in early
    OBVIOUS
  <2>1. task[k] # Idle
    BY <1>4, Basics
  <2>2. task[k].step \in WorkSteps \/ task[k].step \in EstablishSteps
    BY <1>0, <2>1, TaskIs
  <2>3. task[k].step \notin WorkSteps
    BY <1>0, <1>2, <1>5, <2>1 DEF TaskInv
  <2>4. k = Main /\ (c \in early \/ Untouched(c))
    BY <1>0, <2>2, <2>3 DEF TaskInv
  <2>5. ~Untouched(c)
    BY <1>4 DEF Untouched
  <2> QED BY <2>2, <2>3, <2>4, <2>5 DEF Establishing
<1>7. /\ \A d \in Conns : d # c => inEpoll'[d] = inEpoll[d] /\ m_state'[d] = m_state[d]
      /\ ~inEpoll'[c] /\ m_state'[c] = "Closed"
      /\ m_state' \in [Conns -> {"none", "Connected", "Closed"}]
      /\ inEpoll' \in [Conns -> BOOLEAN] /\ want' \in [Conns -> BOOLEAN]
      /\ edge' \in [Conns -> BOOLEAN] /\ end' \in [Conns -> {"open", "eof", "reset", "dead"}]
  BY <1>0, <1>2, <1>3, <1>4 DEF ConnType
<1>8. /\ \A k \in Loops : Queue(k)' = Queue(k)
      /\ \A k \in Loops : Pending(k) \ {Func("destroy", c)} \subseteq Pending(k)'
  <2>1. \A k \in Loops : Queue(k)' = Queue(k)
    BY <1>2 DEF Queue
  <2>2. ASSUME NEW k \in Loops, NEW g \in Pending(k), g # Func("destroy", c)
        PROVE  g \in Pending(k)'
    <3>1. CASE g \in ToSet(todo[k])
      BY <1>2, <3>1 DEF Pending
    <3>2. CASE g \notin ToSet(todo[k])
      <4>1. PICK i \in (pos[k] + 1)..Len(copy[k]) : copy[k][i] = g
        BY <2>2, <3>2 DEF Pending
      <4>2. pos[k] \in Nat /\ Len(copy[k]) \in Nat /\ pos'[k] \in Nat
        BY <1>0, <1>4, LenProperties DEF LoopInv
      <4>3. pos'[k] = pos[k] \/ (pos'[k] = pos[k] + 1 /\ i # pos[k] + 1)
        BY <1>4, <2>2, <4>1
      <4>4. i \in (pos'[k] + 1)..Len(copy[k])
        BY <4>1, <4>2, <4>3
      <4> QED BY <1>2, <4>1, <4>4 DEF Pending
    <3> QED BY <3>1, <3>2
  <2> QED BY <2>1, <2>2
<1>9. /\ \A d \in Conns : InMap(d)' <=> InMap(d)
      /\ \A d \in Conns : Queued(d)' <=> Queued(d)
      /\ \A d \in Conns : OnStack(d)' <=> OnStack(d)
      /\ \A d \in Conns : Establishing(d)' <=> Establishing(d)
  BY <1>2, <1>8, QueuedIs DEF InMap, OnStack, Establishing
<1>10. \A d \in Conns : Alive(d)' => Alive(d)
  BY <1>4, <1>7, <1>9, AliveIs
<1>11. StartInv' /\ ConnType'
  BY <1>0, <1>2, <1>7 DEF StartInv, ConnType
<1>12. LoopInv'
  <2>1. \A k \in Loops : pos'[k] <= Len(copy[k])
    BY <1>0, <1>4 DEF LoopInv
  <2>2. \A k \in Loops : phase[k] # "todo" => pos'[k] = pos[k]
    BY <1>2, <1>4
  <2> QED BY <1>0, <1>2, <1>4, <2>1, <2>2 DEF LoopInv
<1>13. MapInv' /\ FreshInv' /\ FdInv'
  BY <1>0, <1>2, <1>7, <1>9, <1>10 DEF MapInv, FreshInv, FdInv
<1>14. BatchInv'
  <2> SUFFICES ASSUME NEW k \in Loops, NEW e \in batch[k]
               PROVE  inEpoll'[e.conn] /\ m_loop[e.conn] = k
    BY <1>2 DEF BatchInv
  <2>1. e.conn \in Conns /\ inEpoll[e.conn] /\ m_loop[e.conn] = k
    BY <1>0 DEF LoopInv, Events, BatchInv
  <2> QED BY <1>5, <1>7, <2>1
<1>15. TaskInv'
  <2>1. ASSUME NEW k \in Loops PROVE TaskOk(k)'
    <3>1. CASE task[k].step \in WorkSteps
      <4>1. task[k] # Idle /\ inEpoll[task[k].conn] /\ m_loop[task[k].conn] = k
        BY <1>0, <3>1, Basics DEF TaskInv, WorkSteps
      <4>2. task[k].step \notin EstablishSteps
        BY <3>1 DEF EstablishSteps, WorkSteps
      <4>3. task[k].conn \in Conns /\ task[k].conn # c
        BY <1>0, <1>6, <4>1, <4>2, TaskIs DEF Establishing
      <4> QED BY <1>2, <1>7, <4>1, <4>2, <4>3 DEF TaskOk
    <3>2. CASE task[k].step \in EstablishSteps
      <4>1. /\ task[k] # Idle /\ k = Main /\ task[k].guard
            /\ task[k].conn \in early \/ Untouched(task[k].conn)
        BY <1>0, <3>2, Basics DEF TaskInv, EstablishSteps
      <4>2. task[k].step \notin WorkSteps
        BY <3>2 DEF EstablishSteps, WorkSteps
      <4>3. task[k].conn \in Conns /\ (task[k].conn = c => c \in early)
        BY <1>0, <1>6, <4>1, TaskIs
      <4>4. task[k].conn \in early \/ Untouched(task[k].conn)'
        BY <1>2, <1>7, <1>8, <4>1, <4>3 DEF Untouched
      <4> QED BY <1>2, <4>1, <4>2, <4>4 DEF TaskOk
    <3> QED BY <1>2, <3>1, <3>2 DEF TaskOk
  <2> QED BY <2>1 DEF TaskInv, TaskOk
<1>16. QueueInv'
  <2>1. \A k \in Loops : \A f \in Queue(k) : f.conn \in Conns
    BY <1>0, PendingQueued, FuncIs
  <2> QED BY <1>0, <1>2, <1>8, <1>9, <2>1 DEF QueueInv
<1>17. EpollInv'
  <2>1. \A d \in Conns : d # c /\ DestroyPending(d) => DestroyPending(d)'
    <3>1. \A d \in Conns : d # c => Func("destroy", d) # Func("destroy", c)
      BY <1>4, FuncType
    <3>2. \A d \in Conns : m_loop[d] \in Loops
      BY <1>0 DEF ConnType
    <3> QED BY <1>2, <1>8, <3>1, <3>2 DEF DestroyPending
  <2> QED BY <1>0, <1>2, <1>5, <1>7, <1>9, <2>1 DEF EpollInv
<1>18. \A d \in Conns : Same(d) \/ (Forgotten(d) /\ d = c /\ task[Main].conn # c)
  <2> SUFFICES ASSUME NEW d \in Conns
               PROVE  Same(d) \/ (Forgotten(d) /\ d = c /\ task[Main].conn # c)
    OBVIOUS
  <2>1. /\ DOMAIN end = Conns /\ DOMAIN sent = Conns /\ DOMAIN nread = Conns
        /\ DOMAIN m_readBuffer = Conns /\ DOMAIN m_writeBuffer = Conns
        /\ DOMAIN delivered = Conns /\ DOMAIN taken = Conns /\ DOMAIN replies = Conns
    BY <1>0 DEF ConnType, ReadType, WriteType
  <2>2. CASE d # c \/ task[Main].conn = c
    BY <1>3, <2>1, <2>2 DEF Same
  <2>3. CASE d = c /\ task[Main].conn # c
    BY <1>3, <2>1, <2>3 DEF Forgotten
  <2> QED BY <2>2, <2>3
<1>19. KindInv' /\ CrashHasCause'
  <2>1. KindInv'
    <3> SUFFICES ASSUME NEW d \in Conns
                 PROVE  /\ m_state'[d] = "Closed" /\ inEpoll'[d] => end'[d] = "dead"
                        /\ d \in early /\ Establishing(d) => end'[d] = "dead"
      BY <1>2, <1>9 DEF KindInv
    <3>1. CASE d = c
      BY <1>0, <1>7, <1>18, <3>1 DEF KindInv, Same, Establishing
    <3>2. CASE d # c
      BY <1>0, <1>7, <1>18, <3>2 DEF KindInv, Same
    <3> QED BY <3>1, <3>2
  <2> QED BY <1>2, <2>1, ThrowKept
<1>20. ReadType' /\ ReadInv' /\ WriteType' /\ WriteInv'
  <2>1. task[Main].conn # c => \A k \in Loops : ~Writes(k, c)
    BY <1>6 DEF Writes
  <2>2. \A d \in Conns : Same(d) \/ (Forgotten(d) /\ \A k \in Loops : ~Writes(k, d))
    BY <1>18, <2>1
  <2>3. /\ DOMAIN m_readBuffer' = Conns /\ DOMAIN delivered' = Conns
        /\ sent' = [d \in Conns |-> sent'[d]] /\ nread' = [d \in Conns |-> nread'[d]]
        /\ m_writeBuffer' = [d \in Conns |-> m_writeBuffer'[d]]
        /\ taken' = [d \in Conns |-> taken'[d]] /\ replies' = [d \in Conns |-> replies'[d]]
    BY <1>0, <1>3 DEF ReadType, WriteType
  <2> QED BY <1>0, <1>2, <2>2, <2>3, ForgetKeeps
<1> QED
  BY <1>11, <1>12, <1>13, <1>14, <1>15, <1>16, <1>17, <1>19, <1>20
  DEF ServerInv, TypeInv, HoldInv

(***************************************************************************)
(* The callbacks of a channel.                                              *)
(***************************************************************************)

\* A step of a callback: what it does to threads, events, functions and the map.
LEMMA WorkHolds ==
  ASSUME ServerInv, NEW l \in Loops, phase[l] = "dispatch",
         NEW t \in {Idle} \cup Tasks, TakesUp(l, t), NEW c, CloseEffect(c),
         crash' \in {"no"} \cup Crashes,
         m_state' \in [Conns -> {"none", "Connected", "Closed"}],
         \A d \in Conns : m_state'[d] = "none" <=> m_state[d] = "none",
         early \subseteq early', early' \subseteq Conns,
         \A d \in Conns : m_state[d] = "none" => d \notin early',
         end' \in [Conns -> {"open", "eof", "reset", "dead"}],
         batch' \in [Loops -> SUBSET Events], \A k \in Loops : batch'[k] \subseteq batch[k],
         UNCHANGED <<m_threadNum, m_loops, published, start, m_next>>,
         UNCHANGED <<phase, copy, pos>>,
         UNCHANGED <<fd, m_loop, m_tied, inEpoll, want, edge>>
  PROVE  /\ StartInv' /\ LoopInv' /\ ConnType' /\ HoldInv'
         /\ \A d \in Conns : Establishing(d)' <=> Establishing(d)
         /\ task'[l] = t /\ \A k \in Loops : k # l => task'[k] = task[k]
<1>0. TypeInv /\ HoldInv /\ StartInv /\ LoopInv /\ ConnType /\ BatchInv
  BY DEF ServerInv, TypeInv, HoldInv
<1>1. /\ task' \in [Loops -> {Idle} \cup Tasks]
      /\ task'[l] = t /\ \A k \in Loops : k # l => task'[k] = task[k]
      /\ \A d \in Conns : OnStack(d)' => Alive(d)
      /\ \A d \in Conns : Establishing(d)' <=> Establishing(d)
  BY <1>0, TaskFrame
<1>2. HoldFrame
  <2>1. pos' \in [Loops -> Nat] /\ \A k \in Loops : pos'[k] = pos[k]
    BY <1>0 DEF LoopInv
  <2> QED BY <1>1, <2>1 DEF HoldFrame
<1>3. /\ todo' \in [Loops -> Seq(Funcs)]
      /\ m_connections' \in [Fds -> Conns \cup {NoConn}]
      /\ MapInv' /\ FreshInv' /\ FdInv' /\ QueueInv' /\ EpollInv'
      /\ \A d \in Conns, k \in Loops :
           Func("destroy", d) \in Queue(k)' => Func("destroy", d) \in Queue(k) \/ ~Establishing(d)
                                              \/ d \in early'
  BY <1>0, <1>2, HoldKeeps
<1>4. TaskInv'
  BY <1>0, <1>3, TaskKept
<1>5. BatchInv'
  BY <1>0 DEF BatchInv
<1>6. LoopInv'
  <2>1. \A k \in Loops : /\ phase'[k] # "todo" => copy'[k] = <<>> /\ pos'[k] = 0
                         /\ phase'[k] # "dispatch" => batch'[k] = {} /\ task'[k] = Idle
    BY <1>0, <1>1 DEF LoopInv
  <2> QED BY <1>0, <1>1, <1>3, <2>1 DEF LoopInv
<1>7. StartInv' /\ ConnType'
  BY <1>0, <1>3 DEF StartInv, ConnType
<1> QED BY <1>1, <1>3, <1>4, <1>5, <1>6, <1>7 DEF HoldInv

\* A close that a thread asks for, or the main thread does.
LEMMA CloseIs ==
  ASSUME ServerInv, NEW l \in Loops, NEW c \in Conns, Alive(c),
         HandleClose(l, c) \/ NotClosed,
         ~NotClosed => l # Main \/ task[Main].step \notin EstablishSteps \/ c \in early'
  PROVE  CloseEffect(c)
<1>1. CASE NotClosed
  BY <1>1 DEF NotClosed, CloseEffect
<1>2. CASE ~NotClosed
  BY <1>2 DEF HandleClose, CloseConnection, OnMainThread, CloseEffect
<1> QED BY <1>1, <1>2

\* The connection that is read from, and its thread.
LEMMA HandleMessageFacts ==
  ASSUME ServerInv, NEW l \in Loops, NEW e \in batch[l], HandleMessage(l, e), NEW c, c = e.conn,
         NEW t, t = Task("message", c, m_tied[c], 0)
  PROVE  /\ c \in Conns /\ inEpoll[c] /\ m_loop[c] = l /\ m_state[c] \in {"Connected", "Closed"}
         /\ t \in Tasks /\ t.step = "message" /\ t.conn = c
         /\ TakesUp(l, t) /\ task[l] = Idle
         /\ crash = "no" /\ phase[l] = "dispatch" /\ early \subseteq Conns /\ early' = early
         /\ \A d \in Conns : m_state[d] = "none" => d \notin early
         /\ batch' \in [Loops -> SUBSET Events] /\ \A k \in Loops : batch'[k] \subseteq batch[k]
         /\ UNCHANGED <<m_threadNum, m_loops, published, start, m_next>>
         /\ UNCHANGED <<phase, copy, pos>>
         /\ UNCHANGED <<fd, m_loop, m_tied, inEpoll, want, edge>>
         /\ UNCHANGED writeVars /\ UNCHANGED sent
<1>0. /\ LoopInv /\ ConnType /\ BatchInv /\ TaskInv /\ HoldInv /\ TypeInv
  BY DEF ServerInv, TypeInv, HoldInv
<1>1. /\ crash = "no" /\ phase[l] = "dispatch" /\ task[l] = Idle
      /\ batch' = [batch EXCEPT ![l] = @ \ {e}]
      /\ task' = [task EXCEPT ![l] = t] /\ early' = early
      /\ UNCHANGED <<m_threadNum, m_loops, published, start, m_next>>
      /\ UNCHANGED <<phase, copy, pos>>
      /\ UNCHANGED <<fd, m_loop, m_tied, inEpoll, want, edge>>
      /\ UNCHANGED writeVars /\ UNCHANGED sent
  BY DEF HandleMessage, Between, Running, startVars, chanVars, objVars
<1>2. c \in Conns /\ inEpoll[c] /\ m_loop[c] = l
  BY <1>0 DEF LoopInv, Events, BatchInv
<1>3. m_state[c] \in {"Connected", "Closed"}
  BY <1>0, <1>2, InEpollAlive DEF ConnType
<1>4. t \in Tasks /\ t.step = "message" /\ t.conn = c
  <2>1. m_tied[c] \in BOOLEAN /\ 0 \in 0..ReplyLen
    BY <1>0, <1>2, Basics DEF ConnType
  <2>2. "message" \in EstablishSteps \cup WorkSteps
    BY DEF WorkSteps
  <2> QED BY <1>2, <2>1, <2>2, TaskType
<1>5. TakesUp(l, t)
  BY <1>1, <1>2, <1>4, Basics DEF TakesUp, EstablishSteps, WorkSteps
<1>6. batch' \in [Loops -> SUBSET Events] /\ \A k \in Loops : batch'[k] \subseteq batch[k]
  BY <1>0, <1>1 DEF LoopInv
<1>7. early \subseteq Conns /\ \A d \in Conns : m_state[d] = "none" => d \notin early
  BY <1>0 DEF ConnType, HoldInv, FreshInv
<1> QED BY <1>1, <1>2, <1>3, <1>4, <1>5, <1>6, <1>7

\* The first n bytes, and those after the first m.
First(s, n) == s \in Seq(1..n) /\ Len(s) = n /\ \A i \in DOMAIN s : s[i] = i

LEMMA RestIs ==
  ASSUME NEW m \in Nat, NEW n \in Nat, m <= n, NEW s, First(s, m),
         NEW b, b = [i \in 1..(n - m) |-> m + i]
  PROVE  b \in Seq(1..n) /\ <<>> \o b = b /\ First(s \o b, n)
<1>1. PICK k : k = n - m
  OBVIOUS
<1>2. k \in Nat /\ m + k = n /\ \A i \in 1..k : m + i \in 1..n
  BY <1>1
<1>3. b \in [1..k -> 1..n] /\ \A i \in 1..k : b[i] = m + i
  BY <1>1, <1>2
<1>4. b \in Seq(1..n) /\ Len(b) = k
  BY <1>2, <1>3
<1>5. <<>> \o b = b
  BY <1>4, ConcatEmptySeq
<1>6. s \in Seq(1..m) /\ Len(s) = m /\ DOMAIN s = 1..m /\ \A i \in 1..m : s[i] = i
  BY LenProperties DEF First
<1>7. s \in Seq(1..n)
  <2>1. \A i \in 1..m : s[i] \in 1..n
    BY <1>6
  <2> QED BY <1>6, <2>1
<1>8. /\ s \o b \in Seq(1..n) /\ Len(s \o b) = n
      /\ \A i \in 1..n : (s \o b)[i] = IF i <= m THEN s[i] ELSE b[i - m]
  <2>1. /\ s \o b \in Seq(1..n) /\ Len(s \o b) = Len(s) + Len(b)
        /\ \A i \in 1..Len(s) + Len(b) : (s \o b)[i] = IF i <= Len(s) THEN s[i] ELSE b[i - Len(s)]
    BY ONLY <1>4, <1>7, ConcatProperties
  <2> QED BY <1>2, <1>4, <1>6, <2>1
<1>9. \A i \in 1..n : (s \o b)[i] = i
  <2> SUFFICES ASSUME NEW i \in 1..n PROVE (s \o b)[i] = i
    OBVIOUS
  <2>1. CASE i <= m
    <3>1. i \in 1..m
      BY <2>1
    <3> QED BY <1>6, <1>8, <2>1, <3>1
  <2>2. CASE ~(i <= m)
    <3>1. i - m \in 1..k /\ m + (i - m) = i
      BY <1>2, <2>2
    <3>2. (s \o b)[i] = b[i - m] /\ b[i - m] = m + (i - m)
      BY <1>3, <1>8, <2>2, <3>1
    <3> QED BY <3>1, <3>2
  <2> QED BY <2>1, <2>2
<1>10. DOMAIN (s \o b) = 1..n
  BY <1>8, LenProperties
<1> QED BY <1>4, <1>5, <1>8, <1>9, <1>10 DEF First

\* All that the socket holds is read, and shown to the callback.
LEMMA ReadDelivered ==
  ASSUME ReadType, ReadInv, NEW c \in Conns, NEW b, b = Rest(c, sent[c]), sent' = sent,
         m_readBuffer' = [m_readBuffer EXCEPT ![c] = <<>> \o b],
         delivered' = [delivered EXCEPT ![c] = @ \o (<<>> \o b)],
         nread' = [nread EXCEPT ![c] = sent[c]]
  PROVE  ReadType' /\ ReadInv'
<1>1. PICK m, n, s : m = nread[c] /\ n = sent[c] /\ s = delivered[c]
  OBVIOUS
<1>2. m \in Nat /\ n \in Nat /\ m <= n /\ First(s, m)
  <2>1. m \in Nat /\ n \in Nat /\ m <= n /\ s \in Seq(1..m)
    BY <1>1, Basics DEF ReadType
  <2>2. Len(s) = m /\ \A i \in DOMAIN s : s[i] = i
    BY <1>1 DEF ReadInv
  <2> QED BY <2>1, <2>2 DEF First
<1>3. b = [i \in 1..(n - m) |-> m + i]
  BY <1>1 DEF Rest
<1>4. b \in Seq(1..n) /\ <<>> \o b = b /\ First(s \o b, n)
  BY ONLY <1>2, <1>3, RestIs
<1>5. PICK u : u = s \o b
  OBVIOUS
<1>6. /\ u \in Seq(1..n) /\ Len(u) = n /\ \A i \in DOMAIN u : u[i] = i
  BY <1>4, <1>5 DEF First
<1>7. /\ DOMAIN m_readBuffer' = Conns /\ m_readBuffer'[c] = b
      /\ DOMAIN delivered' = Conns /\ delivered'[c] = u
      /\ nread' \in [Conns -> Nat] /\ nread'[c] = n
      /\ \A d \in Conns : d # c => /\ m_readBuffer'[d] = m_readBuffer[d]
                                   /\ delivered'[d] = delivered[d] /\ nread'[d] = nread[d]
  BY <1>1, <1>2, <1>4, <1>5 DEF ReadType
<1>8. ReadType'
  <2>1. ASSUME NEW d \in Conns
        PROVE  /\ nread'[d] <= sent[d] /\ m_readBuffer'[d] \in Seq(1..nread'[d])
               /\ delivered'[d] \in Seq(1..nread'[d])
    <3>1. CASE d = c
      <4>1. n <= sent[d]
        BY <1>1, <1>2, <3>1
      <4> QED BY <1>4, <1>6, <1>7, <3>1, <4>1
    <3>2. CASE d # c
      BY <1>7, <3>2 DEF ReadType
    <3> QED BY <3>1, <3>2
  <2> QED BY <1>7, <2>1 DEF ReadType
<1>9. ReadInv'
  <2>1. ASSUME NEW d \in Conns
        PROVE  /\ \A i \in DOMAIN delivered'[d] : delivered'[d][i] = i
               /\ Len(delivered'[d]) = nread'[d]
    <3>1. CASE d = c
      BY <1>6, <1>7, <3>1
    <3>2. CASE d # c
      <4>1. PICK v : v = delivered[d] /\ v = delivered'[d]
        BY <1>7, <3>2
      <4>2. (\A i \in DOMAIN v : v[i] = i) /\ Len(v) = nread[d]
        BY <4>1 DEF ReadInv
      <4> QED BY <1>7, <3>2, <4>1, <4>2
    <3> QED BY <3>1, <3>2
  <2> QED BY <2>1 DEF ReadInv
<1> QED BY <1>8, <1>9

LEMMA HandleMessageStep ==
  ASSUME ServerInv, NEW l \in Loops, NEW e \in batch[l], HandleMessage(l, e)
  PROVE  ServerInv'
<1>0. /\ LoopInv /\ ConnType /\ KindInv /\ ReadType /\ ReadInv /\ WriteType /\ WriteInv
      /\ TypeInv /\ HoldInv
  BY DEF ServerInv, TypeInv, HoldInv
<1>1. PICK c, t, b : /\ c = e.conn /\ t = Task("message", c, m_tied[c], 0)
                     /\ b = Rest(c, sent[c])
  OBVIOUS
<1>2. /\ c \in Conns /\ inEpoll[c] /\ m_loop[c] = l /\ m_state[c] \in {"Connected", "Closed"}
      /\ t \in Tasks /\ t.step = "message" /\ t.conn = c
      /\ TakesUp(l, t) /\ task[l] = Idle
      /\ crash = "no" /\ phase[l] = "dispatch" /\ early \subseteq Conns /\ early' = early
      /\ \A d \in Conns : m_state[d] = "none" => d \notin early
      /\ batch' \in [Loops -> SUBSET Events] /\ \A k \in Loops : batch'[k] \subseteq batch[k]
      /\ UNCHANGED <<m_threadNum, m_loops, published, start, m_next>>
      /\ UNCHANGED <<phase, copy, pos>>
      /\ UNCHANGED <<fd, m_loop, m_tied, inEpoll, want, edge>>
      /\ UNCHANGED writeVars /\ UNCHANGED sent
  BY <1>1, HandleMessageFacts
<1>3. ASSUME task'[l] = t, \A k \in Loops : k # l => task'[k] = task[k]
      PROVE  WriteType' /\ WriteInv'
  <2>1. \A k \in Loops : task'[k].step \in WriteSteps => task'[k] = task[k]
    BY <1>2, <1>3 DEF WriteSteps
  <2> QED BY <1>0, <1>2, <2>1, WriteKept
<1>4. CASE m_state[c] # "Connected" \/ sent[c] - nread[c] > BufferRoom
  <2>1. /\ crash' = IF m_state[c] # "Connected" THEN "read" ELSE "append"
        /\ UNCHANGED readVars /\ UNCHANGED <<end, todo, m_connections, m_state>>
    BY <1>1, <1>4 DEF HandleMessage, Throw, ReadUpTo
  <2>2. m_state[c] # "Connected" => end[c] = "dead" /\ m_state[c] = "Closed"
    BY <1>0, <1>2 DEF KindInv
  <2>3. CloseEffect(NoConn) /\ crash' \in {"no"} \cup Crashes
    BY <2>1 DEF CloseEffect, Crashes
  <2>4. /\ StartInv' /\ LoopInv' /\ ConnType' /\ HoldInv'
        /\ \A d \in Conns : Establishing(d)' <=> Establishing(d)
        /\ task'[l] = t /\ \A k \in Loops : k # l => task'[k] = task[k]
    BY <1>0, <1>2, <2>1, <2>3, WorkHolds DEF ConnType
  <2>5. KindInv'
    BY <1>0, <1>2, <2>1, <2>4 DEF KindInv
  <2>6. CrashHasCause'
    <3>1. CASE m_state[c] # "Connected"
      <4>1. ResetSeen(task[l].conn)'
        BY <1>2, <2>1, <2>2, <2>4, <3>1, Basics DEF ResetSeen
      <4>2. crash' = "read"
        BY <2>1, <3>1
      <4> QED BY <4>1, <4>2 DEF CrashHasCause
    <3>2. CASE m_state[c] = "Connected"
      <4>1. sent'[c] - nread'[c] > BufferRoom /\ inEpoll'[c] /\ crash' = "append"
        BY <1>2, <1>4, <2>1, <3>2 DEF readVars
      <4> QED BY <1>2, <4>1 DEF CrashHasCause
    <3> QED BY <3>1, <3>2
  <2>7. ReadType' /\ ReadInv'
    BY <1>0, <1>2, <2>1, ReadKept
  <2> QED BY <1>3, <2>4, <2>5, <2>6, <2>7 DEF ServerInv, TypeInv
<1>5. CASE m_state[c] = "Connected" /\ ~(sent[c] - nread[c] > BufferRoom)
  <2>1. /\ m_readBuffer' = [m_readBuffer EXCEPT ![c] = <<>> \o b]
        /\ delivered' = [delivered EXCEPT ![c] = @ \o (<<>> \o b)]
        /\ nread' = [nread EXCEPT ![c] = sent[c]]
        /\ HandleClose(l, c) \/ NotClosed
        /\ m_state' = [m_state EXCEPT ![c] = IF end[c] = "reset" THEN "Closed" ELSE m_state[c]]
        /\ end' = [end EXCEPT ![c] = IF end[c] = "reset" THEN "dead" ELSE end[c]]
        /\ crash' = crash
    BY <1>1, <1>5 DEF HandleMessage, Retrieved, ReadUpTo, StateAfterRead
  <2>2. ReadType' /\ ReadInv'
    BY <1>0, <1>1, <1>2, <2>1, ReadDelivered
  <2>3. CloseEffect(c)
    <3>1. Alive(c)
      BY <1>0, <1>2, InEpollAlive
    <3>2. l # Main \/ task[Main].step \notin EstablishSteps
      BY <1>2, Basics DEF EstablishSteps
    <3> QED BY <1>2, <2>1, <3>1, <3>2, CloseIs
  <2>4. /\ m_state' \in [Conns -> {"none", "Connected", "Closed"}]
        /\ end' \in [Conns -> {"open", "eof", "reset", "dead"}]
        /\ m_state'[c] # "none" /\ (m_state'[c] = "Closed" => end'[c] = "dead")
        /\ end[c] = "dead" => end'[c] = "dead"
        /\ \A d \in Conns : d # c => m_state'[d] = m_state[d] /\ end'[d] = end[d]
    BY <1>0, <1>2, <1>5, <2>1 DEF ConnType
  <2>5. \A d \in Conns : m_state'[d] = "none" <=> m_state[d] = "none"
    BY <1>2, <2>4
  <2>6. crash' \in {"no"} \cup Crashes
    BY <1>2, <2>1
  <2>7. /\ StartInv' /\ LoopInv' /\ ConnType' /\ HoldInv'
        /\ \A d \in Conns : Establishing(d)' <=> Establishing(d)
        /\ task'[l] = t /\ \A k \in Loops : k # l => task'[k] = task[k]
    BY <1>2, <2>3, <2>4, <2>5, <2>6, WorkHolds
  <2>8. KindInv'
    BY <1>0, <1>2, <2>4, <2>7 DEF KindInv
  <2>9. CrashHasCause'
    BY <1>2, <2>1, ThrowKept
  <2> QED BY <1>3, <2>2, <2>7, <2>8, <2>9 DEF ServerInv, TypeInv
<1> QED BY <1>4, <1>5

LEMMA SendBufferType ==
  \A r \in 1..MaxReplies : SendBuffer(r) \in Seq(Bytes) /\ Len(SendBuffer(r)) = ReplyLen
<1> SUFFICES ASSUME NEW r \in 1..MaxReplies
             PROVE  SendBuffer(r) \in Seq(Bytes) /\ Len(SendBuffer(r)) = ReplyLen
  OBVIOUS
<1>1. SendBuffer(r) \in [1..ReplyLen -> Bytes]
  BY DEF SendBuffer, Bytes
<1> QED BY <1>1, Basics

\* Send replaces the buffer, and its reply is the first that the peer may be sent of it.
LEMMA ReplyStarts ==
  ASSUME WriteType, WriteInv, NEW c \in Conns, NEW r, r = replies[c] + 1, r <= MaxReplies,
         replies' = [replies EXCEPT ![c] = r],
         m_writeBuffer' = [m_writeBuffer EXCEPT ![c] = SendBuffer(r)],
         UNCHANGED taken, crash' = "no" => crash = "no",
         \A l \in Loops : task'[l].step \in WriteSteps /\ task'[l].conn # c => task'[l] = task[l],
         crash' = "no" => \A l \in Loops : Writes(l, c)' =>
                            task'[l].left = ReplyLen /\ \A k \in Loops : Writes(k, c)' => k = l
  PROVE  WriteType' /\ WriteInv'
<1>1. replies[c] \in Nat /\ MaxReplies \in Nat /\ r \in 1..MaxReplies
  <2>1. replies[c] \in Nat /\ MaxReplies \in Nat
    BY Basics DEF WriteType
  <2> QED BY <2>1
<1>2. SendBuffer(r) \in Seq(Bytes)
  BY <1>1, SendBufferType
<1>3. WriteType'
  BY <1>1, <1>2 DEF WriteType
<1>4. /\ replies'[c] = r /\ m_writeBuffer'[c] = SendBuffer(r)
      /\ \A d \in Conns : d # c => replies'[d] = replies[d] /\ m_writeBuffer'[d] = m_writeBuffer[d]
  BY DEF WriteType
<1>5. \A i \in DOMAIN taken[c] : taken[c][i][1] < r /\ taken[c][i][1] <= r
  <2> SUFFICES ASSUME NEW i \in DOMAIN taken[c] PROVE taken[c][i][1] < r /\ taken[c][i][1] <= r
    OBVIOUS
  <2>1. taken[c] \in Seq(Bytes) /\ i \in 1..Len(taken[c])
    BY LenProperties DEF WriteType
  <2>2. taken[c][i] \in Bytes
    BY <2>1, ElementOfSeq
  <2>3. taken[c][i][1] \in Nat
    BY <2>2 DEF Bytes
  <2>4. taken[c][i][1] <= replies[c]
    BY DEF WriteInv
  <2> QED BY <1>1, <2>3, <2>4
<1>6. \A d, x, n : SentUpTo(d, x, n)' <=> SentUpTo(d, x, n)
  BY DEF SentUpTo
<1>7. ASSUME NEW l \in Loops, Writes(l, c)', crash' = "no" PROVE WriterInv(l, c)'
  <2>1. SentUpTo(c, r, ReplyLen)
    BY <1>5 DEF SentUpTo
  <2>2. PICK x, n : x = r /\ n = ReplyLen
    OBVIOUS
  <2>3. SentUpTo(c, x, n)' /\ x = replies'[c] /\ n = task'[l].left
    BY <1>4, <1>6, <1>7, <2>1, <2>2
  <2>4. SentUpTo(c, replies[c], task[l].left)'
    BY <2>3
  <2> QED BY <1>1, <1>4, <1>7, <2>4 DEF WriterInv
<1>8. ASSUME NEW d \in Conns, d # c, NEW l \in Loops, Writes(l, d)', crash' = "no"
      PROVE  WriterInv(l, d)'
  <2>1. task'[l] = task[l] /\ Writes(l, d) /\ \A k \in Loops : Writes(k, d)' => Writes(k, d)
    BY <1>8 DEF Writes
  <2>2. WriterInv(l, d)
    BY <1>8, <2>1 DEF WriteInv
  <2>3. PICK x, n : x = replies[d] /\ n = task[l].left
    OBVIOUS
  <2>4. x \in 1..MaxReplies /\ m_writeBuffer[d] = SendBuffer(x) /\ SentUpTo(d, x, n)
    BY <2>2, <2>3 DEF WriterInv
  <2>5. x = replies'[d] /\ n = task'[l].left /\ SentUpTo(d, x, n)'
    BY <1>4, <1>6, <1>8, <2>1, <2>3, <2>4
  <2>6. SentUpTo(d, replies[d], task[l].left)'
    BY <2>5
  <2>7. \A k \in Loops : Writes(k, d)' => k = l
    BY <2>1, <2>2 DEF WriterInv
  <2>8. replies'[d] \in 1..MaxReplies /\ m_writeBuffer'[d] = SendBuffer(replies'[d])
    BY <1>4, <1>8, <2>3, <2>4
  <2> QED BY <2>6, <2>7, <2>8 DEF WriterInv
<1>9. WriteInv'
  <2> SUFFICES ASSUME NEW d \in Conns
       PROVE  /\ InOrder(taken[d])
              /\ \A i \in DOMAIN taken[d] : taken[d][i][1] <= replies'[d]
              /\ crash' = "no" => \A l \in Loops : Writes(l, d)' => WriterInv(l, d)'
    BY DEF WriteInv, InOrder
  <2>1. InOrder(taken[d]) /\ \A i \in DOMAIN taken[d] : taken[d][i][1] <= replies'[d]
    BY <1>4, <1>5 DEF WriteInv
  <2> QED BY <1>7, <1>8, <2>1
<1> QED BY <1>3, <1>9

\* A thread in a callback that may call Send, and its connection.
LEMMA HandlerFacts ==
  ASSUME ServerInv, NEW l \in Loops, task[l].step \in {"connect", "greet", "message", "write"},
         NEW c, c = task[l].conn
  PROVE  /\ c \in Conns /\ Alive(c) /\ m_state[c] \in {"Connected", "Closed"}
         /\ inEpoll[c] \/ c \in early
         /\ m_state[c] = "Closed" => end[c] = "dead"
         /\ task[l] \in Tasks /\ task[l] # Idle /\ task[l].left \in 0..ReplyLen
         /\ phase[l] = "dispatch"
         /\ task[l].step \in {"connect", "greet"} => l = Main /\ task[l].step \in EstablishSteps
         /\ task[l].step \in {"message", "write"} =>
              /\ task[l].step \in WorkSteps /\ task[l].step \notin EstablishSteps
              /\ inEpoll[c] /\ m_loop[c] = l
         /\ early \subseteq Conns /\ \A d \in Conns : m_state[d] = "none" => d \notin early
<1>0. TypeInv /\ HoldInv /\ LoopInv /\ TaskInv /\ KindInv
  BY DEF ServerInv, TypeInv, HoldInv
<1>1. task[l] # Idle
  BY Basics
<1>2. task[l] \in Tasks /\ task[l].left \in 0..ReplyLen
  BY <1>0, <1>1, TaskIs
<1>3. phase[l] = "dispatch"
  BY <1>0, <1>1 DEF LoopInv
<1>4. /\ c \in Conns /\ Alive(c) /\ m_state[c] \in {"Connected", "Closed"}
      /\ inEpoll[c] \/ c \in early
      /\ task[l].step \in WorkSteps => inEpoll[c] /\ m_loop[c] = l
      /\ task[l].step \in EstablishSteps => l = Main
  BY <1>0, <1>1, TaskAlive
<1>5. /\ task[l].step \in {"connect", "greet"} => task[l].step \in EstablishSteps
      /\ task[l].step \in {"message", "write"} =>
           task[l].step \in WorkSteps /\ task[l].step \notin EstablishSteps
  BY DEF EstablishSteps, WorkSteps
<1>6. m_state[c] = "Closed" => end[c] = "dead"
  <2>1. inEpoll[c] \/ Establishing(c)
    BY <1>4, <1>5 DEF Establishing
  <2> QED BY <1>0, <1>4, <2>1 DEF KindInv
<1>7. early \subseteq Conns /\ \A d \in Conns : m_state[d] = "none" => d \notin early
  BY <1>0 DEF TypeInv, ConnType, HoldInv, FreshInv
<1> QED BY <1>1, <1>2, <1>3, <1>4, <1>5, <1>6, <1>7

LEMMA OnMessageReturnsStep ==
  ASSUME ServerInv, NEW l \in Loops, OnMessageReturns(l)
  PROVE  ServerInv'
<1>0. TypeInv /\ LoopInv /\ ConnType /\ KindInv /\ ReadType /\ ReadInv /\ WriteType /\ WriteInv
  BY DEF ServerInv, TypeInv
<1>1. /\ task[l].step = "message" /\ crash = "no" /\ task' = [task EXCEPT ![l] = Idle]
      /\ UNCHANGED <<m_threadNum, m_loops, published, start, m_next>>
      /\ UNCHANGED <<phase, batch, copy, pos, todo, crash, m_connections, m_state, early>>
      /\ UNCHANGED <<fd, m_loop, m_tied, inEpoll, want, edge, end>>
      /\ UNCHANGED readVars /\ UNCHANGED writeVars /\ sent' = sent
  BY DEF OnMessageReturns, In, Running, Return, startVars, turnVars, chanVars, objVars, sockVars
<1>2. /\ phase[l] = "dispatch" /\ task[l].step \notin EstablishSteps
      /\ early \subseteq Conns /\ \A d \in Conns : m_state[d] = "none" => d \notin early
  BY <1>1, HandlerFacts
<1>3. TakesUp(l, Idle)
  <2>1. Idle \notin Tasks
    BY Basics DEF Tasks
  <2> QED BY <1>1, <1>2, <2>1 DEF TakesUp
<1>4. CloseEffect(NoConn) /\ crash' \in {"no"} \cup Crashes
  BY <1>1 DEF CloseEffect
<1>5. /\ StartInv' /\ LoopInv' /\ ConnType' /\ HoldInv'
      /\ \A d \in Conns : Establishing(d)' <=> Establishing(d)
      /\ task'[l] = Idle /\ \A k \in Loops : k # l => task'[k] = task[k]
  BY <1>0, <1>1, <1>2, <1>3, <1>4, WorkHolds DEF LoopInv, ConnType
<1>6. KindInv' /\ CrashHasCause'
  BY <1>0, <1>1, <1>5, ThrowKept DEF KindInv
<1>7. ReadType' /\ ReadInv'
  BY <1>0, <1>1, ReadKept
<1>8. WriteType' /\ WriteInv'
  <2>1. \A k \in Loops : task'[k].step \in WriteSteps => task'[k] = task[k]
    BY <1>5, Basics DEF WriteSteps
  <2> QED BY <1>0, <1>1, <2>1, WriteKept
<1> QED BY <1>5, <1>6, <1>7, <1>8 DEF ServerInv, TypeInv

LEMMA SendStep ==
  ASSUME ServerInv, NEW l \in Loops, Send(l)
  PROVE  ServerInv'
<1>0. /\ TypeInv /\ LoopInv /\ ConnType /\ KindInv /\ ReadType /\ ReadInv /\ WriteType /\ WriteInv
      /\ TaskInv
  BY DEF ServerInv, TypeInv, HoldInv
<1>1. PICK c, r : c = task[l].conn /\ r = replies[c] + 1
  OBVIOUS
<1>2. /\ task[l].step \in {"connect", "message"} /\ crash = "no" /\ r <= MaxReplies
      /\ replies' = [replies EXCEPT ![c] = r] /\ taken' = taken
      /\ m_writeBuffer' = [m_writeBuffer EXCEPT ![c] = SendBuffer(r)]
      /\ UNCHANGED <<startVars, turnVars, chanVars, objVars, readVars, sockVars>>
      /\ UNCHANGED <<m_next, todo, m_connections, m_state, early>>
  BY <1>1 DEF Send, In, Running
<1>3. /\ c \in Conns /\ m_state[c] \in {"Connected", "Closed"}
      /\ inEpoll[c] \/ c \in early
      /\ m_state[c] = "Closed" => end[c] = "dead"
      /\ task[l] \in Tasks /\ task[l] # Idle /\ phase[l] = "dispatch"
      /\ task[l].step \in {"connect", "greet"} => l = Main /\ task[l].step \in EstablishSteps
      /\ task[l].step \in {"message", "write"} =>
           /\ task[l].step \in WorkSteps /\ task[l].step \notin EstablishSteps
           /\ inEpoll[c] /\ m_loop[c] = l
      /\ early \subseteq Conns /\ \A d \in Conns : m_state[d] = "none" => d \notin early
  BY <1>1, <1>2, HandlerFacts
<1>4. ASSUME crash' \in Crashes, CrashHasCause', task' = task PROVE ServerInv'
  <2>1. crash' # "no"
    BY <1>4 DEF Crashes
  <2>2. WriteType' /\ WriteInv'
    BY <1>0, <1>1, <1>2, <1>3, <1>4, <2>1, ReplyStarts
  <2> QED BY <1>2, <1>4, <2>2, Ended
<1>5. CASE OtherSends(l, c)
  <2>1. crash' = "race" /\ task' = task
    BY <1>1, <1>5 DEF Send, Throw
  <2>2. PICK k \in Loops \ {l} : task[k].conn = c /\ task[k].step \in {"greet", "write"}
    BY <1>5 DEF OtherSends
  <2>3. /\ task[k].step \in {"connect", "greet"} => k = Main
        /\ task[k].step \in {"message", "write"} => m_loop[c] = k
    BY <2>2, HandlerFacts
  <2>4. \E m \in Threads : /\ task[Main].step \in {"connect", "greet"}
                           /\ task[m].step \in {"message", "write"}
                           /\ task[m].conn = task[Main].conn
    <3>1. CASE task[l].step = "connect"
      <4>1. l = Main /\ task[k].step = "write"
        BY <1>3, <2>2, <2>3, <3>1
      <4>2. k \in Threads
        BY <2>2, <4>1 DEF Loops
      <4> QED BY <1>1, <2>2, <3>1, <4>1, <4>2
    <3>2. CASE task[l].step = "message"
      <4>1. k = Main /\ task[k].step = "greet"
        BY <1>3, <2>2, <2>3, <3>2
      <4>2. l \in Threads
        BY <2>2, <4>1 DEF Loops
      <4> QED BY <1>1, <2>2, <3>2, <4>1, <4>2
    <3> QED BY <1>2, <3>1, <3>2
  <2>5. CrashHasCause'
    BY <2>1, <2>4 DEF CrashHasCause
  <2>6. crash' \in Crashes
    BY <2>1 DEF Crashes
  <2> QED BY <1>4, <2>1, <2>5, <2>6
<1>6. CASE ~OtherSends(l, c) /\ m_state[c] # "Connected"
  <2>1. crash' = "write" /\ task' = task
    BY <1>1, <1>6 DEF Send, Throw
  <2>2. UNCHANGED <<m_state, end, inEpoll, early>>
    BY <1>2 DEF sockVars, chanVars
  <2>3. ResetSeen(task[l].conn)'
    BY <1>1, <1>3, <1>6, <2>1, <2>2, Basics DEF ResetSeen
  <2>4. CrashHasCause'
    BY <2>1, <2>3 DEF CrashHasCause
  <2>5. crash' \in Crashes
    BY <2>1 DEF Crashes
  <2> QED BY <1>4, <2>1, <2>4, <2>5
<1>7. CASE ~OtherSends(l, c) /\ m_state[c] = "Connected"
  <2>1. PICK t, w : /\ w = (IF task[l].step = "connect" THEN "greet" ELSE "write")
                    /\ t = [task[l] EXCEPT !.step = w, !.left = ReplyLen]
    OBVIOUS
  <2>2. task' = [task EXCEPT ![l] = t] /\ crash' = crash
    BY <1>0, <1>1, <1>7, <2>1 DEF Send, LoopInv
  <2>3. /\ t \in Tasks /\ t.step = w /\ t.conn = c /\ t.left = ReplyLen
        /\ t.guard = task[l].guard
    <3>1. ReplyLen \in 0..ReplyLen /\ w \in EstablishSteps \cup WorkSteps
      BY <2>1, Basics DEF EstablishSteps, WorkSteps
    <3> QED BY <1>1, <1>3, <2>1, <3>1 DEF Tasks
  <2>4. TakesUp(l, t)
    <3>1. w \in EstablishSteps \/ task[l].step = "message"
      BY <1>2, <2>1 DEF EstablishSteps
    <3>2. task[l].step = "message" => w \in WorkSteps
      BY <2>1 DEF WorkSteps
    <3>3. w \in EstablishSteps => task[l].step = "connect"
      BY <1>2, <2>1 DEF EstablishSteps
    <3> QED BY <1>1, <1>2, <1>3, <2>2, <2>3, <3>1, <3>2, <3>3 DEF TakesUp
  <2>5. /\ UNCHANGED <<m_threadNum, m_loops, published, start>>
        /\ UNCHANGED <<phase, batch, copy, pos>>
        /\ UNCHANGED <<fd, m_loop, m_tied, inEpoll, want, edge, end>> /\ sent' = sent
    BY <1>2 DEF startVars, turnVars, chanVars, objVars, sockVars
  <2>6. CloseEffect(NoConn) /\ crash' \in {"no"} \cup Crashes
    BY <1>2, <2>2 DEF CloseEffect
  <2>7. /\ StartInv' /\ LoopInv' /\ ConnType' /\ HoldInv'
        /\ \A d \in Conns : Establishing(d)' <=> Establishing(d)
        /\ task'[l] = t /\ \A k \in Loops : k # l => task'[k] = task[k]
    BY <1>0, <1>2, <1>3, <2>3, <2>4, <2>5, <2>6, WorkHolds DEF LoopInv, ConnType
  <2>8. KindInv' /\ CrashHasCause'
    BY <1>0, <1>2, <2>2, <2>5, <2>7, ThrowKept DEF KindInv
  <2>9. ReadType' /\ ReadInv'
    BY <1>0, <1>2, <2>5, ReadKept
  <2>10. WriteType' /\ WriteInv'
    <3>1. \A k \in Loops : Writes(k, c)' => k = l
      BY <1>7, <2>7 DEF Writes, WriteSteps, OtherSends
    <3>2. \A k \in Loops : task'[k].step \in WriteSteps /\ task'[k].conn # c => task'[k] = task[k]
      BY <2>3, <2>7
    <3>3. crash' = "no" => crash = "no"
      BY <2>2
    <3> QED BY <1>0, <1>1, <1>2, <1>3, <2>3, <2>7, <3>1, <3>2, <3>3, ReplyStarts
  <2> QED BY <2>7, <2>8, <2>9, <2>10 DEF ServerInv, TypeInv
<1> QED BY <1>5, <1>6, <1>7

\* Reply x may go on after its first d bytes; k bytes of it that follow them.
GoesOn(s, x, d) ==
  IF d = 0 THEN \A i \in DOMAIN s : s[i][1] < x ELSE s # <<>> /\ s[Len(s)] = <<x, d>>
AtMost(s, x) == \A i \in DOMAIN s : s[i][1] <= x
Follow(ch, x, d, k) == Len(ch) = k /\ \A j \in 1..k : ch[j] = <<x, d + j>>

LEMMA MoreInOrder ==
  ASSUME NEW s \in Seq(Bytes), InOrder(s), NEW x \in 1..MaxReplies, NEW d \in Nat,
         NEW k \in Nat \ {0}, NEW ch \in Seq(Bytes), Follow(ch, x, d, k), GoesOn(s, x, d),
         AtMost(s, x)
  PROVE  /\ s \o ch \in Seq(Bytes) /\ InOrder(s \o ch)
         /\ GoesOn(s \o ch, x, d + k) /\ AtMost(s \o ch, x)
<1>0. Len(ch) = k /\ \A j \in 1..k : ch[j] = <<x, d + j>>
  BY DEF Follow
<1>1. PICK u, n : u = s \o ch /\ n = Len(s)
  OBVIOUS
<1>2. n \in Nat /\ DOMAIN s = 1..n /\ (s # <<>> => n >= 1)
  BY <1>1, LenProperties, EmptySeq
<1>3. u \in Seq(Bytes) /\ Len(u) = n + k /\ DOMAIN u = 1..(n + k)
  <2>1. u \in Seq(Bytes) /\ Len(u) = Len(s) + Len(ch)
    BY <1>1, ConcatProperties
  <2>2. DOMAIN u = 1..Len(u)
    BY <2>1, LenProperties
  <2> QED BY <1>0, <1>1, <2>1, <2>2
<1>4. \A i \in 1..n : u[i] = s[i]
  <2>1. \A i \in 1..n : i \in 1..Len(s) + Len(ch) /\ i <= Len(s)
    BY <1>0, <1>1, <1>2
  <2> QED BY <1>1, <2>1, ConcatProperties
<1>5. \A j \in 1..k : u[n + j] = <<x, d + j>>
  <2> SUFFICES ASSUME NEW j \in 1..k PROVE u[n + j] = <<x, d + j>>
    OBVIOUS
  <2>1. n + j \in 1..Len(s) + Len(ch) /\ ~(n + j <= Len(s)) /\ n + j - Len(s) = j
    BY <1>0, <1>1, <1>2
  <2>2. u[n + j] = ch[j]
    BY <1>1, <2>1, ConcatProperties
  <2> QED BY <1>0, <2>2
<1>6. \A i \in 1..(n + k) : i \in 1..n \/ i - n \in 1..k
  BY <1>2
<1>7. u[n + k] = <<x, d + k>> /\ u # <<>>
  <2>1. k \in 1..k
    OBVIOUS
  <2>2. n + k # 0
    BY <1>2
  <2> QED BY <1>3, <1>5, <2>1, <2>2
<1>8. ASSUME NEW i \in 1..(n + k)
      PROVE  /\ u[i][1] = x \/ (i \in 1..n /\ u[i] = s[i])
             /\ IF u[i][2] = 1 THEN i = 1 \/ u[i - 1][1] < u[i][1]
                ELSE i > 1 /\ u[i - 1] = <<u[i][1], u[i][2] - 1>>
  <2>1. CASE i \in 1..n
    <3>1. i = 1 \/ i - 1 \in 1..n
      BY <1>2, <2>1
    <3>2. u[i] = s[i] /\ (i # 1 => u[i - 1] = s[i - 1])
      BY <1>4, <2>1, <3>1
    <3>3. IF s[i][2] = 1 THEN i = 1 \/ s[i - 1][1] < s[i][1]
          ELSE i > 1 /\ s[i - 1] = <<s[i][1], s[i][2] - 1>>
      BY <1>2, <2>1 DEF InOrder
    <3> QED BY <1>2, <2>1, <3>2, <3>3
  <2>2. CASE i - n \in 1..k
    <3>1. PICK j : j = i - n
      OBVIOUS
    <3>2. j \in 1..k /\ j \in Nat /\ i = n + j /\ i >= 1
      BY <1>2, <2>2, <3>1
    <3>3. u[i] = <<x, d + j>> /\ u[i][1] = x /\ u[i][2] = d + j
      BY <1>5, <3>2
    <3>4. CASE j > 1
      <4>1. j - 1 \in 1..k /\ d + j # 1
        BY <3>2, <3>4
      <4>2. i - 1 = n + (j - 1) /\ i > 1
        BY <1>2, <3>2, <3>4
      <4>3. u[i - 1] = <<x, d + (j - 1)>>
        BY <1>5, <4>1, <4>2
      <4>4. d + (j - 1) = u[i][2] - 1 /\ u[i][2] # 1
        BY <3>2, <3>3, <4>1
      <4> QED BY <3>3, <4>2, <4>3, <4>4
    <3>5. CASE j = 1 /\ d = 0
      <4>1. i = 1 \/ (n \in 1..n /\ i - 1 = n)
        BY <1>2, <3>2, <3>5
      <4>2. n \in 1..n => u[n] = s[n] /\ s[n][1] < x
        BY <1>2, <1>4, <3>5 DEF GoesOn
      <4> QED BY <3>3, <3>5, <4>1, <4>2
    <3>6. CASE j = 1 /\ d # 0
      <4>1. s # <<>> /\ s[n] = <<x, d>>
        BY <1>1, <3>6 DEF GoesOn
      <4>2. n \in 1..n /\ i - 1 = n /\ i > 1
        BY <1>2, <3>2, <3>6, <4>1
      <4>3. u[i - 1] = <<x, d>>
        BY <1>4, <4>1, <4>2
      <4>4. d = u[i][2] - 1 /\ u[i][2] # 1
        BY <3>2, <3>3, <3>6
      <4> QED BY <3>3, <4>2, <4>3, <4>4
    <3> QED BY <3>2, <3>4, <3>5, <3>6
  <2> QED BY <1>6, <2>1, <2>2
<1>9. InOrder(u)
  BY <1>3, <1>8 DEF InOrder
<1>10. AtMost(u, x)
  <2> SUFFICES ASSUME NEW i \in 1..(n + k) PROVE u[i][1] <= x
    BY <1>3 DEF AtMost
  <2>1. CASE u[i][1] = x
    <3>1. x <= x
      BY Basics
    <3> QED BY <2>1, <3>1
  <2>2. CASE i \in 1..n /\ u[i] = s[i]
    BY <1>2, <2>2 DEF AtMost
  <2> QED BY <1>8, <2>1, <2>2
<1>11. GoesOn(u, x, d + k)
  <2>1. d + k # 0 /\ Len(u) = n + k
    BY <1>3
  <2> QED BY <1>7, <2>1 DEF GoesOn
<1> QED BY <1>1, <1>3, <1>9, <1>10, <1>11

\* What one call of write takes of a reply of which n bytes are left.
LEMMA ChunkIs ==
  ASSUME NEW x \in 1..MaxReplies, NEW n \in 0..ReplyLen, NEW k \in 1..n,
         NEW ch, ch = Chunk(SendBuffer(x), n, k)
  PROVE  ch \in Seq(Bytes) /\ Follow(ch, x, ReplyLen - n, k)
<1>1. PICK b, a, z : b = SendBuffer(x) /\ a = ReplyLen - n + 1 /\ z = ReplyLen - n + k
  OBVIOUS
<1>2. b \in Seq(Bytes) /\ Len(b) = ReplyLen /\ \A i \in 1..ReplyLen : b[i] = <<x, i>>
  BY <1>1, SendBufferType DEF SendBuffer
<1>3. /\ ReplyLen \in Nat /\ n \in Nat /\ k \in Nat /\ 1 <= k /\ k <= n /\ n <= ReplyLen
  BY Basics
<1>4. a \in Int /\ z \in Int /\ a <= z /\ z - a + 1 = k /\ a >= 1 /\ z <= ReplyLen
  BY <1>1, <1>3
<1>5. \A i \in a..z : i \in 1..ReplyLen /\ b[i] \in Bytes
  <2>1. \A i \in a..z : i \in 1..ReplyLen
    BY <1>3, <1>4
  <2> QED BY <1>2, <2>1, ElementOfSeq
<1>6. ch = SubSeq(b, a, z)
  BY <1>1, <1>2 DEF Chunk
<1>7. /\ ch \in Seq(Bytes) /\ Len(ch) = k
      /\ \A i \in 1..k : ch[i] = b[a + i - 1]
  BY <1>4, <1>5, <1>6, SubSeqProperties
<1>8. \A j \in 1..k : a + j - 1 \in 1..ReplyLen /\ a + j - 1 = ReplyLen - n + j
  BY <1>1, <1>3, <1>4
<1> QED BY <1>2, <1>7, <1>8 DEF Follow

\* A thread in Write, and its connection; no other thread is in Write of it.
LEMMA WritingFacts ==
  ASSUME ServerInv, NEW l \in Loops, Writing(l), NEW c, c = task[l].conn
  PROVE  /\ task[l].step \in WriteSteps /\ crash = "no" /\ c \in Conns /\ Alive(c)
         /\ task[l] \in Tasks /\ task[l] # Idle /\ task[l].left \in 0..ReplyLen
         /\ phase[l] = "dispatch" /\ m_state[c] \in {"Connected", "Closed"}
         /\ task[l].step = "greet" => l = Main /\ task[l].step \in EstablishSteps
         /\ task[l].step = "write" =>
              /\ task[l].step \in WorkSteps /\ task[l].step \notin EstablishSteps
              /\ inEpoll[c] /\ m_loop[c] = l
         /\ early \subseteq Conns /\ \A d \in Conns : m_state[d] = "none" => d \notin early
         /\ WriterInv(l, c)
<1>1. task[l].step \in WriteSteps /\ task[l].step \in {"greet", "write"} /\ crash = "no"
  BY DEF Writing, In, Running, WriteSteps
<1>2. Writes(l, c)
  BY <1>1 DEF Writes
<1>3. c \in Conns
  BY <1>1, HandlerFacts
<1>4. WriterInv(l, c)
  BY <1>1, <1>2, <1>3 DEF ServerInv, WriteInv
<1> QED BY <1>1, <1>4, HandlerFacts

LEMMA WriteSomeStep ==
  ASSUME ServerInv, NEW l \in Loops, NEW k \in 1..ReplyLen, WriteSome(l, k)
  PROVE  ServerInv'
<1>0. /\ TypeInv /\ LoopInv /\ ConnType /\ KindInv /\ ReadType /\ ReadInv /\ WriteType /\ WriteInv
  BY DEF ServerInv, TypeInv, HoldInv
<1>1. PICK c, n, x, ch, s :
        c = task[l].conn /\ n = task[l].left /\ x = replies[c] /\ s = taken[c]
        /\ ch = Chunk(m_writeBuffer[c], n, k)
  OBVIOUS
<1>2. /\ Writing(l) /\ k \in 1..n
      /\ taken' = [taken EXCEPT ![c] = s \o ch]
      /\ task' = [task EXCEPT ![l].left = n - k]
      /\ UNCHANGED <<m_writeBuffer, replies, crash, sent, early>> /\ UNCHANGED readVars
      /\ UNCHANGED <<m_threadNum, m_loops, published, start, m_next>>
      /\ UNCHANGED <<phase, batch, copy, pos, todo, m_connections, m_state, end>>
      /\ UNCHANGED <<fd, m_loop, m_tied, inEpoll, want, edge>>
  BY <1>1 DEF WriteSome, startVars, turnVars, chanVars, objVars, sockVars
<1>3. /\ c \in Conns /\ task[l] \in Tasks /\ n \in 0..ReplyLen /\ crash = "no"
      /\ task[l].step \in WriteSteps /\ phase[l] = "dispatch"
      /\ task[l].step = "greet" => task[l].step \in EstablishSteps
      /\ task[l].step = "write" =>
           /\ task[l].step \in WorkSteps /\ task[l].step \notin EstablishSteps
           /\ inEpoll[c] /\ m_loop[c] = l
      /\ early \subseteq Conns /\ \A d \in Conns : m_state[d] = "none" => d \notin early
      /\ WriterInv(l, c)
  BY <1>1, <1>2, WritingFacts
<1>4. /\ ReplyLen \in Nat /\ n \in Nat /\ k \in Nat \ {0} /\ n - k \in 0..ReplyLen
      /\ ReplyLen - n \in Nat
  BY <1>2, <1>3, Basics
<1>5. PICK t, d : t = [task[l] EXCEPT !.left = n - k] /\ d = ReplyLen - n
  OBVIOUS
<1>6. /\ t \in Tasks /\ t.step = task[l].step /\ t.conn = c /\ t.guard = task[l].guard
      /\ t.left = n - k
  BY <1>1, <1>3, <1>4, <1>5 DEF Tasks
<1>7. task' = [task EXCEPT ![l] = t]
  BY <1>0, <1>2, <1>5 DEF LoopInv
<1>8. TakesUp(l, t)
  BY <1>1, <1>3, <1>6, <1>7 DEF TakesUp, WriteSteps
<1>9. CloseEffect(NoConn) /\ crash' \in {"no"} \cup Crashes
  BY <1>2, <1>3 DEF CloseEffect
<1>10. /\ StartInv' /\ LoopInv' /\ ConnType' /\ HoldInv'
       /\ \A e \in Conns : Establishing(e)' <=> Establishing(e)
       /\ task'[l] = t /\ \A m \in Loops : m # l => task'[m] = task[m]
  BY <1>0, <1>2, <1>3, <1>6, <1>8, <1>9, WorkHolds DEF LoopInv, ConnType
<1>11. KindInv' /\ CrashHasCause'
  BY <1>0, <1>2, <1>3, <1>10, ThrowKept DEF KindInv
<1>12. ReadType' /\ ReadInv'
  BY <1>0, <1>2, ReadKept
<1>13. /\ x \in 1..MaxReplies /\ m_writeBuffer[c] = SendBuffer(x) /\ InOrder(s)
       /\ IF n = ReplyLen THEN \A i \in DOMAIN s : s[i][1] < x
          ELSE s # <<>> /\ s[Len(s)] = <<x, ReplyLen - n>>
       /\ \A i \in DOMAIN s : s[i][1] <= x
  <2>1. x \in 1..MaxReplies /\ m_writeBuffer[c] = SendBuffer(x) /\ SentUpTo(c, x, n)
    BY <1>1, <1>3 DEF WriterInv
  <2>2. IF n = ReplyLen THEN \A i \in DOMAIN s : s[i][1] < x
        ELSE s # <<>> /\ s[Len(s)] = <<x, ReplyLen - n>>
    BY <1>1, <2>1 DEF SentUpTo
  <2> QED BY <1>0, <1>1, <1>3, <2>1, <2>2 DEF WriteInv
<1>14. s \in Seq(Bytes)
  BY <1>0, <1>1, <1>3 DEF WriteType
<1>15. ch \in Seq(Bytes) /\ Follow(ch, x, d, k)
  BY <1>1, <1>2, <1>3, <1>5, <1>13, ChunkIs
<1>16. PICK u : u = s \o ch
  OBVIOUS
<1>17. u \in Seq(Bytes) /\ InOrder(u) /\ GoesOn(u, x, d + k) /\ AtMost(u, x)
  <2>1. GoesOn(s, x, d)
    <3>1. d = 0 <=> n = ReplyLen
      BY <1>4, <1>5
    <3> QED BY <1>5, <1>13, <3>1 DEF GoesOn
  <2>2. d \in Nat
    BY <1>4, <1>5
  <2>3. k \in Nat \ {0} /\ x \in 1..MaxReplies /\ InOrder(s)
    BY <1>4, <1>13
  <2>4. AtMost(s, x)
    BY <1>13 DEF AtMost
  <2> QED BY <1>14, <1>15, <1>16, <2>1, <2>2, <2>3, <2>4, MoreInOrder
<1>18. \A i \in DOMAIN u : u[i][1] <= x
  BY <1>17 DEF AtMost
<1>19. /\ taken'[c] = u /\ \A e \in Conns : e # c => taken'[e] = taken[e]
       /\ taken' \in [Conns -> Seq(Bytes)]
  BY <1>0, <1>2, <1>3, <1>16, <1>17 DEF WriteType
<1>20. SentUpTo(c, x, n - k)'
  <2>1. n - k # ReplyLen /\ d + k = ReplyLen - (n - k) /\ d + k # 0
    BY <1>3, <1>4, <1>5
  <2>2. taken'[c] # <<>> /\ taken'[c][Len(taken'[c])] = <<x, ReplyLen - (n - k)>>
    BY <1>17, <1>19, <2>1 DEF GoesOn
  <2>3. PICK m : m = n - k
    OBVIOUS
  <2>4. SentUpTo(c, x, m)'
    BY <2>1, <2>2, <2>3 DEF SentUpTo
  <2> QED BY <2>3, <2>4
<1>21. WriteType'
  BY <1>0, <1>2, <1>19 DEF WriteType
<1>22. \A m \in Loops, e \in Conns : Writes(m, e)' <=> Writes(m, e)
  BY <1>1, <1>6, <1>10 DEF Writes
<1>23. WriterInv(l, c)'
  <2>1. replies'[c] = x /\ task'[l].left = n - k
    BY <1>1, <1>2, <1>6, <1>10
  <2>2. SentUpTo(c, replies[c], task[l].left)'
    BY <1>20, <2>1
  <2>3. \A m \in Loops : Writes(m, c)' => m = l
    BY <1>3, <1>22 DEF WriterInv
  <2> QED BY <1>2, <1>13, <2>1, <2>2, <2>3 DEF WriterInv
<1>24. ASSUME NEW e \in Conns, e # c, NEW m \in Loops, Writes(m, e)' PROVE WriterInv(m, e)'
  <2>1. m # l /\ task'[m] = task[m]
    BY <1>6, <1>10, <1>24 DEF Writes
  <2>2. WriterInv(m, e)
    BY <1>0, <1>3, <1>22, <1>24 DEF WriteInv
  <2>3. PICK y, z : y = replies[e] /\ z = task[m].left
    OBVIOUS
  <2>4. y = replies'[e] /\ z = task'[m].left /\ SentUpTo(e, y, z)
    BY <1>2, <2>1, <2>2, <2>3 DEF WriterInv
  <2>5. SentUpTo(e, y, z)'
    BY <1>19, <1>24, <2>4 DEF SentUpTo
  <2>6. SentUpTo(e, replies[e], task[m].left)'
    BY <2>4, <2>5
  <2>7. \A j \in Loops : Writes(j, e)' => j = m
    BY <1>22, <1>24, <2>2 DEF WriterInv
  <2> QED BY <1>2, <2>2, <2>6, <2>7 DEF WriterInv
<1>25. WriteInv'
  <2>1. ASSUME NEW e \in Conns
        PROVE  InOrder(taken'[e]) /\ \A i \in DOMAIN taken'[e] : taken'[e][i][1] <= replies[e]
    <3>1. CASE e = c
      BY <1>1, <1>17, <1>18, <1>19, <3>1
    <3>2. CASE e # c
      BY <1>0, <1>19, <3>2 DEF WriteInv
    <3> QED BY <3>1, <3>2
  <2>2. ASSUME NEW e \in Conns, NEW m \in Loops, Writes(m, e)' PROVE WriterInv(m, e)'
    <3>1. CASE e = c
      <4>1. m = l
        BY <1>3, <1>22, <2>2, <3>1 DEF WriterInv
      <4> QED BY <1>23, <3>1, <4>1
    <3>2. CASE e # c
      BY <1>24, <2>2, <3>2
    <3> QED BY <3>1, <3>2
  <2> QED BY <1>2, <2>1, <2>2 DEF WriteInv, InOrder
<1> QED BY <1>10, <1>11, <1>12, <1>21, <1>25 DEF ServerInv, TypeInv

LEMMA WriteEndsStep ==
  ASSUME ServerInv, NEW l \in Loops, WriteEnds(l)
  PROVE  ServerInv'
<1>0. /\ TypeInv /\ LoopInv /\ ConnType /\ KindInv /\ ReadType /\ ReadInv /\ WriteType /\ WriteInv
  BY DEF ServerInv, TypeInv, HoldInv
<1>1. PICK c, failed :
        c = task[l].conn /\ failed = (task[l].left > 0 /\ end[c] = "reset")
  OBVIOUS
<1>2. /\ Writing(l)
      /\ IF failed THEN HandleClose(l, c) ELSE NotClosed
      /\ early' = IF failed /\ m_state[c] # "Closed" /\ task[l].step = "greet"
                  THEN early \cup {c} ELSE early
      /\ end' = [end EXCEPT ![c] = IF failed THEN "dead" ELSE end[c]]
      /\ m_writeBuffer' = [m_writeBuffer EXCEPT ![c] = <<>>]
      /\ task' = [task EXCEPT ![l].step = IF @ = "greet" THEN "connect" ELSE "message",
                              ![l].left = 0]
      /\ UNCHANGED <<taken, replies, crash, sent>> /\ UNCHANGED readVars
      /\ UNCHANGED <<m_threadNum, m_loops, published, start, m_next>>
      /\ UNCHANGED <<phase, batch, copy, pos, m_state>>
      /\ UNCHANGED <<fd, m_loop, m_tied, inEpoll, want, edge>>
  BY <1>1 DEF WriteEnds, startVars, turnVars, chanVars, objVars
<1>3. /\ c \in Conns /\ Alive(c) /\ task[l] \in Tasks /\ crash = "no"
      /\ task[l].step \in WriteSteps /\ phase[l] = "dispatch"
      /\ m_state[c] \in {"Connected", "Closed"}
      /\ task[l].step = "greet" => l = Main /\ task[l].step \in EstablishSteps
      /\ task[l].step = "write" =>
           /\ task[l].step \in WorkSteps /\ task[l].step \notin EstablishSteps
           /\ inEpoll[c] /\ m_loop[c] = l
      /\ early \subseteq Conns /\ \A d \in Conns : m_state[d] = "none" => d \notin early
      /\ WriterInv(l, c)
  BY <1>1, <1>2, WritingFacts
<1>4. PICK t, w : /\ w = (IF task[l].step = "greet" THEN "connect" ELSE "message")
                  /\ t = [task[l] EXCEPT !.step = w, !.left = 0]
  OBVIOUS
<1>5. t \in Tasks /\ t.step = w /\ t.conn = c /\ t.guard = task[l].guard
  <2>1. 0 \in 0..ReplyLen /\ w \in EstablishSteps \cup WorkSteps
    BY <1>4, Basics DEF EstablishSteps, WorkSteps
  <2> QED BY <1>1, <1>3, <1>4, <2>1 DEF Tasks
<1>6. task' = [task EXCEPT ![l] = t]
  BY <1>0, <1>2, <1>4 DEF LoopInv
<1>7. TakesUp(l, t)
  <2>1. task[l].step = "greet" => w \in EstablishSteps
    BY <1>4 DEF EstablishSteps
  <2>2. task[l].step # "greet" => w \in WorkSteps /\ task[l].step = "write"
    BY <1>3, <1>4 DEF WorkSteps, WriteSteps
  <2> QED BY <1>1, <1>3, <1>5, <1>6, <2>1, <2>2 DEF TakesUp
<1>8. CloseEffect(c)
  <2>1. HandleClose(l, c) \/ NotClosed
    BY <1>2
  <2>2. ~NotClosed => failed /\ m_state[c] # "Closed"
    BY <1>2 DEF HandleClose
  <2>3. ~NotClosed => l # Main \/ task[Main].step \notin EstablishSteps \/ c \in early'
    BY <1>2, <1>3, <2>2 DEF WriteSteps
  <2> QED BY <1>3, <2>1, <2>3, CloseIs
<1>9. /\ end' \in [Conns -> {"open", "eof", "reset", "dead"}]
      /\ end[c] = "dead" => end'[c] = "dead"
      /\ failed => end'[c] = "dead"
      /\ \A d \in Conns : d # c => end'[d] = end[d]
  BY <1>0, <1>2, <1>3 DEF ConnType
<1>10. /\ early \subseteq early' /\ early' \subseteq Conns
       /\ \A d \in Conns : m_state[d] = "none" => d \notin early'
       /\ \A d \in Conns : d \in early' => d \in early \/ (d = c /\ failed)
  BY <1>2, <1>3
<1>11. crash' \in {"no"} \cup Crashes
  BY <1>2, <1>3
<1>12. /\ StartInv' /\ LoopInv' /\ ConnType' /\ HoldInv'
       /\ \A d \in Conns : Establishing(d)' <=> Establishing(d)
       /\ task'[l] = t /\ \A m \in Loops : m # l => task'[m] = task[m]
  BY <1>0, <1>2, <1>3, <1>5, <1>7, <1>8, <1>9, <1>10, <1>11, WorkHolds DEF LoopInv, ConnType
<1>13. KindInv' /\ CrashHasCause'
  <2>1. KindInv'
    BY <1>0, <1>2, <1>3, <1>9, <1>10, <1>12 DEF KindInv
  <2> QED BY <1>2, <1>3, <2>1, ThrowKept
<1>14. ReadType' /\ ReadInv'
  BY <1>0, <1>2, ReadKept
<1>15. WriteType'
  <2>1. <<>> \in Seq(Bytes)
    OBVIOUS
  <2> QED BY <1>0, <1>2, <2>1 DEF WriteType
<1>16. w \notin WriteSteps
  BY <1>4 DEF WriteSteps
<1>17. ASSUME NEW d \in Conns, NEW m \in Loops, Writes(m, d)' PROVE WriterInv(m, d)'
  <2>1. m # l /\ task'[m] = task[m]
    BY <1>5, <1>12, <1>16, <1>17 DEF Writes
  <2>2. Writes(m, d) /\ d # c
    BY <1>3, <1>17, <2>1 DEF Writes, WriterInv
  <2>3. WriterInv(m, d)
    BY <1>0, <1>3, <2>2 DEF WriteInv
  <2>4. m_writeBuffer'[d] = m_writeBuffer[d]
    BY <1>0, <1>2, <2>2 DEF WriteType
  <2>5. PICK y, z : y = replies[d] /\ z = task[m].left
    OBVIOUS
  <2>6. y = replies'[d] /\ z = task'[m].left /\ SentUpTo(d, y, z)
    BY <1>2, <2>1, <2>3, <2>5 DEF WriterInv
  <2>7. SentUpTo(d, y, z)'
    BY <1>2, <2>6 DEF SentUpTo
  <2>8. SentUpTo(d, replies[d], task[m].left)'
    BY <2>6, <2>7
  <2>9. \A j \in Loops : Writes(j, d)' => j = m
    <3>1. \A j \in Loops : Writes(j, d)' => Writes(j, d)
      BY <1>5, <1>12, <1>16 DEF Writes
    <3> QED BY <2>3, <3>1 DEF WriterInv
  <2> QED BY <1>2, <2>3, <2>4, <2>8, <2>9 DEF WriterInv
<1>18. WriteInv'
  BY <1>0, <1>2, <1>17 DEF WriteInv, InOrder
<1> QED BY <1>12, <1>13, <1>14, <1>15, <1>18 DEF ServerInv, TypeInv

LEMMA WriteKilledStep ==
  ASSUME ServerInv, NEW l \in Loops, WriteKilled(l)
  PROVE  ServerInv'
<1>1. /\ crash = "no" /\ crash' = "sigpipe"
      /\ task[l].left > 0 /\ end[task[l].conn] \in {"reset", "dead"}
      /\ UNCHANGED <<startVars, turnVars, chanVars, objVars, readVars, sockVars>>
      /\ UNCHANGED <<m_next, todo, task, m_connections, m_state, early>> /\ UNCHANGED writeVars
  BY DEF WriteKilled, Writing, In, Running, Throw
<1>2. WriteType' /\ WriteInv'
  <2>1. crash' # "no"
    BY <1>1
  <2> QED BY <1>1, <2>1, WriteKept DEF ServerInv, TypeInv
<1>3. task'[l].left > 0 /\ end'[task'[l].conn] \in {"reset", "dead"}
  BY <1>1 DEF sockVars
<1>4. crash' \in Crashes /\ CrashHasCause'
  BY <1>1, <1>3 DEF Crashes, CrashHasCause
<1> QED BY <1>1, <1>2, <1>4, Ended

(***************************************************************************)
(* The theorems.                                                            *)
(***************************************************************************)

LEMMA InitServer == Init => ServerInv
<1> SUFFICES ASSUME Init PROVE ServerInv
  OBVIOUS
<1>0. <<>> \in Seq(Threads) /\ <<>> \in Seq(Funcs) /\ <<>> \in Seq(Bytes) /\ <<>> \in Seq(1..0)
      /\ Len(<<>>) = 0 /\ DOMAIN <<>> = {} /\ ToSet(<<>>) = {}
  BY DEF ToSet
<1>1. StartInv
  BY <1>0, Basics, BoundsAssumption DEF Init, StartInv
<1>2. LoopInv
  BY <1>0 DEF Init, LoopInv
<1>3. ConnType
  BY Basics DEF Init, ConnType
<1>4. ReadType
  BY <1>0, Basics DEF Init, ReadType
<1>5. WriteType
  BY <1>0, Basics DEF Init, WriteType
<1>6. /\ \A c \in Conns : ~InMap(c) /\ ~Queued(c) /\ ~OnStack(c) /\ m_state[c] = "none"
      /\ \A l \in Loops : Queue(l) = {}
      /\ \A l \in Loops : task[l] = Idle /\ batch[l] = {}
  <2>1. \A c \in Conns : ~InMap(c) /\ m_state[c] = "none"
    BY <1>3, Basics DEF Init, InMap, ConnType
  <2>2. \A l \in Loops : todo[l] = <<>> /\ copy[l] = <<>> /\ task[l] = Idle /\ batch[l] = {}
    BY DEF Init
  <2>3. \A c \in Conns : ~Queued(c)
    BY <1>0, <2>2 DEF Queued
  <2>4. \A c \in Conns : ~OnStack(c)
    BY <2>2, Basics DEF OnStack
  <2>5. \A l \in Loops : Queue(l) = {}
    BY <1>0, <2>2 DEF Queue
  <2> QED BY <2>1, <2>2, <2>3, <2>4, <2>5
<1>7. HoldInv
  <2>1. MapInv
    BY DEF Init, MapInv
  <2>2. FreshInv /\ EpollInv
    BY <1>6 DEF Init, FreshInv, EpollInv
  <2>3. FdInv
    BY <1>6, AliveIs DEF FdInv
  <2>4. BatchInv /\ TaskInv /\ QueueInv
    BY <1>6, Basics DEF BatchInv, TaskInv, QueueInv, EstablishSteps, WorkSteps
  <2> QED BY <2>1, <2>2, <2>3, <2>4 DEF HoldInv
<1>8. KindInv
  BY <1>6 DEF Init, KindInv
<1>9. ReadInv
  <2>1. \A c \in Conns : delivered[c] = <<>> /\ nread[c] = 0
    BY DEF Init
  <2> QED BY <1>0, <2>1 DEF ReadInv
<1>10. WriteInv
  <2>1. \A l \in Loops, c \in Conns : ~Writes(l, c)
    BY <1>6, Basics DEF Writes, WriteSteps
  <2>2. \A c \in Conns : taken[c] = <<>>
    BY DEF Init
  <2> QED BY <1>0, <2>1, <2>2 DEF WriteInv, InOrder
<1>11. CrashHasCause
  BY DEF Init, CrashHasCause
<1> QED
  BY <1>1, <1>2, <1>3, <1>4, <1>5, <1>7, <1>8, <1>9, <1>10, <1>11 DEF ServerInv, TypeInv

LEMMA NextServer == ServerInv /\ [Next]_vars => ServerInv'
<1> SUFFICES ASSUME ServerInv, [Next]_vars PROVE ServerInv'
  OBVIOUS
<1>1. CASE Starting \/ \E t \in Threads : ThreadFunc(t)
  BY <1>1, StartingStep
<1>2. CASE \E c \in Conns, f \in Fds : CreateConnection(c, f)
  BY <1>2, CreateStep
<1>3. CASE CreateConnectionThrows
  BY <1>3, ThrowsStep
<1>4. CASE Establish
  BY <1>4, EnableReadStep, TieStep, InsertStep DEF Establish
<1>5. ASSUME NEW l \in Loops, LoopStep(l) PROVE ServerInv'
  <2>1. CASE Poll(l)
    BY <2>1, PollStep
  <2>2. ASSUME NEW e \in batch[l], HandleMessage(l, e) \/ IgnoreEvent(l, e) PROVE ServerInv'
    BY <2>2, HandleMessageStep, IgnoreEventStep
  <2>3. CASE OnMessageReturns(l)
    BY <2>3, OnMessageReturnsStep
  <2>4. CASE Send(l)
    BY <2>4, SendStep
  <2>5. ASSUME NEW k \in 1..ReplyLen, WriteSome(l, k) PROVE ServerInv'
    BY <2>5, WriteSomeStep
  <2>6. CASE WriteEnds(l)
    BY <2>6, WriteEndsStep
  <2>7. CASE WriteKilled(l)
    BY <2>7, WriteKilledStep
  <2>8. CASE BeginTodoList(l) \/ EndTodoList(l)
    BY <2>8, BeginTodoListStep, EndTodoListStep
  <2>9. CASE CallCloseConnectionInLoop(l)
    BY <2>9, CallCloseStep
  <2>10. CASE DestroyConnection(l)
    BY <2>10, DestroyStep
  <2> QED BY <1>5, <2>1, <2>2, <2>3, <2>4, <2>5, <2>6, <2>7, <2>8, <2>9, <2>10 DEF LoopStep
<1>6. ASSUME NEW c \in Conns, PeerActs(c) PROVE ServerInv'
  BY <1>6, PeerStep
<1>7. CASE UNCHANGED vars
  <2>1. /\ UNCHANGED <<m_threadNum, m_loops, published, start, m_next>> /\ StartVarsOnly
    BY <1>7 DEF vars, startVars, StartVarsOnly
  <2>2. StartInv'
    BY <2>1 DEF ServerInv, TypeInv, StartInv
  <2> QED BY <2>1, <2>2, StartOnly
<1> QED BY <1>1, <1>2, <1>3, <1>4, <1>5, <1>6, <1>7 DEF Next

LEMMA ServerInvariant == Spec => []ServerInv
<1>1. Init => ServerInv
  BY InitServer
<1>2. ServerInv /\ [Next]_vars => ServerInv'
  BY NextServer
<1> QED BY <1>1, <1>2, PTL DEF Spec

LEMMA TypesHold == TypeInv => TypeOK
<1> SUFFICES ASSUME TypeInv PROVE TypeOK
  OBVIOUS
<1>1. StartInv /\ LoopInv /\ ConnType /\ ReadType /\ WriteType
  BY DEF TypeInv
<1>2. \A l \in Loops : /\ todo[l] \in Seq(Funcs) /\ copy[l] \in Seq(Funcs)
                       /\ pos[l] \in 0..Len(copy[l])
  <2> SUFFICES ASSUME NEW l \in Loops
               PROVE  /\ todo[l] \in Seq(Funcs) /\ copy[l] \in Seq(Funcs)
                      /\ pos[l] \in 0..Len(copy[l])
    OBVIOUS
  <2>1. /\ todo[l] \in Seq(Funcs) /\ copy[l] \in Seq(Funcs)
        /\ pos[l] \in Nat /\ pos[l] <= Len(copy[l])
    BY <1>1 DEF LoopInv
  <2>2. Len(copy[l]) \in Nat
    BY <2>1, LenProperties
  <2> QED BY <2>1, <2>2
<1>3. /\ batch \in [Loops -> SUBSET [conn : Conns, in : BOOLEAN]]
      /\ task \in [Loops -> {Idle} \cup
           [step : {"enable", "tie", "connect", "greet", "message", "write"},
            conn : Conns, guard : BOOLEAN, left : 0..ReplyLen]]
  <2>1. EstablishSteps \cup WorkSteps =
          {"enable", "tie", "connect", "greet", "message", "write"}
    BY DEF EstablishSteps, WorkSteps
  <2> QED BY <1>1, <2>1 DEF LoopInv, Events, Tasks
<1>4. \A c \in Conns : /\ sent[c] \in 0..MaxBytes /\ nread[c] \in 0..sent[c]
                       /\ m_readBuffer[c] \in Seq(1..nread[c])
                       /\ delivered[c] \in Seq(1..nread[c])
                       /\ m_writeBuffer[c] \in Seq(Bytes) /\ taken[c] \in Seq(Bytes)
                       /\ replies[c] \in 0..MaxReplies
  <2> SUFFICES ASSUME NEW c \in Conns
               PROVE  /\ sent[c] \in 0..MaxBytes /\ nread[c] \in 0..sent[c]
                      /\ m_readBuffer[c] \in Seq(1..nread[c])
                      /\ delivered[c] \in Seq(1..nread[c])
                      /\ m_writeBuffer[c] \in Seq(Bytes) /\ taken[c] \in Seq(Bytes)
                      /\ replies[c] \in 0..MaxReplies
    OBVIOUS
  <2>1. /\ sent[c] \in 0..MaxBytes /\ nread[c] \in Nat /\ nread[c] <= sent[c]
        /\ m_readBuffer[c] \in Seq(1..nread[c]) /\ delivered[c] \in Seq(1..nread[c])
    BY <1>1 DEF ReadType
  <2>2. nread[c] \in 0..sent[c]
    BY <2>1, Basics
  <2>3. /\ m_writeBuffer[c] \in Seq(Bytes) /\ taken[c] \in Seq(Bytes)
        /\ replies[c] \in 0..MaxReplies
    BY <1>1 DEF WriteType
  <2> QED BY <2>1, <2>2, <2>3
<1> QED BY <1>1, <1>2, <1>3, <1>4 DEF TypeOK, StartInv, LoopInv, ConnType, Crashes

\* Whatever the order in which the main thread establishes a connection and its
\* loop sees its events, nothing that is in epoll, in a batch or in a handler
\* refers to a connection that is gone, and none comes back into the map after its
\* erasure, except one that its own connect callback has closed (Server.cpp:25-64,
\* Channel.cpp:12).
THEOREM ChannelTheorem == Spec => []NoDanglingChannel
<1>1. ServerInv => NoDanglingChannel
  <2> SUFFICES ASSUME ServerInv PROVE NoDanglingChannel
    OBVIOUS
  <2>0. TypeInv /\ HoldInv /\ LoopInv /\ BatchInv /\ EpollInv
    BY DEF ServerInv, TypeInv, HoldInv
  <2>1. \A c \in Conns : inEpoll[c] => Alive(c)
    BY <2>0, InEpollAlive
  <2>2. ASSUME NEW l \in Loops, NEW e \in batch[l] PROVE Alive(e.conn)
    <3>1. e.conn \in Conns /\ inEpoll[e.conn]
      BY <2>0 DEF LoopInv, Events, BatchInv
    <3> QED BY <2>1, <3>1
  <2>3. \A l \in Loops : task[l] # Idle => Alive(task[l].conn)
    BY <2>0, TaskAlive
  <2>4. \A c \in Conns : InMap(c) => inEpoll[c] \/ c \in early
    BY <2>0 DEF EpollInv
  <2>5. TypeOK
    BY <2>0, TypesHold
  <2> QED BY <2>1, <2>2, <2>3, <2>4, <2>5 DEF NoDanglingChannel
<1> QED BY <1>1, ServerInvariant, PTL

\* The message callback is shown the bytes of a peer once and in order, and a peer
\* is sent beginnings of the replies of both callbacks in order, whatever the sizes of
\* the reads and writes and whenever the connection ends; up to the first time that
\* two threads are in Send for one connection (Connection.cpp:45-68, 102-155).
THEOREM BytesTheorem == Spec => []BytesInOrder
<1>1. ServerInv => BytesInOrder
  BY DEF ServerInv, ReadInv, WriteInv, InOrder, BytesInOrder
<1> QED BY <1>1, ServerInvariant, PTL

\* The process ends only for a reason that lies with a peer or with the callbacks:
\* Read and Write throw only for a connection whose peer has reset it, Append only
\* when more came at once than a Buffer takes, SIGPIPE comes only after a reset, and
\* only the connect callback and the message callback of one connection can be in
\* Send at once (Connection.cpp:45, 58, 111, 126, 140; Buffer.cpp:144).
THEOREM ThrowTheorem == Spec => []CrashHasCause
<1>1. ServerInv => CrashHasCause
  BY DEF ServerInv
<1> QED BY <1>1, ServerInvariant, PTL

==============================================================================

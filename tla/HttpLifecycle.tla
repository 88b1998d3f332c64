---------------------------- MODULE HttpLifecycle ----------------------------
(***************************************************************************)
(* The life of the connections of an HttpServer: accepted on the main loop, *)
(* served by the loop they were given to, closed by way of the main loop,   *)
(* and freed with the last shared_ptr, when the kernel may hand out the     *)
(* same fd again (http/HttpServer.cpp, http/HttpConnect.cpp, tcp/Channel.cpp*)
(* and tcp/Epoll.cpp).                                                      *)
(*                                                                          *)
(* A loop is what module EventLoop shows it to be: turns of poll, dispatch, *)
(* todo and timers, and a list of functions run once each in push order.    *)
(* The reference count of a connection is not a variable: a connection is   *)
(* alive while something holds it (Holders).  Epoll and a batch of events   *)
(* hold raw Channel pointers and keep nothing alive.                        *)
(***************************************************************************)
EXTENDS Naturals, Sequences, SequencesExt

CONSTANTS
  Conns,     \* the HttpConnect objects of a behaviour
  Fds,       \* the fd numbers accept may return
  Main,      \* the main reactor
  SubLoops,  \* the loops of the EventLoopThreadPool; {} when it has no thread
  NoConn,
  MaxBacklog \* bound: peers do nothing while this many functions are queued

ASSUME LoopsAssumption == Main \notin SubLoops /\ NoConn \notin Conns

Loops == SubLoops \cup {Main}

\* GetNextLoop: one of the pool's loops, the main loop when there is none.
Owners == IF SubLoops = {} THEN {Main} ELSE SubLoops

VARIABLES
  phase,         \* per loop: where it is in its turn
  batch,         \* per loop: the events of this turn not yet handled
  todo,          \* per loop: m_todoList
  copy,          \* per loop: todoListCopy; its functions are destroyed together
  pos,           \* per loop: how many functions of the copy have been called
  m_connections, \* the server's map from fd to connection
  m_state,       \* per connection; "none" before it is constructed
  fd, m_loop,    \* per connection
  m_closeAfterWrite,
  timer,         \* per connection: its idle timer, "none", "armed" or "run"
  inEpoll, want, \* per channel: known to epoll, and the events it asks for
  kind,          \* per socket: what a read finds
  edge           \* per socket: events epoll has to report

loopVars == <<phase, batch, copy, pos>>
connVars == <<m_state, fd, m_loop, m_closeAfterWrite>>
chanVars == <<inEpoll, want, kind, edge>>
vars == <<phase, batch, todo, copy, pos, m_connections, m_state, fd, m_loop,
          m_closeAfterWrite, timer, inEpoll, want, kind, edge>>

\* The functions the loops hand each other; each captures the connection.
Funcs == [op : {"establish", "closeInLoop", "destroy"}, conn : Conns]
Func(o, c) == [op |-> o, conn |-> c]
Times(n, f) == [i \in 1..n |-> f]

Events == [conn : Conns, ready : SUBSET {"in", "out"}]

\* What a read of the socket finds: nothing, bytes, bytes and the end of the
\* stream, only the end of it, a reset, or what is left after a reset.
Kinds == {"quiet", "data", "eof", "ended", "reset", "dead"}

TypeOK ==
  /\ phase \in [Loops -> {"dispatch", "todo", "timers"}]
  /\ batch \in [Loops -> SUBSET Events]
  /\ todo \in [Loops -> Seq(Funcs)] /\ copy \in [Loops -> Seq(Funcs)]
  /\ pos \in [Loops -> Nat] /\ \A l \in Loops : pos[l] <= Len(copy[l])
  /\ m_connections \in [Fds -> Conns \cup {NoConn}]
  /\ m_state \in [Conns -> {"none", "Connected", "Failed", "Closed"}]
  /\ fd \in [Conns -> Fds]
  /\ m_loop \in [Conns -> Loops]
  /\ m_closeAfterWrite \in [Conns -> BOOLEAN]
  /\ timer \in [Conns -> {"none", "armed", "run"}]
  /\ inEpoll \in [Conns -> BOOLEAN]
  /\ want \in [Conns -> SUBSET {"in", "out"}]
  /\ kind \in [Conns -> Kinds]
  /\ edge \in [Conns -> SUBSET {"in", "out"}]

Init ==
  /\ phase = [l \in Loops |-> "timers"]
  /\ batch = [l \in Loops |-> {}]
  /\ todo = [l \in Loops |-> <<>>]
  /\ copy = [l \in Loops |-> <<>>]
  /\ pos = [l \in Loops |-> 0]
  /\ m_connections = [f \in Fds |-> NoConn]
  /\ m_state = [c \in Conns |-> "none"]
  /\ fd \in {[c \in Conns |-> f] : f \in Fds}
  /\ m_loop = [c \in Conns |-> Main]
  /\ m_closeAfterWrite = [c \in Conns |-> FALSE]
  /\ timer = [c \in Conns |-> "none"]
  /\ inEpoll = [c \in Conns |-> FALSE]
  /\ want = [c \in Conns |-> {}]
  /\ kind = [c \in Conns |-> "quiet"]
  /\ edge = [c \in Conns |-> {}]

(***************************************************************************)
(* Who holds a connection.  Between two steps these are all the shared_ptrs *)
(* there are; the destructor closes the fd when the last one goes.          *)
(***************************************************************************)
InMap(c) == m_connections[fd[c]] = c

\* Mutant: the queued functions capture a raw pointer.
CapturesNothing(c) == FALSE

Queued(c) == \E l \in Loops : \E f \in ToSet(todo[l]) \cup ToSet(copy[l]) : f.conn = c

\* The idle timer's task captures the connection, and nothing clears it before
\* it is run (SeperateTimer has no caller).
Holders(c) ==
  {h \in {"map", "functions", "timer"} :
     \/ h = "map" /\ InMap(c)
     \/ h = "functions" /\ Queued(c)
     \/ h = "timer" /\ timer[c] = "armed"}

Alive(c) == m_state[c] # "none" /\ Holders(c) # {}

FdFree(f) == \A c \in Conns : Alive(c) => fd[c] # f

(***************************************************************************)
(* Closing.                                                                 *)
(***************************************************************************)

\* Mutant: the entry is erased and the channel forgotten.
ForgetsDestroy(c, n) == <<>>

\* The functions that n runs of CloseConnectionInLoop queue.
DestroyWork(c, n) == Times(n, Func("destroy", c))

\* The loop DestroyConnection is queued on.
DestroyLoop(c) == m_loop[c]

\* CloseConnectionInLoop, n times over: the map forgets the fd, whatever it
\* maps it to, and DestroyConnection is queued on the connection's loop.
CloseInLoop(c, n) ==
  /\ m_connections' = [m_connections EXCEPT ![fd[c]] = NoConn]
  /\ todo' = [todo EXCEPT ![DestroyLoop(c)] = @ \o DestroyWork(c, n)]

\* CloseConnection, called n times by the connection's loop: RunOneFunc on the
\* main loop, which is at once if that is the loop it runs on.
CloseConnection(c, n) ==
  IF n = 0 THEN UNCHANGED <<m_connections, todo>>
  ELSE IF m_loop[c] = Main THEN CloseInLoop(c, n)
  ELSE /\ todo' = [todo EXCEPT ![Main] = @ \o Times(n, Func("closeInLoop", c))]
       /\ UNCHANGED m_connections

\* Mutant: HandleClose does something only for a Connected connection.
IsConnected(s) == s = "Connected"

\* HandleClose does something only in this state.
MayClose(s) == s # "Closed"

(***************************************************************************)
(* A turn of a loop.                                                        *)
(***************************************************************************)

\* An event epoll has to report.  A hang-up is reported even for a channel that
\* asks for nothing yet; its event is then empty.
Reported(c) ==
  /\ inEpoll[c]
  /\ \/ edge[c] \cap want[c] # {}
     \/ kind[c] = "reset" /\ edge[c] # {}

\* HandleExpiredEvent has returned, and so does the epoll_wait of the next turn:
\* with events, for functions that were queued, or for a client that connects.
\* (That it may return without any of these changes nothing but the phase.)
Poll(l) ==
  /\ phase[l] = "timers"
  /\ LET chans == {c \in Conns : m_loop[c] = l /\ Reported(c)}
     IN  /\ \/ chans # {} \/ todo[l] # <<>>
            \/ l = Main /\ \E c \in Conns : m_state[c] = "none"
         /\ batch' = [batch EXCEPT ![l] =
                        {[conn |-> c, ready |-> edge[c] \cap want[c]] : c \in chans}]
         /\ edge' = [c \in Conns |-> IF c \in chans THEN {} ELSE edge[c]]
  /\ phase' = [phase EXCEPT ![l] = "dispatch"]
  /\ UNCHANGED <<todo, copy, pos, m_connections, connVars, timer, inEpoll, want, kind>>

\* What EstablishConnection and the AddScheduledTask after it do.
Establish(c) ==
  /\ want' = [want EXCEPT ![c] = @ \cup {"in"}]
  /\ inEpoll' = [inEpoll EXCEPT ![c] = TRUE]
  /\ edge' = [edge EXCEPT ![c] = IF kind[c] = "quiet" THEN @ ELSE @ \cup {"in"}]
  /\ timer' = [timer EXCEPT ![c] = "armed"]

\* CreateConnection, from the acceptor's channel: the constructor adds the
\* channel to the epoll of its loop, asking for nothing but edges.
CreateConnection(c, f, l) ==
  /\ phase[Main] = "dispatch"
  /\ m_state[c] = "none"
  /\ FdFree(f)
  /\ m_state' = [m_state EXCEPT ![c] = "Connected"]
  /\ fd' = [fd EXCEPT ![c] = f]
  /\ m_loop' = [m_loop EXCEPT ![c] = l]
  /\ m_connections' = [m_connections EXCEPT ![f] = c]
  /\ IF l = Main
     THEN Establish(c) /\ UNCHANGED todo
     ELSE /\ todo' = [todo EXCEPT ![l] = Append(@, Func("establish", c))]
          /\ inEpoll' = [inEpoll EXCEPT ![c] = TRUE]
          /\ UNCHANGED <<want, edge, timer>>
  /\ UNCHANGED <<loopVars, m_closeAfterWrite, kind>>

\* How WriteNonBlocking can end: all written, EAGAIN, an error.
WriteEnds == {"done", "blocked", "error"}

\* The events the channel asks for after a WriteNonBlocking that ends in w.
WantAfter(ws, w) == CASE w = "done" -> ws \ {"out"}
                      [] w = "blocked" -> ws \cup {"out"}
                      [] w = "error" -> ws

\* The same after up to two of them, one after the other.
WantAfterAll(s, ws) == CASE Len(ws) = 0 -> s
                         [] Len(ws) = 1 -> WantAfter(s, ws[1])
                         [] Len(ws) = 2 -> WantAfter(WantAfter(s, ws[1]), ws[2])

\* How often WriteNonBlocking calls HandleClose over the ends in ws.
ClosingWrites(ws, caw) ==
  Cardinality({i \in DOMAIN ws : ws[i] = "error" \/ (ws[i] = "done" /\ caw)})

\* The writes of a callback end in ws: the channel's interest, and the edges
\* epoll reports again whenever it is told about the channel.
ChannelAfter(c, ws, k) ==
  LET rearmed == \/ "blocked" \in ToSet(ws)
                 \/ "out" \in want[c] /\ "done" \in ToSet(ws)
  IN  /\ want' = [want EXCEPT ![c] = WantAfterAll(@, ws)]
      /\ inEpoll' = [inEpoll EXCEPT ![c] = @ \/ rearmed]
      /\ kind' = [kind EXCEPT ![c] = IF "error" \in ToSet(ws) THEN "dead" ELSE k]
      /\ edge' = [edge EXCEPT ![c] = IF rearmed /\ kind'[c] # "quiet"
                                     THEN @ \cup {"in"} ELSE @]

\* What HandleRequest makes of the bytes: no whole request, one whose response
\* leaves the connection open, one whose response ends it, a malformed one
\* (400), or more than the buffer takes (403).
Outcomes == {"incomplete", "keep", "close", "bad", "tooLarge"}

\* Only new bytes make a request.  Bound: one "tooLarge" per connection.
OutcomesOf(c) ==
  IF kind[c] \in {"quiet", "ended", "dead"} THEN {"incomplete"}
  ELSE IF m_state[c] = "Failed" THEN Outcomes \ {"tooLarge"}
  ELSE Outcomes

\* SendFile calls WriteNonBlocking for the header and for the file, every other
\* response calls it once.
Writes(p) ==
  CASE p = "incomplete" -> {<<>>}
    [] p \in {"bad", "tooLarge"} -> {<<w>> : w \in WriteEnds}
    [] p \in {"keep", "close"} -> {<<w>> : w \in WriteEnds}
                                    \cup {<<w1, w2>> : w1, w2 \in WriteEnds}

\* The state after ReadNonBlocking found k.
StateAfterRead(s, k) == IF k = "reset" THEN "Closed" ELSE s

\* What HandleEvent has still to do after the read callback.
Rest(e) == [e EXCEPT !.ready = @ \ {"in"}]

\* Channel::HandleEvent with EPOLLIN: HandleRequest.
HandleRequest(l, e) ==
  LET c == e.conn
      k == kind[c]
  IN
  /\ phase[l] = "dispatch" /\ e \in batch[l] /\ "in" \in e.ready
  /\ \E p \in OutcomesOf(c) :
     \E ws \in Writes(p) :
       LET tooLarge == p = "tooLarge"
           s1 == IF tooLarge THEN m_state[c] ELSE StateAfterRead(m_state[c], k)
           s2 == IF p \in {"bad", "tooLarge"} THEN "Failed" ELSE s1
           caw == m_closeAfterWrite[c] \/ p \in {"close", "bad", "tooLarge"}
           atEof == k \in {"eof", "ended", "dead"} /\ ~tooLarge /\ MayClose(m_state[c])
       IN
       /\ k \in {"reset", "dead"} => ToSet(ws) \subseteq {"error"}
       /\ m_state' = [m_state EXCEPT ![c] = s2]
       /\ m_closeAfterWrite' = [m_closeAfterWrite EXCEPT ![c] = caw]
       /\ CloseConnection(c, (IF atEof THEN 1 ELSE 0)
                             + IF MayClose(s2) THEN ClosingWrites(ws, caw) ELSE 0)
       /\ ChannelAfter(c, ws, CASE tooLarge -> k
                                [] k = "data" -> "quiet"
                                [] k = "eof" -> "ended"
                                [] k = "reset" -> "dead"
                                [] OTHER -> k)
  /\ batch' = [batch EXCEPT ![l] = (@ \ {e}) \cup {r \in {Rest(e)} : r.ready # {}}]
  /\ UNCHANGED <<phase, copy, pos, fd, m_loop, timer>>

\* Channel::HandleEvent with EPOLLOUT, after its read callback: Write.
Write(l, e) ==
  LET c == e.conn IN
  /\ phase[l] = "dispatch" /\ e \in batch[l] /\ e.ready = {"out"}
  /\ IF m_state[c] = "Closed"
     THEN UNCHANGED <<m_connections, todo, chanVars>>
     ELSE \E w \in WriteEnds :
            /\ kind[c] \in {"reset", "dead"} => w = "error"
            /\ CloseConnection(c, ClosingWrites(<<w>>, m_closeAfterWrite[c]))
            /\ ChannelAfter(c, <<w>>, kind[c])
  /\ batch' = [batch EXCEPT ![l] = @ \ {e}]
  /\ UNCHANGED <<phase, copy, pos, connVars, timer>>

\* A hang-up on its own calls neither callback.
IgnoreEvent(l, e) ==
  /\ phase[l] = "dispatch" /\ e \in batch[l] /\ e.ready = {}
  /\ batch' = [batch EXCEPT ![l] = @ \ {e}]
  /\ UNCHANGED <<phase, todo, copy, pos, m_connections, connVars, timer, chanVars>>

BeginTodoList(l) ==
  /\ phase[l] = "dispatch" /\ batch[l] = {}
  /\ phase' = [phase EXCEPT ![l] = "todo"]
  /\ copy' = [copy EXCEPT ![l] = todo[l]]
  /\ todo' = [todo EXCEPT ![l] = <<>>]
  /\ UNCHANGED <<batch, pos, m_connections, connVars, timer, chanVars>>

\* The next function of the copy is called.  It is not destroyed yet.
CallNext(l, o) ==
  /\ phase[l] = "todo" /\ pos[l] < Len(copy[l])
  /\ copy[l][pos[l] + 1].op = o
  /\ pos' = [pos EXCEPT ![l] = @ + 1]
  /\ UNCHANGED <<phase, batch, copy>>

EstablishConnection(l) ==
  /\ CallNext(l, "establish")
  /\ Establish(copy[l][pos[l] + 1].conn)
  /\ UNCHANGED <<todo, m_connections, connVars, kind>>

CloseConnectionInLoop(l) ==
  /\ CallNext(l, "closeInLoop")
  /\ CloseInLoop(copy[l][pos[l] + 1].conn, 1)
  /\ UNCHANGED <<connVars, timer, chanVars>>

\* Mutant: DestroyConnection only calls DisableAll.
NotRemoved(c) == inEpoll

\* removeChannel.
Removed(c) == [inEpoll EXCEPT ![c] = FALSE]

\* DestroyConnection: DisableAll, removeChannel, and the state.  What only a
\* callback would still read (kind, m_closeAfterWrite) is forgotten when no event
\* of the batch is left to call one.
DestroyConnection(l) ==
  LET c == copy[l][pos[l] + 1].conn
      eventLeft == \E e \in batch[m_loop[c]] : e.conn = c
  IN
  /\ CallNext(l, "destroy")
  /\ want' = [want EXCEPT ![c] = {}]
  /\ inEpoll' = Removed(c)
  /\ edge' = [edge EXCEPT ![c] = {}]
  /\ kind' = [kind EXCEPT ![c] = IF eventLeft THEN @ ELSE "quiet"]
  /\ m_closeAfterWrite' = [m_closeAfterWrite EXCEPT ![c] = @ /\ eventLeft]
  /\ m_state' = [m_state EXCEPT ![c] = "Closed"]
  /\ UNCHANGED <<todo, m_connections, fd, m_loop, timer>>

\* The copy goes out of scope, and with it what its functions captured.
EndTodoList(l) ==
  /\ phase[l] = "todo" /\ pos[l] = Len(copy[l])
  /\ phase' = [phase EXCEPT ![l] = "timers"]
  /\ copy' = [copy EXCEPT ![l] = <<>>]
  /\ pos' = [pos EXCEPT ![l] = 0]
  /\ UNCHANGED <<batch, todo, m_connections, connVars, timer, chanVars>>

\* The idle timer of c has expired: HandleClose, and the task is destroyed.
RunTimer(l, c) ==
  /\ phase[l] = "timers"
  /\ m_loop[c] = l /\ timer[c] = "armed"
  /\ timer' = [timer EXCEPT ![c] = "run"]
  /\ CloseConnection(c, IF MayClose(m_state[c]) THEN 1 ELSE 0)
  /\ UNCHANGED <<loopVars, connVars, chanVars>>

LoopStep(l) ==
  \/ Poll(l)
  \/ \E e \in batch[l] : HandleRequest(l, e) \/ Write(l, e) \/ IgnoreEvent(l, e)
  \/ BeginTodoList(l) \/ EndTodoList(l)
  \/ EstablishConnection(l) \/ CloseConnectionInLoop(l) \/ DestroyConnection(l)

(***************************************************************************)
(* The peers.                                                               *)
(***************************************************************************)
Backlog == FoldSet(LAMBDA l, n : n + Len(todo[l]) + Len(copy[l]), 0, Loops)

PeerActs(c, k) ==
  /\ inEpoll[c] /\ Backlog < MaxBacklog
  /\ k \in CASE kind[c] = "quiet" -> {"data", "eof", "reset"}
             [] kind[c] = "data" -> {"eof", "reset"}
             [] kind[c] \in {"eof", "ended"} -> {"reset"}
             [] OTHER -> {}
  /\ kind' = [kind EXCEPT ![c] = k]
  /\ edge' = [edge EXCEPT ![c] = @ \cup {"in"}]
  /\ UNCHANGED <<loopVars, todo, m_connections, connVars, timer, inEpoll, want>>

\* The peer has read enough for the socket to be writable again.
PeerReads(c) ==
  /\ "out" \in want[c] /\ "out" \notin edge[c] /\ Backlog < MaxBacklog
  /\ edge' = [edge EXCEPT ![c] = @ \cup {"out"}]
  /\ UNCHANGED <<loopVars, todo, m_connections, connVars, timer, inEpoll, want, kind>>

Next ==
  \/ \E l \in Loops : LoopStep(l) \/ \E c \in Conns : RunTimer(l, c)
  \/ \E c \in Conns, f \in Fds, l \in Owners : CreateConnection(c, f, l)
  \/ \E c \in Conns : PeerReads(c) \/ \E k \in {"data", "eof", "reset"} : PeerActs(c, k)

Spec == Init /\ [][Next]_vars

\* Each loop keeps turning.  That epoll_wait returns while functions are queued
\* is what module EventLoop shows of the wakeup; no timer has to expire and no
\* peer has to act.
FairSpec == Spec /\ \A l \in Loops : WF_vars(LoopStep(l))

(***************************************************************************)
(* Properties.                                                              *)
(***************************************************************************)

\* CloseConnectionInLoop erases by fd number, perhaps twice and perhaps late,
\* and CreateConnection assigns by fd number.  Neither ever takes the entry of
\* another connection: one leaves the map only in the step that queues its own
\* DestroyConnection (HttpServer.cpp:975, 993).
ErasesOwnEntry ==
  [][\A c \in Conns :
       (InMap(c) /\ ~InMap(c)')
         => \E l \in Loops : Func("destroy", c) \in ToSet(todo'[l])]_vars

\* Epoll and a batch of events hold raw Channel pointers, and HandleEvent reads
\* the channel before it locks the tie (Channel.cpp:7): the connection of every
\* such pointer is alive, and an event that is still to be handled is never one
\* of a channel that has been removed.
NoDanglingChannel ==
  /\ TypeOK
  /\ \A c \in Conns : inEpoll[c] => Alive(c)
  /\ \A l \in Loops : \A e \in batch[l] : Alive(e.conn) /\ inEpoll[e.conn]

\* A close of c is on its way.
CloseRequested(c) ==
  \E l \in Loops : \E f \in ToSet(todo[l]) \cup ToSet(copy[l]) :
    f \in {Func("closeInLoop", c), Func("destroy", c)}

\* A close that has been requested is completed: the server forgets the
\* connection, its channel leaves epoll, and only the idle timer may still hold
\* the object, however many closes were requested on the way.
CloseCompletes ==
  \A c \in Conns :
    CloseRequested(c) ~> (m_state[c] = "Closed" /\ ~inEpoll[c]
                          /\ Holders(c) \subseteq {"timer"})

\* The expiry of its timer is not lost, whatever the requests and responses
\* before it have made of the connection's state: while the server still has
\* the connection its close is on the way.  The exception is a connection whose
\* read failed, which stays in the map and in epoll (HttpConnect.cpp:142, 268).
ExpiryRequestsClose ==
  \A c \in Conns :
    (timer[c] = "run" /\ InMap(c))
      => CloseRequested(c) \/ (m_state[c] = "Closed" /\ inEpoll[c])

\* The expiry of its timer closes a connection (HttpConnect.h:30).  It does not
\* hold after a read error.
ExpiryCloses ==
  \A c \in Conns : (timer[c] = "run") ~> ~InMap(c)
==============================================================================

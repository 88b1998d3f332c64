------------------------------ MODULE TcpServer ------------------------------
(***************************************************************************)
(* TcpServer and its TcpConnections (tcp/Server.cpp, tcp/Connection.cpp,    *)
(* tcp/Acceptor.cpp), and the threads of its EventLoopThreadPool            *)
(* (tcp/EventLoopThread.cpp, tcp/EventLoopThreadPool.cpp).                  *)
(*                                                                          *)
(* Unlike HttpServer, this server establishes a connection on the main      *)
(* thread, one step after the other, while the loop that owns it already    *)
(* sees its events: EnableRead comes before Tie, then the connect callback   *)
(* is called, and the entry in m_connections comes last.  Either callback    *)
(* may call Send, any number of times.  A loop turns as module EventLoop     *)
(* shows: poll, dispatch, todo; its list of functions is run in push order.  *)
(***************************************************************************)
EXTENDS Naturals, Sequences, SequencesExt

CONSTANTS
  MaxConns,    \* bound: connections accepted in a behaviour
  Fds,         \* the fd numbers accept may return
  MaxThreads,  \* bound: threads
  ThreadNums,  \* what hardware_concurrency() may return
  MaxBytes,    \* bound: bytes a peer sends
  BufferRoom,  \* units of input a Buffer takes, up to kMaxSize (a reply always fits)
  MaxReplies   \* bound: calls of Send per connection

ASSUME BoundsAssumption ==
  /\ {MaxConns, MaxThreads, MaxBytes, BufferRoom, MaxReplies} \subseteq Nat
  /\ ThreadNums \subseteq 0..MaxThreads

\* The TcpConnection objects, in the order they are accepted.
Conns == 1..MaxConns
NoConn == 0

Main == 0
Threads == 1..MaxThreads
Loops == {Main} \cup Threads
ReplyLen == 2

VARIABLES
  m_threadNum, m_loops, m_next,       \* of the EventLoopThreadPool
  published,     \* per thread: "none", "new", or "set" when its m_loop is
  start,         \* the main thread: "spawn", "test", "asleep" in StartLoop, or "loop"
  phase, batch,  \* per loop: where it is in its turn; events not yet handled
  todo, copy, pos, \* per loop: m_todoList, todoListCopy, functions of it called
  task,          \* per loop: the handler the thread is in the middle of
  crash,         \* the exception or signal that ended the process, or "no"
  m_connections, \* the server's map from fd to connection
  m_state, fd, m_loop, m_readBuffer, m_writeBuffer, \* per connection
  m_tied, inEpoll, want, \* per channel; want: it asks for EPOLLIN
  edge,          \* per socket: epoll has an event to report
  end,           \* per socket: what a read finds after the bytes
  sent, taken,   \* per socket: bytes the peer sent; bytes it was sent, in order
  nread, delivered, \* history: bytes read, and what the message callback saw
  replies,       \* history: calls of Send
  early          \* history: connections closed by their own connect callback

startVars == <<m_threadNum, m_loops, published, start>>
turnVars == <<phase, batch, copy, pos>>
chanVars == <<m_tied, inEpoll, want>>
objVars == <<fd, m_loop>>
readVars == <<m_readBuffer, nread, delivered>>
writeVars == <<m_writeBuffer, taken, replies>>
sockVars == <<edge, end, sent>>
vars == <<startVars, turnVars, chanVars, objVars, readVars, writeVars, sockVars,
          m_next, todo, task, crash, m_connections, m_state, early>>

Task(s, c, g, n) == [step |-> s, conn |-> c, guard |-> g, left |-> n]
Idle == Task("none", NoConn, FALSE, 0)
Func(o, c) == [op |-> o, conn |-> c]
Funcs == [op : {"closeInLoop", "destroy"}, conn : Conns]
Bytes == (1..MaxReplies) \X (1..ReplyLen)

TypeOK ==
  /\ m_threadNum \in 0..MaxThreads /\ m_loops \in Seq(Threads)
  /\ m_next \in 0..MaxThreads /\ (m_next = 0 \/ m_next < m_threadNum)
  /\ published \in [Threads -> {"none", "new", "set"}]
  /\ start \in {"spawn", "test", "asleep", "loop"}
  /\ phase \in [Loops -> {"poll", "dispatch", "todo"}]
  /\ batch \in [Loops -> SUBSET [conn : Conns, in : BOOLEAN]]
  /\ \A l \in Loops : /\ todo[l] \in Seq(Funcs) /\ copy[l] \in Seq(Funcs)
                      /\ pos[l] \in 0..Len(copy[l])
  /\ task \in [Loops -> {Idle} \cup
                 [step : {"enable", "tie", "connect", "greet",
                          "message", "write"},
                  conn : Conns, guard : BOOLEAN, left : 0..ReplyLen]]
  /\ crash \in {"no", "accept", "read", "write", "append", "sigpipe", "race"}
  /\ m_connections \in [Fds -> Conns \cup {NoConn}]
  /\ m_state \in [Conns -> {"none", "Connected", "Closed"}]
  /\ fd \in [Conns -> Fds] /\ m_loop \in [Conns -> Loops]
  /\ m_tied \in [Conns -> BOOLEAN] /\ inEpoll \in [Conns -> BOOLEAN]
  /\ want \in [Conns -> BOOLEAN] /\ edge \in [Conns -> BOOLEAN]
  /\ end \in [Conns -> {"open", "eof", "reset", "dead"}]
  /\ \A c \in Conns : /\ sent[c] \in 0..MaxBytes /\ nread[c] \in 0..sent[c]
                      /\ m_readBuffer[c] \in Seq(1..nread[c])
                      /\ delivered[c] \in Seq(1..nread[c])
                      /\ m_writeBuffer[c] \in Seq(Bytes) /\ taken[c] \in Seq(Bytes)
                      /\ replies[c] \in 0..MaxReplies
  /\ early \subseteq Conns

Init ==
  /\ m_threadNum \in ThreadNums /\ m_loops = <<>> /\ m_next = 0
  /\ published = [t \in Threads |-> "none"] /\ start = "spawn"
  /\ phase = [l \in Loops |-> "poll"] /\ batch = [l \in Loops |-> {}]
  /\ todo = [l \in Loops |-> <<>>] /\ copy = [l \in Loops |-> <<>>]
  /\ pos = [l \in Loops |-> 0] /\ task = [l \in Loops |-> Idle] /\ crash = "no"
  /\ m_connections = [f \in Fds |-> NoConn]
  /\ m_state = [c \in Conns |-> "none"]
  /\ fd \in {[c \in Conns |-> f] : f \in Fds} /\ m_loop = [c \in Conns |-> Main]
  /\ m_tied = [c \in Conns |-> FALSE] /\ inEpoll = [c \in Conns |-> FALSE]
  /\ want = [c \in Conns |-> FALSE] /\ edge = [c \in Conns |-> FALSE]
  /\ end = [c \in Conns |-> "open"]
  /\ m_readBuffer = [c \in Conns |-> <<>>] /\ m_writeBuffer = [c \in Conns |-> <<>>]
  /\ taken = [c \in Conns |-> <<>>] /\ delivered = [c \in Conns |-> <<>>]
  /\ sent = [c \in Conns |-> 0] /\ nread = [c \in Conns |-> 0]
  /\ replies = [c \in Conns |-> 0] /\ early = {}

(***************************************************************************)
(* EventLoopThreadPool::Start, on the main thread, and the threads' start.  *)
(***************************************************************************)
StartVarsOnly ==
  UNCHANGED <<turnVars, chanVars, objVars, readVars, writeVars, sockVars, m_next,
              m_threadNum, todo, task, crash, m_connections, m_state, early>>

\* Start and the beginning of StartLoop: the next thread is created.
StartLoop ==
  /\ start = "spawn" /\ Len(m_loops) < m_threadNum
  /\ published' = [published EXCEPT ![Len(m_loops) + 1] = "new"]
  /\ start' = "test"
  /\ UNCHANGED m_loops
  /\ StartVarsOnly

\* The loop around m_cv.wait in StartLoop, under m_mtx: it returns the thread's
\* loop, or goes to sleep.
AwaitLoop ==
  LET t == Len(m_loops) + 1 IN
  /\ start = "test"
  /\ IF published[t] = "set"
     THEN m_loops' = Append(m_loops, t) /\ start' = "spawn"
     ELSE start' = "asleep" /\ UNCHANGED m_loops
  /\ UNCHANGED published
  /\ StartVarsOnly

\* Mutant: m_loop is set without notify_one.
NotNotified(s) == s

\* notify_one wakes StartLoop, if it waits.
Notified(s) == IF s = "asleep" THEN "test" ELSE s

\* ThreadFunc up to loop(), under m_mtx.
ThreadFunc(t) ==
  /\ published[t] = "new"
  /\ published' = [published EXCEPT ![t] = "set"]
  /\ start' = Notified(start)
  /\ UNCHANGED m_loops
  /\ StartVarsOnly

\* TcpServer::start: the pool is started, m_mainReactor->loop().
EnterLoop ==
  /\ start = "spawn" /\ Len(m_loops) = m_threadNum
  /\ start' = "loop"
  /\ UNCHANGED <<published, m_loops>>
  /\ StartVarsOnly

(***************************************************************************)
(* Who holds a connection; the last holder's end closes its fd.             *)
(***************************************************************************)
InMap(c) == m_connections[fd[c]] = c

Queued(c) == \E l \in Loops : \E f \in ToSet(todo[l]) \cup ToSet(copy[l]) : f.conn = c

\* The local variable of CreateConnection, or the guard of HandleEvent.
OnStack(c) == \E l \in Loops : task[l].conn = c /\ task[l].guard

Alive(c) == m_state[c] # "none" /\ (InMap(c) \/ Queued(c) \/ OnStack(c))

FdFree(f) == \A c \in Conns : Alive(c) => fd[c] # f

\* A thread that runs its loop and is between two callbacks.
Running(l) == crash = "no" /\ IF l = Main THEN start = "loop" ELSE published[l] = "set"
Between(l) == Running(l) /\ task[l] = Idle
In(l, s) == Running(l) /\ task[l].step = s
GoOn(l, s) == task' = [task EXCEPT ![l].step = s]
Return(l) == task' = [task EXCEPT ![l] = Idle]
Throw(why) == crash' = why

(***************************************************************************)
(* CreateConnection, in the read callback of the acceptor.                  *)
(***************************************************************************)
\* The index after n.
NextIndex(n) == (n + 1) % m_threadNum

GetNextLoop == IF m_loops = <<>> THEN Main ELSE m_loops[m_next + 1]

\* Up to EstablishConnection: the constructor adds the channel to the epoll of
\* the loop, asking for nothing but edges, and the callbacks are set.
CreateConnection(c, f) ==
  /\ Between(Main) /\ phase[Main] = "dispatch"
  /\ m_state[c] = "none" /\ \A d \in 1..(c - 1) : m_state[d] # "none"
  /\ FdFree(f)
  /\ m_next' = IF m_loops = <<>> THEN m_next ELSE NextIndex(m_next)
  /\ m_state' = [m_state EXCEPT ![c] = "Connected"]
  /\ fd' = [fd EXCEPT ![c] = f]
  /\ m_loop' = [m_loop EXCEPT ![c] = GetNextLoop]
  /\ inEpoll' = [inEpoll EXCEPT ![c] = TRUE]
  /\ task' = [task EXCEPT ![Main] = Task("enable", c, TRUE, 0)]
  /\ UNCHANGED <<startVars, turnVars, readVars, writeVars, sockVars, m_tied, want,
                 todo, crash, m_connections, early>>

\* accept has no fd left and returns -1.
CreateConnectionThrows ==
  /\ Between(Main) /\ phase[Main] = "dispatch"
  /\ \A f \in Fds : ~FdFree(f)
  /\ Throw("accept")
  /\ UNCHANGED <<startVars, turnVars, chanVars, objVars, readVars, writeVars, sockVars,
                 m_next, todo, task, m_connections, m_state, early>>

Readable(c) == sent[c] > nread[c] \/ end[c] # "open"

\* EstablishConnection: EnableRead.  EPOLL_CTL_MOD looks at the socket again.
EnableRead ==
  LET c == task[Main].conn IN
  /\ In(Main, "enable")
  /\ want' = [want EXCEPT ![c] = TRUE]
  /\ edge' = [edge EXCEPT ![c] = @ \/ Readable(c)]
  /\ GoOn(Main, "tie")
  /\ UNCHANGED <<startVars, turnVars, objVars, readVars, writeVars, m_tied, inEpoll, end,
                 sent, m_next, todo, crash, m_connections, m_state, early>>

\* EstablishConnection: Tie.
Tie ==
  /\ In(Main, "tie")
  /\ m_tied' = [m_tied EXCEPT ![task[Main].conn] = TRUE]
  /\ GoOn(Main, "connect")
  /\ UNCHANGED <<startVars, turnVars, objVars, readVars, writeVars, sockVars, inEpoll, want,
                 m_next, todo, crash, m_connections, m_state, early>>

\* m_onConnect, whose calls of Send are below, returns, and CreateConnection ends.
Insert ==
  LET c == task[Main].conn IN
  /\ In(Main, "connect")
  /\ m_connections' = [m_connections EXCEPT ![fd[c]] = c]
  /\ Return(Main)
  /\ UNCHANGED <<startVars, turnVars, chanVars, objVars, readVars, writeVars, sockVars,
                 m_next, todo, crash, m_state, early>>

(***************************************************************************)
(* Closing.                                                                 *)
(***************************************************************************)
\* Mutant: the entry is erased, and the channel forgotten.
OnlyErases(c) ==
  /\ m_connections' = [m_connections EXCEPT ![fd[c]] = NoConn]
  /\ UNCHANGED todo

CloseConnectionInLoop(c) ==
  /\ m_connections' = [m_connections EXCEPT ![fd[c]] = NoConn]
  /\ todo' = [todo EXCEPT ![m_loop[c]] = Append(@, Func("destroy", c))]

\* Mutant: the connection is erased by the thread that noticed its end.
OnAnyThread(l) == TRUE

\* RunOneFunc, called by l, runs the function at once on the main thread.
OnMainThread(l) == l = Main

\* CloseConnection, called by l.
CloseConnection(l, c) ==
  IF OnMainThread(l) THEN CloseConnectionInLoop(c)
  ELSE /\ todo' = [todo EXCEPT ![Main] = Append(@, Func("closeInLoop", c))]
       /\ UNCHANGED m_connections

NotClosed == UNCHANGED <<todo, m_connections>>

HandleClose(l, c) ==
  IF m_state[c] # "Closed" THEN CloseConnection(l, c) ELSE NotClosed

(***************************************************************************)
(* A turn of a loop.                                                        *)
(***************************************************************************)

\* A hang-up is reported also to a channel that does not ask for EPOLLIN.
Reported(c) == inEpoll[c] /\ edge[c] /\ (want[c] \/ end[c] = "reset")

\* epoll_wait returns: with events, for functions that were queued (module
\* EventLoop shows that it does), or for a client at the acceptor's socket.
Poll(l) ==
  LET chans == {c \in Conns : m_loop[c] = l /\ Reported(c)} IN
  /\ Between(l) /\ phase[l] = "poll"
  /\ chans # {} \/ todo[l] # <<>> \/ (l = Main /\ \E c \in Conns : m_state[c] = "none")
  /\ batch' = [batch EXCEPT ![l] = {[conn |-> c, in |-> want[c]] : c \in chans}]
  /\ edge' = [c \in Conns |-> edge[c] /\ c \notin chans]
  /\ phase' = [phase EXCEPT ![l] = "dispatch"]
  /\ UNCHANGED <<startVars, chanVars, objVars, readVars, writeVars, end, sent, copy, pos,
                 m_next, todo, task, crash, m_connections, m_state, early>>

\* Mutants of the two definitions below: the last bytes stay in the buffer; one
\* read, whatever it leaves.
NotRetrieved(c) == m_readBuffer[c]
FirstByte(c) == IF sent[c] > nread[c] THEN nread[c] + 1 ELSE nread[c]

\* What RetrieveAll leaves, and how far the reads up to EAGAIN get.
Retrieved(c) == <<>>
ReadUpTo(c) == sent[c]

\* Mutant: HandleClose marks the connection.
ClosedAtEof(c) == IF end[c] = "open" THEN m_state[c] ELSE "Closed"

\* ReadNonBlocking leaves Closed behind for a read error only.
StateAfterRead(c) == IF end[c] = "reset" THEN "Closed" ELSE m_state[c]

\* The bytes of c after the first n.
Rest(c, n) == [i \in 1..(n - nread[c]) |-> nread[c] + i]

\* Channel::HandleEvent and HandleMessage up to the call of m_onMessage, which comes
\* also after the end of the stream: the tie is locked if it is set, and what is
\* there is read.  Read throws unless the state is Connected, and Append when
\* there is more than the buffer takes; nobody catches either.
HandleMessage(l, e) ==
  LET c == e.conn
      n == ReadUpTo(c)
      buffer == Retrieved(c) \o Rest(c, n)
  IN
  /\ Between(l) /\ phase[l] = "dispatch" /\ e \in batch[l]
  /\ e.in /\ (m_tied[c] => Alive(c))
  /\ batch' = [batch EXCEPT ![l] = @ \ {e}]
  /\ task' = [task EXCEPT ![l] = Task("message", c, m_tied[c], 0)]
  /\ IF m_state[c] # "Connected" \/ n - nread[c] > BufferRoom
     THEN /\ Throw(IF m_state[c] # "Connected" THEN "read" ELSE "append")
          /\ UNCHANGED <<readVars, end, todo, m_connections, m_state>>
     ELSE /\ m_readBuffer' = [m_readBuffer EXCEPT ![c] = buffer]
          /\ delivered' = [delivered EXCEPT ![c] = @ \o buffer]
          /\ nread' = [nread EXCEPT ![c] = n]
          /\ IF end[c] \in {"eof", "dead"} THEN HandleClose(l, c) ELSE NotClosed
          /\ m_state' = [m_state EXCEPT ![c] = StateAfterRead(c)]
          /\ end' = [end EXCEPT ![c] = IF @ = "reset" THEN "dead" ELSE @]
          /\ UNCHANGED crash
  /\ UNCHANGED <<startVars, phase, copy, pos, chanVars, objVars, writeVars, edge, sent,
                 m_next, early>>

\* A hang-up on its own calls nothing, nor does an event whose tie is gone.
IgnoreEvent(l, e) ==
  /\ Between(l) /\ phase[l] = "dispatch" /\ e \in batch[l]
  /\ ~e.in \/ (m_tied[e.conn] /\ ~Alive(e.conn))
  /\ batch' = [batch EXCEPT ![l] = @ \ {e}]
  /\ UNCHANGED <<startVars, chanVars, objVars, readVars, writeVars, sockVars, phase, copy,
                 pos, m_next, todo, task, crash, m_connections, m_state, early>>

OnMessageReturns(l) ==
  /\ In(l, "message")
  /\ Return(l)
  /\ UNCHANGED <<startVars, turnVars, chanVars, objVars, readVars, writeVars, sockVars,
                 m_next, todo, crash, m_connections, m_state, early>>

(***************************************************************************)
(* Send, in the connect callback or in the message callback.                *)
(***************************************************************************)
\* SetSendBuffer: RetrieveAll, Append.
SendBuffer(r) == [i \in 1..ReplyLen |-> <<r, i>>]

\* Another thread is in Send for the connection.
OtherSends(l, c) ==
  \E k \in Loops \ {l} : task[k].conn = c /\ task[k].step \in {"greet", "write"}

\* SetSendBuffer and the test of Write, which throws unless the state is Connected.
\* Two threads in m_writeBuffer are a data race, after which nothing is claimed.
Send(l) ==
  LET c == task[l].conn
      r == replies[c] + 1
  IN
  /\ In(l, "connect") \/ In(l, "message")
  /\ r <= MaxReplies
  /\ replies' = [replies EXCEPT ![c] = r]
  /\ m_writeBuffer' = [m_writeBuffer EXCEPT ![c] = SendBuffer(r)]
  /\ IF OtherSends(l, c) THEN Throw("race") /\ UNCHANGED task
     ELSE IF m_state[c] # "Connected" THEN Throw("write") /\ UNCHANGED task
     ELSE /\ task' = [task EXCEPT ![l].step = IF @ = "connect" THEN "greet" ELSE "write",
                                  ![l].left = ReplyLen]
          /\ UNCHANGED crash
  /\ UNCHANGED <<startVars, turnVars, chanVars, objVars, readVars, taken, sockVars,
                 m_next, todo, m_connections, m_state, early>>

\* What one call of write takes: k bytes from the first that is left.
Chunk(buf, left, k) == SubSeq(buf, Len(buf) - left + 1, Len(buf) - left + k)

Writing(l) == In(l, "greet") \/ In(l, "write")

\* WriteNonBlocking: one call of write that takes k bytes.
WriteSome(l, k) ==
  LET c == task[l].conn IN
  /\ Writing(l) /\ k \in 1..task[l].left /\ end[c] \in {"open", "eof"}
  /\ taken' = [taken EXCEPT ![c] = @ \o Chunk(m_writeBuffer[c], task[l].left, k)]
  /\ task' = [task EXCEPT ![l].left = @ - k]
  /\ UNCHANGED <<startVars, turnVars, chanVars, objVars, readVars, m_writeBuffer, replies,
                 sockVars, m_next, todo, crash, m_connections, m_state, early>>

\* WriteNonBlocking ends: all is written, or EAGAIN, or the error of a reset.
\* Write then forgets what is left, and the callback goes on.
WriteEnds(l) ==
  LET c == task[l].conn
      failed == task[l].left > 0 /\ end[c] = "reset"
  IN
  /\ Writing(l) /\ (task[l].left > 0 => end[c] # "dead")
  /\ IF failed THEN HandleClose(l, c) ELSE NotClosed
  /\ early' = IF failed /\ m_state[c] # "Closed" /\ task[l].step = "greet"
              THEN early \cup {c} ELSE early
  /\ end' = [end EXCEPT ![c] = IF failed THEN "dead" ELSE @]
  /\ m_writeBuffer' = [m_writeBuffer EXCEPT ![c] = <<>>]
  /\ task' = [task EXCEPT ![l].step = IF @ = "greet" THEN "connect" ELSE "message",
                          ![l].left = 0]
  /\ UNCHANGED <<startVars, turnVars, chanVars, objVars, readVars, taken, replies, edge, sent,
                 m_next, crash, m_state>>

\* Or it ends with the process: the kernel reports a reset once as an error, if at
\* all, and raises SIGPIPE, which nothing handles.
WriteKilled(l) ==
  /\ Writing(l) /\ task[l].left > 0 /\ end[task[l].conn] \in {"reset", "dead"}
  /\ Throw("sigpipe")
  /\ UNCHANGED <<startVars, turnVars, chanVars, objVars, readVars, writeVars, sockVars,
                 m_next, todo, task, m_connections, m_state, early>>

BeginTodoList(l) ==
  /\ Between(l) /\ phase[l] = "dispatch" /\ batch[l] = {}
  /\ phase' = [phase EXCEPT ![l] = "todo"]
  /\ copy' = [copy EXCEPT ![l] = todo[l]]
  /\ todo' = [todo EXCEPT ![l] = <<>>]
  /\ UNCHANGED <<startVars, chanVars, objVars, readVars, writeVars, sockVars, batch, pos,
                 m_next, task, crash, m_connections, m_state, early>>

\* The functions of the copy live until its end, and hold their connections.
EndTodoList(l) ==
  /\ Between(l) /\ phase[l] = "todo" /\ pos[l] = Len(copy[l])
  /\ phase' = [phase EXCEPT ![l] = "poll"]
  /\ copy' = [copy EXCEPT ![l] = <<>>]
  /\ pos' = [pos EXCEPT ![l] = 0]
  /\ UNCHANGED <<startVars, chanVars, objVars, readVars, writeVars, sockVars, batch, m_next,
                 todo, task, crash, m_connections, m_state, early>>

CallNext(l, o) ==
  /\ Between(l) /\ phase[l] = "todo" /\ pos[l] < Len(copy[l])
  /\ copy[l][pos[l] + 1].op = o
  /\ pos' = [pos EXCEPT ![l] = @ + 1]
  /\ UNCHANGED <<startVars, objVars, phase, batch, copy, m_next, task, crash, early>>

CallCloseConnectionInLoop(l) ==
  /\ CallNext(l, "closeInLoop")
  /\ CloseConnectionInLoop(copy[l][pos[l] + 1].conn)
  /\ UNCHANGED <<chanVars, readVars, writeVars, sockVars, m_state>>

\* What the socket and the buffers of the connection hold is forgotten, unless
\* its connect callback is still running: no other will look at it again.
DestroyConnection(l) ==
  LET c == copy[l][pos[l] + 1].conn
      Forget(f, zero) == IF task[Main].conn = c THEN f ELSE [f EXCEPT ![c] = zero]
  IN
  /\ CallNext(l, "destroy")
  /\ want' = [want EXCEPT ![c] = FALSE]
  /\ inEpoll' = [inEpoll EXCEPT ![c] = FALSE]
  /\ m_state' = [m_state EXCEPT ![c] = "Closed"]
  /\ edge' = [edge EXCEPT ![c] = FALSE]
  /\ end' = Forget(end, "open") /\ sent' = Forget(sent, 0) /\ nread' = Forget(nread, 0)
  /\ m_readBuffer' = Forget(m_readBuffer, <<>>) /\ m_writeBuffer' = Forget(m_writeBuffer, <<>>)
  /\ delivered' = Forget(delivered, <<>>) /\ taken' = Forget(taken, <<>>)
  /\ replies' = Forget(replies, 0)
  /\ UNCHANGED <<m_tied, todo, m_connections>>

LoopStep(l) ==
  \/ Poll(l) \/ \E e \in batch[l] : HandleMessage(l, e) \/ IgnoreEvent(l, e)
  \/ OnMessageReturns(l)
  \/ Send(l) \/ \E k \in 1..ReplyLen : WriteSome(l, k)
  \/ WriteEnds(l) \/ WriteKilled(l)
  \/ BeginTodoList(l) \/ EndTodoList(l)
  \/ CallCloseConnectionInLoop(l) \/ DestroyConnection(l)

Establish == EnableRead \/ Tie \/ Insert
Starting == StartLoop \/ AwaitLoop \/ EnterLoop

(***************************************************************************)
(* The peers.                                                               *)
(***************************************************************************)
PeerActs(c) ==
  /\ inEpoll[c] \/ OnStack(c)
  /\ crash = "no"
  /\ \/ /\ end[c] = "open" /\ sent[c] < MaxBytes
        /\ sent' = [sent EXCEPT ![c] = @ + 1]
        /\ UNCHANGED end
     \/ /\ end[c] = "open"
        /\ end' = [end EXCEPT ![c] = "eof"]
        /\ UNCHANGED sent
     \/ /\ end[c] \in {"open", "eof"}
        /\ end' = [end EXCEPT ![c] = "reset"]
        /\ UNCHANGED sent
  /\ edge' = [edge EXCEPT ![c] = TRUE]
  /\ UNCHANGED <<startVars, turnVars, chanVars, objVars, readVars, writeVars, m_next, todo,
                 task, crash, m_connections, m_state, early>>

Next ==
  \/ Starting \/ \E t \in Threads : ThreadFunc(t)
  \/ \E c \in Conns, f \in Fds : CreateConnection(c, f)
  \/ CreateConnectionThrows \/ Establish
  \/ \E l \in Loops : LoopStep(l)
  \/ \E c \in Conns : PeerActs(c)

Spec == Init /\ [][Next]_vars

\* The threads run: nothing a thread does waits for a peer or for another
\* thread, except AwaitLoop.  Peers need not act and need not connect.
MainThread == Starting \/ Establish \/ LoopStep(Main)
Thread(t) == ThreadFunc(t) \/ LoopStep(t)

FairSpec == Spec /\ WF_vars(MainThread) /\ \A t \in Threads : WF_vars(Thread(t))

(***************************************************************************)
(* Properties.                                                              *)
(***************************************************************************)

\* Epoll, a batch and a handler without a guard (before Tie, Channel.cpp:12)
\* hold raw pointers: the connection of each of them is alive, though the worker
\* may see the first events, the end of the stream among them, before the
\* connection is in the map.  And a connection whose close was requested before
\* CreateConnection got to the insertion does not come back into the map after
\* its erasure (Server.cpp:37, 45, 64), unless its own connect callback, whose
\* write failed, has closed it.
NoDanglingChannel ==
  /\ TypeOK
  /\ \A c \in Conns : inEpoll[c] => Alive(c)
  /\ \A l \in Loops : /\ \A e \in batch[l] : Alive(e.conn)
                      /\ task[l] # Idle => Alive(task[l].conn)
  /\ \A c \in Conns : InMap(c) => inEpoll[c] \/ c \in early

\* Not so of the code: what the connect callback closes is erased before it is
\* inserted, and then stays in the map (Connection.cpp:36, Server.cpp:63-64).
ClosedStaysOut == \A c \in Conns : InMap(c) => inEpoll[c]

\* Nor this: the connect callback sends on the main thread, and the message
\* callback on the connection's own, both through m_writeBuffer.
NoSendRace == crash # "race"

\* The message callback is shown every byte once, in the order sent, though the
\* end of the stream and errors are noticed while reading; and the peer is sent
\* beginnings of the replies, in order and nothing twice, as what the socket
\* does not take at once is lost (Connection.cpp:45, 58, 145); up to the first
\* time that two threads are in Send at once.
BytesInOrder ==
  \A c \in Conns :
    /\ \A i \in DOMAIN delivered[c] : delivered[c][i] = i
    /\ \A i \in DOMAIN taken[c] :
         LET b == taken[c][i] IN
         IF b[2] = 1 THEN i = 1 \/ taken[c][i - 1][1] < b[1]
         ELSE i > 1 /\ taken[c][i - 1] = <<b[1], b[2] - 1>>

\* A reset has been noticed by the connection: it is Closed but registered, by a
\* read error (Connection.cpp:126), or was closed by its connect callback.
ResetSeen(c) ==
  c # NoConn /\ m_state[c] = "Closed" /\ end[c] = "dead" /\ (inEpoll[c] \/ c \in early)

\* The process ends for a reason that lies with the peer or with the callbacks:
\* Read and Write throw only for a connection whose peer has reset it, never
\* because of an end of the stream or of a close that is under way; Append only if
\* more came at once than a Buffer takes (Buffer.cpp:144); SIGPIPE comes only
\* after a reset; and two threads are in Send at once only if one is the main
\* thread in the connect callback.
CrashHasCause ==
  /\ crash \in {"read", "write"} => \E l \in Loops : ResetSeen(task[l].conn)
  /\ crash = "append" =>
       \E c \in Conns : sent[c] - nread[c] > BufferRoom /\ inEpoll[c]
  /\ crash = "sigpipe" =>
       \E l \in Loops : task[l].left > 0 /\ end[task[l].conn] \in {"reset", "dead"}
  /\ crash = "race" =>
       \E l \in Threads : /\ task[Main].step \in {"connect", "greet"}
                          /\ task[l].step \in {"message", "write"}
                          /\ task[l].conn = task[Main].conn

CloseRequested(c) ==
  \E l \in Loops : Func("closeInLoop", c) \in ToSet(todo[l]) \cup ToSet(copy[l])

\* A close that a loop has asked for is completed: the entry is erased, the
\* channel removed, and the object freed, even if the connection was not yet in
\* the map when its loop asked (Server.cpp:35-50).
CloseCompletes ==
  \A c \in Conns : CloseRequested(c) ~> (~inEpoll[c] /\ ~Alive(c)) \/ crash # "no"

\* What a peer sends is always read in the end, also what came before
\* EnableRead, unless the connection is closed first: the loop of reads does not
\* stop before EAGAIN (Connection.cpp:105), as the edge is not reported again.
InputIsRead ==
  \A c \in Conns : []<>(sent[c] = nread[c] \/ ~inEpoll[c] \/ crash # "no")

\* The handshake of StartLoop with each of its threads ends, and the main loop
\* is entered (EventLoopThread.cpp:16-34).
ServerStarts == <>[](start = "loop")
==============================================================================

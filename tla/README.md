# A TLA+ model of my_server

`my_server` is a reactor-style HTTP file server in C++17 (`src/src`): a main
loop accepts, a pool of loops serves the connections, a background thread
writes the log, and a pool of MySQL connections checks the logins. This
directory models its parts as TLA+ modules, checks small instances of them with
TLC and proves what holds for every instance with TLAPS.

## 1. The system

### 1.1 Components, their state and their operations

| Component (code) | State | Operations | What makes it correct |
|---|---|---|---|
| EventLoop (`tcp/EventLoop`) | `m_todoList`, `m_callingTodoList`, `m_quit`, the eventfd | `loop`, `RunOneFunc`, `QueueFunc`, `AddScheduledTask`, `quit` | a queued function runs exactly once, in order, without waiting for an unrelated event; `HandleRead` never finds the eventfd empty; `quit` ends the loop |
| Channel, Epoll (`tcp/Channel`, `tcp/Epoll`) | interest set, tie, in-epoll flag; the batch of one `epoll_wait` | `HandleEvent`, `EnableRead/Write`, `updateChannel`, `remove` | no channel is used after its connection is gone; a removed channel is never added again |
| Threads (`tcp/EventLoopThread`, `EventLoopThreadPool`) | `m_loop`, the thread | `StartLoop`, the destructor, `GetNextLoop` | the loop pointer is published before it is used; the destructor ends |
| HttpServer, HttpConnect lifecycle (`http/HttpServer`, `http/HttpConnect`) | `m_connections` by fd, `m_state`, the references that keep a connection alive | `CreateConnection`, `HandleClose`, `CloseConnection(InLoop)`, `DestroyConnection`, the 30 s timer | a close removes its own entry and not that of a later connection with the same fd; every closed connection is released; an idle one is closed |
| HttpConnect writing (`HttpConnect.cpp:216-322`) | output buffer, file offset and rest, `m_closeAfterWrite` | `Send`, `SendFile`, `Write`, `WriteNonBlocking` | the peer receives each response whole and in order, and the close comes after the last byte |
| Timers (`timer/Timer`) | a binary heap by expiry time, keys changed in place | `AddTimer`, `Update`, `ClearCallback`, `HandleExpiredEvent`, `GetNextTimeOut` | a timer runs once, never early, and not late because of another one |
| HttpConnect reading, HttpRequest (`HttpConnect.cpp:148-187, 242-272`, `http/HttpRequest`) | the read buffer, the state of the character automaton | `HandleRequest`, `ReadNonBlocking`, `Parse`, `Reset` | the request is the one the client made, however its bytes were split into reads; each gets an answer |
| MultipartParser, URL and form helpers (`http/MultipartParser`, first part of `http/HttpServer.cpp`) | none | parsing, escaping, encoding | decoding inverts what a browser makes of the server's pages |
| HttpServer requests, HttpResponse (`HttpServer.cpp:1004-1315`) | the directories and files of the users, the table `users` | `OnRequest`: list, show, download, upload, delete, log in, register | what is answered was so at some time during the request; an account is saved once and has a directory |
| Buffer (`tcp/Buffer`) | read and write index over a vector | `Append`, `Retrieve*`, `Peek`, `EnsureWritableBytes` | a byte queue: nothing lost or reordered by compaction and growth |
| AsyncLogging, LogFile, LogStream, Logger (`log/`) | current and next buffer, the full ones, the writer's buffers | `Append`, `Stop`, `RequestFlush`, `ThreadFunc` | the file holds the appended records in order, nothing lost or doubled; a stop writes all of them |
| MysqlPool (`sql/SqlConnPool`) | the idle connections, the shutdown flag | `Init`, `Borrow`, `ReturnConn`, `Shutdown` | a connection has one user at a time; borrowers are served or turned away |
| ThreadPool (`base/ThreadPool`) | task queue, stop flag | `addTask`, the destructor | every accepted task runs before the destructor returns |
| TcpServer, TcpConnection, Acceptor (`tcp/Server`, `tcp/Connection`, `tcp/Acceptor`) | as HttpServer, for raw TCP | the same, established on the main thread | as the HTTP lifecycle |

### 1.2 How they interact

The Acceptor's channel calls `HttpServer::CreateConnection` on the main loop,
which inserts the connection in `m_connections` and hands the rest
(`EstablishConnection`, the idle timer) to a worker loop through `RunOneFunc`.
From then on the worker's callbacks own the connection. Closing goes back the
same way: `HandleClose` on the worker, `CloseConnectionInLoop` on the main
loop, `DestroyConnection` queued on the worker. A connection object lives as
long as somebody holds a `shared_ptr`: the map, a queued function, a callback
in progress (`Channel::Tie`) and the timer's task. All threads share the logger
and the MySQL pool, each behind a mutex and a condition variable.

### 1.3 What is hard in it

* the wakeup of a loop that other threads and its own callbacks queue on;
* the lifetime of a connection between two loops, a timer and the kernel's
  reuse of fd numbers;
* timer keys that change inside the heap;
* partial writes, a file that follows its header, a close that follows both;
* requests split or joined arbitrarily by TCP;
* several loops working on the same directory and the same table, a system call
  at a time;
* a TCP connection that is visible to its worker before it is established;
* the log's double buffering with a flush on request and a stop;
* waiting on condition variables at shutdown.

## 2. The modules

| Module | Models | Abstraction |
|---|---|---|
| `EventLoop` | one loop, the threads that queue on it, the eventfd | callbacks are open except for the calls they make into their own loop |
| `HttpLifecycle` | the connections of an HttpServer, from accept to the destructor | loops run turns and function lists, as `EventLoop` shows they do; a response is how its writes can end |
| `HttpInput` | one HttpConnect reading: socket, read buffer, `HandleRequest`, decoding | a stream is symbols; the client is a browser on the server's pages |
| `HttpParser` | `HttpRequest`: the automaton, used by `HttpInput` | a word without delimiters is one symbol |
| `FormCodec` | URLs, forms, HTML escapes, multipart bodies, used by `HttpInput` | the same |
| `Buffer` | the read buffer, used by `HttpInput` | sizes are constants |
| `ByteQueue` | what a Buffer promises: bytes come out as they went in | – |
| `HttpWrite` | one HttpConnect writing | bytes are numbered units; a step is one system call |
| `FileService` | the requests of several workers on one file system and one database | a step is one call of either; contents and names are values |
| `TcpServer` | TcpServer, its TcpConnections, its Acceptor and the start of its threads | bytes are numbered; handlers are steps of one system call or shared access |
| `TimerQueue` | the timer heap and the loop's sleep | a timer is a model value; its callback is that it ran |
| `AsyncLogging` | loggers, the double buffering, the writer thread, the file | a record is its number; a buffer takes a few records |
| `FifoLog` | what a log promises: records accepted in order, nothing changed afterwards | – |
| `LogStream` | the text of one record and the end of a Logger | a small integer type and a small buffer |
| `MysqlPool` | threads borrowing and returning connections | a connection is a model value; queries are in `FileService` |
| `ThreadPool` | callers, workers, tasks, the destructor | a task is its number; what it does is to add tasks |
| `*Proofs` | the theorems about the module of that name, with their proofs: `HttpLifecycle`, `HttpInput`, `HttpWrite`, `FileService`, `TcpServer`; `EventLoopProofs` is about `EventLoop` and `TimerQueue`, `MonitorProofs` about `MysqlPool`, `ThreadPool` and `AsyncLogging`, `HttpTextProofs` about `FormCodec` and the texts a browser makes | – |
| `MC*` | the constants of the small instances | – |

`HttpInput` composes `Buffer`, `HttpParser` and `FormCodec`; `TcpServer`
composes the server, its loops, threads, channels and connections;
`HttpLifecycle` does the same for HTTP. The HTTP side is cut in four along the
connection: when it lives and dies (`HttpLifecycle`), what it reads
(`HttpInput`), what it asks for (`FileService`), what it writes (`HttpWrite`).
Each part leaves the choices of the others open.

### 2.1 EventLoop

`phase` is where `loop()` is: `top` (the `while` test and `GetNextTimeOut`),
`poll`, `dispatch` (the batch), `todo` (`DoTodoList`), `timers`
(`HandleExpiredEvent`). `QueueFunc` is two steps of any thread: `PushFunc`, the
critical section, and `WakeUp`, the test of line 89 and the write after the
unlock; everything may happen in between. `Callback` is what user code may do
to the loop it runs on: nothing, add a timer, or queue a function in one of the
`OwnQueuePhases`. In a server with worker loops a timer's callback
(`HandleClose`) queues on the main loop, so the phases are `dispatch` and
`todo`; in a server without (`hardware_concurrency()` may be 0) the timers are
the loop's own, and a function queued by one gets no wakeup. This is where the
assumption of `WakeupTheorem` comes from.

### 2.2 HttpLifecycle

The composition of a main loop and worker loops over a set of connections and a
few fd numbers. Each loop has its list of functions, the copy `DoTodoList` is
working on (whose functions, and what they captured, are destroyed together
when it ends), and the batch of its `epoll_wait`. The reference count is not a
variable: `Holders` says which `shared_ptr`s there are (the map entry, the
functions, the timer's task), and a fd is free again when there are none. Read
outcomes (data, end of stream, reset), the outcomes of parsing, and how each
`WriteNonBlocking` ends are chosen freely.

### 2.3 HttpInput, HttpParser, FormCodec, Buffer, ByteQueue

`HttpInput` is one connection. `client` is a conversation: what the user wants
(`Wish`: open, list, download, delete, upload) turned into requests the way a
browser does from the links and forms of the server's pages, so that the server's
own `UrlEncode` and `HtmlEscape` are on the way. Two kinds of wish stand for a
client that is no browser: a malformed request and one with an unusable
`Content-Length`. `ClientSends` delivers the stream in the pieces that end at
`cuts`; `ReadNonBlocking` reads `READ_BUFFER` bytes at a time until `EAGAIN`
(or until the buffer throws), and `HandleRequest` then parses, retrieves what the
parser consumed and hands the request over, or answers 400 or 403.

`HttpParser` is the automaton with its state between calls, and with
`m_parseStart` and `m_end` as the code computes them, since what goes wrong when
a piece ends inside a line is there. `Buffer` keeps the two indices over a
vector of bytes: moving down, growing to what it needs up to the largest size,
throwing beyond. `BufferIsQueue` is the refinement: `Queue == INSTANCE ByteQueue`
with the bytes between the indices as its content. `ConversationsAssumption` says
that a stream consists of bytes and that the cuts end with it; TLC evaluates it.

`FormCodec` writes its conversions as recursive functions over positions
(`Decoded`, `ParseFormUrlEncoded`, `ParseMultipart`) and as sequences of coded
characters (`UrlEncode`, `HtmlEscape`). Its tables are constants, of which it
assumes what the code's tables satisfy: each escaped character has two digits of
its own (`CodesAssumption`), the entities differ from each other and from what a
URL is written with (`EntitiesAssumption`), and `tolower` makes the one header
name that matters what the parser looks for (`LowercaseAssumption`). `IsWish` says
which wishes the pages and a browser can carry, and so what `DeliveredAsSent`
speaks about: a name has no end of a line and no symbol that stands for an
entity; the path of a link that is opened has no `?` and no `%` (section 5 lists
what happens otherwise); the name of an uploaded file has no quote and no end of
a line; and its content does not hold the delimiter, which is how a browser
chooses one. A file's part has its type line and its end of a line, as
`test/HttpParseTest.cpp:18-22` has them. `name="` is also found where it ends
`filename="` (`NameMarks`), and the two digits of an escape are read as `strtol`
reads them, blanks and signs included (`EscapedAt`).

### 2.4 HttpWrite

One connection at the level of `write`, `sendfile` and `epoll_ctl`. `pc` is the
call stack: `header` and `write` are the two ways `WriteNonBlocking` is called,
`open` is `SendFile` between its header and its file. `room` is the socket's
buffer, `edge` what epoll has noted: `EPOLL_CTL_MOD` looks again, a socket that
becomes writable while `EPOLLOUT` is watched sets it, a report takes it.
`Pipelining` says whether the client sends requests before it has the answers.

### 2.5 FileService

`disk` is which users have a directory, the inode of each file name and the
content of each inode, so that an open file outlives its name as on POSIX;
`database` is the table and the pool's idle connections. `job[w]` is what worker
`w` is at, `pc[w]` the next call it makes: `exists`, `file_size`, `open`, one
`read` or `sendfile`, one entry of a listing, one query. The workers interleave
at each of them. `held`, `seen` and `always` remember what the directory was
during a request: which names were ever there and which all the time
(`Listing`), and each content the file had, `Absent` included. `thinned` are the
workers whose directory lost a name while they were listing it: an entry whose
size fails leaves the error code set, and the loop ends at the next one
(`LeftAfter`, HttpServer.cpp:156-169). `dropped` are the users who have deleted
their directory. A form with an empty path asks for the directory itself
(`Itself`), which `ResolveUserPath` accepts. `held` follows
the descriptor the worker has open as well as the name (`Contained`), because
the file behind it can change after the name is gone. The properties compare the
answer with them. Contents are assumed to be none of the three constants that
stand for no file, an empty one and a page (`ContentsAssumption`). An exception
that nothing catches ends the process (`terminated`): from `file_size` of a
download and from `create_directory`. `NamesAreUnique` says whether
the database refuses a second row of the same name.

### 2.6 TcpServer

Threads are started one by one with the handshake of `StartLoop`
(`published`, `start`); a pool of no threads serves from the main loop. The main
thread takes the steps of `CreateConnection` one at a time: in epoll, reading
enabled, tied, the connect callback, in the map. The worker may get events in
between. A handler is a `task` that its thread is in the middle of. `HandleMessage`
reads up to `EAGAIN`, and closes at the end of the stream, in one step: of what
it changes another thread sees either `m_state` or the function it queues. The
message callback that follows, like the connect callback on the main thread, may call `Send` any number of
times, whose writes are steps. Both write through `m_writeBuffer`: two threads in
`Send` for one connection are a data race, after which nothing is claimed.
`crash` says what ended the process: `accept`, `Read` or `Write` that throws,
`Append` beyond the largest Buffer, SIGPIPE, or that race. `early` are the
connections that their own connect callback has closed. The fd is reused when
the connection is destroyed.

### 2.7 TimerQueue

`queue` is the array under the `std::priority_queue`, with `push_heap`
(`PushUp`) and `pop_heap` (`SinkHole`, then `PushUp`) as libstdc++ defines them,
since after `Timer::Update` the order is no heap and only the real algorithm
says what comes out. The loop around it
takes its timeout, sleeps at most that long, and runs `HandleExpiredEvent`;
time passes at any moment.

### 2.8 AsyncLogging, FifoLog, LogStream

Buffers are flattened: records in buffers of `BufferSize`, with their counts.
The writer's turn is its three critical parts: the wait and swap, the write of
each buffer, the recycling. A stop joins the writer; the log may be started
again. `Fifo!Spec` is the abstract log with what has been accepted mapped to the
file followed by everything between `Append` and the file. `LogStream` is pure:
what a record's buffer contains after the pieces put into it, the digits of an
integer, and what a Logger of each level does at its end. `MCAsyncLogging`
assumes, and TLC evaluates, that `Convert` agrees with a decimal reference for
every value of an 8-bit type, the smallest negative one included, that what does
not fit is dropped as a whole or from its end, and in which order the output,
the flush and the abort come.

### 2.9 MysqlPool, ThreadPool

`Borrow` and `ReturnConn` hold the mutex and are one step; sleeping in the
condition variable is a state of the thread (`asleep`), left by a notification,
by `Shutdown`'s `notify_all` or spuriously, to look again (`awake`). `ThreadPool`
has the same shape: `addTask` is the push and, after the unlock, the
notification; a running task may add tasks; the destructor sets the flag,
notifies all and joins. `TimerQueue`, `ThreadPool` and `AsyncLogging` have names of
their own for their initial states and steps (`TimerInit`, `ThreadPoolNext`,
`LogSpec`), because the proofs about `EventLoop` and `TimerQueue`, and those about
the three classes with a mutex and a condition variable, share a module.

## 3. The runs

| Run | Instance | States | Shows |
|---|---|---|---|
| `event_loop` | 2 callers, 1 channel, 1 event per poll, 3 functions, 1 timer | 7 thousand | every pushed function runs, once, in push order; no wakeup is lost; `HandleRead` never throws; a quit ends a loop that has something to wake up for |
| `lifecycle` | 1 worker, 2 connections sharing 1 fd, 2 functions before peers pause | 413 thousand | no dangling channel, no erased neighbour; an expired timer requests a close and each requested close completes |
| `http_input` | 9 conversations of up to 2 requests, buffer of 20 to 124 bytes, reads of 16 | 48 thousand | requests arrive as they were meant, refused only by a full buffer, each answered; `Buffer` implements `ByteQueue` |
| `http_input_split` | 1 request, cut anywhere | – | `DeliveredAsSent` fails (section 5) |
| `http_write` | 3 requests, bodies of 1 and 3 units, a file of 3 behind a header of 2, a bad request | 5 thousand | responses whole and in order, closing after the last byte, `EPOLLOUT` exactly when needed, each response completes |
| `file_service` | 2 workers, 1 user, 2 files of 2 contents, 2 requests, 2 pooled connections | 377 thousand | accounts are whole, listings (but where a name left during the listing) and files truthful, every request ends but for the three ways named in section 5 |
| `tcp_server` | pools of 0 and 2 threads, 2 connections sharing 1 fd, 2 bytes, a Buffer of 1, 2 replies | 246 thousand | no dangling channel; bytes in order, once, all read; an end of the process has its cause; a close completes; the server starts |
| `timer_queue` | 4 timers, timeouts 1 and 3, time to 4 | 2.3 million | the heap loses nothing under `Update`; nothing runs early; without `Update` the loop is on time |
| `timer_queue_overdue` | 4 timers of timeout 2 | – | `NoTimerOverdue` fails with `Update` |
| `async_log` | 2 loggers, 5 records, 2 per buffer, 2 starts | 186 thousand | order, no loss, no null or used spare buffer, a stop writes all, what is pending is honoured; refines `FifoLog` |
| `mysql_pool` | 4 threads, 2 connections | 2 thousand | one owner, none lost, no idle connection beside a sleeper |
| `thread_pool` | 3 workers, 2 callers, 4 tasks | 7 thousand | tasks start in order, each runs, the destructor drains and returns |

Type invariants are conjuncts of invariants above (`NoDanglingChannel`,
`BuffersInOrder`, `QueueIsExact`, `WaitsOnlyForRoom`, `OneOwner`,
`BufferIsQueue`, `AccountsAreWhole`, `TasksInOrder`) or, for `EventLoop`, proved.

Why the bounds are enough. Two callers give every overlap of two pushes and a
swap; a third adds no new kind of neighbour, and the proofs cover any number.
One fd for two connections is the smallest setting in which a late close can
hit a later connection. Four timers are the smallest heap with a node of one
child and a level that `pop` does not reach at once; two timeouts make an
update overtake another timer. Five records in buffers of two fill the current
and the next buffer and force a third one. Four threads on two connections
make a return meet two sleepers, or a sleeper and a newcomer, at once. A read buffer of
20 bytes is moved down, grown and filled up by one upload of about 50 symbols, and a
chunk of 16 makes every request longer than one read. Two workers on two files
and one user give every pair of requests on the same name; the state of the disk
before them is any one there may be. A pool of two threads takes the two
connections in turn, so that each has a loop of its own; in a pool of none the
main thread is the worker. A Buffer that takes one byte of two meets its limit or
not, by timing. Four tasks on three workers leave one in
the queue when the destructor comes, and a task can add the last one then.

`http_input` lets a piece end with a line or anywhere in a body. This is how a
browser's headers and bodies usually arrive, and it is the assumption without
which the code's parser is wrong: `http_input_split` removes it.

Deadlock is not checked where the system may stop: a loop that has quit, peers
and callers that do nothing more, a bound that is reached, a process that an
exception has ended.

### 3.1 Fairness

* A loop's thread keeps running (`WF` on its turn). `epoll_wait` is enabled
  only when it has something to return, or a timer, so nothing wakes a loop for
  free. Callers only finish a `QueueFunc` they began; nobody has to call it, no
  peer has to send and no signal has to arrive.
* `HttpLifecycle` lets a loop turn whenever it has functions, which is what
  `QueuedFuncRuns` and `WakeupTheorem` establish for `EventLoop`. Timers need
  not expire and peers need not act.
* `HttpInput` assumes that the loop's thread runs and that the client finishes
  what it began to send; without the second there is no request to answer.
* `HttpWrite` also assumes that the client keeps reading (the socket gets room)
  and that queued functions run.
* `FileService` assumes for each worker that its thread goes on with the request
  it has; requests need not come.
* `TcpServer` assumes that each thread runs: the main thread (`MainThread`)
  through the start, through `Establish` and its loop's turn, each other thread
  (`Thread`) through its start and its turn. The wait in `StartLoop` is
  left only by a notification. Peers need not act.
* `ThreadPool`: a worker that is not asleep runs, its tasks end, a notification
  that is due is made, the destructor once called goes on. Nothing wakes a
  sleeping worker but a notification or a spurious wakeup, which is not fair.
* The log's writer keeps running: its wait has a timeout of three seconds
  (AsyncLogging.cpp:81), so it needs no notification.

## 4. What is proved

Each theorem holds for every value of the constants that satisfies the
assumptions named in the modules: bounds are natural numbers, buffers and events
per poll positive; the null values (`NoConn`, `NullBuffer`) are no connection
and no buffer, and the threads of different roles are different; the sets of
threads and connections that are counted are finite. The bounds may be any
number, so that they restrict nothing. Each safety property and each safety
action property of the passing runs has its theorem, and both refinements have
theirs. `DeliveredTheorem` speaks of streams that are cut at the end of lines
or in bodies (`~CutAnywhere`): with other cuts the property is false of the code,
which is what the run `http_input_split` shows. `UrlEncodeTheorem` and
`MultipartTheorem` are about the conversions alone, for any text.

| Module | Theorems | Inductive invariant |
|---|---|---|
| `EventLoopProofs` | `TypeCorrect`, `WakeupTheorem`, `HandleReadTheorem`, `OrderTheorem` | `TypeOK`, `TurnInv` |
| | `QueueTheorem`, `NeverEarlyTheorem`, `OnTimeTheorem` of `TimerQueue` | `TimerInv` |
| `HttpLifecycleProofs` | `ChannelTheorem`, `EntryTheorem`, `ExpiryTheorem` | `LifeInv` |
| `HttpWriteProofs` | `ResponsesTheorem`, `RoomTheorem`, `CloseTheorem` | `WriteInv`, `ClosesByLast` |
| `FileServiceProofs` | `AccountsTheorem`, `PageTheorem`, `FileTheorem` | `ServiceInv` |
| `TcpServerProofs` | `ChannelTheorem`, `BytesTheorem`, `ThrowTheorem` | `ServerInv` |
| `HttpInputProofs` | `BufferTheorem`, `RefusedTheorem` | `InputInv` |
| | `DeliveredTheorem` | `InputInv`, `Progresses` |
| `HttpTextProofs` | `UrlEncodeTheorem`, `MultipartTheorem` of `FormCodec` | – |
| `MonitorProofs` | `OwnerTheorem`, `NoneIsLostTheorem`, `NotificationTheorem` of `MysqlPool` | `PoolInv` |
| | `TasksTheorem` of `ThreadPool` | `WorkInv` |
| | `OrderTheorem`, `StopTheorem`, `FifoTheorem` of `AsyncLogging` | `LogInv` |

All are proved the same way: a lemma for each action shows that it preserves the
invariant, often by way of lemmas about what groups of actions leave alone; a
lemma `...Invariant` collects them; a theorem draws the property from the
invariant, and action properties from a step that starts in it.

What a recursive function computes is proved by induction over numbers. The
library's induction theorems take a predicate as a parameter, which the provers
cannot instantiate; `WFMin`, that every set of numbers has a smallest element,
takes a set. Two lemmas turn it into what is needed: `Smallest` in
`HttpTextProofs` (with `Induction` and `RecursionExists`, which follow from it),
`SetInduction` in `EventLoopProofs`. They are used twice for
each recursive function: to show that a function satisfying the recursion exists,
without which its definition says nothing, and for what it computes.

### 4.1 Why the invariants are what they are

**EventLoop.** `NoLostWakeup` holds if no timer callback queues on its own loop
(`"timers" \notin OwnQueuePhases`, section 2.1). It is not inductive: a function
pushed by the loop's own callback is announced only because `m_callingTodoList`
is set exactly in phase `todo`, and a push in `dispatch` is taken by the swap
that follows. `TurnInv` states where the flag, the batch and the loop thread's
`pc` are in each phase. `HandleReadTheorem`: only the loop reads the eventfd,
once per batch. `OrderTheorem`: `executed \o todoListCopy \o m_todoList` is
always the numbers pushed so far.

**TimerQueue.** `HeldOnce` says that the array holds each queued timer at one
place. That push and pop preserve it whatever order `Update` has left follows from
`PushUpRearranges` and `SinkHoleRearranges`: each move of the hole is a
permutation of the places (`HoleMoves`), and no lemma on the way mentions a key.
For `NeverEarly` it is enough that the timer that is popped is the one that was
looked at, and that a timer is marked as deleted only by `ClearCallback` or when
it runs (`DeletedInv`). `OnTimeUnlessUpdated` needs the order (`OrderInv`): a timer
that is pushed up displaces only timers that expire later (`PushUpInOrder`), the
hole of a pop is filled by its earlier child down to a leaf (`SinkHoleInOrder`),
and the top of an array in order is the earliest (`TopIsEarliest`). `SleepInv`
then bounds the sleep by the top's expiry.

**HttpLifecycle.** A channel in epoll is alive because its connection is in the
map or has a `DestroyConnection` on its way (`EpollInv`), which takes it out of
epoll. For this to be preserved, `DestroyConnection` must not run before
`EstablishConnection`, which would put the channel back: both are on the list of
the connection's own loop, and `OrderInv` says that the first to name the
connection is `EstablishConnection`. An entry is erased only for its own
connection because fds of living connections differ (`FdInv`), and what is still
queued for a connection keeps it alive. `KindInv`: after a read error nothing is
read from the socket any more, which is what the exception in
`ExpiryRequestsClose` rests on.

**HttpInput.** `BufferTypeOK` keeps the indices in the vector and the vector
between its initial and its largest size. What the indices enclose is the same
after moving down and after growing (`RoomyKeeps`), so that an append, a retrieve
and a retrieve of all are the steps of `ByteQueue` (`AppendKeeps`,
`RetrieveKeeps`, `RetrieveAllKeeps`). A retrieve is only safe if the parser says it
consumed no more than it was given: `ParseKeeps`, from `FeedKeeps` for one byte, is
the part of the automaton that the buffer relies on (`RequestInv`). `RefusedTheorem`
is the arithmetic of `EnsureWritableBytes`: it fails only when moving makes no room
and growing would exceed the limit. For these two theorems streams may be any
sequences of bytes and the cuts anywhere in them.

`DeliveredTheorem` says what the bytes mean. Its argument has four layers.

* *Texts.* `Laid` says where the pieces of a concatenation end, `At` that a text
  stands at a position. `CodedIs`: decoding what was encoded character by
  character gives the text back; `UnescapeIs` the same for the entities.
  `FindFirst`, `FindSymbol` and `FindWithin` say where the first delimiter is, so
  that a form, a query and a multipart body come apart where they were put
  together.
* *The automaton.* `Parse` is a chain of requests, one for each byte (`Chain`,
  `ChainOfParse`). A lemma for each kind of line says how the chain goes along it
  and where `m_parseStart` and `m_end` are afterwards (`RequestLineRead`,
  `HeaderLineRead`, `LinesRead`, `EmptyLineRead`, `BodyRead`, and `BadLineRead` for
  those that end in an error).
* *A request.* `WishFramed`: what a browser makes of a wish is `Framed`, lines of
  known form, the ends of which are the only cuts in its head, and the request
  they hold is understood as it was meant. `MessageParsed` says, of an automaton
  that waits between two lines or in the body (`RestAt`), what one `Parse` of the
  bytes in the buffer returns: it waits further on, has the whole request,
  whatever follows in the buffer, or has the error the request deserves.
* *The conversation.* `Talk` places the requests in the stream. `Progress` is the
  invariant: the answers up to the first error are right; as long as there was
  none, the requests answered are exactly what has been taken out of the buffer
  with a first part of the next one, the automaton waits there, and the buffer
  holds the bytes of the stream that follow; what is sent, and what is read when
  `Parse` is called, ends at a cut. `InputInv` is needed beside it, for the
  indices. `DeliveredNow` draws the property from both.

`Progresses` speaks of all streams of all conversations and is not evaluated by
TLC, which checks `DeliveredAsSent` itself on the run `http_input`.

**HttpWrite.** `WireInv` says that the wire ends inside the last response or at
the end of the one before; `BufferInv` and `FileInv` that the output buffer and
the open file continue exactly where the wire ends. `BrokenInv` and `OutInv` are
needed for the error exits and for `EPOLLOUT`. The theorems assume
`~Pipelining`, and `CloseTheorem` also that no response that closes has a file.
These are not artefacts: without them the properties are false of the code
(HttpConnect.cpp:221 and :230, section 5). The second is an assumption on
`Responses` that the run `http_write` satisfies.

**FileService.** A worker's answer is truthful because what it has seen so far is
in `held`, `seen` or `always` (`HeldInv`, `ListInv`), and a step of another
worker only adds to the first two and removes from the third what has changed
(`OtherKept`). `KindInv` ties the next call to the kind of request. For the accounts
the order matters in which a row, its directory and its answer appear
(`AccountInv`): "saved once" is proved under `NamesAreUnique`, as stated in the
property, and an account without a directory needs a registration at
`create_directory` or a user in `dropped`. What a listing has left out is a name
that is gone or, once one has gone (`thinned`), any (`ListInv`). `PoolInv` counts the connections in the pool and those of the workers.

**TcpServer.** As `LifeInv`, with the main thread in the middle of `Establish`
as a third holder: a connection is alive because the map holds it, a queued
function, or a guard on a thread's stack (`TaskInv`, the variable
`connectionPtr` or the locked tie). While it is being established its destruction cannot be
queued, although its close may be requested; it is destroyed on its own loop and
after it left the map. A destroyed connection is in the map only if it is in
`early`. `BytesInOrder` is inductive only with the bytes read so far and with the
replies half sent (`WriteInv`): as long as the process has not ended at most one
thread is in `Send` for a connection (`WriterInv`), and the end of what the peer
got is the part of the reply that this one has written. `ThrowTheorem` needs
that a `Closed` connection that is still in epoll, or closed early, has a dead
socket, and that the only handlers of one connection on two threads are the
connect callback and the message callback.

**AsyncLogging.** `BuffersInOrder` says that the file, the writer's buffers, the
full ones and the current one together are the records 1..n. `Append` adds at the end, the
swap and the write move the boundaries. `CountInv` (the counter that ends the
thread's loop is zero only for an empty list) and `OwnerInv` (a log that is
running has its thread) are needed for `StopTheorem`, `StopInv` being what it
says between the steps of `Stop`. `FifoTheorem` is the refinement: each step
under the invariant is a step of `FifoLog` or a stutter.

**MysqlPool.** `NoIdleConnWhileAsleep` counts: the idle connections are no more
than the threads that were woken, as long as a thread sleeps. `PushPooled`,
`PopPooled` and `AwakeCount` do the arithmetic. `RoomForReturn`: the pool has
room for what comes back because `m_poolSize` counts all connections and the one
that comes back is not idle.

**ThreadPool.** The tasks taken and those in the queue are the accepted ones in
order (`QueueInv`); one that was taken is running or has ended (`RunInv`); a
worker ends only if the pool is stopped and the queue empty, after which nothing
is added (`ExitInv`).

### 4.2 What the proofs found

Four things held in the instances that were checked and were wrong:

* `NoIdleConnWhileAsleep` does not hold between the two steps of `Shutdown`,
  the flag and the `notify_all`: the property now speaks of a pool whose
  `notify_all`, once the flag is set, has been made.
* `TasksInOrder` says of a destructor that has returned that every task has
  ended. This needs a worker: the constructor accepts a size of 0, although its
  own text asks for more, and then nothing runs. The hypothesis `Workers # {}`
  is in the property, and section 5 lists the case.
* `FileAsStored` failed with three workers: a GET has opened the file, an upload
  writes into it, and a delete of the name comes between. The answer is correct,
  the recorder was not: `held` now follows the open descriptor.
* `Feed` was a `CASE` whose first guard, the parser that has failed, overlapped
  the others. TLC takes the first; TLA+ lets `CASE` take any. The guard is now an
  `IF` around the `CASE`.

Some definitions were put into a form that can be reasoned about: `push_heap` and
`pop_heap` are now the recursion that the library's loops are, where before the
positions on the hole's way were listed by powers of two; a form is read by the
recursion over `find` that its loop is, where before it was split at all
ampersands first.

### 4.3 What is only model-checked

* Liveness, in every module: it rests on fairness, which is beyond the prover
  (`QueuedFuncRuns`, `QuitEndsAwakeLoop`, `CloseCompletes` twice,
  `RecordsAreWritten`, `PendingRequestHonoured`, `ResponseCompletes`,
  `EveryRequestAnswered`, `RequestsEnd`, `InputIsRead`, `ServerStarts`,
  `WorkEnds`).
* `NoTimerOverdue` and `DeliveredAsSent` under arbitrary cuts are false and have
  their runs (section 5); `LogStream` is compared with reference definitions.

## 5. Where code and text disagree, and what the models show

Two disagreements have a run:

* `Timer::Update` changes a key inside the heap; the loop can sleep past other
  timers (Timer.cpp:20, `timer_queue_overdue`). All timers of the server have
  the same timeout, and each request updates one, so this is the normal case
  under load.
* A piece of the stream that ends inside of a line is fed to the parser twice,
  from the beginning of the buffer and in the state the automaton has reached
  (HttpRequest.cpp:14, `http_input_split`), against the comment of
  HttpConnect.cpp:185, which promises that partial requests are supported.

Eight more can be seen by a configuration that differs from a passing one as
stated:

| What | Configuration |
|---|---|
| `quit()` sets a flag and does not write the eventfd: a loop in `epoll_wait` stays there, and `~EventLoopThread` joins for ever (EventLoop.cpp:39) | `EventLoop_Multi.cfg` with the property `QuitEndsLoop` |
| A read error sets `m_state = Closed` without closing, and every later `HandleClose`, the timer's too, returns at once (HttpConnect.cpp:268) | `HttpLifecycle_Multi.cfg` with `ExpiryCloses` |
| An answer to a pipelined request is written into the file that is being sent (HttpConnect.cpp:221) | `HttpWrite_Order.cfg` with `Pipelining = TRUE`, `Responses <- Pipelined` |
| `SendFile` with `m_closeAfterWrite` closes after the header (HttpConnect.cpp:230) | `HttpWrite_Order.cfg` with `Responses <- ClosedAfterFile` |
| A flush request that arrives between the swap and the reset of the flag is lost (AsyncLogging.cpp:106) | `AsyncLogging_Safe.cfg` with `FlushRequestHonoured` |
| In a listing, one `file_size` that fails ends the loop at the next entry, and names that were there all the time are missing (HttpServer.cpp:156-169) | `FileService.cfg` with the invariant `PageIsComplete` |
| What a connect callback's failed `Send` closes is erased before it is inserted, and stays in the map of a TcpServer (Connection.cpp:36, Server.cpp:63-64) | `TcpServer.cfg` with `ClosedStaysOut` |
| A connect callback that sends on the main thread and a message callback that sends on the connection's loop share `m_writeBuffer` without a lock (Connection.cpp:36, 57) | `TcpServer.cfg` with `NoSendRace` |

Where a property of a passing run has an exception, the exception is code
behaviour the model shows:

* Reading. A request without any header line is answered 400. A header with an
  empty value takes the next line as its value. A POST without `Content-Length`
  is answered only (with 400) when more bytes come. Whether an upload that is
  too large gets 403 depends on timing, since body bytes leave the buffer as
  they are parsed. A `Content-Length` that is no number ends the process
  (HttpRequest.cpp:219).
* Files. The link of a file whose name has a `%` or a `?` does not lead to it.
  A short upload is written when the `ofstream` closes, after the 200: a listing
  in between shows size 0, and an error is not noticed. A large download says
  `Connection: close` and the connection stays open. A GET of a file that has
  vanished since `exists` gets the length of −1, and so does one of a
  directory; `file_size` of a download throws for a vanished file and for a
  directory (HttpServer.cpp:772), as an empty path is; a `sendfile` of a file that
  has shrunk never ends (HttpConnect.cpp:295); `create_directory` throws when the
  directory of a new user cannot be made, for a name with a missing parent for
  example (HttpServer.cpp:1198): `RequestsEnd` names these. A HEAD of a large file
  sends the body. A delete with an empty path removes an empty user directory.
* Accounts. A process that ends between the INSERT and `create_directory`
  leaves an account without a directory. Two loops can both find a name free
  (HttpServer.cpp:1179): only the table's key keeps the second row out, and the
  table's definition is not in the repository, which is why `AccountsAreWhole`
  says "saved once" under `NamesAreUnique`.
* TCP. A connection drops what the socket does not take at once, where a comment
  says it is to be retried. A read error leaves the connection in the map and in
  epoll; its next event, or a `Send`, throws and ends the process. More input at
  once than a Buffer takes (64 MB) throws `length_error`, which nothing catches
  (Connection.cpp:111, Buffer.cpp:144). A write to a peer that has reset the
  connection may raise SIGPIPE, which is never ignored. `CrashHasCause` says that
  it is nothing else, but for the race above and a failed `accept`, which throws
  out of the main loop.
* Log. The flush every three seconds needs traffic (LogFile.cpp:78). A FATAL
  record may be lost: the flush before `abort` is only a request. A record that
  fills the buffer loses its end of line, and a number that does not find 32
  bytes is left out whole. With no file that can be opened records are dropped.
* Waiting. A thread in `Borrow` is not released by a shutdown
  (SqlConnPool.cpp:120). A pool of no threads accepts tasks and never runs them.
* `m_fileFd` stays open when a connection ends in the middle of a file
  (HttpConnect.cpp:115).

## 6. What is not modelled, and the plan

Every safety property of a passing run has its theorem, and nothing of the plan
is left but what the prover does not reach (4.3).

Not modelled, and why:

* the data race on the static `curKey` and `curValue` of two parsers
  (HttpRequest.cpp:188) and the torn read of a file that is being written:
  undefined or unpromised results, with no state a property could speak of;
* the text of the pages, `FormatFileSize`, the MIME table, time stamps and the
  names of the log files: formatting;
* the normalisation of paths (`std::filesystem`), the MySQL library, the wrappers
  `Socket` and `InetAddress`: external code or one system call each;
* SIGPIPE in HttpConnect (HttpConnect.cpp:276, 294): `HttpWrite` goes on after
  every error of `write` and `sendfile` with the close. Its properties speak of
  what was written before; where the signal comes, no step follows and the
  answers it leaves open are those of a connection that is lost;
* an `fwrite` that returns 0, after which `LogFile::Write` goes on for ever
  (LogFile.cpp:71-73): a full disk stops the log, and `RecordsAreWritten` takes
  every write to get somewhere;
* several requests answered in one read callback in `HttpLifecycle`: its
  `HandleRequest` has one outcome for each, that of the last; their order is in
  `HttpInput`, their bytes in `HttpWrite`;
* user names with a separator, and directories below a user's own: the first
  only occurs in a registration that fails in `create_directory`;
* a reply of more than 64 MB, and the throwing overloads of `std::filesystem`
  where only an I/O error makes them fail;
* an INSERT that reports failure after having changed the table, and a `Send`
  of a string with a NUL, which `c_str` cuts: data the models do not tell apart;
* `Logger::setOutput` and `setFlush`, the three-argument `SetEvents`, the
  destructor and join of `EventLoopThread`: called once at the start, unused, or
  reached by no server;
* a task of the ThreadPool that waits for the future of another one, which can
  block all workers: a use of the class that the repository does not make;
* the base utilities, the programs, examples, tests and load scripts, which only
  use the parts above.

In `TcpConnection` the tie is set by the main thread while the worker may read
it, without synchronisation; `TcpServer` takes the write and the flag as atomic
and in program order, as on x86.

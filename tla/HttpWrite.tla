------------------------------ MODULE HttpWrite ------------------------------
(***************************************************************************)
(* How one HttpConnect writes its responses (http/HttpConnect.cpp:133,      *)
(* 189-240, 274-322), on the thread of its loop: Send appends to the write  *)
(* buffer and calls WriteNonBlocking, SendFile sends a header and then the  *)
(* file with sendfile, and what the socket does not take waits for          *)
(* EPOLLOUT.  A step is one system call.                                    *)
(*                                                                          *)
(* Bytes come in units: response r is the units <<r, 1>>, <<r, 2>>, ...     *)
(* The kernel takes one unit per call and says EAGAIN when the socket has   *)
(* no room; the client makes room again.  EPOLLOUT is edge-triggered.       *)
(***************************************************************************)
EXTENDS Integers, Sequences

CONSTANTS
  Responses,   \* what a request may be answered with: records of the units in
               \* the write buffer (head) and in the file (file), whether the
               \* connection closes after it (close), and whether the request
               \* did not parse (bad)
  Pipelining,  \* whether the client sends a request before it has the answer
               \* to the one before
  MaxRequests  \* bound

ASSUME ResponsesAssumption ==
  Responses \subseteq [head : Nat \ {0}, file : Nat, close : BOOLEAN, bad : BOOLEAN]
ASSUME BoundAssumption == MaxRequests \in Nat /\ Pipelining \in BOOLEAN

VARIABLES
  answers,            \* the responses so far
  m_writeBuffer,
  m_fileFd,           \* the response whose file is open; 0 for -1
  m_fileOffset,
  m_fileRemain,
  m_closeAfterWrite,
  m_state,
  openFiles,          \* the descriptors SendFile has opened and nobody closed
  out,                \* EPOLLOUT is among the channel's events
  edge,               \* epoll has an EPOLLOUT to report as soon as there is room
  room,               \* the socket takes at least one unit
  broken,             \* the socket has failed, and fails from now on
  wire,               \* what the socket has taken
  pc,                 \* "idle" in the loop, "header" and "write" in
                      \* WriteNonBlocking, "open" in SendFile after the header
  closing,            \* HandleClose has asked for the destruction
  registered,         \* DestroyConnection has not run yet
  cut                 \* the client has gone or the timer has expired

fileVars == <<m_fileFd, m_fileOffset, m_fileRemain, openFiles>>
epollVars == <<out, edge>>
socketVars == <<room, broken, wire>>
stateVars == <<m_state, closing, registered, cut>>
vars == <<answers, m_writeBuffer, fileVars, m_closeAfterWrite, epollVars,
          socketVars, stateVars, pc>>

Size(r) == answers[r].head + answers[r].file

TypeOK ==
  /\ answers \in Seq([head : Nat, file : Nat, close : BOOLEAN, bad : BOOLEAN])
  /\ m_writeBuffer \in Seq(Nat \X Nat) /\ wire \in Seq(Nat \X Nat)
  /\ m_fileFd \in 0..Len(answers) /\ openFiles \subseteq 1..Len(answers)
  /\ m_fileOffset \in Nat /\ m_fileRemain \in Nat
  /\ m_state \in {"Connected", "Failed", "Closed"}
  /\ pc \in {"idle", "header", "open", "write"}
  /\ m_closeAfterWrite \in BOOLEAN /\ out \in BOOLEAN /\ edge \in BOOLEAN
  /\ room \in BOOLEAN /\ broken \in BOOLEAN
  /\ closing \in BOOLEAN /\ registered \in BOOLEAN /\ cut \in BOOLEAN

Init ==
  /\ answers = <<>> /\ m_writeBuffer = <<>>
  /\ m_fileFd = 0 /\ m_fileOffset = 0 /\ m_fileRemain = 0 /\ openFiles = {}
  /\ m_closeAfterWrite = FALSE /\ m_state = "Connected"
  /\ out = FALSE /\ edge = FALSE /\ room = TRUE /\ broken = FALSE /\ wire = <<>>
  /\ pc = "idle" /\ closing = FALSE /\ registered = TRUE /\ cut = FALSE

\* Everything the last response promised is on the wire.
Complete ==
  answers = <<>> \/
  (wire # <<>> /\ wire[Len(wire)] = <<Len(answers), Size(Len(answers))>>)

\* What a client without pipelining waits for.
MayAsk ==
  Pipelining \/ (Complete /\ \A r \in 1..Len(answers) : ~answers[r].close)

\* HandleClose: nothing for a connection that is already closed.
HandleClose == closing' = (closing \/ m_state # "Closed")

(***************************************************************************)
(* Handlers.                                                                *)
(***************************************************************************)

\* HandleRequest has a request, or one that does not parse: the handler sets
\* m_closeAfterWrite and calls Send or SendFile, or HandleError does.
HandleRequest(a) ==
  /\ pc = "idle" /\ registered /\ Len(answers) < MaxRequests /\ MayAsk
  /\ answers' = Append(answers, a)
  /\ m_writeBuffer' = m_writeBuffer \o [i \in 1..a.head |-> <<Len(answers) + 1, i>>]
  /\ m_closeAfterWrite' = (m_closeAfterWrite \/ a.close)
  /\ m_state' = IF a.bad THEN "Failed" ELSE m_state
  /\ pc' = IF a.file > 0 THEN "header" ELSE "write"
  /\ UNCHANGED <<fileVars, epollVars, socketVars, closing, registered, cut>>

\* SendFile after the header: open succeeds.  A descriptor in m_fileFd is
\* overwritten.
OpenFile ==
  /\ pc = "open"
  /\ m_fileFd' = Len(answers) /\ openFiles' = openFiles \cup {Len(answers)}
  /\ m_fileOffset' = 0
  /\ m_fileRemain' = answers[Len(answers)].file
  /\ pc' = "write"
  /\ UNCHANGED <<answers, m_writeBuffer, m_closeAfterWrite, epollVars, socketVars,
                 stateVars>>

\* open fails: the page of HandleError follows the header.
OpenFails ==
  /\ pc = "open"
  /\ answers' = [answers EXCEPT ![Len(answers)].file = 0,
                                ![Len(answers)].close = TRUE,
                                ![Len(answers)].head = @ + 1]
  /\ m_writeBuffer' = Append(m_writeBuffer,
                             <<Len(answers), answers[Len(answers)].head + 1>>)
  /\ m_closeAfterWrite' = TRUE
  /\ m_fileFd' = 0
  /\ pc' = "write"
  /\ UNCHANGED <<m_fileOffset, m_fileRemain, openFiles, epollVars, socketVars,
                 stateVars>>

\* The channel's write callback.
Write ==
  /\ pc = "idle" /\ registered /\ out /\ edge /\ (room \/ broken)
  /\ edge' = FALSE
  /\ pc' = IF m_state = "Closed" THEN "idle" ELSE "write"
  /\ UNCHANGED <<answers, m_writeBuffer, fileVars, m_closeAfterWrite, out,
                 socketVars, stateVars>>

(***************************************************************************)
(* WriteNonBlocking.                                                        *)
(***************************************************************************)
Writing == pc \in {"header", "write"}

\* WriteNonBlocking returns, to SendFile or to the loop.
Return == pc' = IF pc = "header" THEN "open" ELSE "idle"

\* The write buffer is sent first, then the file.
BufferIsEmpty == m_writeBuffer = <<>>

FileIsNext == BufferIsEmpty /\ m_fileFd # 0 /\ m_fileRemain > 0

\* Mutant: a short write is not taken off the buffer.
SentAgain == m_writeBuffer

Retrieved == Tail(m_writeBuffer)

WriteUnit ==
  /\ Writing /\ ~BufferIsEmpty /\ room /\ ~broken
  /\ wire' = Append(wire, Head(m_writeBuffer))
  /\ m_writeBuffer' = Retrieved
  /\ room' \in BOOLEAN
  /\ UNCHANGED <<broken, answers, fileVars, m_closeAfterWrite, epollVars, stateVars, pc>>

SendfileUnit ==
  /\ Writing /\ FileIsNext /\ room /\ ~broken
  /\ wire' = Append(wire, <<m_fileFd, answers[m_fileFd].head + m_fileOffset + 1>>)
  /\ m_fileOffset' = m_fileOffset + 1
  /\ m_fileRemain' = m_fileRemain - 1
  /\ room' \in BOOLEAN
  /\ UNCHANGED <<broken, answers, m_writeBuffer, m_fileFd, openFiles, m_closeAfterWrite,
                 epollVars, stateVars, pc>>

\* Mutant: EPOLLOUT is not asked for.
JustReturn == UNCHANGED epollVars

\* EPOLL_CTL_MOD makes epoll look at the socket again.
EnableWrite == out' = TRUE /\ edge' = TRUE

\* Mutant: a connection that is to close does not wait for room.
CloseForRoom ==
  /\ Writing /\ (~BufferIsEmpty \/ FileIsNext) /\ ~room /\ ~broken
  /\ room' \in BOOLEAN
  /\ EnableWrite
  /\ IF m_closeAfterWrite THEN HandleClose ELSE UNCHANGED closing
  /\ Return
  /\ UNCHANGED <<answers, m_writeBuffer, fileVars, m_closeAfterWrite, broken, wire,
                 m_state, registered, cut>>

\* EAGAIN, from write or from sendfile, and EnableWrite.  There may be room again
\* between the two.
WaitForRoom ==
  /\ Writing /\ (~BufferIsEmpty \/ FileIsNext) /\ ~room /\ ~broken
  /\ room' \in BOOLEAN
  /\ EnableWrite
  /\ Return
  /\ UNCHANGED <<answers, m_writeBuffer, fileVars, m_closeAfterWrite, broken, wire,
                 stateVars>>

\* Another error, from write or from sendfile, which closes the file.
WriteError ==
  /\ Writing /\ (~BufferIsEmpty \/ FileIsNext)
  /\ cut' = TRUE /\ broken' = TRUE
  /\ IF FileIsNext THEN m_fileFd' = 0 /\ openFiles' = openFiles \ {m_fileFd}
                   ELSE UNCHANGED <<m_fileFd, openFiles>>
  /\ HandleClose
  /\ Return
  /\ UNCHANGED <<answers, m_writeBuffer, m_fileOffset, m_fileRemain,
                 m_closeAfterWrite, epollVars, room, wire, m_state, registered>>

CloseFile == m_fileFd' = 0 /\ openFiles' = openFiles \ {m_fileFd}

\* Mutant: EPOLLOUT stays set.
StayEnabled == UNCHANGED out

DisableWrite == out' = FALSE

\* Everything is written.
EndWrite ==
  /\ Writing /\ BufferIsEmpty /\ ~FileIsNext
  /\ IF m_fileFd # 0 THEN CloseFile ELSE UNCHANGED <<m_fileFd, openFiles>>
  /\ DisableWrite
  /\ IF m_closeAfterWrite THEN HandleClose ELSE UNCHANGED closing
  /\ Return
  /\ UNCHANGED <<answers, m_writeBuffer, m_fileOffset, m_fileRemain,
                 m_closeAfterWrite, edge, socketVars, m_state, registered, cut>>

(***************************************************************************)
(* The client, the timer, and the loop's queued DestroyConnection.          *)
(***************************************************************************)
MakeRoom ==
  /\ ~room /\ ~broken /\ registered
  /\ room' = TRUE /\ edge' = (edge \/ out)
  /\ UNCHANGED <<answers, m_writeBuffer, fileVars, m_closeAfterWrite, out, broken,
                 wire, stateVars, pc>>

\* The end of the client's stream, or the timer expires.
CutOff ==
  /\ pc = "idle" /\ registered /\ ~cut
  /\ cut' = TRUE
  /\ HandleClose
  /\ UNCHANGED <<answers, m_writeBuffer, fileVars, m_closeAfterWrite, epollVars,
                 socketVars, m_state, registered, pc>>

\* ReadNonBlocking meets another error.
ReadError ==
  /\ pc = "idle" /\ registered /\ ~cut
  /\ cut' = TRUE
  /\ m_state' = "Closed"
  /\ UNCHANGED <<answers, m_writeBuffer, fileVars, m_closeAfterWrite, epollVars,
                 socketVars, closing, registered, pc>>

DestroyConnection ==
  /\ pc = "idle" /\ closing /\ registered
  /\ registered' = FALSE
  /\ out' = FALSE
  /\ m_state' = "Closed"
  /\ UNCHANGED <<answers, m_writeBuffer, fileVars, m_closeAfterWrite, edge,
                 socketVars, closing, cut, pc>>

Thread == OpenFile \/ OpenFails \/ WriteUnit \/ SendfileUnit \/ WaitForRoom
          \/ WriteError \/ EndWrite

Next ==
  \/ \E a \in Responses : HandleRequest(a)
  \/ OpenFile \/ OpenFails \/ Write
  \/ WriteUnit \/ SendfileUnit \/ WaitForRoom \/ WriteError \/ EndWrite
  \/ MakeRoom \/ CutOff \/ ReadError \/ DestroyConnection

Spec == Init /\ [][Next]_vars

\* The loop's thread keeps running, the loop reports events and runs what is
\* queued, and the client keeps reading.
Fairness ==
  /\ WF_vars(Thread) /\ WF_vars(Write) /\ WF_vars(DestroyConnection)
  /\ WF_vars(MakeRoom)

LiveSpec == Spec /\ Fairness

(***************************************************************************)
(* Properties.                                                              *)
(***************************************************************************)

\* The unit that follows u on the wire.
Following(u) == IF u[2] < Size(u[1]) THEN <<u[1], u[2] + 1>> ELSE <<u[1] + 1, 1>>

\* The client reads the responses in the order of its requests, each one
\* whole before the next begins: short writes, EAGAIN in the header or in the
\* file and failed opens lose, repeat and mix nothing.
ResponsesInOrder ==
  /\ wire # <<>> => wire[1] = <<1, 1>>
  /\ \A i \in 1..Len(wire) - 1 : wire[i + 1] = Following(wire[i])

\* A connection that ends although the client is still there and the timer has
\* not expired ends after its last response.
CloseAfterWrite == ~registered /\ ~cut => Complete

\* Between two events EPOLLOUT is watched exactly while something waits to be
\* written, since watching it without need makes the loop spin, and the only
\* descriptor left open is that of the file being sent (HttpConnect.cpp:313-318).
WaitsOnlyForRoom ==
  /\ TypeOK
  /\ (pc = "idle" /\ registered /\ ~cut) =>
       /\ out <=> (~BufferIsEmpty \/ FileIsNext)
       /\ openFiles = {f \in {m_fileFd} : m_fileRemain > 0}

\* Every response reaches the socket, whole, unless the client or the timer
\* ends the connection: no edge of EPOLLOUT is missed.
ResponseCompletes == answers # <<>> ~> (Complete \/ cut)
==============================================================================

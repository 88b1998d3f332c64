------------------------------ MODULE MCHttpWrite ------------------------------
(* Small instances of HttpWrite. *)
EXTENDS HttpWrite

Body(n, close) == [head |-> n, file |-> 0, close |-> close, bad |-> FALSE]
FileOf(n, close) == [head |-> 2, file |-> n, close |-> close, bad |-> FALSE]
BadRequest == [head |-> 1, file |-> 0, close |-> TRUE, bad |-> TRUE]

\* A small file is read into the body; a large one is sent, here by a
\* connection that stays open.
KeptOpen == {Body(1, FALSE), Body(3, TRUE), FileOf(3, FALSE), BadRequest}
Pipelined == {Body(1, FALSE), FileOf(2, FALSE)}
ClosedAfterFile == {FileOf(2, TRUE)}
==============================================================================

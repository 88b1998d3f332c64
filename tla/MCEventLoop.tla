----------------------------- MODULE MCEventLoop -----------------------------
(* Small instances of EventLoop. *)
EXTENDS EventLoop, TLC

CONSTANTS c1, c2, ch1

MCCallers == {c1, c2}
MCChannels == {ch1}

\* The callbacks of a loop beside others queue on their own loop only while
\* events are dispatched or functions run: a timer's HandleClose goes to the
\* main loop.
OwnQueueMulti == {"dispatch", "todo"}
==============================================================================

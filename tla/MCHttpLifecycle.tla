--------------------------- MODULE MCHttpLifecycle ---------------------------
(* Small instances of HttpLifecycle. *)
EXTENDS HttpLifecycle, TLC

CONSTANTS k1, k2, w1

MCConns == {k1, k2}
MCSubLoops == {w1}
==============================================================================

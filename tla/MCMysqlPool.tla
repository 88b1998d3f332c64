------------------------------ MODULE MCMysqlPool ------------------------------
(* Small instances of MysqlPool. *)
EXTENDS MysqlPool

CONSTANTS t1, t2, t3, t4, c1, c2

FourThreads == {t1, t2, t3, t4}
TwoConns == {c1, c2}
==============================================================================

------------------------------- MODULE FifoLog -------------------------------
(* What the log promises: records are accepted in some order, and the file    *)
(* holds them in that order, without gaps, some time later.                   *)
EXTENDS Naturals, Sequences

CONSTANT Records

VARIABLES
  accepted,  \* the records accepted so far
  file       \* the records in the file

vars == <<accepted, file>>

Init == accepted = <<>> /\ file = <<>>

Accept(r) == accepted' = Append(accepted, r) /\ UNCHANGED file

\* Any number of accepted records is written at once.
Write ==
  /\ \E n \in Len(file) + 1..Len(accepted) : file' = SubSeq(accepted, 1, n)
  /\ UNCHANGED accepted

Next == (\E r \in Records : Accept(r)) \/ Write

Spec == Init /\ [][Next]_vars
==============================================================================

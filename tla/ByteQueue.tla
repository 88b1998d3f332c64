------------------------------ MODULE ByteQueue ------------------------------
(***************************************************************************)
(* What a Buffer promises its users: the bytes appended to it come out      *)
(* again in the same order, none of them twice and none of them changed.    *)
(***************************************************************************)
EXTENDS Naturals, Sequences

VARIABLES
  received,   \* all that was ever appended
  content     \* what is still to be taken

Init == received = <<>> /\ content = <<>>

Put ==
  /\ Len(received') >= Len(received)
  /\ SubSeq(received', 1, Len(received)) = received
  /\ content' = content \o SubSeq(received', Len(received) + 1, Len(received'))

Take ==
  /\ \E n \in 0..Len(content) : content' = SubSeq(content, n + 1, Len(content))
  /\ UNCHANGED received

Spec == Init /\ [][Put \/ Take]_<<received, content>>
==============================================================================

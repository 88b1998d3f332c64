-------------------------------- MODULE Buffer --------------------------------
(***************************************************************************)
(* Buffer (tcp/Buffer.cpp): a read and a write index over a vector, which   *)
(* is compacted or made larger when the writable part at its end is too     *)
(* short.  Position p of the vector, counted from 0 in the code, is         *)
(* m_buffer[p + 1]; what has not been written yet is Zero.                  *)
(***************************************************************************)
EXTENDS Naturals, Sequences

CONSTANTS
  Bytes, Zero,
  kInitialSize, kMaxSize, kPrePendIndex

ASSUME ZeroAssumption == Zero \in Bytes
ASSUME SizesAssumption ==
  /\ kPrePendIndex \in Nat /\ kInitialSize \in Nat /\ kMaxSize \in Nat
  /\ kPrePendIndex <= kInitialSize /\ kInitialSize <= kMaxSize

VARIABLES m_buffer, m_readIndex, m_writeIndex

bufferVars == <<m_buffer, m_readIndex, m_writeIndex>>

Zeros(n) == [p \in 1..n |-> Zero]

BufferTypeOK ==
  /\ m_buffer \in Seq(Bytes)
  /\ m_readIndex \in kPrePendIndex..m_writeIndex
  /\ m_writeIndex \in kPrePendIndex..Len(m_buffer)
  /\ Len(m_buffer) \in kInitialSize..kMaxSize

BufferInit ==
  /\ m_buffer = Zeros(kInitialSize)
  /\ m_readIndex = kPrePendIndex
  /\ m_writeIndex = kPrePendIndex

ReadableBytes == m_writeIndex - m_readIndex
WritableBytes == Len(m_buffer) - m_writeIndex
PrependableBytes == m_readIndex

\* Peek, PeekString: the bytes between the indices.
PeekString == [p \in 1..ReadableBytes |-> m_buffer[m_readIndex + p]]

(***************************************************************************)
(* EnsureWritableBytes(len).                                                *)
(***************************************************************************)

HasRoom(len) == WritableBytes >= len

\* Mutant: the bytes are never moved.
NeverMoves(len) == FALSE

MovingMakesRoom(len) == PrependableBytes + WritableBytes - kPrePendIndex >= len

\* The vector cannot become as long as the append needs it: length_error.
Throws(len) ==
  /\ ~HasRoom(len) /\ ~MovingMakesRoom(len)
  /\ m_writeIndex + len > kMaxSize

\* Mutant: the indices are moved and the bytes are not.
NothingMoved == m_buffer

\* The vector after the memmove.
Moved ==
  [p \in 1..Len(m_buffer) |->
     IF p > kPrePendIndex /\ p <= kPrePendIndex + ReadableBytes
     THEN m_buffer[m_readIndex + p - kPrePendIndex]
     ELSE m_buffer[p]]

\* The vector and the indices after EnsureWritableBytes.
Roomy(len) ==
  IF HasRoom(len)
  THEN [vector |-> m_buffer, read |-> m_readIndex, write |-> m_writeIndex]
  ELSE IF MovingMakesRoom(len)
  THEN [vector |-> Moved, read |-> kPrePendIndex, write |-> kPrePendIndex + ReadableBytes]
  ELSE [vector |-> m_buffer \o Zeros(m_writeIndex + len - Len(m_buffer)),
        read |-> m_readIndex, write |-> m_writeIndex]

(***************************************************************************)
(* The operations.                                                          *)
(***************************************************************************)
AppendBytes(message) ==
  LET roomy == Roomy(Len(message)) IN
  /\ ~Throws(Len(message))
  /\ m_buffer' = [p \in 1..Len(roomy.vector) |->
                    IF p > roomy.write /\ p <= roomy.write + Len(message)
                    THEN message[p - roomy.write] ELSE roomy.vector[p]]
  /\ m_readIndex' = roomy.read
  /\ m_writeIndex' = roomy.write + Len(message)

RetrieveAll ==
  /\ m_readIndex' = kPrePendIndex
  /\ m_writeIndex' = kPrePendIndex
  /\ UNCHANGED m_buffer

\* RetrieveUntil: without a reset of the indices.
RetrieveUntil(len) ==
  /\ len <= ReadableBytes
  /\ m_readIndex' = m_readIndex + len
  /\ UNCHANGED <<m_buffer, m_writeIndex>>

\* Retrieve: out_of_range, which no caller meets, for more than there is.
Retrieve(len) ==
  /\ len <= ReadableBytes
  /\ IF len < ReadableBytes THEN RetrieveUntil(len) ELSE RetrieveAll
==============================================================================

--------------------------- MODULE HttpInputProofs ---------------------------
(***************************************************************************)
(* Theorems about HttpInput, for every set of conversations and every size *)
(* of the read buffer, of its limit and of a read.                         *)
(***************************************************************************)
EXTENDS HttpTextProofs

(***************************************************************************)
(* The automaton.  A recursive function on 0..n is what its definition says*)
(* because there is no smallest k up to which it is not defined.           *)
(***************************************************************************)

\* What the parser makes of the first k bytes of s.
Fed(r, s, k, g) ==
  g = [i \in 0..k |->
         IF i = 0 THEN Restarted(r) ELSE CHOOSE q \in {Feed(p, s, i) : p \in {g[i - 1]}} : TRUE]

LEMMA FedExists ==
  ASSUME NEW r, NEW s, NEW n \in Nat
  PROVE  \E g : Fed(r, s, n, g)
<1> DEFINE T == {k \in Nat : ~\E g : Fed(r, s, k, g)}
<1> SUFFICES ASSUME T # {} PROVE FALSE
  OBVIOUS
<1>1. PICK k \in T : \A m \in T : k <= m
  BY Smallest, T \subseteq Nat
<1>2. k # 0
  <2>1. Fed(r, s, 0, [i \in 0..0 |-> Restarted(r)])
    BY DEF Fed
  <2> QED BY <2>1
<1>3. k - 1 \in Nat /\ k - 1 \notin T
  BY <1>1, <1>2
<1>4. PICK g : Fed(r, s, k - 1, g)
  BY <1>3
<1> DEFINE
  last == CHOOSE q \in {Feed(p, s, k) : p \in {g[k - 1]}} : TRUE
  h == [i \in 0..k |-> IF i = k THEN last ELSE g[i]]
<1>5. \A i \in 0..k :
        h[i] = IF i = 0 THEN Restarted(r)
               ELSE CHOOSE q \in {Feed(p, s, i) : p \in {h[i - 1]}} : TRUE
  <2> SUFFICES ASSUME NEW i \in 0..k
               PROVE h[i] = IF i = 0 THEN Restarted(r)
                            ELSE CHOOSE q \in {Feed(p, s, i) : p \in {h[i - 1]}} : TRUE
    OBVIOUS
  <2>1. CASE i = k
    <3>1. h[i - 1] = g[k - 1] /\ h[i] = last
      BY <1>2, <2>1
    <3> QED BY <1>2, <2>1, <3>1
  <2>2. CASE i # k
    <3>1. i \in 0..(k - 1) /\ h[i] = g[i]
      BY <2>2
    <3>2. g[i] = IF i = 0 THEN Restarted(r)
                 ELSE CHOOSE q \in {Feed(p, s, i) : p \in {g[i - 1]}} : TRUE
      BY <1>4, <3>1 DEF Fed
    <3>3. CASE i = 0
      BY <3>1, <3>2, <3>3
    <3>4. CASE i # 0
      <4>1. h[i - 1] = g[i - 1]
        BY <2>2, <3>4
      <4> QED BY <3>1, <3>2, <3>4, <4>1
    <3> QED BY <3>3, <3>4
  <2> QED BY <2>1, <2>2
<1>6. Fed(r, s, k, h)
  BY <1>5 DEF Fed
<1> QED
  BY <1>6

\* The parser goes byte by byte.
LEMMA ParseIsFed ==
  ASSUME NEW r, NEW s, Len(s) \in Nat
  PROVE  \E g : /\ g[0] = Restarted(r) /\ Parse(r, s) = g[Len(s)]
                /\ \A i \in 1..Len(s) : g[i] = Feed(g[i - 1], s, i)
<1> DEFINE g == CHOOSE g : Fed(r, s, Len(s), g)
<1>1. Fed(r, s, Len(s), g)
  BY FedExists
<1>2. Parse(r, s) = g[Len(s)]
  BY DEF Parse, Fed
<1> HIDE DEF g
<1>3. g[0] = Restarted(r)
  BY <1>1 DEF Fed
<1>4. ASSUME NEW i \in 1..Len(s) PROVE g[i] = Feed(g[i - 1], s, i)
  <2>1. g[i] = CHOOSE q \in {Feed(p, s, i) : p \in {g[i - 1]}} : TRUE
    BY <1>1 DEF Fed
  <2>2. {Feed(p, s, i) : p \in {g[i - 1]}} = {Feed(g[i - 1], s, i)}
    OBVIOUS
  <2> QED BY <2>1, <2>2
<1> QED
  BY <1>2, <1>3, <1>4

\* The automaton is in one of its states, and the request ends within n bytes.
RequestOK(r, n) ==
  /\ {"parse", "line", "header", "end", "failed"} \subseteq DOMAIN r
  /\ r.parse \in {"REQUEST_LINE", "HEADERS", "BODY", "ERROR", "FINISH", "THROWN"}
  /\ r.line \in {"METHOD", "URL", "VERSION", "LINE_END"}
  /\ r.header \in {"KEY", "COLON", "SPACE_AFTER_COLON", "VALUE", "CR", "LF", "END_CR"}
  /\ r.end \in 0..n
  /\ r.failed \in BOOLEAN

LEMMA FeedKeeps ==
  ASSUME NEW s, NEW i \in Nat \ {0}, NEW r, RequestOK(r, i - 1)
  PROVE  RequestOK(Feed(r, s, i), i)
<1>1. 0..(i - 1) \subseteq 0..i /\ i \in 0..i /\ RequestOK(r, i)
  BY DEF RequestOK
<1>2. CASE ~r.failed /\ r.parse = "REQUEST_LINE"
  <2>1. RequestOK(ParseRequestLine(r, s, i), i)
    BY <1>1 DEF ParseRequestLine, RequestOK, Error
  <2> QED BY <1>2, <2>1 DEF Feed
<1>3. CASE ~r.failed /\ r.parse = "HEADERS"
  <2>1. RequestOK(EndOfValue(r, Token(r, s, i)), i)
    BY <1>1 DEF EndOfValue, RequestOK
  <2>2. AfterHeaders(r) \in {"BODY", "ERROR", "FINISH"}
    BY DEF AfterHeaders
  <2>3. RequestOK(ParseHeader(r, s, i), i)
    <3> USE <1>1 DEF ParseHeader, RequestOK, Error
    <3>1. CASE r.header = "KEY"            BY <3>1
    <3>2. CASE r.header = "COLON"          BY <3>2
    <3>3. CASE r.header = "SPACE_AFTER_COLON"  BY <3>3
    <3>4. CASE r.header = "VALUE"          BY <2>1, <3>4
    <3>5. CASE r.header = "CR"             BY <3>5
    <3>6. CASE r.header = "LF"             BY <3>6
    <3>7. CASE r.header = "END_CR"         BY <2>2, <3>7
    <3> QED BY <3>1, <3>2, <3>3, <3>4, <3>5, <3>6, <3>7
  <2> QED BY <1>3, <2>3 DEF Feed
<1>4. CASE ~r.failed /\ r.parse = "BODY"
  <2>1. RequestOK(ParseBody(r, s, i), i)
    BY <1>1 DEF ParseBody, RequestOK
  <2> QED BY <1>4, <2>1 DEF Feed
<1>5. CASE r.failed \/ r.parse \in {"ERROR", "FINISH", "THROWN"}
  BY <1>1, <1>5 DEF Feed, RequestOK
<1> QED
  BY <1>1, <1>2, <1>3, <1>4, <1>5 DEF RequestOK

\* Parse consumes no more bytes than it is given.
LEMMA ParseKeeps ==
  ASSUME NEW s, Len(s) \in Nat, NEW n, NEW r, RequestOK(r, n)
  PROVE  RequestOK(Parse(r, s), Len(s))
<1>1. PICK g : /\ g[0] = Restarted(r) /\ Parse(r, s) = g[Len(s)]
               /\ \A i \in 1..Len(s) : g[i] = Feed(g[i - 1], s, i)
  BY ParseIsFed
<1> DEFINE T == {i \in 0..Len(s) : ~RequestOK(g[i], i)}
<1> SUFFICES ASSUME T # {} PROVE FALSE
  BY <1>1
<1>2. PICK i \in T : \A m \in T : i <= m
  <2>1. T \subseteq Nat
    OBVIOUS
  <2> QED BY <2>1, Smallest
<1>3. RequestOK(Restarted(r), 0)
  BY DEF RequestOK, Restarted
<1>4. i \in 1..Len(s) /\ i - 1 \in 0..Len(s)
  BY <1>1, <1>2, <1>3
<1>5. RequestOK(g[i - 1], i - 1)
  BY <1>2, <1>4
<1>6. RequestOK(g[i], i)
  BY <1>1, <1>4, <1>5, FeedKeeps
<1> QED
  BY <1>2, <1>6

(***************************************************************************)
(* The buffer.                                                              *)
(***************************************************************************)

\* The bytes of v between r and w.
LEMMA BetweenIsSeq ==
  ASSUME NEW v \in Seq(Bytes), NEW r \in Nat, NEW w \in r..Len(v)
  PROVE  LET s == [p \in 1..(w - r) |-> v[r + p]] IN
         /\ s \in Seq(Bytes) /\ Len(s) = w - r /\ w - r \in Nat
         /\ \A p \in 1..(w - r) : s[p] = v[r + p]
<1> DEFINE s == [p \in 1..(w - r) |-> v[r + p]]
<1>1. /\ w - r \in Nat
      /\ \A p \in 1..(w - r) : r + p \in 1..Len(v)
  BY LenProperties
<1>2. \A p \in 1..(w - r) : v[r + p] \in Bytes
  BY <1>1, LenProperties
<1>3. s \in Seq(Bytes)
  BY <1>1, <1>2, IsASeq
<1> QED
  BY <1>1, <1>3, LenProperties

LEMMA PeekIsSeq ==
  ASSUME BufferTypeOK
  PROVE  /\ PeekString \in Seq(Bytes) /\ Len(PeekString) = ReadableBytes
         /\ ReadableBytes \in Nat
         /\ \A p \in 1..ReadableBytes : PeekString[p] = m_buffer[m_readIndex + p]
<1>1. m_buffer \in Seq(Bytes) /\ m_readIndex \in Nat /\ m_writeIndex \in m_readIndex..Len(m_buffer)
  BY SizesAssumption, LenProperties DEF BufferTypeOK
<1> QED
  BY <1>1, BetweenIsSeq DEF PeekString, ReadableBytes

\* EnsureWritableBytes keeps what is between the indices, and makes room.
LEMMA RoomyKeeps ==
  ASSUME BufferTypeOK, NEW len \in Nat, ~Throws(len)
  PROVE  LET b == Roomy(len) IN
         /\ b.vector \in Seq(Bytes) /\ Len(b.vector) \in kInitialSize..kMaxSize
         /\ b.read \in kPrePendIndex..b.write /\ b.write \in Nat
         /\ b.write - b.read = ReadableBytes /\ b.write + len <= Len(b.vector)
         /\ \A p \in 1..ReadableBytes : b.vector[b.read + p] = PeekString[p]
<1> DEFINE b == Roomy(len)
<1>0. /\ Len(m_buffer) \in kInitialSize..kMaxSize /\ m_buffer \in Seq(Bytes)
      /\ m_readIndex \in kPrePendIndex..m_writeIndex
      /\ m_writeIndex \in kPrePendIndex..Len(m_buffer)
      /\ kPrePendIndex \in Nat /\ kInitialSize \in Nat /\ kMaxSize \in Nat
      /\ m_readIndex \in Nat /\ m_writeIndex \in Nat /\ Len(m_buffer) \in Nat
      /\ m_readIndex <= m_writeIndex /\ m_writeIndex <= Len(m_buffer)
      /\ \A p \in 1..Len(m_buffer) : m_buffer[p] \in Bytes
  BY SizesAssumption, LenProperties DEF BufferTypeOK
<1>1. /\ ReadableBytes = m_writeIndex - m_readIndex /\ ReadableBytes \in Nat
      /\ \A p \in 1..ReadableBytes : PeekString[p] = m_buffer[m_readIndex + p]
  BY PeekIsSeq DEF ReadableBytes
<1>a. /\ kPrePendIndex \in Nat /\ m_readIndex \in Nat /\ m_writeIndex \in Nat
      /\ Len(m_buffer) \in Nat /\ ReadableBytes \in Nat
      /\ m_writeIndex = m_readIndex + ReadableBytes /\ m_writeIndex <= Len(m_buffer)
      /\ kPrePendIndex <= m_readIndex
  BY <1>0, <1>1
<1>2. CASE HasRoom(len)
  BY <1>0, <1>1, <1>2 DEF Roomy, HasRoom, WritableBytes
<1>3. CASE ~HasRoom(len) /\ MovingMakesRoom(len)
  <2>1. b = [vector |-> Moved, read |-> kPrePendIndex, write |-> kPrePendIndex + ReadableBytes]
    BY <1>3 DEF Roomy
  <2>2. /\ kPrePendIndex + ReadableBytes + len <= Len(m_buffer)
        /\ ReadableBytes <= Len(m_buffer) - kPrePendIndex
    BY <1>0, <1>1, <1>3 DEF MovingMakesRoom, PrependableBytes, WritableBytes
  <2>3. \A p \in 1..Len(m_buffer) :
          (IF p > kPrePendIndex /\ p <= kPrePendIndex + ReadableBytes
           THEN m_buffer[m_readIndex + p - kPrePendIndex] ELSE m_buffer[p]) \in Bytes
    <3> SUFFICES ASSUME NEW p \in 1..Len(m_buffer), p > kPrePendIndex,
                        p <= kPrePendIndex + ReadableBytes
                 PROVE  m_readIndex + p - kPrePendIndex \in 1..Len(m_buffer)
      BY <1>0
    <3> QED BY <1>a
  <2>4. Moved \in Seq(Bytes)
    BY <1>0, <2>3, IsASeq DEF Moved
  <2>5. Len(Moved) = Len(m_buffer)
    BY <1>0, <2>4, LenProperties DEF Moved
  <2>6. ASSUME NEW p \in 1..ReadableBytes PROVE Moved[kPrePendIndex + p] = PeekString[p]
    <3>1. /\ kPrePendIndex + p \in 1..Len(m_buffer) /\ kPrePendIndex + p > kPrePendIndex
          /\ kPrePendIndex + p <= kPrePendIndex + ReadableBytes
          /\ m_readIndex + (kPrePendIndex + p) - kPrePendIndex = m_readIndex + p
      BY <1>a, <2>2
    <3> QED BY <1>1, <3>1 DEF Moved
  <2> QED BY <1>0, <1>1, <2>1, <2>2, <2>4, <2>5, <2>6
<1>4. CASE ~HasRoom(len) /\ ~MovingMakesRoom(len)
  <2> DEFINE k == m_writeIndex + len - Len(m_buffer)
  <2>1. b = [vector |-> m_buffer \o Zeros(k), read |-> m_readIndex, write |-> m_writeIndex]
    BY <1>4 DEF Roomy
  <2>2. k \in Nat /\ m_writeIndex + len <= kMaxSize
    BY <1>0, <1>4 DEF HasRoom, WritableBytes, Throws
  <2>3. Zeros(k) \in Seq(Bytes) /\ Len(Zeros(k)) = k
    <3>1. Zeros(k) \in Seq(Bytes)
      BY <2>2, ZeroAssumption, IsASeq DEF Zeros
    <3> QED BY <2>2, <3>1, LenProperties DEF Zeros
  <2>4. /\ m_buffer \o Zeros(k) \in Seq(Bytes)
        /\ Len(m_buffer \o Zeros(k)) = m_writeIndex + len
        /\ \A p \in 1..Len(m_buffer) : (m_buffer \o Zeros(k))[p] = m_buffer[p]
    BY <1>0, <2>2, <2>3, ConcatProperties
  <2>5. \A p \in 1..ReadableBytes : m_readIndex + p \in 1..Len(m_buffer)
    BY <1>a
  <2>6. /\ m_writeIndex + len \in kInitialSize..kMaxSize
        /\ m_readIndex \in kPrePendIndex..m_writeIndex
    BY <1>0, <2>2
  <2>7. \A p \in 1..ReadableBytes : (m_buffer \o Zeros(k))[m_readIndex + p] = PeekString[p]
    BY <1>1, <2>4, <2>5
  <2> HIDE DEF b, k
  <2>8. /\ b.vector = m_buffer \o Zeros(k) /\ b.read = m_readIndex /\ b.write = m_writeIndex
    BY <2>1
  <2> QED BY <1>a, <2>4, <2>6, <2>7, <2>8 DEF b
<1> QED
  BY <1>2, <1>3, <1>4

\* Append adds its bytes after those that are there.
LEMMA AppendKeeps ==
  ASSUME BufferTypeOK, NEW message \in Seq(Bytes), AppendBytes(message)
  PROVE  BufferTypeOK' /\ PeekString' = PeekString \o message
<1> DEFINE len == Len(message)
           b == Roomy(len)
<1>1. /\ len \in Nat /\ \A p \in 1..len : message[p] \in Bytes
  BY LenProperties
<1>2. /\ b.vector \in Seq(Bytes) /\ Len(b.vector) \in kInitialSize..kMaxSize
      /\ b.read \in kPrePendIndex..b.write /\ b.write \in Nat
      /\ b.write - b.read = ReadableBytes /\ b.write + len <= Len(b.vector)
      /\ \A p \in 1..ReadableBytes : b.vector[b.read + p] = PeekString[p]
  BY <1>1, RoomyKeeps DEF AppendBytes
<1>3. /\ m_buffer' = [p \in 1..Len(b.vector) |->
                        IF p > b.write /\ p <= b.write + len
                        THEN message[p - b.write] ELSE b.vector[p]]
      /\ m_readIndex' = b.read /\ m_writeIndex' = b.write + len
  BY DEF AppendBytes
<1> HIDE DEF b, len
<1>4. /\ kPrePendIndex \in Nat /\ kInitialSize \in Nat /\ kMaxSize \in Nat
      /\ Len(b.vector) \in Nat /\ b.read \in Nat /\ ReadableBytes \in Nat
      /\ \A p \in 1..Len(b.vector) : b.vector[p] \in Bytes
  BY <1>2, SizesAssumption, LenProperties, PeekIsSeq
<1>5. m_buffer' \in Seq(Bytes)
  <2>1. \A p \in 1..Len(b.vector) :
          (IF p > b.write /\ p <= b.write + len
           THEN message[p - b.write] ELSE b.vector[p]) \in Bytes
    <3> SUFFICES ASSUME NEW p \in 1..Len(b.vector), p > b.write, p <= b.write + len
                 PROVE  p - b.write \in 1..len
      BY <1>1, <1>4
    <3>1. b.write \in Nat
      BY <1>2
    <3> QED BY <1>1, <1>4, <3>1
  <2> QED BY <1>3, <1>4, <2>1, IsASeq
<1>6. Len(m_buffer') = Len(b.vector)
  BY <1>3, <1>4, <1>5, LenProperties
<1>7. BufferTypeOK'
  <2>1. /\ b.read \in kPrePendIndex..b.write + len /\ b.write + len \in kPrePendIndex..Len(b.vector)
        /\ Len(b.vector) \in kInitialSize..kMaxSize
    BY <1>1, <1>2, <1>4
  <2> QED BY <1>3, <1>5, <1>6, <2>1 DEF BufferTypeOK
<1>8. ReadableBytes' = ReadableBytes + len
  BY <1>1, <1>2, <1>3, <1>4, SMTT(30) DEF ReadableBytes
<1>9. /\ PeekString \in Seq(Bytes) /\ Len(PeekString) = ReadableBytes
  BY PeekIsSeq
<1>10. /\ PeekString \o message \in Seq(Bytes)
       /\ Len(PeekString \o message) = ReadableBytes + len
       /\ \A p \in 1..ReadableBytes + len :
            (PeekString \o message)[p] =
               IF p <= ReadableBytes THEN PeekString[p] ELSE message[p - ReadableBytes]
  BY <1>9, ConcatProperties DEF len
<1>11. /\ PeekString' \in Seq(Bytes) /\ Len(PeekString') = ReadableBytes + len
       /\ \A p \in 1..ReadableBytes + len : PeekString'[p] = m_buffer'[b.read + p]
  <2>1. /\ m_buffer' \in Seq(Bytes) /\ m_readIndex' \in Nat
        /\ m_writeIndex' \in m_readIndex'..Len(m_buffer')
    BY <1>1, <1>2, <1>3, <1>4, <1>5, <1>6
  <2>2. /\ PeekString' \in Seq(Bytes) /\ Len(PeekString') = ReadableBytes'
        /\ \A p \in 1..ReadableBytes' : PeekString'[p] = m_buffer'[m_readIndex' + p]
    BY <2>1, BetweenIsSeq DEF PeekString, ReadableBytes
  <2> QED BY <1>3, <1>8, <2>2
<1>12. /\ b.read \in Nat /\ ReadableBytes \in Nat /\ len \in Nat /\ Len(b.vector) \in Nat
       /\ b.write = b.read + ReadableBytes /\ b.read + ReadableBytes + len <= Len(b.vector)
  <2>1. b.write \in Nat /\ b.write - b.read = ReadableBytes /\ b.write + len <= Len(b.vector)
    BY <1>2
  <2>2. b.read \in Nat /\ ReadableBytes \in Nat /\ len \in Nat /\ Len(b.vector) \in Nat
    BY <1>1, <1>4
  <2> QED BY <2>1, <2>2
<1>13. ASSUME NEW p \in 1..(ReadableBytes + len)
       PROVE  PeekString'[p] = (PeekString \o message)[p]
  <2>0. p \in Nat \ {0} /\ p <= ReadableBytes + len
    BY <1>12, <1>13
  <2>1. b.read + p \in 1..Len(b.vector)
    <3>1. b.read + p \in Nat \ {0} /\ b.read + p <= b.read + ReadableBytes + len
      BY <1>12, <2>0
    <3> QED BY <1>12, <3>1
  <2>2. CASE p <= ReadableBytes
    <3>1. ~(b.read + p > b.write)
      BY <1>12, <2>0, <2>2
    <3>2. p \in 1..ReadableBytes
      BY <1>12, <2>0, <2>2
    <3> QED BY <1>2, <1>3, <1>10, <1>11, <2>1, <2>2, <3>1, <3>2
  <2>3. CASE p > ReadableBytes
    <3>1. /\ b.read + p > b.write /\ b.read + p <= b.write + len
          /\ b.read + p - b.write = p - ReadableBytes
      BY <1>12, <2>0, <2>3
    <3>2. m_buffer'[b.read + p] = message[p - ReadableBytes]
      <4>1. PICK q \in 1..Len(b.vector) : q = b.read + p
        BY <2>1
      <4>2. q > b.write /\ q <= b.write + len /\ q - b.write = p - ReadableBytes
        BY <1>12, <2>0, <2>3, <4>1
      <4>3. m_buffer'[q] = message[q - b.write]
        BY <1>3, <4>2
      <4> QED BY <4>1, <4>2, <4>3
    <3>3. (PeekString \o message)[p] = message[p - ReadableBytes]
      BY <1>10, <1>12, <2>0, <2>3
    <3> QED BY <1>11, <3>2, <3>3
  <2>4. p <= ReadableBytes \/ p > ReadableBytes
    BY <1>12, <2>0
  <2> QED BY <2>2, <2>3, <2>4
<1> QED
  BY <1>7, <1>10, <1>11, <1>13, SeqEqual

\* RetrieveAll takes all of them.
LEMMA RetrieveAllKeeps ==
  ASSUME BufferTypeOK, RetrieveAll
  PROVE  /\ BufferTypeOK' /\ Len(PeekString) \in Nat
         /\ PeekString' = SubSeq(PeekString, Len(PeekString) + 1, Len(PeekString))
<1>1. /\ m_buffer' = m_buffer /\ m_readIndex' = kPrePendIndex /\ m_writeIndex' = kPrePendIndex
      /\ kPrePendIndex \in kPrePendIndex..Len(m_buffer)
  BY SizesAssumption, LenProperties DEF RetrieveAll, BufferTypeOK
<1>2. BufferTypeOK'
  BY <1>1, SizesAssumption DEF BufferTypeOK
<1>3. Len(PeekString) \in Nat /\ SubSeq(PeekString, Len(PeekString) + 1, Len(PeekString)) = <<>>
  BY PeekIsSeq, SubSeqEmpty
<1>4. PeekString' = <<>>
  BY <1>1, SizesAssumption DEF PeekString, ReadableBytes
<1> QED
  BY <1>2, <1>3, <1>4

\* Retrieve takes bytes from the front.
LEMMA RetrieveKeeps ==
  ASSUME BufferTypeOK, NEW n \in Nat, Retrieve(n)
  PROVE  /\ BufferTypeOK' /\ n \in 0..Len(PeekString)
         /\ PeekString' = SubSeq(PeekString, n + 1, Len(PeekString))
<1>1. /\ kPrePendIndex \in Nat /\ m_readIndex \in Nat /\ m_writeIndex \in Nat
      /\ ReadableBytes = m_writeIndex - m_readIndex /\ n <= ReadableBytes
      /\ m_readIndex <= m_writeIndex
  BY SizesAssumption, LenProperties DEF BufferTypeOK, Retrieve, ReadableBytes
<1>2. CASE n = ReadableBytes
  <2>1. RetrieveAll
    BY <1>1, <1>2 DEF Retrieve
  <2> QED BY <1>1, <1>2, <2>1, RetrieveAllKeeps, PeekIsSeq
<1>3. CASE n < ReadableBytes
  <2>1. m_readIndex' = m_readIndex + n /\ UNCHANGED <<m_buffer, m_writeIndex>>
    BY <1>3 DEF Retrieve, RetrieveUntil
  <2>2. BufferTypeOK'
    BY <1>1, <1>3, <2>1 DEF BufferTypeOK
  <2>3. PeekString' = [p \in 1..(ReadableBytes - n) |-> m_buffer[m_readIndex + n + p]]
    BY <1>1, <2>1 DEF PeekString, ReadableBytes
  <2>4. /\ SubSeq(PeekString, n + 1, ReadableBytes) \in Seq(Bytes)
        /\ Len(SubSeq(PeekString, n + 1, ReadableBytes)) = ReadableBytes - n
        /\ \A p \in 1..(ReadableBytes - n) :
             SubSeq(PeekString, n + 1, ReadableBytes)[p] = m_buffer[m_readIndex + n + p]
    <3>1. /\ PeekString \in Seq(Bytes) /\ Len(PeekString) = ReadableBytes
          /\ \A p \in 1..ReadableBytes : PeekString[p] = m_buffer[m_readIndex + p]
      BY PeekIsSeq
    <3>2. /\ n + 1 \in Int /\ ReadableBytes \in Int
          /\ \A p \in n + 1..ReadableBytes : PeekString[p] \in Bytes
      BY <1>1, <3>1, LenProperties
    <3>3. /\ SubSeq(PeekString, n + 1, ReadableBytes) \in Seq(Bytes)
          /\ Len(SubSeq(PeekString, n + 1, ReadableBytes)) = ReadableBytes - n
          /\ \A p \in 1..(ReadableBytes - n) :
               SubSeq(PeekString, n + 1, ReadableBytes)[p] = PeekString[n + p]
      BY <1>1, <1>3, <3>2, SubSeqProperties
    <3>4. ASSUME NEW p \in 1..(ReadableBytes - n)
          PROVE  n + p \in 1..ReadableBytes /\ m_readIndex + (n + p) = m_readIndex + n + p
      BY <1>1, <1>3
    <3> QED BY <3>1, <3>3, <3>4
  <2>5. PeekString' = SubSeq(PeekString, n + 1, ReadableBytes)
    <3> DEFINE s == SubSeq(PeekString, n + 1, ReadableBytes)
    <3>1. s = [p \in 1..(ReadableBytes - n) |-> s[p]]
      BY <2>4, LenProperties
    <3> QED BY <2>3, <2>4, <3>1
  <2>6. n \in 0..ReadableBytes /\ Len(PeekString) = ReadableBytes
    BY <1>1, <1>3, PeekIsSeq
  <2> QED BY <2>2, <2>5, <2>6
<1> QED
  BY <1>1, <1>2, <1>3

(***************************************************************************)
(* The connection.                                                          *)
(***************************************************************************)

\* What has been answered.
Given == {answers[i] : i \in 1..Len(answers)}

ClientInv ==
  /\ \E wishes \in Conversations : client = Conversation(wishes)
  /\ sent \in 0..Len(client.stream) /\ got \in 0..sent

RequestInv ==
  /\ RequestOK(m_request, m_request.end) /\ m_request.parse # "THROWN"
  /\ pc \in {"idle", "read", "parse", "closed", "terminated"} /\ edge \in BOOLEAN

AnswersInv ==
  /\ answers \in Seq(Given)
  /\ \A a \in Given : a.code \in {-1, 0, 400, 403}

InputInv == BufferTypeOK /\ received \in Seq(Bytes) /\ ClientInv /\ RequestInv /\ AnswersInv

LEMMA InputType == InputInv => TypeOK
<1> SUFFICES ASSUME InputInv PROVE TypeOK
  OBVIOUS
<1>1. m_request.parse \in {"REQUEST_LINE", "HEADERS", "BODY", "ERROR", "FINISH"}
  BY DEF InputInv, RequestInv, RequestOK
<1>2. DOMAIN answers = 1..Len(answers)
  BY LenProperties DEF InputInv, AnswersInv
<1>3. {answers[i].code : i \in DOMAIN answers} \subseteq {-1, 0, 400, 403}
  BY <1>2 DEF InputInv, AnswersInv, Given
<1> QED
  BY <1>1, <1>3 DEF InputInv, ClientInv, RequestInv, TypeOK

LEMMA StreamIs ==
  ASSUME ClientInv
  PROVE  /\ client.stream \in Seq(Bytes) /\ Len(client.stream) \in Nat
         /\ client.cuts \subseteq 1..Len(client.stream)
         /\ client.stream # <<>> => Len(client.stream) \in client.cuts
BY ConversationsAssumption, LenProperties DEF ClientInv

\* What one read returns.
LEMMA ChunkIs ==
  ASSUME ClientInv, got < sent
  PROVE  Chunk \in Seq(Bytes) /\ Len(Chunk) \in 1..READ_BUFFER /\ got + Len(Chunk) \in 0..sent
<1> DEFINE T == {got + READ_BUFFER, sent}
<1>1. /\ client.stream \in Seq(Bytes) /\ Len(client.stream) \in Nat
      /\ sent \in 0..Len(client.stream) /\ got \in 0..sent /\ READ_BUFFER \in Nat \ {0}
  BY StreamIs, ReadAssumption DEF ClientInv
<1>2. Min(T) \in T /\ \A m \in T : Min(T) <= m
  <2>1. T \subseteq Nat /\ T # {}
    BY <1>1
  <2> QED BY <2>1, MinIs
<1>3. Min(T) \in got + 1..sent /\ Min(T) <= got + READ_BUFFER
  BY <1>1, <1>2
<1> HIDE DEF T
<1>4. /\ got + 1 \in Int /\ Min(T) \in Int /\ got + 1 <= Min(T)
      /\ \A i \in got + 1..Min(T) : client.stream[i] \in Bytes
  BY <1>1, <1>3, LenProperties
<1>5. Chunk = SubSeq(client.stream, got + 1, Min(T))
  BY DEF Chunk, T
<1>6. Chunk \in Seq(Bytes) /\ Len(Chunk) = Min(T) - (got + 1) + 1
  BY <1>4, <1>5, SubSeqProperties
<1> QED
  BY <1>1, <1>3, <1>6

LEMMA FcnIsSeq ==
  ASSUME NEW S, NEW n \in Nat, NEW f \in [1..n -> S]
  PROVE  f \in Seq(S)
BY SeqDef

LEMMA AnswerGiven ==
  ASSUME AnswersInv, NEW a, answers' = Append(answers, a), a.code \in {-1, 0, 400, 403}
  PROVE  AnswersInv'
<1> DEFINE S == Given \cup {a}
<1>1. answers \in Seq(S)
  BY SeqMonotonic DEF AnswersInv
<1>2. /\ answers' \in Seq(S) /\ Len(answers') = Len(answers) + 1
      /\ \A i \in 1..Len(answers) : answers'[i] = answers[i]
      /\ answers'[Len(answers) + 1] = a
  BY <1>1, AppendProperties
<1>3. Len(answers) \in Nat /\ Len(answers') \in Nat /\ answers' \in [1..Len(answers') -> S]
  BY <1>1, <1>2, LenProperties
<1>4. \A i \in 1..Len(answers') : i \in 1..Len(answers) \/ i = Len(answers) + 1
  BY <1>2, <1>3
<1>5. answers' \in [1..Len(answers') -> Given']
  BY <1>3 DEF Given
<1>6. answers' \in Seq(Given')
  BY <1>3, <1>5, FcnIsSeq
<1>7. \A i \in 1..Len(answers') : answers'[i] \in Given \/ answers'[i] = a
  BY <1>2, <1>4 DEF Given
<1>8. \A b \in Given' : b \in Given \/ b = a
  BY <1>7 DEF Given
<1> QED
  BY <1>6, <1>8 DEF AnswersInv

LEMMA AnswersSame ==
  ASSUME AnswersInv, UNCHANGED answers
  PROVE  AnswersInv'
BY DEF AnswersInv, Given

LEMMA NewRequestOK ==
  ASSUME NEW k
  PROVE  RequestOK(NewRequest(k), NewRequest(k).end) /\ NewRequest(k).parse = "REQUEST_LINE"
BY DEF RequestOK, NewRequest

LEMMA InitInput == Init => InputInv
<1> SUFFICES ASSUME Init PROVE InputInv
  OBVIOUS
<1>1. BufferTypeOK
  <2>1. Zeros(kInitialSize) \in Seq(Bytes)
    BY SizesAssumption, ZeroAssumption, IsASeq DEF Zeros
  <2>2. Len(Zeros(kInitialSize)) = kInitialSize
    BY SizesAssumption, <2>1, LenProperties DEF Zeros
  <2> QED BY <2>1, <2>2, SizesAssumption DEF Init, BufferInit, BufferTypeOK
<1>2. ClientInv
  <2>1. PICK wishes \in Conversations : client = Conversation(wishes)
    BY DEF Init
  <2>2. Len(client.stream) \in Nat
    BY <2>1, ConversationsAssumption, LenProperties
  <2> QED BY <2>1, <2>2 DEF Init, ClientInv
<1>3. AnswersInv /\ received \in Seq(Bytes)
  BY EmptySeq DEF Init, AnswersInv, Given
<1>4. RequestInv
  BY NewRequestOK DEF Init, RequestInv
<1> QED
  BY <1>1, <1>2, <1>3, <1>4 DEF InputInv

\* A step of the queue, or none.
QueueStep == [Queue!Put \/ Queue!Take]_<<received, PeekString>>

LEMMA BufferSame ==
  ASSUME UNCHANGED <<bufferVars, received>>
  PROVE  QueueStep /\ (BufferTypeOK => BufferTypeOK')
BY DEF bufferVars, PeekString, ReadableBytes, BufferTypeOK, QueueStep

LEMMA TakeStep ==
  ASSUME UNCHANGED received, NEW n \in 0..Len(PeekString),
         PeekString' = SubSeq(PeekString, n + 1, Len(PeekString))
  PROVE  QueueStep
BY DEF QueueStep, Queue!Take

LEMMA ReadChunkStep ==
  ASSUME InputInv, ReadChunk
  PROVE  InputInv' /\ QueueStep
<1>1. Chunk \in Seq(Bytes) /\ got + Len(Chunk) \in 0..sent
  BY ChunkIs DEF ReadChunk, InputInv
<1>2. BufferTypeOK' /\ PeekString' = PeekString \o Chunk
  BY <1>1, AppendKeeps DEF ReadChunk, InputInv
<1>3. /\ received' = received \o Chunk /\ received \in Seq(Bytes) /\ received' \in Seq(Bytes)
      /\ Len(received) \in Nat /\ Len(Chunk) \in Nat
      /\ Len(received') = Len(received) + Len(Chunk)
      /\ \A i \in 1..Len(received) + Len(Chunk) :
           received'[i] = IF i <= Len(received) THEN received[i] ELSE Chunk[i - Len(received)]
  BY <1>1, ConcatProperties, LenProperties DEF ReadChunk, InputInv
<1>4. SubSeq(received', 1, Len(received)) = received
  <2> DEFINE s == SubSeq(received', 1, Len(received))
  <2>1. \A i \in 1..Len(received) : received'[i] \in Bytes
    BY <1>3, LenProperties
  <2>2. /\ s \in Seq(Bytes) /\ Len(s) = Len(received)
        /\ \A i \in 1..Len(received) : s[i] = received'[i]
    BY <1>3, <2>1, SubSeqProperties
  <2>3. \A i \in 1..Len(received) : s[i] = received[i]
    BY <1>3, <2>2
  <2> HIDE DEF s
  <2> QED BY <1>3, <2>2, <2>3, SeqEqual DEF s
<1>5. SubSeq(received', Len(received) + 1, Len(received')) = Chunk
  <2> DEFINE s == SubSeq(received', Len(received) + 1, Len(received'))
  <2>1. \A i \in Len(received) + 1..Len(received') : received'[i] \in Bytes
    BY <1>3, LenProperties
  <2>2. /\ s \in Seq(Bytes) /\ Len(s) = Len(Chunk)
        /\ \A i \in 1..Len(Chunk) : s[i] = received'[Len(received) + i]
    <3>1. /\ Len(received) + 1 \in Int /\ Len(received') \in Int
          /\ Len(received') - (Len(received) + 1) + 1 = Len(Chunk)
          /\ Len(received) + 1 <= Len(received') \/ Len(Chunk) = 0
      BY <1>3
    <3>2. /\ s \in Seq(Bytes)
          /\ Len(s) = IF Len(received) + 1 <= Len(received')
                      THEN Len(received') - (Len(received) + 1) + 1 ELSE 0
          /\ \A i \in 1..(Len(received') - (Len(received) + 1) + 1) :
               s[i] = received'[Len(received) + 1 + i - 1]
      BY <2>1, <3>1, SubSeqProperties
    <3>3. \A i \in 1..Len(Chunk) : Len(received) + 1 + i - 1 = Len(received) + i
      BY <1>3
    <3> QED BY <1>3, <3>1, <3>2, <3>3
  <2>3. ASSUME NEW i \in 1..Len(Chunk) PROVE received'[Len(received) + i] = Chunk[i]
    <3>1. /\ Len(received) + i \in 1..Len(received) + Len(Chunk)
          /\ ~(Len(received) + i <= Len(received)) /\ Len(received) + i - Len(received) = i
      BY <1>3
    <3> QED BY <1>3, <3>1
  <2>4. \A i \in 1..Len(Chunk) : s[i] = Chunk[i]
    BY <2>2, <2>3
  <2> HIDE DEF s
  <2> QED BY <1>1, <2>2, <2>4, SeqEqual DEF s
<1>6. QueueStep
  <2>1. Len(received') >= Len(received)
    BY <1>3
  <2> QED BY <1>2, <1>4, <1>5, <2>1 DEF QueueStep, Queue!Put
<1>7. ClientInv'
  BY <1>1 DEF ReadChunk, InputInv, ClientInv
<1>8. RequestInv' /\ AnswersInv'
  BY AnswersSame DEF ReadChunk, InputInv, RequestInv
<1> QED
  BY <1>2, <1>3, <1>6, <1>7, <1>8 DEF InputInv

\* The buffer is emptied: what the client sent is too much.
LEMMA ReadTooMuchStep ==
  ASSUME InputInv, ReadTooMuch
  PROVE  InputInv' /\ QueueStep
<1>1. got + Len(Chunk) \in 0..sent
  BY ChunkIs DEF ReadTooMuch, InputInv
<1>2. /\ BufferTypeOK' /\ Len(PeekString) \in Nat
      /\ PeekString' = SubSeq(PeekString, Len(PeekString) + 1, Len(PeekString))
  BY RetrieveAllKeeps DEF ReadTooMuch, InputInv
<1>3. QueueStep /\ received' \in Seq(Bytes)
  BY <1>2, TakeStep DEF ReadTooMuch, InputInv
<1>4. ClientInv'
  BY <1>1 DEF ReadTooMuch, InputInv, ClientInv
<1>5. RequestInv'
  BY NewRequestOK DEF ReadTooMuch, InputInv, RequestInv
<1>6. AnswersInv'
  BY AnswerGiven DEF ReadTooMuch, InputInv, Refused
<1> QED
  BY <1>2, <1>3, <1>4, <1>5, <1>6 DEF InputInv

LEMMA ParseOnceStep ==
  ASSUME InputInv, ParseOnce
  PROVE  InputInv' /\ QueueStep
<1> DEFINE r == Parse(m_request, PeekString)
<1>1. PeekString \in Seq(Bytes) /\ Len(PeekString) \in Nat /\ BufferTypeOK
  BY PeekIsSeq DEF InputInv
<1>2. RequestOK(r, Len(PeekString))
  BY <1>1, ParseKeeps DEF InputInv, RequestInv
<1>3. RequestOK(r, r.end) /\ r.end \in 0..Len(PeekString)
  BY <1>1, <1>2 DEF RequestOK
<1> HIDE DEF r
<1>4. UNCHANGED <<client, sent, got, edge, received>>
  BY DEF ParseOnce
<1>5. ClientInv' /\ received' \in Seq(Bytes)
  BY <1>4 DEF InputInv, ClientInv
<1>6. CASE /\ pc' = "terminated"
           /\ answers' = Append(answers, Refused(-1))
           /\ UNCHANGED <<bufferVars, m_request>>
  <2>1. RequestInv'
    BY <1>4, <1>6 DEF InputInv, RequestInv
  <2>2. AnswersInv'
    BY <1>6, AnswerGiven DEF InputInv, Refused
  <2> QED BY <1>4, <1>5, <1>6, <2>1, <2>2, BufferSame DEF InputInv
<1>7. CASE /\ answers' = Append(answers, Refused(400))
           /\ m_request' = NewRequest(r.curKey)
           /\ RetrieveAll
           /\ pc' = "idle"
  <2>1. RequestInv'
    BY <1>4, <1>7, NewRequestOK DEF InputInv, RequestInv
  <2>2. AnswersInv'
    BY <1>7, AnswerGiven DEF InputInv, Refused
  <2>3. BufferTypeOK' /\ QueueStep
    BY <1>1, <1>4, <1>7, RetrieveAllKeeps, TakeStep
  <2> QED BY <1>5, <2>1, <2>2, <2>3 DEF InputInv
<1>8. CASE /\ r.parse # "THROWN" /\ m_request' = r /\ pc' = "idle"
           /\ UNCHANGED <<bufferVars, answers>>
  <2>1. RequestInv'
    BY <1>3, <1>4, <1>8 DEF InputInv, RequestInv
  <2>2. AnswersInv'
    BY <1>8, AnswersSame DEF InputInv
  <2> QED BY <1>4, <1>5, <1>8, <2>1, <2>2, BufferSame DEF InputInv
<1>9. CASE /\ r.parse # "THROWN"
           /\ IF IsFinish(r)
              THEN /\ answers' = Append(answers, [code |-> 0, request |-> r])
                   /\ m_request' = NewRequest(r.curKey)
              ELSE m_request' = r /\ UNCHANGED answers
           /\ Retrieve(r.end)
           /\ UNCHANGED pc
  <2>1. RequestInv'
    BY <1>3, <1>4, <1>9, NewRequestOK DEF InputInv, RequestInv
  <2>2. AnswersInv'
    <3>1. CASE IsFinish(r)
      BY <1>9, <3>1, AnswerGiven DEF InputInv
    <3>2. CASE ~IsFinish(r)
      BY <1>9, <3>2, AnswersSame DEF InputInv
    <3> QED BY <3>1, <3>2
  <2>3. BufferTypeOK' /\ QueueStep
    BY <1>1, <1>3, <1>4, <1>9, RetrieveKeeps, TakeStep
  <2> QED BY <1>5, <2>1, <2>2, <2>3 DEF InputInv
<1> QED
  BY <1>6, <1>7, <1>8, <1>9 DEF ParseOnce, r

\* The client sends the next piece.
LEMMA ClientSendsStep ==
  ASSUME InputInv, ClientSends
  PROVE  InputInv' /\ QueueStep
<1> DEFINE T == {cut \in client.cuts : cut > sent}
<1>1. /\ client.stream \in Seq(Bytes) /\ Len(client.stream) \in Nat
      /\ client.cuts \subseteq 1..Len(client.stream) /\ sent \in 0..Len(client.stream)
      /\ sent < Len(client.stream) /\ Len(client.stream) \in client.cuts
  BY StreamIs, LenProperties, EmptySeq DEF ClientSends, InputInv, ClientInv
<1>2. Min(T) \in T
  <2>1. T \subseteq Nat /\ Len(client.stream) \in T
    BY <1>1
  <2> QED BY <2>1, MinIs
<1>3. ClientInv'
  BY <1>1, <1>2 DEF ClientSends, InputInv, ClientInv
<1>4. RequestInv' /\ AnswersInv' /\ received' \in Seq(Bytes)
  BY AnswersSame DEF ClientSends, InputInv, RequestInv
<1> QED
  BY <1>3, <1>4, BufferSame DEF ClientSends, InputInv

LEMMA NextInput == InputInv /\ [Next]_vars => InputInv' /\ QueueStep
<1> SUFFICES ASSUME InputInv, [Next]_vars PROVE InputInv' /\ QueueStep
  OBVIOUS
<1>1. CASE HandleRequest \/ ReadAll \/ Close \/ UNCHANGED vars
  <2>1. /\ UNCHANGED <<bufferVars, received, client, sent, got, m_request, answers>>
        /\ pc' \in {"idle", "read", "parse", "closed", "terminated"} /\ edge' \in BOOLEAN
    BY <1>1 DEF HandleRequest, ReadAll, Close, vars, InputInv, RequestInv
  <2>2. ClientInv' /\ RequestInv' /\ AnswersInv'
    BY <2>1, AnswersSame DEF InputInv, ClientInv, RequestInv
  <2> QED BY <2>1, <2>2, BufferSame DEF InputInv
<1> QED
  BY <1>1, ReadChunkStep, ReadTooMuchStep, ParseOnceStep, ClientSendsStep DEF Next, Server

LEMMA InputInvariant == Spec => []InputInv
BY InitInput, NextInput, PTL DEF Spec

(***************************************************************************)
(* What the automaton makes of a request line and of a header line.         *)
(***************************************************************************)

\* g[i] is the request after i bytes of s.
Chain(g, s) == \A i \in 1..Len(s) : g[i] = Feed(g[i - 1], s, i)

\* The automaton does not move between p and q.
LEMMA Stays ==
  ASSUME NEW s, Len(s) \in Nat, NEW g, Chain(g, s), NEW p \in Nat, NEW q \in p..Len(s),
         \A i \in p + 1..q : Feed(g[p], s, i) = g[p]
  PROVE  g[q] = g[p]
<1> DEFINE T == {k \in Nat : k \in p..q => g[k] = g[p]}
<1>1. ASSUME NEW k \in Nat, \A m \in Nat : m < k => m \in T PROVE k \in T
  <2> SUFFICES ASSUME k \in p..q PROVE g[k] = g[p]
    OBVIOUS
  <2>1. CASE k # p
    <3>1. k - 1 \in T /\ k - 1 \in p..q /\ k \in 1..Len(s) /\ k \in p + 1..q
      BY <1>1, <2>1
    <3> QED BY <3>1 DEF Chain
  <2> QED BY <2>1
<1>2. Nat \subseteq T
  <2> HIDE DEF T
  <2> QED BY <1>1, Induction
<1> QED BY <1>2

\* The fields of a request.
RequestFields == {"parse", "line", "header", "method", "url", "version", "headers", "body",
                  "contentLength", "keepAlive", "curKey", "parseStart", "end", "failed"}

\* The request line.
RequestLine(method, url) == <<method, SP>> \o url \o <<SP, "HTTP/1.1">> \o CRLF

\* A request with a method and a URL, and none of its headers yet.
Begun(r, method, url, k) ==
  /\ RequestFields \subseteq DOMAIN r
  /\ r.parse = "HEADERS" /\ r.header = "KEY" /\ r.failed = FALSE
  /\ r.method = method /\ r.url = url
  /\ r.body = <<>> /\ r.headers = [x \in {} |-> <<>>] /\ r.contentLength = 0
  /\ r.keepAlive = TRUE /\ r.end = k /\ r.parseStart = k + 1

\* The part of a text at which another one is found.
LEMMA PartAt ==
  \A s, t, p, q : IsText(s) /\ IsText(t) /\ p \in Nat \ {0} /\ q = p + Len(t) - 1 /\ At(s, p, t) =>
    SubSeq(s, p, q) = t
BY AtIsPart

\* The part of length one.
LEMMA OnePart ==
  \A s, p : IsText(s) /\ p \in 1..Len(s) => SubSeq(s, p, p) = <<s[p]>>
<1> SUFFICES ASSUME NEW s, NEW p, IsText(s), p \in 1..Len(s) PROVE SubSeq(s, p, p) = <<s[p]>>
  OBVIOUS
<1>1. Len(s) \in Nat /\ p \in Nat \ {0} /\ p <= Len(s)
  BY DEF IsText
<1>2. IsText(<<s[p]>>) /\ Len(<<s[p]>>) = 1
  BY Single
<1>3. At(s, p, <<s[p]>>) /\ p = p + Len(<<s[p]>>) - 1
  BY <1>1, <1>2, AtSymbol
<1> QED BY <1>1, <1>2, <1>3, PartAt

\* A chain, step by step.
LEMMA ChainStep ==
  ASSUME NEW s, NEW g, Chain(g, s)
  PROVE  \A j \in 1..Len(s) : \A i : i = j - 1 => g[j] = Feed(g[i], s, j)
BY DEF Chain

\* In the request line.
InLine(r, line, start) ==
  /\ RequestFields \subseteq DOMAIN r
  /\ r.parse = "REQUEST_LINE" /\ r.line = line /\ r.failed = FALSE /\ r.parseStart = start
  /\ r.body = <<>> /\ r.headers = [x \in {} |-> <<>>] /\ r.contentLength = 0

\* A request line is read into the method and the URL.
LEMMA RequestLineRead ==
  ASSUME NEW s, IsText(s), NEW g, Chain(g, s), NEW key, g[0] = NewRequest(key),
         NEW method \in Methods, NEW url, IsText(url), \A i \in 1..Len(url) : url[i] # SP,
         At(s, 1, RequestLine(method, url))
  PROVE  /\ Len(RequestLine(method, url)) = Len(url) + 6
         /\ Begun(g[Len(url) + 6], method, url, Len(url) + 6)
<1> DEFINE n == Len(url)
           a == <<method, SP>>
           b == <<SP, "HTTP/1.1">>
<1>1. IsText(a) /\ IsText(b) /\ IsText(CRLF) /\ Len(a) = 2 /\ Len(b) = 2 /\ Len(CRLF) = 2
  BY Single DEF CRLF
<1>1a. a[1] = method /\ a[2] = SP /\ b[1] = SP /\ b[2] = "HTTP/1.1" /\ CRLF[1] = CR /\ CRLF[2] = LF
  BY Single DEF CRLF, CR, LF
<1>2. n \in Nat /\ Len(s) \in Nat /\ IsText(url)
  BY DEF IsText
<1>3. RequestLine(method, url) = a \o url \o b \o CRLF
  BY DEF RequestLine
<1> HIDE DEF a, b
<1>4. /\ IsText(a \o url) /\ Len(a \o url) = 2 + n
      /\ IsText(a \o url \o b) /\ Len(a \o url \o b) = n + 4
      /\ IsText(a \o url \o b \o CRLF) /\ Len(a \o url \o b \o CRLF) = n + 6
  <2>1. IsText(a \o url) /\ Len(a \o url) = Len(a) + Len(url)
    BY <1>1, <1>2, Joined
  <2>2. IsText(a \o url \o b) /\ Len(a \o url \o b) = Len(a \o url) + Len(b)
    BY <1>1, <2>1, Joined
  <2>3. IsText(a \o url \o b \o CRLF) /\ Len(a \o url \o b \o CRLF) = Len(a \o url \o b) + Len(CRLF)
    BY <1>1, <2>2, Joined
  <2> QED BY <1>1, <1>2, <2>1, <2>2, <2>3
<1>5. /\ At(s, 1, a) /\ At(s, 1 + 2, url) /\ At(s, 1 + (2 + n), b) /\ At(s, 1 + (n + 4), CRLF)
  <2>1. At(s, 1, a \o url \o b) /\ At(s, 1 + (n + 4), CRLF)
    <3>1. At(s, 1, (a \o url \o b) \o CRLF)
      BY <1>3
    <3>2. At(s, 1, a \o url \o b) /\ At(s, 1 + Len(a \o url \o b), CRLF)
      BY <1>1, <1>4, <3>1, AtJoined
    <3> QED BY <1>4, <3>2
  <2>2. At(s, 1, a \o url) /\ At(s, 1 + (2 + n), b)
    BY <1>1, <1>4, <2>1, AtJoined
  <2>3. At(s, 1, a) /\ At(s, 1 + 2, url)
    BY <1>1, <1>2, <2>2, AtJoined
  <2> QED BY <2>1, <2>2, <2>3
<1>6. /\ s[1] = method /\ s[2] = SP /\ (\A i \in 1..n : s[2 + i] = url[i])
      /\ s[n + 3] = SP /\ s[n + 4] = "HTTP/1.1" /\ s[n + 5] = CR /\ s[n + 6] = LF
      /\ n + 6 <= Len(s)
  <2>1. 1 \in 1..2 /\ 2 \in 1..2 /\ 1 + 1 - 1 = 1 /\ 1 + 2 - 1 = 2
    OBVIOUS
  <2>2. s[1] = method /\ s[2] = SP
    BY <1>1, <1>1a, <1>5, <2>1 DEF At
  <2>3. ASSUME NEW i \in 1..n PROVE s[2 + i] = url[i]
    <3>1. 1 + 2 + i - 1 = 2 + i
      BY <1>2
    <3> QED BY <1>5, <3>1 DEF At
  <2>4. /\ 1 + (2 + n) + 1 - 1 = n + 3 /\ 1 + (2 + n) + 2 - 1 = n + 4
        /\ 1 + (n + 4) + 1 - 1 = n + 5 /\ 1 + (n + 4) + 2 - 1 = n + 6
    BY <1>2
  <2>5. s[n + 3] = SP /\ s[n + 4] = "HTTP/1.1"
    BY <1>1, <1>1a, <1>5, <2>1, <2>4 DEF At
  <2>6. s[n + 5] = CR /\ s[n + 6] = LF /\ n + 6 <= Len(s)
    BY <1>1, <1>1a, <1>5, <2>1, <2>4 DEF At
  <2> QED BY <2>2, <2>3, <2>5, <2>6
<1> HIDE DEF n
<1> DEFINE i2 == n + 2
           i3 == n + 3
           i4 == n + 4
           i5 == n + 5
           i6 == n + 6
<1>6a. /\ i2 = i3 - 1 /\ i3 = i4 - 1 /\ i4 = i5 - 1 /\ i5 = i6 - 1
       /\ i4 = i3 + 1 /\ i6 = n + 6
  BY <1>2
<1>6b. /\ i2 \in 2..Len(s) /\ i3 \in 1..Len(s) /\ i4 \in 1..Len(s) /\ i5 \in 1..Len(s) /\ i6 \in 1..Len(s)
       /\ 1 \in 1..Len(s) /\ 2 \in 1..Len(s)
       /\ \A i \in 2 + 1..i2 : i - 2 \in 1..n /\ 2 + (i - 2) = i
  BY <1>2, <1>6
<1>6c. s[i3] = SP /\ s[i4] = "HTTP/1.1" /\ s[i5] = CR /\ s[i6] = LF
  BY <1>6
<1>6d. SubSeq(s, 3, i2) = url
  <2>1. 1 + 2 = 3
    OBVIOUS
  <2>2. At(s, 3, url)
    BY <1>5, <2>1
  <2>3. i2 = 3 + Len(url) - 1 /\ 3 \in Nat \ {0}
    BY <1>2 DEF n
  <2> HIDE DEF i2
  <2> QED BY <2>2, <2>3, PartAt
<1> HIDE DEF i2, i3, i4, i5, i6
<1>7. SP # CR /\ SP # LF /\ CR # LF /\ method # SP /\ "HTTP/1.1" # CR /\ "HTTP/1.1" # SP
  BY DEF SP, CR, LF, Methods
<1>8. /\ g[1] = Feed(g[0], s, 1) /\ g[2] = Feed(g[1], s, 2) /\ g[i3] = Feed(g[i2], s, i3)
      /\ g[i4] = Feed(g[i3], s, i4) /\ g[i5] = Feed(g[i4], s, i5) /\ g[i6] = Feed(g[i5], s, i6)
  <2>1. 0 = 1 - 1 /\ 1 = 2 - 1
    OBVIOUS
  <2>2. g[1] = Feed(g[0], s, 1) /\ g[2] = Feed(g[1], s, 2)
    BY <1>6b, <2>1, ChainStep
  <2>3. g[i3] = Feed(g[i2], s, i3)
    <3>1. i2 = i3 - 1 /\ i3 \in 1..Len(s)
      BY <1>6a, <1>6b
    <3> QED BY <3>1, ChainStep
  <2>4. g[i4] = Feed(g[i3], s, i4)
    <3>1. i3 = i4 - 1 /\ i4 \in 1..Len(s)
      BY <1>6a, <1>6b
    <3> QED BY <3>1, ChainStep
  <2>5. g[i5] = Feed(g[i4], s, i5)
    <3>1. i4 = i5 - 1 /\ i5 \in 1..Len(s)
      BY <1>6a, <1>6b
    <3> QED BY <3>1, ChainStep
  <2>6. g[i6] = Feed(g[i5], s, i6)
    <3>1. i5 = i6 - 1 /\ i6 \in 1..Len(s)
      BY <1>6a, <1>6b
    <3> QED BY <3>1, ChainStep
  <2> QED BY <2>2, <2>3, <2>4, <2>5, <2>6
<1>9. InLine(g[0], "METHOD", 1) /\ g[0].keepAlive = FALSE
  BY DEF NewRequest, InLine, RequestFields
<1>10. InLine(g[1], "METHOD", 1) /\ g[1].keepAlive = FALSE
  BY <1>6, <1>7, <1>8, <1>9 DEF Feed, InLine, ParseRequestLine
<1>11. InLine(g[2], "URL", 3) /\ g[2].keepAlive = FALSE /\ g[2].method = method
  <2>1. Token(g[1], s, 2) = <<method>>
    <3>1. SubSeq(s, 1, 1) = <<s[1]>>
      BY <1>2, <1>6b, OnePart
    <3>2. 2 - 1 = 1
      OBVIOUS
    <3> QED BY <1>6, <1>10, <3>1, <3>2 DEF Token, InLine
  <2>2. OneOf(Methods, <<method>>, "INVALID") = method
    BY Single DEF OneOf
  <2>3. 2 + 1 = 3
    OBVIOUS
  <2>4. g[2] = [g[1] EXCEPT !.method = method, !.line = "URL", !.parseStart = 3]
    <3>1. g[2] = ParseRequestLine(g[1], s, 2)
      BY <1>8, <1>10 DEF Feed, InLine
    <3>2. g[2] = [g[1] EXCEPT !.method = OneOf(Methods, Token(g[1], s, 2), "INVALID"),
                              !.line = "URL", !.parseStart = 2 + 1]
      BY <1>6, <1>10, <3>1 DEF InLine, ParseRequestLine
    <3> QED BY <2>1, <2>2, <2>3, <3>2
  <2> QED BY <1>10, <2>4 DEF InLine, RequestFields
<1>12. g[i2] = g[2]
  <2>1. ASSUME NEW i \in 2 + 1..i2 PROVE Feed(g[2], s, i) = g[2]
    <3>1. s[i] # SP
      <4>1. i - 2 \in 1..Len(url) /\ s[2 + (i - 2)] = url[i - 2] /\ 2 + (i - 2) = i
        BY <1>6, <1>6b DEF n
      <4>2. s[i] = url[i - 2]
        BY <4>1
      <4> QED BY <4>1, <4>2
    <3> QED BY <1>11, <3>1 DEF Feed, InLine, ParseRequestLine
  <2>2. 2 \in Nat
    OBVIOUS
  <2> QED BY <1>2, <1>6b, <2>1, <2>2, Stays
<1>13. InLine(g[i3], "VERSION", i4) /\ g[i3].keepAlive = FALSE /\ g[i3].method = method /\ g[i3].url = url
  <2>1. Token(g[2], s, i3) = url
    BY <1>6a, <1>6d, <1>11 DEF Token, InLine
  <2>2. g[i3] = [g[2] EXCEPT !.url = url, !.line = "VERSION", !.parseStart = i4]
    <3>1. g[i3] = ParseRequestLine(g[2], s, i3)
      BY <1>8, <1>11, <1>12 DEF Feed, InLine
    <3>2. g[i3] = [g[2] EXCEPT !.url = Token(g[2], s, i3), !.line = "VERSION", !.parseStart = i3 + 1]
      BY <1>6c, <1>11, <3>1 DEF InLine, ParseRequestLine
    <3> QED BY <1>6a, <2>1, <3>2
  <2> QED BY <1>11, <2>2 DEF InLine, RequestFields
<1>14. g[i4] = g[i3]
  BY <1>6c, <1>7, <1>8, <1>13 DEF Feed, InLine, ParseRequestLine
<1>15. /\ InLine(g[i5], "LINE_END", i4) /\ g[i5].keepAlive = TRUE /\ g[i5].method = method
       /\ g[i5].url = url
  <2>1. Token(g[i4], s, i5) = <<"HTTP/1.1">>
    <3>1. SubSeq(s, i4, i4) = <<"HTTP/1.1">>
      BY <1>2, <1>6b, <1>6c, OnePart
    <3> QED BY <1>6a, <1>13, <1>14, <3>1 DEF Token, InLine
  <2>2. OneOf(Versions, <<"HTTP/1.1">>, "UNKNOWN") = "HTTP/1.1"
    BY Single DEF OneOf, Versions
  <2>3. g[i5] = [g[i4] EXCEPT !.version = "HTTP/1.1", !.keepAlive = @ \/ TRUE, !.line = "LINE_END"]
    <3>1. g[i5] = ParseRequestLine(g[i4], s, i5)
      BY <1>8, <1>13, <1>14 DEF Feed, InLine
    <3>2. OneOf(Versions, Token(g[i4], s, i5), "UNKNOWN") = "HTTP/1.1"
      BY <2>1, <2>2
    <3> QED BY <1>6c, <1>13, <1>14, <3>1, <3>2 DEF InLine, ParseRequestLine
  <2>4. (g[i4].keepAlive \/ TRUE) = TRUE
    OBVIOUS
  <2>5. g[i5] = [g[i4] EXCEPT !.version = "HTTP/1.1", !.keepAlive = TRUE, !.line = "LINE_END"]
    BY <2>3, <2>4
  <2> QED BY <1>13, <1>14, <2>5 DEF InLine, RequestFields
<1>16. Begun(g[i6], method, url, n + 6)
  <2>1. g[i6] = [g[i5] EXCEPT !.parse = "HEADERS", !.header = "KEY", !.end = i6, !.parseStart = i6 + 1]
    BY <1>6c, <1>8, <1>15 DEF Feed, InLine, ParseRequestLine
  <2> QED BY <1>6a, <1>15, <2>1 DEF InLine, RequestFields, Begun
<1> QED BY <1>3, <1>4, <1>16 DEF n, i6

\* A header can be written on a line: its name is a word and its value is not
\* empty and ends with the line.
Writable(key, value) ==
  /\ key \notin {COLON, CR, LF} /\ IsText(value) /\ Len(value) # 0
  /\ \A i \in 1..Len(value) : value[i] # CR

\* At the beginning of a header line, at position p.
AtLine(r, p) ==
  /\ RequestFields \subseteq DOMAIN r
  /\ r.parse = "HEADERS" /\ r.failed = FALSE
  /\ r.header = "LF" \/ (r.header = "KEY" /\ r.parseStart = p)

\* a is r after a header line.
LineAdded(a, r, key, value) ==
  /\ RequestFields \subseteq DOMAIN a
  /\ a.parse = "HEADERS" /\ a.header = "LF" /\ a.failed = FALSE
  /\ a.method = r.method /\ a.url = r.url /\ a.body = r.body /\ a.end = r.end
  /\ a.headers = [k \in DOMAIN r.headers \cup {<<key>>} |->
                    IF k = <<key>> THEN value ELSE r.headers[k]]
  /\ a.contentLength = IF <<key>> = <<"Content-Length">> THEN IntOf[value] ELSE r.contentLength
  /\ a.keepAlive = IF <<key>> # <<"Connection">> THEN r.keepAlive
                   ELSE (r.keepAlive /\ value # <<"close">>) \/ value = <<"keep-alive">>

\* a is r in the middle of a header line.
InsideLine(a, r, header) ==
  /\ RequestFields \subseteq DOMAIN a
  /\ a.parse = "HEADERS" /\ a.header = header /\ a.failed = FALSE
  /\ a.method = r.method /\ a.url = r.url /\ a.body = r.body /\ a.end = r.end
  /\ a.headers = r.headers /\ a.contentLength = r.contentLength /\ a.keepAlive = r.keepAlive

\* The symbols of a header line where it stands.
LEMMA HeaderLineIs ==
  ASSUME NEW key, NEW value, IsText(value)
  PROVE  /\ IsText(HeaderLine(key, value)) /\ Len(HeaderLine(key, value)) = Len(value) + 5
         /\ \A s, p : IsText(s) /\ p \in Nat \ {0} /\ At(s, p, HeaderLine(key, value)) =>
              /\ s[p] = key /\ s[p + 1] = COLON /\ s[p + 2] = SP /\ At(s, p + 3, value)
              /\ s[p + Len(value) + 3] = CR /\ s[p + Len(value) + 4] = LF
              /\ p + Len(value) + 4 <= Len(s)
<1> DEFINE n == Len(value)
           a == <<key, ":", " ">>
<1>1. IsText(a) /\ IsText(CRLF) /\ Len(a) = 3 /\ Len(CRLF) = 2
  BY Single DEF CRLF
<1>2. a[1] = key /\ a[2] = COLON /\ a[3] = SP /\ CRLF[1] = CR /\ CRLF[2] = LF
  BY Single DEF CRLF, CR, LF, COLON, SP
<1>3. n \in Nat
  BY DEF IsText
<1>4. HeaderLine(key, value) = (a \o value) \o CRLF
  BY DEF HeaderLine
<1> HIDE DEF a
<1>5. IsText(a \o value) /\ Len(a \o value) = Len(a) + Len(value)
  BY <1>1, Joined
<1>6. IsText((a \o value) \o CRLF) /\ Len((a \o value) \o CRLF) = Len(a \o value) + Len(CRLF)
  BY <1>1, <1>5, Joined
<1>7. Len(a \o value) = n + 3 /\ Len((a \o value) \o CRLF) = n + 5
  BY <1>1, <1>3, <1>5, <1>6
<1>8. ASSUME NEW s, NEW p \in Nat \ {0}, IsText(s), At(s, p, HeaderLine(key, value))
      PROVE  /\ s[p] = key /\ s[p + 1] = COLON /\ s[p + 2] = SP /\ At(s, p + 3, value)
             /\ s[p + Len(value) + 3] = CR /\ s[p + Len(value) + 4] = LF
             /\ p + Len(value) + 4 <= Len(s)
  <2>1. At(s, p, (a \o value) \o CRLF) /\ p \in Nat
    BY <1>4, <1>8
  <2>2. At(s, p, a \o value) /\ At(s, p + Len(a \o value), CRLF)
    BY <1>1, <1>5, <1>8, <2>1, AtJoined
  <2>3. At(s, p, a) /\ At(s, p + Len(a), value)
    BY <1>1, <1>8, <2>1, <2>2, AtJoined
  <2>4. At(s, p + 3, value) /\ At(s, p + (n + 3), CRLF)
    BY <1>1, <1>7, <2>2, <2>3
  <2>5. 1 \in 1..3 /\ 2 \in 1..3 /\ 3 \in 1..3 /\ 1 \in 1..2 /\ 2 \in 1..2
    OBVIOUS
  <2>6. s[p + 1 - 1] = key /\ s[p + 2 - 1] = COLON /\ s[p + 3 - 1] = SP
    BY <1>1, <1>2, <2>3, <2>5 DEF At
  <2>7. s[p + (n + 3) + 1 - 1] = CR /\ s[p + (n + 3) + 2 - 1] = LF /\ p + (n + 3) + 2 - 1 <= Len(s)
    BY <1>1, <1>2, <2>4, <2>5 DEF At
  <2>8. /\ p + 1 - 1 = p /\ p + 2 - 1 = p + 1 /\ p + 3 - 1 = p + 2
        /\ p + (n + 3) + 1 - 1 = p + n + 3 /\ p + (n + 3) + 2 - 1 = p + n + 4
    BY <1>3, <2>1
  <2> QED BY <2>4, <2>6, <2>7, <2>8
<1> QED BY <1>4, <1>6, <1>7, <1>8

\* A header line is read into its header, unless stoi throws.
LEMMA HeaderLineRead ==
  ASSUME NEW s, IsText(s), NEW g, Chain(g, s), NEW p \in Nat \ {0}, AtLine(g[p - 1], p),
         NEW key, NEW value, Writable(key, value), At(s, p, HeaderLine(key, value))
  PROVE  /\ p + Len(value) + 4 \in 1..Len(s)
         /\ IF key = "Content-Length" /\ value \notin DOMAIN IntOf
            THEN g[p + Len(value) + 4].parse = "THROWN" /\ g[p + Len(value) + 4].failed = FALSE
            ELSE LineAdded(g[p + Len(value) + 4], g[p - 1], key, value)
<1> DEFINE n == Len(value)
           r == g[p - 1]
<1>1. /\ key \notin {COLON, CR, LF} /\ IsText(value) /\ n \in Nat \ {0} /\ Len(s) \in Nat
      /\ \A i \in 1..n : value[i] # CR
  BY DEF Writable, IsText
<1>2. /\ s[p] = key /\ s[p + 1] = COLON /\ s[p + 2] = SP /\ At(s, p + 3, value)
      /\ s[p + n + 3] = CR /\ s[p + n + 4] = LF /\ p + n + 4 <= Len(s)
  BY <1>1, HeaderLineIs
<1> HIDE DEF n
<1> DEFINE i0 == p - 1
           i1 == p + 1
           i2 == p + 2
           i3 == p + 3
           j == p + n + 2
           c == p + n + 3
           e == p + n + 4
<1>3. /\ i0 = p - 1 /\ p = i1 - 1 /\ i1 = i2 - 1 /\ i2 = i3 - 1 /\ j = c - 1 /\ c = e - 1
      /\ p \in 1..Len(s) /\ i1 \in 1..Len(s) /\ i2 \in 1..Len(s) /\ i3 \in 1..Len(s)
      /\ c \in 1..Len(s) /\ e \in 1..Len(s) /\ j \in i3..Len(s) /\ i3 \in Nat
      /\ i2 = i1 + 1
      /\ \A i \in i3..j : i - p - 2 \in 1..n /\ p + 3 + (i - p - 2) - 1 = i
  BY <1>1, <1>2
<1>4. s[i1] = COLON /\ s[i2] = SP /\ s[c] = CR /\ s[e] = LF /\ r = g[i0]
  BY <1>2
<1>5. \A i \in i3..j : s[i] # CR
  <2> SUFFICES ASSUME NEW i \in i3..j PROVE s[i] # CR
    OBVIOUS
  <2>1. i - p - 2 \in 1..n /\ p + 3 + (i - p - 2) - 1 = i
    BY <1>3
  <2>2. s[p + 3 + (i - p - 2) - 1] = value[i - p - 2]
    BY <1>2, <2>1 DEF At, n
  <2> QED BY <1>1, <2>1, <2>2
<1>6. SubSeq(s, i3, j) = value
  <2>1. j = i3 + Len(value) - 1 /\ i3 \in Nat \ {0} /\ At(s, i3, value)
    BY <1>1, <1>2 DEF n
  <2> HIDE DEF i3, j
  <2> QED BY <1>1, <2>1, PartAt
<1> HIDE DEF i0, i1, i2, i3, j, c, e, r
<1>7. COLON # CR /\ COLON # LF /\ SP # CR /\ CR # LF
  BY DEF COLON, SP, CR, LF
<1>8. /\ g[p] = Feed(g[i0], s, p) /\ g[i1] = Feed(g[p], s, i1) /\ g[i2] = Feed(g[i1], s, i2)
      /\ g[i3] = Feed(g[i2], s, i3) /\ g[c] = Feed(g[j], s, c) /\ g[e] = Feed(g[c], s, e)
  <2>1. g[p] = Feed(g[i0], s, p)
    <3>1. i0 = p - 1 /\ p \in 1..Len(s)
      BY <1>3
    <3> QED BY <3>1, ChainStep
  <2>2. g[i1] = Feed(g[p], s, i1)
    <3>1. p = i1 - 1 /\ i1 \in 1..Len(s)
      BY <1>3
    <3> QED BY <3>1, ChainStep
  <2>3. g[i2] = Feed(g[i1], s, i2)
    <3>1. i1 = i2 - 1 /\ i2 \in 1..Len(s)
      BY <1>3
    <3> QED BY <3>1, ChainStep
  <2>4. g[i3] = Feed(g[i2], s, i3)
    <3>1. i2 = i3 - 1 /\ i3 \in 1..Len(s)
      BY <1>3
    <3> QED BY <3>1, ChainStep
  <2>5. g[c] = Feed(g[j], s, c)
    <3>1. j = c - 1 /\ c \in 1..Len(s)
      BY <1>3
    <3> QED BY <3>1, ChainStep
  <2>6. g[e] = Feed(g[c], s, e)
    <3>1. c = e - 1 /\ e \in 1..Len(s)
      BY <1>3
    <3> QED BY <3>1, ChainStep
  <2> QED BY <2>1, <2>2, <2>3, <2>4, <2>5, <2>6
<1>9. InsideLine(g[p], r, "KEY") /\ g[p].parseStart = p
  <2>0. r = g[i0] /\ AtLine(r, p)
    BY <1>4 DEF r
  <2>1. g[p] = ParseHeader(r, s, p)
    BY <1>8, <2>0 DEF Feed, AtLine
  <2>2. CASE r.header = "KEY" /\ r.parseStart = p
    <3>1. g[p] = r
      BY <1>1, <1>2, <2>1, <2>2 DEF ParseHeader
    <3> QED BY <2>0, <2>2, <3>1 DEF InsideLine, AtLine
  <2>3. CASE r.header = "LF"
    <3>1. g[p] = [r EXCEPT !.header = "KEY", !.parseStart = p]
      BY <1>1, <1>2, <2>1, <2>3 DEF ParseHeader
    <3> QED BY <2>0, <3>1 DEF InsideLine, AtLine, RequestFields
  <2> QED BY <2>0, <2>2, <2>3 DEF AtLine
<1>10. InsideLine(g[i1], r, "COLON") /\ g[i1].curKey = <<key>>
  <2>1. Token(g[p], s, i1) = <<key>>
    <3>1. SubSeq(s, p, p) = <<s[p]>>
      BY <1>3, OnePart
    <3> QED BY <1>2, <1>3, <1>9, <3>1 DEF Token
  <2>2. g[i1] = ParseHeader(g[p], s, i1)
    BY <1>8, <1>9 DEF Feed, InsideLine
  <2>3. g[i1] = [g[p] EXCEPT !.header = "COLON", !.curKey = <<key>>, !.parseStart = i1 + 1]
    BY <1>4, <1>9, <2>1, <2>2 DEF ParseHeader, InsideLine
  <2> QED BY <1>9, <2>3 DEF InsideLine, RequestFields
<1>11. InsideLine(g[i2], r, "SPACE_AFTER_COLON") /\ g[i2].curKey = <<key>>
  <2>1. g[i2] = ParseHeader(g[i1], s, i2)
    BY <1>8, <1>10 DEF Feed, InsideLine
  <2>2. g[i2] = [g[i1] EXCEPT !.header = "SPACE_AFTER_COLON"]
    BY <1>4, <1>10, <2>1 DEF ParseHeader, InsideLine
  <2> QED BY <1>10, <2>2 DEF InsideLine, RequestFields
<1>12. InsideLine(g[i3], r, "VALUE") /\ g[i3].curKey = <<key>> /\ g[i3].parseStart = i3
  <2>1. g[i3] = ParseHeader(g[i2], s, i3)
    BY <1>8, <1>11 DEF Feed, InsideLine
  <2>2. g[i3] = [g[i2] EXCEPT !.header = "VALUE", !.parseStart = i3]
    BY <1>4, <1>11, <2>1 DEF ParseHeader, InsideLine
  <2> QED BY <1>11, <2>2 DEF InsideLine, RequestFields
<1>13. g[j] = g[i3]
  <2>1. ASSUME NEW i \in i3 + 1..j PROVE Feed(g[i3], s, i) = g[i3]
    <3>1. i \in i3..j
      BY <1>3
    <3>2. s[i] # CR
      BY <1>5, <3>1
    <3>3. Feed(g[i3], s, i) = ParseHeader(g[i3], s, i)
      BY <1>12 DEF Feed, InsideLine
    <3> QED BY <1>12, <3>2, <3>3 DEF ParseHeader, InsideLine
  <2> QED BY <1>1, <1>3, <2>1, Stays
<1> DEFINE v == g[i3]
<1>14. g[c] = EndOfValue(v, value)
  <2>1. g[c] = ParseHeader(v, s, c)
    BY <1>8, <1>12, <1>13 DEF Feed, InsideLine
  <2>2. Token(v, s, c) = value
    BY <1>3, <1>6, <1>12 DEF Token
  <2> QED BY <1>4, <1>12, <2>1, <2>2 DEF ParseHeader, InsideLine
<1>15. (v.curKey = <<"Content-Length">>) <=> (key = "Content-Length")
  BY <1>12, Single
<1>16. CASE key = "Content-Length" /\ value \notin DOMAIN IntOf
  <2>1. g[c] = [v EXCEPT !.parse = "THROWN"]
    BY <1>14, <1>15, <1>16 DEF EndOfValue
  <2>2. g[c].parse = "THROWN" /\ g[c].failed = FALSE
    BY <1>12, <2>1 DEF InsideLine, RequestFields
  <2>3. g[e] = g[c]
    BY <1>8, <2>2 DEF Feed
  <2> QED BY <1>3, <1>16, <2>2, <2>3 DEF e, n
<1>17. CASE ~(key = "Content-Length" /\ value \notin DOMAIN IntOf)
  <2>1. g[c] = [v EXCEPT !.headers = HeadersWith(v, value),
                         !.contentLength = IF v.curKey = <<"Content-Length">> THEN IntOf[value] ELSE @,
                         !.keepAlive = KeepAliveAfter(v, v.curKey, value),
                         !.header = "CR"]
    BY <1>14, <1>15, <1>17 DEF EndOfValue
  <2>2. /\ RequestFields \subseteq DOMAIN g[c]
        /\ g[c].parse = "HEADERS" /\ g[c].header = "CR" /\ g[c].failed = FALSE
        /\ g[c].method = r.method /\ g[c].url = r.url /\ g[c].body = r.body /\ g[c].end = r.end
        /\ g[c].headers = HeadersWith(v, value)
        /\ g[c].contentLength = IF <<key>> = <<"Content-Length">> THEN IntOf[value] ELSE r.contentLength
        /\ g[c].keepAlive = KeepAliveAfter(v, <<key>>, value)
    BY <1>12, <2>1 DEF InsideLine, RequestFields
  <2>3. g[e] = ParseHeader(g[c], s, e)
    BY <1>8, <2>2 DEF Feed
  <2>4. g[e] = [g[c] EXCEPT !.header = "LF"]
    BY <1>4, <2>2, <2>3 DEF ParseHeader
  <2>5. KeepAliveAfter(v, <<key>>, value) =
          IF <<key>> # <<"Connection">> THEN r.keepAlive
          ELSE (r.keepAlive /\ value # <<"close">>) \/ value = <<"keep-alive">>
    BY <1>12 DEF KeepAliveAfter, InsideLine
  <2>5a. HeadersWith(v, value) = [k \in DOMAIN r.headers \cup {<<key>>} |->
                                    IF k = <<key>> THEN value ELSE r.headers[k]]
    BY <1>12 DEF HeadersWith, InsideLine
  <2>6. LineAdded(g[e], r, key, value)
    BY <2>2, <2>4, <2>5, <2>5a DEF LineAdded, RequestFields
  <2> QED BY <1>3, <1>17, <2>6 DEF e, n, r
<1> QED BY <1>16, <1>17

(***************************************************************************)
(* The header lines of a message, one after the other, and its body.        *)
(***************************************************************************)

\* What the headers h say of the length of the body
LengthOf(h) ==
  IF <<"Content-Length">> \in DOMAIN h THEN IntOf[h[<<"Content-Length">>]] ELSE 0

\* and of keeping the connection.
KeepOf(h) == <<"Connection">> \in DOMAIN h => h[<<"Connection">>] # <<"close">>

\* r has this method and URL, and these headers.
Holds(r, method, url, h) ==
  /\ RequestFields \subseteq DOMAIN r
  /\ r.failed = FALSE /\ r.method = method /\ r.url = url /\ r.headers = h
  /\ r.contentLength = LengthOf(h) /\ r.keepAlive = KeepOf(h)

\* The header lines of a message: names are not repeated.
Lines(hs) ==
  /\ IsText(hs)
  /\ \A i \in 1..Len(hs) : Writable(hs[i].key, hs[i].value)
  /\ \A i, j \in 1..Len(hs) : hs[i].key = hs[j].key => i = j

\* Whether stoi throws for a line.
Throwing(line) == line.key = "Content-Length" /\ line.value \notin DOMAIN IntOf

\* The headers of the first j lines.
HeadersOf(hs, j) ==
  [k \in {<<hs[i].key>> : i \in 1..j} |->
     hs[CHOOSE i \in 1..j : <<hs[i].key>> = k].value]

\* The headers of the first j lines are these lines' values.
LEMMA HeaderOf ==
  ASSUME NEW hs, Lines(hs), NEW j \in 0..Len(hs)
  PROVE  /\ DOMAIN HeadersOf(hs, j) = {<<hs[i].key>> : i \in 1..j}
         /\ \A i \in 1..j : HeadersOf(hs, j)[<<hs[i].key>>] = hs[i].value
         /\ \A i \in 1..Len(hs) : <<hs[i].key>> \in DOMAIN HeadersOf(hs, j) <=> i <= j
<1> DEFINE n == Len(hs)
<1>1. n \in Nat /\ \A i \in 1..j : i \in 1..n
  BY DEF Lines, IsText
<1>2. \A i, l \in 1..n : <<hs[i].key>> = <<hs[l].key>> => i = l
  BY SameWord DEF Lines
<1>3. DOMAIN HeadersOf(hs, j) = {<<hs[i].key>> : i \in 1..j}
  BY DEF HeadersOf
<1>4. ASSUME NEW i \in 1..j PROVE HeadersOf(hs, j)[<<hs[i].key>>] = hs[i].value
  <2> DEFINE k == <<hs[i].key>>
             l == CHOOSE l \in 1..j : <<hs[l].key>> = k
  <2>1. l \in 1..j /\ <<hs[l].key>> = k
    OBVIOUS
  <2> HIDE DEF l
  <2>2. l = i
    BY <1>1, <1>2, <2>1
  <2>3. HeadersOf(hs, j)[k] = hs[l].value
    BY DEF HeadersOf, l
  <2> QED BY <2>2, <2>3
<1>5. ASSUME NEW i \in 1..n PROVE <<hs[i].key>> \in DOMAIN HeadersOf(hs, j) <=> i <= j
  <2>1. ASSUME <<hs[i].key>> \in DOMAIN HeadersOf(hs, j) PROVE i <= j
    <3>1. PICK l \in 1..j : <<hs[i].key>> = <<hs[l].key>>
      BY <1>3, <2>1
    <3>2. i = l
      BY <1>1, <1>2, <3>1
    <3> QED BY <3>2
  <2>2. ASSUME i <= j PROVE <<hs[i].key>> \in DOMAIN HeadersOf(hs, j)
    BY <1>1, <1>3, <2>2
  <2> QED BY <2>1, <2>2
<1> QED BY <1>3, <1>4, <1>5

\* A line read for the first time adds a header, read again it adds nothing.
LEMMA LineHeld ==
  ASSUME NEW hs, Lines(hs), NEW j \in 0..Len(hs), NEW i \in 1..Len(hs), i <= j + 1,
         NEW r, NEW a, NEW method, NEW url, Holds(r, method, url, HeadersOf(hs, j)),
         LineAdded(a, r, hs[i].key, hs[i].value)
  PROVE  Holds(a, method, url, HeadersOf(hs, IF i <= j THEN j ELSE i))
<1> DEFINE k == <<hs[i].key>>
           v == hs[i].value
           h == HeadersOf(hs, j)
           m == IF i <= j THEN j ELSE i
           h2 == HeadersOf(hs, m)
<1>1. Len(hs) \in Nat /\ m \in 0..Len(hs) /\ i <= m /\ j <= m /\ \A l \in 1..m : l <= j \/ l = i
  BY DEF Lines, IsText
<1>2. /\ DOMAIN h = {<<hs[l].key>> : l \in 1..j} /\ (k \in DOMAIN h <=> i <= j)
      /\ \A l \in 1..j : h[<<hs[l].key>>] = hs[l].value
  BY HeaderOf
<1> HIDE DEF m
<1>3. /\ DOMAIN h2 = {<<hs[l].key>> : l \in 1..m}
      /\ \A l \in 1..m : h2[<<hs[l].key>>] = hs[l].value
  BY <1>1, HeaderOf
<1>4. h2 = [x \in DOMAIN h2 |-> h2[x]]
  BY DEF HeadersOf
<1> DEFINE u == [x \in DOMAIN h \cup {k} |-> IF x = k THEN v ELSE h[x]]
<1>5. /\ DOMAIN u = {k} \cup DOMAIN h
      /\ \A x \in DOMAIN u : u[x] = IF x = k THEN v ELSE h[x]
      /\ u = [x \in DOMAIN u |-> u[x]]
  <2> HIDE DEF h, k, v
  <2> QED OBVIOUS
<1>6. k \in DOMAIN h => h[k] = v
  <2> SUFFICES ASSUME i <= j PROVE h[k] = v
    BY <1>2
  <2>1. i \in 1..j
    OBVIOUS
  <2> QED BY <1>2, <2>1
<1> HIDE DEF u, h, h2, k
<1>7. DOMAIN u = DOMAIN h2
  <2>1. ASSUME NEW x \in DOMAIN u PROVE x \in DOMAIN h2
    <3>1. CASE x = k
      <4>1. i \in 1..m
        BY <1>1
      <4> QED BY <1>3, <3>1, <4>1 DEF k
    <3>2. CASE x \in DOMAIN h
      <4>1. PICK l \in 1..j : x = <<hs[l].key>>
        BY <1>2, <3>2
      <4>2. l \in 1..m
        BY <1>1
      <4> QED BY <1>3, <4>1, <4>2
    <3> QED BY <1>5, <3>1, <3>2
  <2>2. ASSUME NEW x \in DOMAIN h2 PROVE x \in DOMAIN u
    <3>1. PICK l \in 1..m : x = <<hs[l].key>>
      BY <1>3
    <3>2. CASE l = i
      BY <1>5, <3>1, <3>2 DEF k
    <3>3. CASE l <= j
      <4>1. l \in 1..j
        BY <1>1, <3>3
      <4>2. x \in DOMAIN h
        BY <1>2, <3>1, <4>1
      <4> QED BY <1>5, <4>2
    <3> QED BY <1>1, <3>2, <3>3
  <2> QED BY <2>1, <2>2
<1>8. ASSUME NEW x \in DOMAIN u PROVE u[x] = h2[x]
  <2>1. CASE x = k
    <3>1. i \in 1..m
      BY <1>1
    <3>2. h2[k] = v
      BY <1>3, <3>1 DEF k
    <3> QED BY <1>5, <2>1, <3>2
  <2>2. CASE x # k
    <3>1. x \in DOMAIN h
      BY <1>5, <2>2
    <3>2. PICK l \in 1..j : x = <<hs[l].key>>
      BY <1>2, <3>1
    <3>3. l \in 1..m
      BY <1>1
    <3>4. h[x] = hs[l].value /\ h2[x] = hs[l].value
      BY <1>2, <1>3, <3>2, <3>3
    <3> QED BY <1>5, <2>2, <3>4
  <2> QED BY <2>1, <2>2
<1>9. u = h2
  BY <1>4, <1>5, <1>7, <1>8
<1>10. /\ RequestFields \subseteq DOMAIN a /\ a.failed = FALSE /\ a.method = method /\ a.url = url
       /\ a.headers = h2
       /\ a.contentLength = IF k = <<"Content-Length">> THEN IntOf[v] ELSE LengthOf(h)
       /\ a.keepAlive = IF k # <<"Connection">> THEN KeepOf(h)
                        ELSE (KeepOf(h) /\ v # <<"close">>) \/ v = <<"keep-alive">>
  BY <1>9 DEF LineAdded, Holds, k, h, u
<1>11. DOMAIN h2 = {k} \cup DOMAIN h /\ h2[k] = v /\ \A x \in DOMAIN h : x # k => h2[x] = h[x]
  BY <1>5, <1>7, <1>8
<1>12. a.contentLength = LengthOf(h2)
  BY <1>10, <1>11 DEF LengthOf
<1>13. a.keepAlive = KeepOf(h2)
  <2>1. CASE k # <<"Connection">>
    BY <1>10, <1>11, <2>1 DEF KeepOf
  <2>2. CASE k = <<"Connection">>
    <3>0. <<"keep-alive">> # <<"close">>
      BY SameWord
    <3>1. KeepOf(h2) = (v # <<"close">>)
      BY <1>11, <2>2 DEF KeepOf
    <3>2. KeepOf(h) = (k \in DOMAIN h => v # <<"close">>)
      BY <1>6, <2>2 DEF KeepOf
    <3>3. a.keepAlive = ((KeepOf(h) /\ v # <<"close">>) \/ v = <<"keep-alive">>)
      BY <1>10, <2>2
    <3>4. CASE v = <<"close">>
      <4>1. KeepOf(h2) = FALSE /\ a.keepAlive = FALSE
        BY <3>0, <3>1, <3>3, <3>4
      <4> QED BY <4>1
    <3>5. CASE v # <<"close">>
      <4>1. KeepOf(h2) = TRUE /\ KeepOf(h) = TRUE
        BY <3>1, <3>2, <3>5
      <4>2. a.keepAlive = TRUE
        BY <3>3, <3>5, <4>1
      <4> QED BY <4>1, <4>2
    <3> QED BY <3>4, <3>5
  <2> QED BY <2>1, <2>2
<1> QED BY <1>10, <1>12, <1>13 DEF Holds, h2, m

\* Lines e[i - 1] + 1 to e[i] of s are the header lines.
Ruled(e, hs) ==
  /\ e \in [0..Len(hs) -> Nat]
  /\ \A i \in 1..Len(hs) : e[i] = e[i - 1] + Len(hs[i].value) + 5

\* The state after line i, if j lines were read before.
Reached(g, e, hs, j, method, url, i) ==
  /\ Holds(g[e[i]], method, url, HeadersOf(hs, IF i <= j THEN j ELSE i))
  /\ AtLine(g[e[i]], e[i] + 1) /\ (i # 0 => g[e[i]].header = "LF")
  /\ g[e[i]].body = g[e[0]].body /\ g[e[i]].end = g[e[0]].end

\* After i lines the request holds their headers, and those read before.
LEMMA LinesRead ==
  ASSUME NEW s, IsText(s), NEW g, Chain(g, s), NEW hs, Lines(hs), NEW e, Ruled(e, hs),
         NEW m \in 0..Len(hs),
         \A i \in 1..m : At(s, e[i - 1] + 1, HeaderLine(hs[i].key, hs[i].value)) /\ ~Throwing(hs[i]),
         NEW j \in 0..Len(hs), NEW method, NEW url,
         Holds(g[e[0]], method, url, HeadersOf(hs, j)), AtLine(g[e[0]], e[0] + 1)
  PROVE  \A i \in 0..m : Reached(g, e, hs, j, method, url, i)
<1> DEFINE Good(i) ==
             /\ Holds(g[e[i]], method, url, HeadersOf(hs, IF i <= j THEN j ELSE i))
             /\ AtLine(g[e[i]], e[i] + 1) /\ (i # 0 => g[e[i]].header = "LF" /\ e[i] \in 1..Len(s))
             /\ g[e[i]].body = g[e[0]].body /\ g[e[i]].end = g[e[0]].end
           T == {i \in Nat : i \in 0..m => Good(i)}
<1>1. ASSUME NEW i \in Nat, \A l \in Nat : l < i => l \in T PROVE i \in T
  <2> SUFFICES ASSUME i \in 0..m PROVE Good(i)
    OBVIOUS
  <2>1. CASE i = 0
    BY <2>1
  <2>2. CASE i # 0
    <3>1. i - 1 \in T /\ i - 1 \in 0..m /\ i \in 1..m /\ i \in 1..Len(hs) /\ i - 1 \in 0..Len(hs)
      BY <1>1, <2>2 DEF Lines, IsText
    <3>2. Good(i - 1)
      BY <3>1
    <3> HIDE DEF T, Good
    <3> DEFINE p == e[i - 1] + 1
               key == hs[i].key
               value == hs[i].value
               l == IF i - 1 <= j THEN j ELSE i - 1
    <3>3. /\ p \in Nat \ {0} /\ p - 1 = e[i - 1] /\ e[i] = p + Len(value) + 4
          /\ Writable(key, value) /\ At(s, p, HeaderLine(key, value)) /\ ~Throwing(hs[i])
      <4>1. e[i - 1] \in Nat /\ e[i] = e[i - 1] + Len(value) + 5 /\ Len(value) \in Nat
        BY <3>1 DEF Ruled, Lines, Writable, IsText
      <4>2. p \in Nat \ {0} /\ p - 1 = e[i - 1] /\ e[i] = p + Len(value) + 4
        <5> DEFINE x == e[i - 1]
                   y == e[i]
                   z == Len(value)
        <5>1. x \in Nat /\ y = x + z + 5 /\ z \in Nat
          BY <4>1
        <5> HIDE DEF x, y, z
        <5>2. x + 1 \in Nat \ {0} /\ x + 1 - 1 = x /\ y = x + 1 + z + 4
          BY <5>1
        <5> QED BY <4>1, <5>2 DEF x, y, z
      <4>3. Writable(key, value)
        BY <3>1 DEF Lines
      <4>4. At(s, p, HeaderLine(key, value)) /\ ~Throwing(hs[i])
        BY <3>1
      <4> QED BY <4>2, <4>3, <4>4
    <3>4. /\ Holds(g[e[i - 1]], method, url, HeadersOf(hs, l)) /\ AtLine(g[e[i - 1]], p)
          /\ g[e[i - 1]].body = g[e[0]].body /\ g[e[i - 1]].end = g[e[0]].end
      BY <3>2 DEF Good
    <3> HIDE DEF p, key, value
    <3>5. /\ p + Len(value) + 4 \in 1..Len(s)
          /\ LineAdded(g[p + Len(value) + 4], g[p - 1], key, value)
      <4>1. ~(key = "Content-Length" /\ value \notin DOMAIN IntOf)
        BY <3>3 DEF Throwing, key, value
      <4>2. AtLine(g[p - 1], p)
        BY <3>3, <3>4
      <4> QED BY <3>3, <4>1, <4>2, HeaderLineRead
    <3>6. LineAdded(g[e[i]], g[e[i - 1]], hs[i].key, hs[i].value) /\ e[i] \in 1..Len(s)
      BY <3>3, <3>5 DEF key, value
    <3>7. l \in 0..Len(hs) /\ i <= l + 1 /\ (IF i <= l THEN l ELSE i) = (IF i <= j THEN j ELSE i)
      BY <3>1 DEF Lines, IsText
    <3> HIDE DEF l
    <3>8. Holds(g[e[i]], method, url, HeadersOf(hs, IF i <= l THEN l ELSE i))
      BY <3>1, <3>4, <3>6, <3>7, LineHeld
    <3>9. Holds(g[e[i]], method, url, HeadersOf(hs, IF i <= j THEN j ELSE i))
      BY <3>7, <3>8
    <3>10. /\ AtLine(g[e[i]], e[i] + 1) /\ g[e[i]].header = "LF" /\ e[i] \in 1..Len(s)
           /\ g[e[i]].body = g[e[0]].body /\ g[e[i]].end = g[e[0]].end
      BY <3>4, <3>6 DEF LineAdded, AtLine
    <3> QED BY <3>9, <3>10 DEF Good
  <2> QED BY <2>1, <2>2
<1>2. Nat \subseteq T
  <2> HIDE DEF T
  <2> QED BY <1>1, Induction
<1>3. \A i \in 0..m : i \in Nat
  OBVIOUS
<1>4. \A i \in 0..m : Good(i)
  <2> HIDE DEF Good
  <2> QED BY <1>2, <1>3
<1> QED BY <1>4 DEF Reached

\* Two states of one request whose body may differ.
SameHead(a, b) ==
  /\ RequestFields \subseteq DOMAIN a
  /\ a.failed = b.failed /\ a.method = b.method /\ a.url = b.url /\ a.headers = b.headers
  /\ a.contentLength = b.contentLength /\ a.keepAlive = b.keepAlive

\* The empty line ends the head.
LEMMA EmptyLineRead ==
  ASSUME NEW s, IsText(s), NEW g, Chain(g, s), NEW p \in Nat \ {0}, p + 1 <= Len(s),
         s[p] = CR, s[p + 1] = LF, AtLine(g[p - 1], p), g[p - 1].header = "LF"
  PROVE  /\ SameHead(g[p + 1], g[p - 1]) /\ g[p + 1].body = g[p - 1].body
         /\ g[p + 1].parse = AfterHeaders(g[p - 1]) /\ g[p + 1].end = p + 1
<1> DEFINE i0 == p - 1
           i1 == p + 1
           r == g[i0]
<1>1. i0 = p - 1 /\ p = i1 - 1 /\ p \in 1..Len(s) /\ i1 \in 1..Len(s)
  BY DEF IsText
<1>2. s[i1] = LF /\ AtLine(r, p) /\ r.header = "LF" /\ SP # CR /\ CR # LF
  BY DEF SP, CR, LF
<1> HIDE DEF i0, i1
<1>3. g[p] = Feed(r, s, p)
  <2>1. i0 = p - 1 /\ p \in 1..Len(s)
    BY <1>1
  <2> QED BY <2>1, ChainStep
<1>4. g[i1] = Feed(g[p], s, i1)
  <2>1. p = i1 - 1 /\ i1 \in 1..Len(s)
    BY <1>1
  <2> QED BY <2>1, ChainStep
<1> HIDE DEF r
<1>5. g[p] = ParseHeader(r, s, p)
  BY <1>2, <1>3 DEF Feed, AtLine
<1>6. g[p] = [r EXCEPT !.header = "END_CR"]
  BY <1>2, <1>5 DEF ParseHeader
<1>7. /\ SameHead(g[p], r) /\ g[p].body = r.body /\ g[p].header = "END_CR" /\ g[p].parse = "HEADERS"
      /\ g[p].failed = FALSE
  BY <1>2, <1>6 DEF SameHead, AtLine, RequestFields
<1>8. g[i1] = ParseHeader(g[p], s, i1)
  BY <1>4, <1>7 DEF Feed
<1>9. g[i1] = [g[p] EXCEPT !.parse = AfterHeaders(g[p]), !.end = i1]
  BY <1>2, <1>7, <1>8 DEF ParseHeader
<1>10. AfterHeaders(g[p]) = AfterHeaders(r)
  BY <1>7 DEF AfterHeaders, SameHead
<1>11. SameHead(g[i1], r) /\ g[i1].body = r.body /\ g[i1].parse = AfterHeaders(r) /\ g[i1].end = i1
  BY <1>7, <1>9, <1>10 DEF SameHead, RequestFields
<1> QED BY <1>11 DEF i0, i1, r

\* In the body w of a message, b bytes of which are read.
InBody(r, w, b) ==
  /\ r.parse = "BODY" /\ r.failed = FALSE /\ r.contentLength = Len(w)
  /\ RequestFields \subseteq DOMAIN r
  /\ b \in 0..Len(w) - 1 /\ r.body = SubSeq(w, 1, b)

\* One more symbol of a text.
LEMMA OneMore ==
  ASSUME NEW w, IsText(w), NEW k \in 0..Len(w) - 1
  PROVE  /\ Append(SubSeq(w, 1, k), w[k + 1]) = SubSeq(w, 1, k + 1)
         /\ Len(SubSeq(w, 1, k)) = k /\ Len(SubSeq(w, 1, k + 1)) = k + 1
<1> DEFINE S == {w[i] : i \in 1..Len(w)}
<1>1. Len(w) \in Nat /\ k \in Nat /\ k + 1 \in 1..Len(w)
  BY DEF IsText
<1>2. w \in Seq(S)
  BY TextIsSeq
<1>3. w[k + 1] \in S
  BY <1>1
<1> HIDE DEF S
<1>4. /\ IsText(SubSeq(w, 1, k)) /\ Len(SubSeq(w, 1, k)) = IF 1 <= k THEN k - 1 + 1 ELSE 0
      /\ \A i \in 1..(k - 1 + 1) : SubSeq(w, 1, k)[i] = w[1 + i - 1]
  <2>1. 1 \in Nat \ {0} /\ k \in Int /\ k <= Len(w)
    BY <1>1
  <2> QED BY <2>1, PartOfText
<1>5. /\ IsText(SubSeq(w, 1, k + 1)) /\ Len(SubSeq(w, 1, k + 1)) = IF 1 <= k + 1 THEN k + 1 - 1 + 1 ELSE 0
      /\ \A i \in 1..(k + 1 - 1 + 1) : SubSeq(w, 1, k + 1)[i] = w[1 + i - 1]
  <2>1. 1 \in Nat \ {0} /\ k + 1 \in Int /\ k + 1 <= Len(w)
    BY <1>1
  <2> QED BY <2>1, PartOfText
<1> DEFINE a == SubSeq(w, 1, k)
           b == SubSeq(w, 1, k + 1)
           x == w[k + 1]
<1>6. /\ IsText(a) /\ Len(a) = k /\ (\A i \in 1..k : a[i] = w[i])
      /\ IsText(b) /\ Len(b) = k + 1 /\ (\A i \in 1..k + 1 : b[i] = w[i])
  <2>1. /\ (IF 1 <= k THEN k - 1 + 1 ELSE 0) = k /\ k - 1 + 1 = k
        /\ (IF 1 <= k + 1 THEN k + 1 - 1 + 1 ELSE 0) = k + 1 /\ k + 1 - 1 + 1 = k + 1
        /\ \A i \in 1..k + 1 : 1 + i - 1 = i
    BY <1>1
  <2>2. \A i \in 1..k : i \in 1..k + 1
    BY <1>1
  <2> QED BY <1>4, <1>5, <2>1, <2>2
<1>7. a \in Seq(S)
  <2>1. \A i \in 1..k : w[i] \in S
    BY <1>1 DEF S
  <2> QED BY <1>6, <2>1, TextIsSeq
<1> HIDE DEF a, b
<1>8. /\ Append(a, x) \in Seq(S) /\ Len(Append(a, x)) = k + 1
      /\ \A i \in 1..k : Append(a, x)[i] = a[i]
      /\ Append(a, x)[k + 1] = x
  BY <1>3, <1>6, <1>7, AppendProperties
<1>9. ASSUME NEW i \in 1..k + 1 PROVE Append(a, x)[i] = b[i]
  <2>1. CASE i \in 1..k
    BY <1>6, <1>8, <2>1
  <2>2. CASE i = k + 1
    BY <1>6, <1>8, <2>2
  <2>3. i \in 1..k \/ i = k + 1
    BY <1>1
  <2> QED BY <2>1, <2>2, <2>3
<1>10. IsText(Append(a, x)) /\ Len(Append(a, x)) = Len(b)
  BY <1>6, <1>8, SeqIsText
<1>11. Append(a, x) = b
  BY <1>6, <1>8, <1>9, <1>10, SameText
<1> QED BY <1>6, <1>11 DEF a, b

\* The body is read byte by byte and ends with its last one.
LEMMA BodyRead ==
  ASSUME NEW s, IsText(s), NEW g, Chain(g, s), NEW w, IsText(w), NEW q \in Nat, NEW b,
         InBody(g[q], w, b), NEW l \in 0..Len(w) - b, q + l <= Len(s),
         \A i \in 1..l : s[q + i] = w[b + i]
  PROVE  /\ SameHead(g[q + l], g[q]) /\ (l # 0 => g[q + l].end = q + l)
         /\ IF b + l = Len(w) THEN g[q + l].parse = "FINISH" /\ g[q + l].body = w
            ELSE InBody(g[q + l], w, b + l)
<1> DEFINE Good(k) ==
             /\ SameHead(g[q + k], g[q]) /\ (k # 0 => g[q + k].end = q + k)
             /\ g[q + k].body = SubSeq(w, 1, b + k)
             /\ g[q + k].parse = IF b + k = Len(w) THEN "FINISH" ELSE "BODY"
           T == {k \in Nat : k \in 0..l => Good(k)}
<1>1. Len(w) \in Nat /\ Len(s) \in Nat /\ b \in 0..Len(w) - 1 /\ g[q].failed = FALSE
      /\ g[q].contentLength = Len(w) /\ g[q].parse = "BODY" /\ g[q].body = SubSeq(w, 1, b)
      /\ RequestFields \subseteq DOMAIN g[q]
  BY DEF IsText, InBody
<1>2. ASSUME NEW k \in Nat, \A m \in Nat : m < k => m \in T PROVE k \in T
  <2> SUFFICES ASSUME k \in 0..l PROVE Good(k)
    OBVIOUS
  <2>1. CASE k = 0
    <3>1. q + 0 = q /\ b + 0 = b /\ b # Len(w)
      BY <1>1
    <3> QED BY <1>1, <2>1, <3>1 DEF SameHead
  <2>2. CASE k # 0
    <3> DEFINE m == k - 1
               i == q + k
               j == q + m
               c == b + m
    <3>1. /\ m \in 0..l /\ m \in Nat /\ m < k /\ k = m + 1 /\ j = i - 1 /\ i \in 1..Len(s)
          /\ b + k = c + 1 /\ c \in 0..Len(w) - 1 /\ c # Len(w)
      BY <1>1, <2>2
    <3>2. Good(m)
      BY <1>2, <3>1
    <3>3. s[i] = w[c + 1]
      <4>1. k \in 1..l /\ b + k = c + 1
        BY <2>2, <3>1
      <4>2. s[q + k] = w[b + k]
        BY <4>1
      <4> QED BY <4>1, <4>2
    <3>4. /\ SameHead(g[j], g[q]) /\ g[j].body = SubSeq(w, 1, c) /\ g[j].parse = "BODY"
      BY <3>1, <3>2
    <3> HIDE DEF Good, T, m, i, j, c
    <3>5. g[i] = Feed(g[j], s, i)
      <4>1. j = i - 1 /\ i \in 1..Len(s)
        BY <3>1
      <4> QED BY <4>1, ChainStep
    <3>6. g[j].failed = FALSE /\ g[j].contentLength = Len(w)
      BY <1>1, <3>4 DEF SameHead
    <3>7. g[i] = ParseBody(g[j], s, i)
      BY <3>4, <3>5, <3>6 DEF Feed
    <3>8. /\ Append(SubSeq(w, 1, c), w[c + 1]) = SubSeq(w, 1, c + 1)
          /\ Len(SubSeq(w, 1, c)) = c
      BY <3>1, OneMore
    <3>9. g[i] = [g[j] EXCEPT !.body = SubSeq(w, 1, c + 1), !.end = i,
                              !.parse = IF c + 1 = Len(w) THEN "FINISH" ELSE @]
      BY <3>3, <3>4, <3>6, <3>7, <3>8 DEF ParseBody, BodyEnds
    <3>10. /\ SameHead(g[i], g[q]) /\ g[i].end = i /\ g[i].body = SubSeq(w, 1, c + 1)
           /\ g[i].parse = IF c + 1 = Len(w) THEN "FINISH" ELSE "BODY"
      BY <3>4, <3>9 DEF SameHead, RequestFields
    <3>11. c + 1 = b + k
      BY <3>1
    <3> QED BY <3>10, <3>11 DEF Good, i
  <2> QED BY <2>1, <2>2
<1>3. Nat \subseteq T
  <2> HIDE DEF T
  <2> QED BY <1>2, Induction
<1>4. Good(l)
  <2>1. l \in Nat /\ l \in 0..l
    BY <1>1
  <2> HIDE DEF Good
  <2> QED BY <1>3, <2>1
<1>5. SubSeq(w, 1, Len(w)) = w
  <2>1. At(w, 1, w) /\ 1 \in Nat \ {0} /\ Len(w) = 1 + Len(w) - 1
    BY <1>1, AtItself
  <2> QED BY <2>1, PartAt
<1>6. b + l # Len(w) => b + l \in 0..Len(w) - 1
  BY <1>1
<1> QED BY <1>1, <1>4, <1>5, <1>6 DEF InBody, SameHead

\* Nothing changes after the end of a request.
LEMMA Rests ==
  ASSUME NEW s, IsText(s), NEW g, Chain(g, s), NEW q \in 0..Len(s),
         \/ g[q].failed = TRUE
         \/ g[q].failed = FALSE /\ g[q].parse \in {"FINISH", "THROWN"}
  PROVE  g[Len(s)] = g[q]
<1>1. q \in Nat /\ Len(s) \in q..Len(s) /\ Len(s) \in Nat
  BY DEF IsText
<1>2. \A i \in q + 1..Len(s) : Feed(g[q], s, i) = g[q]
  BY DEF Feed
<1> QED BY <1>1, <1>2, Stays

\* An error is reported with the next byte.
LEMMA FailsLater ==
  ASSUME NEW s, IsText(s), NEW g, Chain(g, s), NEW q \in Nat, q < Len(s),
         RequestFields \subseteq DOMAIN g[q], g[q].failed = FALSE, g[q].parse = "ERROR"
  PROVE  g[Len(s)].failed = TRUE /\ g[Len(s)].parse = "ERROR"
<1> DEFINE i == q + 1
<1>1. q = i - 1 /\ i \in 1..Len(s) /\ i \in 0..Len(s) /\ Len(s) \in Nat
  BY DEF IsText
<1> HIDE DEF i
<1>2. g[i] = Feed(g[q], s, i)
  <2>1. q = i - 1 /\ i \in 1..Len(s)
    BY <1>1
  <2> QED BY <2>1, ChainStep
<1>3. g[i] = [g[q] EXCEPT !.failed = TRUE]
  BY <1>2 DEF Feed
<1>4. g[i].failed = TRUE /\ g[i].parse = "ERROR"
  BY <1>3 DEF RequestFields
<1>5. g[Len(s)] = g[i]
  BY <1>1, <1>4, Rests
<1> QED BY <1>4, <1>5

\* A header without a blank after its colon.
LEMMA BadLineRead ==
  ASSUME NEW s, IsText(s), NEW g, Chain(g, s), NEW p \in Nat \ {0}, AtLine(g[p - 1], p),
         p + 2 < Len(s), s[p] \notin {COLON, CR, LF}, s[p + 1] = COLON, s[p + 2] # SP
  PROVE  g[Len(s)].failed = TRUE /\ g[Len(s)].parse = "ERROR"
<1> DEFINE i0 == p - 1
           i1 == p + 1
           i2 == p + 2
           r == g[i0]
<1>1. /\ i0 = p - 1 /\ p = i1 - 1 /\ i1 = i2 - 1 /\ p \in 1..Len(s) /\ i1 \in 1..Len(s)
      /\ i2 \in 1..Len(s) /\ i2 \in Nat /\ i2 < Len(s)
  BY DEF IsText
<1>2. s[i1] = COLON /\ s[i2] # SP /\ AtLine(r, p)
  OBVIOUS
<1> HIDE DEF i0, i1, i2
<1>3. g[p] = Feed(r, s, p) /\ g[i1] = Feed(g[p], s, i1) /\ g[i2] = Feed(g[i1], s, i2)
  <2>1. g[p] = Feed(r, s, p)
    <3>1. i0 = p - 1 /\ p \in 1..Len(s)
      BY <1>1
    <3> QED BY <3>1, ChainStep
  <2>2. g[i1] = Feed(g[p], s, i1)
    <3>1. p = i1 - 1 /\ i1 \in 1..Len(s)
      BY <1>1
    <3> QED BY <3>1, ChainStep
  <2>3. g[i2] = Feed(g[i1], s, i2)
    <3>1. i1 = i2 - 1 /\ i2 \in 1..Len(s)
      BY <1>1
    <3> QED BY <3>1, ChainStep
  <2> QED BY <2>1, <2>2, <2>3
<1> HIDE DEF r
<1> DEFINE In(x, header) == /\ RequestFields \subseteq DOMAIN x /\ x.parse = "HEADERS"
                            /\ x.failed = FALSE /\ x.header = header
<1>4. In(g[p], "KEY")
  <2>1. g[p] = ParseHeader(r, s, p)
    BY <1>2, <1>3 DEF Feed, AtLine
  <2>2. CASE r.header = "KEY"
    BY <1>2, <2>1, <2>2 DEF ParseHeader, AtLine
  <2>3. CASE r.header = "LF"
    <3>1. g[p] = [r EXCEPT !.header = "KEY", !.parseStart = p]
      BY <2>1, <2>3 DEF ParseHeader
    <3> QED BY <1>2, <3>1 DEF AtLine, RequestFields
  <2> QED BY <1>2, <2>2, <2>3 DEF AtLine
<1>5. In(g[i1], "COLON")
  <2>1. g[i1] = ParseHeader(g[p], s, i1)
    BY <1>3, <1>4 DEF Feed
  <2>2. g[i1] = [g[p] EXCEPT !.header = "COLON", !.curKey = Token(g[p], s, i1), !.parseStart = i1 + 1]
    BY <1>2, <1>4, <2>1 DEF ParseHeader
  <2> QED BY <1>4, <2>2 DEF RequestFields
<1>6. RequestFields \subseteq DOMAIN g[i2] /\ g[i2].failed = FALSE /\ g[i2].parse = "ERROR"
  <2>1. g[i2] = ParseHeader(g[i1], s, i2)
    BY <1>3, <1>5 DEF Feed
  <2>2. g[i2] = [g[i1] EXCEPT !.parse = "ERROR"]
    BY <1>2, <1>5, <2>1 DEF ParseHeader, Error
  <2> QED BY <1>5, <2>2 DEF RequestFields
<1> QED BY <1>1, <1>6, FailsLater

(***************************************************************************)
(* A message, and how far the connection has taken it.                      *)
(***************************************************************************)

\* The head ends with the empty line, and what follows of it is meant.
Ended(m, f) ==
  LET n == Len(f.hs)
      h == HeadersOf(f.hs, n)
  IN  /\ Len(m.head) = f.e[n] + 2 /\ m.head[f.e[n] + 1] = CR /\ m.head[f.e[n] + 2] = LF
      /\ \/ m.meant.code = -1 /\ \E i \in 1..n : Throwing(f.hs[i])
         \/ /\ \A i \in 1..n : ~Throwing(f.hs[i])
            /\ \/ m.meant.code = 0 /\ Len(m.body) # 0 /\ LengthOf(h) = Len(m.body)
               \/ m.meant.code = 0 /\ m.body = <<>> /\ LengthOf(h) = 0 /\ f.method # "POST"
               \/ /\ m.meant.code = 400 /\ m.body = <<>> /\ LengthOf(h) = 0
                  /\ f.method = "POST" /\ <<"Content-Length">> \notin DOMAIN h

\* A line of the head has no blank after its colon.
Broken(m, f) ==
  LET n == Len(f.hs) IN
  /\ m.meant.code = 400 /\ (\A i \in 1..n : ~Throwing(f.hs[i])) /\ Len(m.head) = f.e[n] + 7
  /\ m.head[f.e[n] + 1] \notin {COLON, CR, LF} /\ m.head[f.e[n] + 2] = COLON
  /\ m.head[f.e[n] + 3] # SP

\* f says how the message m is made.
Frame(m, f) ==
  /\ f.method \in Methods /\ IsText(f.url) /\ \A i \in 1..Len(f.url) : f.url[i] # SP
  /\ Lines(f.hs) /\ Len(f.hs) # 0 /\ Ruled(f.e, f.hs) /\ f.e[0] = Len(f.url) + 6
  /\ IsText(m.head) /\ IsText(m.body)
  /\ At(m.head, 1, RequestLine(f.method, f.url))
  /\ \A i \in 1..Len(f.hs) : At(m.head, f.e[i - 1] + 1, HeaderLine(f.hs[i].key, f.hs[i].value))
  /\ Ended(m, f) \/ Broken(m, f)

\* Where a piece of a message may end.
Stops(m, f) ==
  {f.e[i] : i \in 0..Len(f.hs)} \cup {Len(m.head) + b : b \in 0..Len(m.body)}
    \cup {x \in {f.e[Len(f.hs)] + 5} : Broken(m, f)}

\* The first c bytes of m are taken out of the buffer, and r is between two calls.
RestAt(r, m, f, c) ==
  \/ c = 0 /\ \E key : r = NewRequest(key)
  \/ /\ c = f.e[0] /\ r.parse = "HEADERS" /\ r.body = <<>>
     /\ \E j \in 0..Len(f.hs) :
          /\ Holds(r, f.method, f.url, HeadersOf(f.hs, j))
          /\ r.header = IF j = 0 THEN "KEY" ELSE "LF"
  \/ \E b \in 0..Len(m.body) - 1 :
       /\ c = Len(m.head) + b /\ InBody(r, m.body, b) /\ m.meant.code = 0
       /\ Holds(r, f.method, f.url, HeadersOf(f.hs, Len(f.hs)))
  \/ /\ c = Len(m.head) /\ r.parse = "ERROR" /\ r.failed = FALSE /\ m.meant.code = 400
     /\ RequestFields \subseteq DOMAIN r

\* q is what a call of Parse makes of m, c bytes of which were taken out before.
Parsed(q, m, f, c) ==
  \/ m.meant.code = -1 /\ q.parse = "THROWN" /\ q.failed = FALSE
  \/ m.meant.code = 400 /\ q.failed = TRUE /\ q.parse = "ERROR"
  \/ /\ q.failed = FALSE /\ q.parse \notin {"THROWN", "FINISH"} /\ q.end \in Nat
     /\ RestAt(q, m, f, c + q.end)
  \/ /\ q.failed = FALSE /\ q.parse = "FINISH" /\ m.meant.code = 0
     /\ q.end \in Nat \ {0} /\ c + q.end = Len(m.head) + Len(m.body)
     /\ Holds(q, f.method, f.url, HeadersOf(f.hs, Len(f.hs))) /\ q.body = m.body

\* s is what there is of m from position c + 1 on.
PieceOf(s, m, c) ==
  /\ \A x \in 1..Len(s) : c + x <= Len(m.head) => s[x] = m.head[c + x]
  /\ \A x \in 1..Len(s) : c + x > Len(m.head) /\ c + x <= Len(m.head) + Len(m.body) =>
       s[x] = m.body[c + x - Len(m.head)]

\* What Parse makes of a piece in the body.
LEMMA BodyParsed ==
  ASSUME NEW s, IsText(s), NEW g, Chain(g, s), NEW m, NEW f, Frame(m, f),
         NEW c \in Nat, PieceOf(s, m, c), NEW b \in 0..Len(m.body) - 1, NEW q \in 0..Len(s),
         c + q = Len(m.head) + b, InBody(g[q], m.body, b), m.meant.code = 0,
         Holds(g[q], f.method, f.url, HeadersOf(f.hs, Len(f.hs))), g[q].end = q
  PROVE  Parsed(g[Len(s)], m, f, c)
<1> DEFINE h == Len(m.head)
           w == m.body
           l == IF Len(s) - q <= Len(w) - b THEN Len(s) - q ELSE Len(w) - b
<1>1. h \in Nat /\ Len(w) \in Nat /\ Len(s) \in Nat /\ IsText(w) /\ b \in 0..Len(w) - 1 /\ q \in Nat
      /\ c + q = h + b /\ c \in Nat /\ q <= Len(s)
  BY DEF Frame, IsText
<1>1a. InBody(g[q], w, b)
  OBVIOUS
<1> HIDE DEF h, w
<1>2. /\ l \in 0..Len(w) - b /\ q + l <= Len(s) /\ l <= Len(w) - b /\ l \in Nat
      /\ (b + l # Len(w) => Len(s) = q + l)
  BY <1>1
<1> HIDE DEF l
<1>3. \A i \in 1..l : s[q + i] = w[b + i]
  <2> SUFFICES ASSUME NEW i \in 1..l PROVE s[q + i] = w[b + i]
    OBVIOUS
  <2>1. /\ q + i \in 1..Len(s) /\ c + (q + i) > h /\ c + (q + i) <= h + Len(w)
        /\ c + (q + i) - h = b + i
    BY <1>1, <1>2
  <2>2. s[q + i] = w[c + (q + i) - h]
    BY <2>1 DEF PieceOf, h, w
  <2> QED BY <2>1, <2>2
<1> DEFINE z == q + l
<1>4. /\ SameHead(g[z], g[q]) /\ (l # 0 => g[z].end = z)
      /\ IF b + l = Len(w) THEN g[z].parse = "FINISH" /\ g[z].body = w
         ELSE InBody(g[z], w, b + l)
  BY <1>1, <1>1a, <1>2, <1>3, BodyRead
<1>5. z \in 0..Len(s) /\ c + z = h + (b + l) /\ z \in Nat /\ (l = 0 => z = q) /\ (l # 0 => z # 0)
  <2>1. b \in Nat /\ l \in Nat /\ q \in Nat /\ c \in Nat /\ h \in Nat /\ c + q = h + b /\ q + l <= Len(s) /\ Len(s) \in Nat
    BY <1>1, <1>2
  <2> QED BY ONLY <2>1
<1>6. g[z].end = z
  BY <1>4, <1>5
<1>7. Holds(g[z], f.method, f.url, HeadersOf(f.hs, Len(f.hs))) /\ g[z].failed = FALSE
  BY <1>4 DEF SameHead, Holds
<1> HIDE DEF z
<1>8. CASE b + l = Len(w)
  <2>1. g[z].parse = "FINISH" /\ g[z].body = w
    BY <1>4, <1>8
  <2>2. g[Len(s)] = g[z]
    BY <1>5, <1>7, <2>1, Rests
  <2>3. z # 0 /\ c + z = h + Len(w)
    <3>1. CASE l = 0
      BY <1>1, <1>8, <3>1
    <3>2. CASE l # 0
      BY <1>5, <1>8, <3>2
    <3> QED BY <1>5, <1>8, <3>1, <3>2
  <2> QED BY <1>5, <1>6, <1>7, <2>1, <2>2, <2>3 DEF Parsed, h, w
<1>9. CASE b + l # Len(w)
  <2>1. Len(s) = z /\ InBody(g[z], w, b + l) /\ b + l \in 0..Len(w) - 1
    BY <1>1, <1>2, <1>4, <1>9 DEF z
  <2>2. RestAt(g[z], m, f, c + z)
    BY <1>5, <1>7, <2>1 DEF RestAt, h, w
  <2> QED BY <1>5, <1>6, <1>7, <2>1, <2>2 DEF Parsed, InBody
<1> QED BY <1>8, <1>9

\* The lines of a head do not go back.
LEMMA RuledGrows ==
  ASSUME NEW hs, Lines(hs), NEW e, Ruled(e, hs)
  PROVE  \A i \in 0..Len(hs) : e[i] \in Nat /\ \A k \in 0..i : e[k] \in Nat /\ e[k] <= e[i]
<1> DEFINE T == {i \in Nat : i \in 0..Len(hs) => \A k \in 0..i : e[k] <= e[i]}
<1>1. Len(hs) \in Nat /\ e \in [0..Len(hs) -> Nat]
  BY DEF Lines, IsText, Ruled
<1>2. ASSUME NEW i \in Nat, \A l \in Nat : l < i => l \in T PROVE i \in T
  <2> SUFFICES ASSUME i \in 0..Len(hs), NEW k \in 0..i PROVE e[k] <= e[i]
    OBVIOUS
  <2>1. CASE k = i
    BY <1>1, <2>1
  <2>2. CASE k # i
    <3> DEFINE j == i - 1
    <3>1. j \in T /\ j \in 0..Len(hs) /\ k \in 0..j /\ i \in 1..Len(hs)
      BY <1>1, <1>2, <2>2
    <3>2. e[k] <= e[j] /\ e[k] \in Nat /\ e[j] \in Nat /\ e[i] \in Nat
      BY <1>1, <3>1
    <3>3. e[i] = e[j] + Len(hs[i].value) + 5 /\ Len(hs[i].value) \in Nat
      BY <3>1 DEF Ruled, Lines, Writable, IsText
    <3> DEFINE x == e[k]
               y == e[j]
               z == e[i]
               v == Len(hs[i].value)
    <3> HIDE DEF x, y, z, v, T, j
    <3>4. x <= y /\ x \in Nat /\ y \in Nat /\ z = y + v + 5 /\ v \in Nat
      BY <3>2, <3>3 DEF x, y, z, v
    <3>5. x <= z
      BY <3>4
    <3> QED BY <3>5 DEF x, z
  <2> QED BY <2>1, <2>2
<1>3. Nat \subseteq T
  <2> HIDE DEF T
  <2> QED BY <1>2, Induction
<1>4. ASSUME NEW i \in 0..Len(hs), NEW k \in 0..i PROVE e[k] \in Nat /\ e[k] <= e[i]
  <2>1. i \in T /\ k \in 0..Len(hs)
    BY <1>1, <1>3
  <2> QED BY <1>1, <2>1
<1> QED BY <1>1, <1>4

\* A text found in the head of a message is found in a piece of it.
LEMMA PieceAt ==
  ASSUME NEW s, IsText(s), NEW m, IsText(m.head), NEW c \in Nat, PieceOf(s, m, c),
         NEW t, IsText(t), NEW p \in Nat, p > c, At(m.head, p, t), p + Len(t) - 1 <= c + Len(s)
  PROVE  At(s, p - c, t)
<1> DEFINE q == p - c
           n == Len(t)
           h == Len(m.head)
<1>1. Len(s) \in Nat /\ n \in Nat /\ h \in Nat /\ q \in Nat \ {0} /\ p = c + q
  BY DEF IsText
<1>2. /\ p + n - 1 <= h /\ \A i \in 1..n : m.head[p + i - 1] = t[i]
  BY DEF At
<1>3. \A x \in 1..Len(s) : c + x <= h => s[x] = m.head[c + x]
  BY DEF PieceOf
<1>4. p + n - 1 <= c + Len(s)
  OBVIOUS
<1> HIDE DEF n, h, q
<1>5. ASSUME NEW i \in 1..n PROVE s[q + i - 1] = t[i]
  <2> DEFINE x == q + i - 1
  <2>1. x \in 1..Len(s) /\ c + x = p + i - 1 /\ p + i - 1 <= h
    BY <1>1, <1>2, <1>4
  <2> HIDE DEF x
  <2>2. s[x] = m.head[p + i - 1]
    BY <1>3, <2>1
  <2> QED BY <1>2, <2>2 DEF x
<1>6. q + n - 1 <= Len(s)
  BY <1>1, <1>4
<1> QED BY <1>5, <1>6 DEF At, n, q

\* The first line for which stoi throws.
LEMMA FirstThrowing ==
  ASSUME NEW hs, NEW k \in Nat, \E i \in 1..k : Throwing(hs[i])
  PROVE  \E i \in 1..k : Throwing(hs[i]) /\ \A l \in 1..i - 1 : ~Throwing(hs[l])
<1> SUFFICES ASSUME \A i \in 1..k : Throwing(hs[i]) => \E l \in 1..i - 1 : Throwing(hs[l])
             PROVE  FALSE
  OBVIOUS
<1> DEFINE T == {i \in Nat : i \in 1..k => ~Throwing(hs[i])}
<1>1. ASSUME NEW i \in Nat, \A l \in Nat : l < i => l \in T PROVE i \in T
  <2> SUFFICES ASSUME i \in 1..k, Throwing(hs[i]) PROVE FALSE
    OBVIOUS
  <2>1. PICK l \in 1..i - 1 : Throwing(hs[l])
    OBVIOUS
  <2>2. l \in Nat /\ l < i /\ l \in 1..k
    OBVIOUS
  <2> QED BY <1>1, <2>1, <2>2
<1>2. Nat \subseteq T
  <2> HIDE DEF T
  <2> QED BY <1>1, Induction
<1>3. PICK i \in 1..k : Throwing(hs[i])
  OBVIOUS
<1>4. i \in T
  BY <1>2
<1> QED BY <1>3, <1>4

\* The request line of f is read, and j of its header lines were read before.
Begins(r, f, j, z) ==
  /\ Holds(r, f.method, f.url, HeadersOf(f.hs, j)) /\ AtLine(r, z + 1)
  /\ r.header = (IF j = 0 THEN "KEY" ELSE "LF") /\ r.body = <<>> /\ r.end = z

\* The lines of m are read up to line k, in a piece that begins after position c.
ReadTo(r, f, c, j, k) ==
  /\ Holds(r, f.method, f.url, HeadersOf(f.hs, IF k <= j THEN j ELSE k))
  /\ AtLine(r, f.e[k] - c + 1) /\ (k # 0 => r.header = "LF")
  /\ r.body = <<>> /\ r.end = f.e[0] - c

\* What Parse makes of the lines of a head.
LEMMA HeadLines ==
  ASSUME NEW s, IsText(s), NEW g, Chain(g, s), NEW m, NEW f, Frame(m, f), NEW c \in Nat,
         PieceOf(s, m, c), c <= f.e[0], NEW j \in 0..Len(f.hs),
         Begins(g[f.e[0] - c], f, j, f.e[0] - c),
         NEW k \in 0..Len(f.hs), f.e[k] <= c + Len(s)
  PROVE  IF \E i \in 1..k : Throwing(f.hs[i])
         THEN g[Len(s)].parse = "THROWN" /\ g[Len(s)].failed = FALSE
         ELSE ReadTo(g[f.e[k] - c], f, c, j, k)
<1> DEFINE hs == f.hs
           e == f.e
           n == Len(hs)
           d == [i \in 0..n |-> e[i] - c]
<1>1. /\ Lines(hs) /\ Ruled(e, hs) /\ IsText(m.head) /\ n \in Nat /\ Len(s) \in Nat
      /\ \A i \in 1..n : At(m.head, e[i - 1] + 1, HeaderLine(hs[i].key, hs[i].value))
  BY DEF Frame, Lines, IsText
<1>2. \A i \in 0..n : e[i] \in Nat /\ \A l \in 0..i : e[l] \in Nat /\ e[l] <= e[i]
  BY <1>1, RuledGrows
<1>3. c <= e[0] /\ Begins(g[e[0] - c], f, j, e[0] - c) /\ k \in 0..n /\ j \in 0..n /\ e[k] <= c + Len(s)
  OBVIOUS
<1> HIDE DEF hs, e, n
<1>4. \A i \in 0..n : d[i] = e[i] - c /\ d[i] \in Nat
  <2> SUFFICES ASSUME NEW i \in 0..n PROVE d[i] = e[i] - c /\ d[i] \in Nat
    OBVIOUS
  <2>1. 0 \in 0..i
    BY <1>1
  <2>2. e[0] <= e[i] /\ e[i] \in Nat /\ e[0] \in Nat
    BY <1>2, <2>1
  <2> DEFINE x == e[i]
             y == e[0]
  <2>3. c <= y /\ y <= x /\ x \in Nat /\ y \in Nat
    BY <1>3, <2>2
  <2> HIDE DEF x, y
  <2>4. x - c \in Nat
    BY <2>3
  <2> QED BY <2>4 DEF x
<1>5. Ruled(d, hs)
  <2>1. d \in [0..n -> Nat]
    BY <1>4
  <2>2. ASSUME NEW i \in 1..n PROVE d[i] = d[i - 1] + Len(hs[i].value) + 5
    <3>1. i - 1 \in 0..n /\ i \in 0..n
      BY <1>1
    <3>2. e[i] = e[i - 1] + Len(hs[i].value) + 5 /\ Len(hs[i].value) \in Nat
      BY <1>1 DEF Ruled, Lines, Writable, IsText, n
    <3> DEFINE x == e[i]
               y == e[i - 1]
               v == Len(hs[i].value)
    <3>3. x = y + v + 5 /\ x \in Nat /\ y \in Nat /\ v \in Nat
      BY <1>2, <3>1, <3>2
    <3>4. d[i] = x - c /\ d[i - 1] = y - c
      BY <1>4, <3>1
    <3> HIDE DEF x, y, v, d
    <3>5. x - c = y - c + v + 5
      BY <3>3
    <3> QED BY <3>4, <3>5 DEF v
  <2> HIDE DEF d
  <2> QED BY <2>1, <2>2 DEF Ruled, n
<1>6. 0 \in 0..n /\ d[0] = e[0] - c /\ d[k] = e[k] - c
  BY <1>1, <1>3, <1>4
<1> HIDE DEF d
<1>7. ASSUME NEW i \in 1..n, i <= k PROVE At(s, d[i - 1] + 1, HeaderLine(hs[i].key, hs[i].value))
  <2> DEFINE t == HeaderLine(hs[i].key, hs[i].value)
             y == e[i - 1]
             p == y + 1
             v == Len(hs[i].value)
  <2>1. i - 1 \in 0..n /\ i \in 0..n /\ i \in 0..k /\ k \in 0..n /\ 0 \in 0..i - 1
    BY <1>1, <1>3, <1>7
  <2>2. e[i] <= e[k] /\ e[i] \in Nat /\ y \in Nat /\ e[0] <= y /\ e[0] \in Nat /\ e[k] \in Nat
    BY <1>2, <2>1
  <2>3. IsText(hs[i].value) /\ e[i] = y + v + 5
    BY <1>1 DEF Lines, Writable, Ruled, n
  <2>4. IsText(t) /\ Len(t) = v + 5 /\ v \in Nat
    <3>1. v \in Nat
      BY <2>3 DEF IsText
    <3> QED BY <2>3, <3>1, HeaderLineIs
  <2>5. At(m.head, p, t)
    BY <1>1
  <2>6. d[i - 1] = y - c
    BY <1>4, <2>1
  <2> HIDE DEF t, y, v
  <2>7. /\ p \in Nat /\ p > c /\ p + Len(t) - 1 <= c + Len(s) /\ p - c = d[i - 1] + 1
    <3> DEFINE a == e[0]
               b == e[i]
               w == e[k]
               l == Len(t)
               q == d[i - 1]
    <3>1. /\ a \in Nat /\ b \in Nat /\ w \in Nat /\ c <= a /\ a <= y /\ b <= w /\ w <= c + Len(s)
          /\ b = y + v + 5 /\ l = v + 5 /\ v \in Nat /\ y \in Nat /\ q = y - c
      BY <1>3, <2>2, <2>3, <2>4, <2>6
    <3> HIDE DEF a, b, w, l, q
    <3>2. /\ p \in Nat /\ p > c /\ p + l - 1 <= c + Len(s) /\ p - c = q + 1
      BY <1>1, <3>1, SMTT(30)
    <3> QED BY <3>2 DEF l, q
  <2> HIDE DEF p
  <2>8. At(s, p - c, t)
    BY <1>1, <2>4, <2>5, <2>7, PieceAt
  <2> QED BY <2>7, <2>8 DEF t
<1>8. /\ Holds(g[d[0]], f.method, f.url, HeadersOf(hs, j)) /\ AtLine(g[d[0]], d[0] + 1)
      /\ g[d[0]].body = <<>> /\ g[d[0]].end = d[0] /\ j \in 0..Len(hs)
  BY <1>3, <1>6 DEF Begins, hs, n
<1>9. ASSUME NEW l \in 0..k, \A i \in 1..l : ~Throwing(hs[i])
      PROVE  \A i \in 0..l : /\ Holds(g[d[i]], f.method, f.url, HeadersOf(hs, IF i <= j THEN j ELSE i))
                             /\ AtLine(g[d[i]], d[i] + 1) /\ (i # 0 => g[d[i]].header = "LF")
                             /\ g[d[i]].body = <<>> /\ g[d[i]].end = d[0]
  <2>1. l \in 0..Len(hs)
    BY <1>1, <1>3 DEF n
  <2>2. \A i \in 1..l : At(s, d[i - 1] + 1, HeaderLine(hs[i].key, hs[i].value)) /\ ~Throwing(hs[i])
    <3> SUFFICES ASSUME NEW i \in 1..l PROVE At(s, d[i - 1] + 1, HeaderLine(hs[i].key, hs[i].value))
      BY <1>9
    <3>1. i \in 1..n /\ i <= k
      BY <1>1, <1>3
    <3> QED BY <1>7, <3>1
  <2>3. \A i \in 0..l : Reached(g, d, hs, j, f.method, f.url, i)
    <3>1. Lines(hs) /\ Ruled(d, hs) /\ j \in 0..Len(hs)
      BY <1>1, <1>5, <1>8
    <3>2. Holds(g[d[0]], f.method, f.url, HeadersOf(hs, j)) /\ AtLine(g[d[0]], d[0] + 1)
      BY <1>8
    <3> QED BY ONLY IsText(s), Chain(g, s), <2>1, <2>2, <3>1, <3>2, LinesRead
  <2> QED BY <1>8, <2>3 DEF Reached
<1>10. CASE \E i \in 1..k : Throwing(hs[i])
  <2>1. PICK i \in 1..k : Throwing(hs[i]) /\ \A l \in 1..i - 1 : ~Throwing(hs[l])
    <3>1. k \in Nat
      BY <1>1, <1>3
    <3> QED BY <1>10, <3>1, FirstThrowing
  <2> DEFINE l == i - 1
             p == d[l] + 1
             key == hs[i].key
             value == hs[i].value
  <2>2. l \in 0..k /\ i \in 1..n /\ i <= k /\ l \in 0..n /\ l \in 0..l
    BY <1>1, <1>3
  <2>3. AtLine(g[d[l]], d[l] + 1)
    BY <1>9, <2>1, <2>2
  <2>4. At(s, p, HeaderLine(key, value))
    BY <1>7, <2>2
  <2>5. Writable(key, value) /\ key = "Content-Length" /\ value \notin DOMAIN IntOf
    BY <1>1, <2>1, <2>2 DEF Lines, Throwing, n
  <2>6. p \in Nat \ {0} /\ p - 1 = d[l]
    <3> DEFINE x == d[l]
    <3>1. x \in Nat
      BY <1>4, <2>2
    <3> HIDE DEF x
    <3>2. p = x + 1
      BY DEF x
    <3> HIDE DEF p
    <3>3. p \in Nat \ {0} /\ p - 1 = x
      BY <3>1, <3>2
    <3> QED BY <3>3 DEF x
  <2> HIDE DEF p, key, value, l
  <2>7. AtLine(g[p - 1], p)
    BY <2>3, <2>6 DEF p
  <2>8. /\ p + Len(value) + 4 \in 1..Len(s)
        /\ g[p + Len(value) + 4].parse = "THROWN" /\ g[p + Len(value) + 4].failed = FALSE
    <3>1. p \in Nat \ {0}
      BY <2>6
    <3>2. IsText(s) /\ Chain(g, s)
      OBVIOUS
    <3> QED BY ONLY <2>4, <2>5, <2>7, <3>1, <3>2, HeaderLineRead, ZenonT(30)
  <2> DEFINE z == p + Len(value) + 4
  <2> HIDE DEF z
  <2>9. z \in 0..Len(s) /\ g[z].parse = "THROWN" /\ g[z].failed = FALSE
    BY <1>1, <2>8 DEF z
  <2>10. g[Len(s)] = g[z]
    BY <2>9, Rests
  <2> QED BY <1>10, <2>9, <2>10 DEF hs
<1>11. CASE ~\E i \in 1..k : Throwing(hs[i])
  <2>1. k \in 0..k /\ \A i \in 1..k : ~Throwing(hs[i])
    BY <1>3, <1>11
  <2>2. /\ Holds(g[d[k]], f.method, f.url, HeadersOf(hs, IF k <= j THEN j ELSE k))
        /\ AtLine(g[d[k]], d[k] + 1) /\ (k # 0 => g[d[k]].header = "LF")
        /\ g[d[k]].body = <<>> /\ g[d[k]].end = d[0]
    BY <1>9, <2>1
  <2>3. ReadTo(g[e[k] - c], f, c, j, k)
    BY <1>6, <2>2 DEF ReadTo, hs, e
  <2> QED BY <1>11, <2>3 DEF hs, e
<1> QED BY <1>10, <1>11

\* The whole head of a message is in the piece.
LEMMA HeadEnded ==
  ASSUME NEW s, IsText(s), NEW g, Chain(g, s), NEW m, NEW f, Frame(m, f), NEW c \in Nat,
         PieceOf(s, m, c), c <= f.e[0], NEW j \in 0..Len(f.hs), Ended(m, f),
         f.e[Len(f.hs)] + 2 <= c + Len(s), \A i \in 1..Len(f.hs) : ~Throwing(f.hs[i]),
         ReadTo(g[f.e[Len(f.hs)] - c], f, c, j, Len(f.hs))
  PROVE  Parsed(g[Len(s)], m, f, c)
<1> DEFINE n == Len(f.hs)
           x == f.e[n]
           y == f.e[0]
           p == x - c + 1
           q == x - c + 2
           h == HeadersOf(f.hs, n)
<1>1. Lines(f.hs) /\ Ruled(f.e, f.hs) /\ IsText(m.head) /\ IsText(m.body) /\ n \in Nat \ {0} /\ Len(s) \in Nat
  BY DEF Frame, Lines, IsText
<1>2. x \in Nat /\ y \in Nat /\ y <= x
  <2>1. n \in 0..n /\ 0 \in 0..n
    BY <1>1
  <2> QED BY <1>1, <2>1, RuledGrows
<1>3. c <= y /\ x + 2 <= c + Len(s) /\ Len(m.head) = x + 2 /\ m.head[x + 1] = CR /\ m.head[x + 2] = LF
  BY DEF Ended
<1>4. ReadTo(g[x - c], f, c, j, n) /\ (IF n <= j THEN j ELSE n) = n
  BY <1>1
<1> HIDE DEF n, x, y
<1>5. /\ p \in Nat \ {0} /\ p + 1 = q /\ q <= Len(s) /\ p \in 1..Len(s) /\ q \in 1..Len(s) /\ q \in 0..Len(s)
      /\ c + p = x + 1 /\ c + q = x + 2 /\ p - 1 = x - c /\ q \in Nat \ {0}
  <2> DEFINE l == Len(s)
  <2>1. c \in Nat /\ l \in Nat /\ x \in Nat /\ y \in Nat /\ c <= y /\ y <= x /\ x + 2 <= c + l
    BY <1>1, <1>2, <1>3
  <2> HIDE DEF l
  <2>2. p \in Nat \ {0} /\ p + 1 = q /\ q <= l
    BY ONLY <2>1
  <2>2a. c + p = x + 1 /\ c + q = x + 2 /\ p - 1 = x - c
    BY ONLY <2>1
  <2>3. p \in 1..l /\ q \in 1..l /\ q \in 0..l /\ q \in Nat \ {0}
    BY <2>1
  <2> QED BY <2>2, <2>2a, <2>3 DEF l
<1>6. s[p] = CR /\ s[q] = LF
  <2>1. c + p <= Len(m.head) /\ c + q <= Len(m.head)
    BY <1>2, <1>3, <1>5
  <2> HIDE DEF p, q
  <2>2. s[p] = m.head[c + p] /\ s[q] = m.head[c + q]
    BY <1>5, <2>1 DEF PieceOf
  <2> QED BY <1>3, <1>5, <2>2
<1> DEFINE r == g[p - 1]
<1>7. /\ Holds(r, f.method, f.url, h) /\ AtLine(r, p) /\ r.header = "LF" /\ r.body = <<>>
  <2>1. r = g[x - c] /\ x - c + 1 = p
    BY <1>5
  <2>2. Holds(r, f.method, f.url, HeadersOf(f.hs, n))
    BY <1>4, <2>1 DEF ReadTo
  <2>3. AtLine(r, p) /\ r.header = "LF" /\ r.body = <<>>
    <3> HIDE DEF r, p
    <3> QED BY <1>1, <1>4, <2>1 DEF ReadTo, x
  <2> QED BY <2>2, <2>3
<1> HIDE DEF p, q
<1>8. /\ SameHead(g[q], r) /\ g[q].body = <<>> /\ g[q].parse = AfterHeaders(r) /\ g[q].end = q
  <2>1. p \in Nat \ {0} /\ p + 1 <= Len(s) /\ s[p + 1] = LF /\ p + 1 = q
    BY <1>5, <1>6
  <2> HIDE DEF r
  <2>2. AtLine(g[p - 1], p) /\ g[p - 1].header = "LF" /\ g[p - 1].body = <<>> /\ g[p - 1] = r
    BY <1>7 DEF r
  <2> QED BY <1>6, <2>1, <2>2, EmptyLineRead
<1> HIDE DEF r, h
<1>9. Holds(g[q], f.method, f.url, h)
  BY <1>7, <1>8 DEF Holds, SameHead
<1>10. r.contentLength = LengthOf(h) /\ r.method = f.method /\ r.headers = h /\ g[q].failed = FALSE
       /\ RequestFields \subseteq DOMAIN g[q] /\ g[q].contentLength = LengthOf(h)
  BY <1>7, <1>9 DEF Holds
<1>11. c + q = Len(m.head) /\ c + q = Len(m.head) + 0 /\ q \in 0..Len(s) /\ q \in Nat \ {0}
  BY <1>2, <1>3, <1>5
<1>12. CASE m.meant.code = 0 /\ Len(m.body) # 0 /\ LengthOf(h) = Len(m.body)
  <2>1. Len(m.body) \in Nat \ {0} /\ Len(m.body) > 0
    BY <1>1, <1>12 DEF IsText
  <2>2. g[q].parse = "BODY"
    BY <1>8, <1>10, <1>12, <2>1 DEF AfterHeaders
  <2>3. 0 \in 0..Len(m.body) - 1
    BY <2>1
  <2>4. SubSeq(m.body, 1, 0) = <<>>
    <3>1. 1 \in Nat \ {0} /\ 0 \in Int /\ 0 <= Len(m.body)
      BY <2>1
    <3>2. IsText(SubSeq(m.body, 1, 0)) /\ Len(SubSeq(m.body, 1, 0)) = IF 1 <= 0 THEN 0 - 1 + 1 ELSE 0
      BY <1>1, <3>1, PartOfText
    <3>3. Len(SubSeq(m.body, 1, 0)) = 0 /\ 1..0 = {}
      BY <3>2
    <3> QED BY <3>2, <3>3, SameText, Single
  <2>5. InBody(g[q], m.body, 0)
    BY <1>8, <1>10, <1>12, <2>2, <2>3, <2>4 DEF InBody
  <2>6. Holds(g[q], f.method, f.url, HeadersOf(f.hs, Len(f.hs)))
    BY <1>9 DEF h, n
  <2> QED BY <1>8, <1>11, <1>12, <2>3, <2>5, <2>6, BodyParsed
<1>13. CASE m.meant.code = 0 /\ m.body = <<>> /\ LengthOf(h) = 0 /\ f.method # "POST"
  <2>1. g[q].parse = "FINISH"
    BY <1>8, <1>10, <1>13 DEF AfterHeaders
  <2>2. g[Len(s)] = g[q]
    BY <1>10, <1>11, <2>1, Rests
  <2>3. Len(m.body) = 0
    BY <1>13, Single
  <2> QED BY <1>8, <1>9, <1>10, <1>11, <1>13, <2>1, <2>2, <2>3 DEF Parsed, h, n
<1>14. CASE m.meant.code = 400 /\ LengthOf(h) = 0 /\ f.method = "POST" /\ <<"Content-Length">> \notin DOMAIN h
  <2>1. g[q].parse = "ERROR"
    BY <1>8, <1>10, <1>14 DEF AfterHeaders
  <2>2. CASE q = Len(s)
    <3>1. RestAt(g[q], m, f, c + q)
      BY <1>10, <1>11, <1>14, <2>1 DEF RestAt
    <3> QED BY <1>8, <1>10, <1>11, <2>1, <2>2, <3>1 DEF Parsed
  <2>3. CASE q # Len(s)
    <3>1. q < Len(s) /\ q \in Nat
      BY <1>1, <1>5, <2>3
    <3>2. g[Len(s)].failed = TRUE /\ g[Len(s)].parse = "ERROR"
      BY <1>10, <2>1, <3>1, FailsLater
    <3> QED BY <1>14, <3>2 DEF Parsed
  <2> QED BY <2>2, <2>3
<1>15. \/ m.meant.code = 0 /\ Len(m.body) # 0 /\ LengthOf(h) = Len(m.body)
       \/ m.meant.code = 0 /\ m.body = <<>> /\ LengthOf(h) = 0 /\ f.method # "POST"
       \/ m.meant.code = 400 /\ LengthOf(h) = 0 /\ f.method = "POST" /\ <<"Content-Length">> \notin DOMAIN h
  BY DEF Ended, h, n
<1> QED BY <1>12, <1>13, <1>14, <1>15

\* A head that ends after its lines, or is cut after one.
LEMMA HeadParsed ==
  ASSUME NEW s, IsText(s), NEW g, Chain(g, s), NEW m, NEW f, Frame(m, f), NEW c \in Nat,
         PieceOf(s, m, c), c <= f.e[0], NEW j \in 0..Len(f.hs),
         Begins(g[f.e[0] - c], f, j, f.e[0] - c),
         \/ \E k \in 0..Len(f.hs) : c + Len(s) = f.e[k]
         \/ Ended(m, f) /\ f.e[Len(f.hs)] + 2 <= c + Len(s)
         \/ Broken(m, f) /\ f.e[Len(f.hs)] + 5 <= c + Len(s)
  PROVE  Parsed(g[Len(s)], m, f, c)
<1> DEFINE n == Len(f.hs)
<1>1. Lines(f.hs) /\ Ruled(f.e, f.hs) /\ IsText(m.head) /\ n \in Nat \ {0} /\ Len(s) \in Nat
      /\ (Ended(m, f) \/ Broken(m, f)) /\ n \in 0..n
  <2>1. Lines(f.hs) /\ Ruled(f.e, f.hs) /\ IsText(m.head) /\ n # 0 /\ (Ended(m, f) \/ Broken(m, f))
    BY DEF Frame
  <2>2. n \in Nat /\ Len(s) \in Nat
    BY <2>1 DEF Lines, IsText
  <2>3. n \in Nat \ {0} /\ n \in 0..n
    BY ONLY <2>1, <2>2
  <2> QED BY <2>1, <2>2, <2>3
<1>2. \A k \in 0..n : f.e[k] \in Nat /\ f.e[0] \in Nat /\ f.e[0] <= f.e[k]
  <2> SUFFICES ASSUME NEW k \in 0..n PROVE f.e[k] \in Nat /\ f.e[0] \in Nat /\ f.e[0] <= f.e[k]
    OBVIOUS
  <2>1. 0 \in 0..k
    BY <1>1
  <2> QED BY <1>1, <2>1, RuledGrows
<1>3. ASSUME \E i \in 1..n : Throwing(f.hs[i]), g[Len(s)].parse = "THROWN", g[Len(s)].failed = FALSE
      PROVE  Parsed(g[Len(s)], m, f, c)
  BY <1>1, <1>3 DEF Parsed, Ended, Broken
<1>4. \A k \in 1..n : \A i \in 1..k : i \in 1..n
  BY <1>1
<1>5. ASSUME NEW k \in 0..n, f.e[k] <= c + Len(s)
      PROVE  IF \E i \in 1..k : Throwing(f.hs[i])
             THEN g[Len(s)].parse = "THROWN" /\ g[Len(s)].failed = FALSE
             ELSE ReadTo(g[f.e[k] - c], f, c, j, k)
  BY <1>5, HeadLines
<1>6. CASE \E k \in 0..n : c + Len(s) = f.e[k]
  <2>1. PICK k \in 0..n : c + Len(s) = f.e[k]
    BY <1>6
  <2> DEFINE x == f.e[k]
             y == f.e[0]
             w == IF k <= j THEN j ELSE k
  <2>2. x <= c + Len(s) /\ x - c = Len(s) /\ y - c \in Nat /\ c + (y - c) = y
    <3>1. c + Len(s) = x /\ x \in Nat /\ y \in Nat /\ c <= y
      BY <1>2, <2>1
    <3> HIDE DEF x, y
    <3> QED BY <1>1, <3>1
  <2>3. CASE \E i \in 1..k : Throwing(f.hs[i])
    <3>1. g[Len(s)].parse = "THROWN" /\ g[Len(s)].failed = FALSE
      BY <1>5, <2>2, <2>3
    <3>2. \E i \in 1..n : Throwing(f.hs[i])
      <4>1. \A i \in 1..k : i \in 1..n
        BY <1>1
      <4> QED BY <2>3, <4>1
    <3> QED BY <1>3, <3>1, <3>2
  <2>4. CASE ~\E i \in 1..k : Throwing(f.hs[i])
    <3>1. ReadTo(g[x - c], f, c, j, k)
      BY <1>5, <2>2, <2>4
    <3> DEFINE r == g[Len(s)]
    <3>2. ReadTo(r, f, c, j, k)
      BY <2>2, <3>1
    <3>3. r.end = y - c /\ r.body = <<>> /\ AtLine(r, x - c + 1) /\ (k # 0 => r.header = "LF")
          /\ Holds(r, f.method, f.url, HeadersOf(f.hs, w))
      BY <3>2 DEF ReadTo
    <3>4. w \in 0..n /\ (w = 0 => k = 0 /\ j = 0) /\ (k = 0 => w = j)
      BY <1>1
    <3>5. r.header = IF w = 0 THEN "KEY" ELSE "LF"
      <4>1. CASE k = 0
        <5>1. r = g[y - c]
          BY <2>2, <4>1
        <5> QED BY <3>4, <4>1, <5>1 DEF Begins
      <4>2. CASE k # 0
        BY <3>3, <3>4, <4>2
      <4> QED BY <4>1, <4>2
    <3> HIDE DEF w, r
    <3>6. r.parse = "HEADERS" /\ r.failed = FALSE
      BY <3>3 DEF AtLine
    <3>7. RestAt(r, m, f, c + (y - c))
      BY <2>2, <3>3, <3>4, <3>5, <3>6 DEF RestAt
    <3>8. Parsed(r, m, f, c)
      BY <2>2, <3>3, <3>6, <3>7 DEF Parsed
    <3> QED BY <3>8 DEF r
  <2> QED BY <2>3, <2>4
<1>7. ASSUME f.e[n] <= c + Len(s), \/ Ended(m, f) /\ f.e[n] + 2 <= c + Len(s)
                                   \/ Broken(m, f) /\ f.e[n] + 5 <= c + Len(s)
      PROVE  Parsed(g[Len(s)], m, f, c)
  <2>1. CASE \E i \in 1..n : Throwing(f.hs[i])
    BY <1>1, <1>3, <1>5, <1>7, <2>1
  <2>2. CASE ~\E i \in 1..n : Throwing(f.hs[i])
    <3>1. ReadTo(g[f.e[n] - c], f, c, j, n)
      BY <1>1, <1>5, <1>7, <2>2
    <3>2. CASE Ended(m, f) /\ f.e[n] + 2 <= c + Len(s)
      BY <2>2, <3>1, <3>2, HeadEnded
    <3>3. CASE Broken(m, f) /\ f.e[n] + 5 <= c + Len(s)
      <4> DEFINE x == f.e[n]
                 y == f.e[0]
                 p == x - c + 1
                 p1 == x - c + 2
                 p2 == x - c + 3
                 h == Len(m.head)
      <4>1. /\ x \in Nat /\ y \in Nat /\ c <= y /\ y <= x /\ x + 5 <= c + Len(s) /\ h = x + 7
            /\ m.head[x + 1] \notin {COLON, CR, LF} /\ m.head[x + 2] = COLON /\ m.head[x + 3] # SP
        BY <1>1, <1>2, <3>3 DEF Broken
      <4> HIDE DEF x, y, h
      <4>2. /\ p \in Nat \ {0} /\ p - 1 = x - c /\ p + 1 = p1 /\ p + 2 = p2 /\ p + 2 < Len(s)
            /\ p \in 1..Len(s) /\ p1 \in 1..Len(s) /\ p2 \in 1..Len(s)
            /\ c + p = x + 1 /\ c + p1 = x + 2 /\ c + p2 = x + 3
            /\ x + 1 <= h /\ x + 2 <= h /\ x + 3 <= h
        BY <1>1, <4>1
      <4> HIDE DEF p, p1, p2
      <4>3. s[p] = m.head[c + p] /\ s[p1] = m.head[c + p1] /\ s[p2] = m.head[c + p2]
        BY <4>2 DEF PieceOf, h
      <4>4. s[p] \notin {COLON, CR, LF} /\ s[p + 1] = COLON /\ s[p + 2] # SP
        BY <4>1, <4>2, <4>3
      <4>5. AtLine(g[p - 1], p)
        <5>1. x - c + 1 = p
          BY DEF p
        <5> QED BY <3>1, <4>2, <5>1 DEF ReadTo, x
      <4>6. g[Len(s)].failed = TRUE /\ g[Len(s)].parse = "ERROR"
        <5>1. p \in Nat \ {0} /\ p + 2 < Len(s)
          BY <4>2
        <5> QED BY <4>4, <4>5, <5>1, BadLineRead
      <4> QED BY <3>3, <4>6 DEF Parsed, Broken
    <3> QED BY <1>7, <3>2, <3>3
  <2> QED BY <2>1, <2>2
<1>8. ASSUME \/ Ended(m, f) /\ f.e[n] + 2 <= c + Len(s)
             \/ Broken(m, f) /\ f.e[n] + 5 <= c + Len(s)
      PROVE  f.e[n] <= c + Len(s)
  <2> DEFINE x == f.e[n]
             l == Len(s)
  <2>1. x \in Nat /\ l \in Nat /\ (x + 2 <= c + l \/ x + 5 <= c + l)
    BY <1>1, <1>2, <1>8
  <2> HIDE DEF x, l
  <2>2. x <= c + l
    BY <2>1
  <2> QED BY <2>2 DEF x, l
<1> QED BY <1>6, <1>7, <1>8

\* A new request is between two calls.
LEMMA NewRestarted ==
  ASSUME NEW key, NEW r, r = Restarted(NewRequest(key))
  PROVE  r = NewRequest(key)
BY DEF Restarted, NewRequest

\* What Parse returns is the end of a chain.
LEMMA ChainOfParse ==
  ASSUME NEW r, NEW s, IsText(s)
  PROVE  \E g : g[0] = Restarted(r) /\ Parse(r, s) = g[Len(s)] /\ Chain(g, s)
<1>1. Len(s) \in Nat
  BY DEF IsText
<1>2. PICK g : /\ g[0] = Restarted(r) /\ Parse(r, s) = g[Len(s)]
               /\ \A i \in 1..Len(s) : g[i] = Feed(g[i - 1], s, i)
  BY <1>1, ParseIsFed
<1> QED BY <1>2 DEF Chain

\* The places where a piece may end, as HeadParsed needs them.
LEMMA StopsOfHead ==
  ASSUME NEW m, NEW f, Frame(m, f), NEW x \in Nat,
         x \in Stops(m, f) \/ x >= Len(m.head) + Len(m.body)
  PROVE  /\ \/ \E k \in 0..Len(f.hs) : x = f.e[k]
            \/ Ended(m, f) /\ f.e[Len(f.hs)] + 2 <= x
            \/ Broken(m, f) /\ f.e[Len(f.hs)] + 5 <= x
         /\ f.e[0] \in Nat /\ f.e[0] <= x /\ f.e[0] + 2 <= Len(m.head)
<1> DEFINE n == Len(f.hs)
           y == f.e[0]
           w == f.e[n]
           h == Len(m.head)
           l == Len(m.body)
<1>1. Lines(f.hs) /\ Ruled(f.e, f.hs) /\ n \in Nat \ {0} /\ h \in Nat /\ l \in Nat
      /\ (Ended(m, f) \/ Broken(m, f)) /\ n \in 0..n
  BY DEF Frame, Lines, IsText
<1>2. \A k \in 0..n : f.e[k] \in Nat /\ y \in Nat /\ y <= f.e[k]
  <2> SUFFICES ASSUME NEW k \in 0..n PROVE f.e[k] \in Nat /\ f.e[0] \in Nat /\ f.e[0] <= f.e[k]
    OBVIOUS
  <2>1. 0 \in 0..k
    BY <1>1
  <2> QED BY <1>1, <2>1, RuledGrows
<1>3. /\ (Ended(m, f) => h = w + 2) /\ (Broken(m, f) => h = w + 7)
      /\ w \in Nat /\ y <= w /\ y \in Nat
  BY <1>1, <1>2 DEF Ended, Broken
<1>4. \/ \E k \in 0..n : x = f.e[k]
      \/ \E b \in 0..l : x = h + b
      \/ Broken(m, f) /\ x = w + 5
      \/ x >= h + l
  BY DEF Stops
<1> HIDE DEF y, w, h, l
<1>5. (\E k \in 0..n : x = f.e[k]) \/ x >= h \/ (Broken(m, f) /\ x >= w + 5)
  <2>1. ASSUME NEW b \in 0..l PROVE h + b >= h
    BY <1>1
  <2>2. w + 5 >= w + 5 /\ h + l >= h
    BY <1>1, <1>3
  <2>3. x >= h + l => x >= h
    BY <1>1
  <2> QED BY <1>4, <2>1, <2>2, <2>3
<1>6. /\ (x >= w + 5 => w + 5 <= x /\ y <= x)
      /\ (x >= h /\ h = w + 2 => w + 2 <= x /\ y <= x /\ y + 2 <= h)
      /\ (x >= h /\ h = w + 7 => w + 5 <= x /\ y <= x)
      /\ (h = w + 2 \/ h = w + 7 => y + 2 <= h)
  BY <1>1, <1>3
<1>7. (\E k \in 0..n : x = f.e[k]) => y <= x
  BY <1>2
<1>8. y \in Nat /\ y <= x /\ y + 2 <= h
  BY <1>1, <1>3, <1>5, <1>6, <1>7
<1>9. \/ \E k \in 0..n : x = f.e[k]
      \/ Ended(m, f) /\ w + 2 <= x
      \/ Broken(m, f) /\ w + 5 <= x
  BY <1>1, <1>3, <1>5, <1>6
<1> QED BY <1>8, <1>9 DEF y, w, h

\* Parse makes of each piece of a message, wherever it begins and ends, what it should:
\* nothing yet, the request that was meant, or the error.
LEMMA MessageParsed ==
  ASSUME NEW s, IsText(s), NEW r, NEW m, NEW f, Frame(m, f), NEW c \in Nat, RestAt(r, m, f, c),
         PieceOf(s, m, c),
         Len(s) = 0 \/ c + Len(s) \in Stops(m, f) \/ c + Len(s) >= Len(m.head) + Len(m.body)
  PROVE  Parsed(Parse(r, s), m, f, c)
<1>1. PICK g : g[0] = Restarted(r) /\ Parse(r, s) = g[Len(s)] /\ Chain(g, s)
  BY ChainOfParse
<1>2. /\ Len(s) \in Nat /\ 0 \in 0..Len(s) /\ c + Len(s) \in Nat /\ IsText(m.head) /\ f.method \in Methods
      /\ IsText(f.url) /\ (\A i \in 1..Len(f.url) : f.url[i] # SP) /\ Len(f.url) \in Nat
      /\ f.e[0] = Len(f.url) + 6 /\ f.e[0] \in Nat
      /\ At(m.head, 1, RequestLine(f.method, f.url)) /\ Lines(f.hs) /\ Len(f.hs) \in Nat
  BY DEF Frame, IsText, Lines
<1> SUFFICES Parsed(g[Len(s)], m, f, c)
  BY <1>1
<1> DEFINE e0 == f.e[0]
<1>3. ASSUME Len(s) # 0
      PROVE  /\ \/ \E k \in 0..Len(f.hs) : c + Len(s) = f.e[k]
                \/ Ended(m, f) /\ f.e[Len(f.hs)] + 2 <= c + Len(s)
                \/ Broken(m, f) /\ f.e[Len(f.hs)] + 5 <= c + Len(s)
             /\ e0 <= c + Len(s)
  BY <1>2, <1>3, StopsOfHead
<1>4. CASE c = 0 /\ \E key : r = NewRequest(key)
  <2>1. PICK key : r = NewRequest(key)
    BY <1>4
  <2>2. g[0] = NewRequest(key)
    BY <1>1, <2>1, NewRestarted
  <2>3. CASE Len(s) = 0
    <3>1. g[Len(s)] = NewRequest(key) /\ c + 0 = 0
      BY <1>4, <2>2, <2>3
    <3>2. /\ NewRequest(key).failed = FALSE /\ NewRequest(key).parse = "REQUEST_LINE"
          /\ NewRequest(key).end = 0
      BY DEF NewRequest
    <3>3. RestAt(g[Len(s)], m, f, c + 0)
      BY <3>1 DEF RestAt
    <3> QED BY <3>1, <3>2, <3>3 DEF Parsed
  <2>4. CASE Len(s) # 0
    <3> DEFINE t == RequestLine(f.method, f.url)
    <3>1. Len(t) = e0 /\ IsText(t)
      <4>1. IsText(<<f.method, SP>>) /\ IsText(<<SP, "HTTP/1.1">>) /\ IsText(CRLF)
            /\ Len(<<f.method, SP>>) = 2 /\ Len(<<SP, "HTTP/1.1">>) = 2 /\ Len(CRLF) = 2
        BY Single DEF CRLF
      <4> DEFINE a == <<f.method, SP>>
                 b == <<SP, "HTTP/1.1">>
      <4> HIDE DEF a, b
      <4>2. IsText(a \o f.url) /\ Len(a \o f.url) = Len(a) + Len(f.url)
        <5>1. IsText(a) /\ IsText(f.url)
          BY <1>2, <4>1 DEF a
        <5> QED BY <5>1, Joined
      <4>3. IsText(a \o f.url \o b) /\ Len(a \o f.url \o b) = Len(a \o f.url) + Len(b)
        <5>1. IsText(a \o f.url) /\ IsText(b)
          BY <4>1, <4>2 DEF b
        <5> QED BY <5>1, Joined
      <4>4. IsText(a \o f.url \o b \o CRLF) /\ Len(a \o f.url \o b \o CRLF) = Len(a \o f.url \o b) + Len(CRLF)
        <5>1. IsText(a \o f.url \o b) /\ IsText(CRLF)
          BY <4>1, <4>3
        <5> QED BY <5>1, Joined
      <4>5. Len(a) = 2 /\ Len(b) = 2 /\ t = a \o f.url \o b \o CRLF
        BY <4>1 DEF a, b, RequestLine
      <4>6. Len(t) = 2 + Len(f.url) + 2 + 2
        BY <4>1, <4>2, <4>3, <4>4, <4>5
      <4> QED BY <1>2, <4>4, <4>5, <4>6
    <3> HIDE DEF t
    <3>2. e0 <= Len(s)
      BY <1>2, <1>3, <1>4, <2>4
    <3>3. At(s, 1, t)
      <4>1. 1 \in Nat /\ 1 > c /\ 1 + Len(t) - 1 <= c + Len(s) /\ 1 - c = 1
        BY <1>2, <1>4, <3>1, <3>2
      <4>2. At(s, 1 - c, t)
        BY <1>2, <3>1, <4>1, PieceAt DEF t
      <4> QED BY <4>1, <4>2
    <3>4. Begun(g[Len(f.url) + 6], f.method, f.url, Len(f.url) + 6)
      BY <1>1, <1>2, <2>2, <3>3, RequestLineRead DEF t
    <3>5. Begun(g[e0], f.method, f.url, e0)
      BY <1>2, <3>4
    <3>6. e0 - c = e0 /\ c <= e0 /\ 0 \in 0..Len(f.hs)
      BY <1>2, <1>4
    <3>7. Begins(g[e0], f, 0, e0)
      <4>1. HeadersOf(f.hs, 0) = [x \in {} |-> <<>>]
        <5>1. {<<f.hs[i].key>> : i \in 1..0} = {}
          OBVIOUS
        <5> QED BY <5>1 DEF HeadersOf
      <4>2. LengthOf([x \in {} |-> <<>>]) = 0 /\ KeepOf([x \in {} |-> <<>>]) = TRUE
        BY DEF LengthOf, KeepOf
      <4> QED BY <3>5, <4>1, <4>2 DEF Begins, Begun, Holds, AtLine
    <3>8. Begins(g[f.e[0] - c], f, 0, f.e[0] - c)
      BY <3>6, <3>7
    <3> QED BY <1>1, <1>3, <2>4, <3>6, <3>8, HeadParsed
  <2> QED BY <2>3, <2>4
<1>5. CASE /\ c = f.e[0] /\ r.parse = "HEADERS" /\ r.body = <<>>
           /\ \E j \in 0..Len(f.hs) :
                /\ Holds(r, f.method, f.url, HeadersOf(f.hs, j))
                /\ r.header = IF j = 0 THEN "KEY" ELSE "LF"
  <2>1. PICK j \in 0..Len(f.hs) : /\ Holds(r, f.method, f.url, HeadersOf(f.hs, j))
                                  /\ r.header = IF j = 0 THEN "KEY" ELSE "LF"
    BY <1>5
  <2>2. g[0] = [r EXCEPT !.parseStart = 1, !.end = 0]
    BY <1>1 DEF Restarted
  <2>3. Begins(g[0], f, j, 0)
    <3>1. RequestFields \subseteq DOMAIN r
      BY <2>1 DEF Holds
    <3>2. /\ RequestFields \subseteq DOMAIN g[0] /\ g[0].parse = r.parse /\ g[0].failed = r.failed
          /\ g[0].method = r.method /\ g[0].url = r.url /\ g[0].headers = r.headers
          /\ g[0].contentLength = r.contentLength /\ g[0].keepAlive = r.keepAlive
          /\ g[0].header = r.header /\ g[0].body = r.body /\ g[0].end = 0 /\ g[0].parseStart = 1
      BY <2>2, <3>1 DEF RequestFields
    <3>3. Holds(g[0], f.method, f.url, HeadersOf(f.hs, j)) /\ g[0].failed = FALSE
      BY <2>1, <3>2 DEF Holds
    <3>4. 0 + 1 = 1
      OBVIOUS
    <3>5. AtLine(g[0], 0 + 1)
      BY <1>5, <2>1, <3>2, <3>3, <3>4 DEF AtLine
    <3> QED BY <1>5, <2>1, <3>2, <3>3, <3>5 DEF Begins
  <2>4. f.e[0] - c = 0 /\ c <= f.e[0]
    BY <1>2, <1>5
  <2>5. Begins(g[f.e[0] - c], f, j, f.e[0] - c)
    BY <2>3, <2>4
  <2>6. \/ \E k \in 0..Len(f.hs) : c + Len(s) = f.e[k]
        \/ Ended(m, f) /\ f.e[Len(f.hs)] + 2 <= c + Len(s)
        \/ Broken(m, f) /\ f.e[Len(f.hs)] + 5 <= c + Len(s)
    <3>1. CASE Len(s) = 0
      <4>1. 0 \in 0..Len(f.hs) /\ c + Len(s) = f.e[0]
        BY <1>2, <1>5, <3>1
      <4> QED BY <4>1
    <3> QED BY <1>3, <3>1
  <2> QED BY <1>1, <2>4, <2>5, <2>6, HeadParsed
<1>6. CASE \E b \in 0..Len(m.body) - 1 :
             /\ c = Len(m.head) + b /\ InBody(r, m.body, b) /\ m.meant.code = 0
             /\ Holds(r, f.method, f.url, HeadersOf(f.hs, Len(f.hs)))
  <2>1. PICK b \in 0..Len(m.body) - 1 :
             /\ c = Len(m.head) + b /\ InBody(r, m.body, b) /\ m.meant.code = 0
             /\ Holds(r, f.method, f.url, HeadersOf(f.hs, Len(f.hs)))
    BY <1>6
  <2>2. g[0] = [r EXCEPT !.parseStart = 1, !.end = 0]
    BY <1>1 DEF Restarted
  <2>3. /\ RequestFields \subseteq DOMAIN g[0] /\ g[0].parse = r.parse /\ g[0].failed = r.failed
        /\ g[0].method = r.method /\ g[0].url = r.url /\ g[0].headers = r.headers
        /\ g[0].contentLength = r.contentLength /\ g[0].keepAlive = r.keepAlive
        /\ g[0].body = r.body /\ g[0].end = 0
    <3>1. RequestFields \subseteq DOMAIN r
      BY <2>1 DEF Holds
    <3> QED BY <2>2, <3>1 DEF RequestFields
  <2>4. InBody(g[0], m.body, b) /\ Holds(g[0], f.method, f.url, HeadersOf(f.hs, Len(f.hs)))
    BY <2>1, <2>3 DEF InBody, Holds
  <2>5. c + 0 = Len(m.head) + b /\ 0 \in 0..Len(s)
    BY <1>2, <2>1
  <2> QED BY <1>1, <2>1, <2>3, <2>4, <2>5, BodyParsed
<1>7. CASE /\ c = Len(m.head) /\ r.parse = "ERROR" /\ r.failed = FALSE /\ m.meant.code = 400
           /\ RequestFields \subseteq DOMAIN r
  <2>1. g[0] = [r EXCEPT !.parseStart = 1, !.end = 0]
    BY <1>1 DEF Restarted
  <2>2. /\ RequestFields \subseteq DOMAIN g[0] /\ g[0].parse = "ERROR" /\ g[0].failed = FALSE
        /\ g[0].end = 0
    BY <1>7, <2>1 DEF RequestFields
  <2>3. CASE Len(s) = 0
    <3>1. g[Len(s)] = g[0] /\ c + 0 = Len(m.head)
      BY <1>7, <2>3
    <3>2. RestAt(g[0], m, f, c + 0)
      BY <1>7, <2>2, <3>1 DEF RestAt
    <3>3. g[0].end \in Nat /\ g[0].parse \notin {"THROWN", "FINISH"} /\ RestAt(g[0], m, f, c + g[0].end)
      BY <2>2, <3>2
    <3>4. Parsed(g[0], m, f, c)
      BY <2>2, <3>3 DEF Parsed
    <3> QED BY <3>1, <3>4
  <2>4. CASE Len(s) # 0
    <3>1. 0 \in Nat /\ 0 < Len(s)
      BY <1>2, <2>4
    <3>2. g[Len(s)].failed = TRUE /\ g[Len(s)].parse = "ERROR"
      BY <1>1, <2>2, <3>1, FailsLater
    <3> QED BY <1>7, <3>2 DEF Parsed
  <2> QED BY <2>3, <2>4
<1> QED BY <1>4, <1>5, <1>6, <1>7 DEF RestAt

(***************************************************************************)
(* A conversation, and how far the server has come with it.                 *)
(***************************************************************************)

\* A request that holds what the message m carries is understood as it is meant.
AsMeant(m, f) ==
  m.meant.code = 0 =>
    \A r : Holds(r, f.method, f.url, HeadersOf(f.hs, Len(f.hs))) /\ r.body = m.body =>
             Understood(r) = m.meant.request

\* The conversation c consists of the messages ms, made as fr says; the i-th ends
\* at o[i].
Talk(c, ms, o, fr) ==
  LET Z == Len(c.meant) IN
  /\ IsText(c.stream) /\ IsText(c.meant) /\ Z \in Nat
  /\ o \in [0..Z -> Nat] /\ o[0] = 0 /\ o[Z] = Len(c.stream)
  /\ \A i \in 1..Z :
       /\ o[i] = o[i - 1] + Len(ms[i].head) + Len(ms[i].body)
       /\ At(c.stream, o[i - 1] + 1, ms[i].head)
       /\ At(c.stream, o[i - 1] + Len(ms[i].head) + 1, ms[i].body)
       /\ Frame(ms[i], fr[i]) /\ AsMeant(ms[i], fr[i]) /\ c.meant[i] = ms[i].meant
  /\ \A x \in c.cuts : \E i \in 1..Z : o[i - 1] <= x /\ x - o[i - 1] \in Stops(ms[i], fr[i])

\* How many bytes of the stream are taken out of the buffer.
Place == got - ReadableBytes

\* The first n answers are no errors.
NoError(n) == \A l \in 1..n : answers[l].code = 0

\* Answer i is what was meant, or a refusal for the size.
RightAnswer(i) ==
  \/ answers[i].code = 403
  \/ /\ i \in 1..Len(client.meant) /\ answers[i].code = client.meant[i].code
     /\ answers[i].code = 0 => Understood(answers[i].request) = client.meant[i].request

\* Nothing but complete requests has been taken out, and the first bytes of the
\* next one.
Waiting(ms, o, fr) ==
  LET k == Len(answers) IN
  /\ k \in 0..Len(client.meant) /\ Place \in Nat /\ o[k] <= Place
  /\ \A p \in 1..ReadableBytes : PeekString[p] = client.stream[Place + p]
  /\ IF k = Len(client.meant) THEN Place = o[k] /\ \E key : m_request = NewRequest(key)
     ELSE RestAt(m_request, ms[k + 1], fr[k + 1], Place - o[k])

\* All answers up to the first error are right.
Answered == \A i \in 1..Len(answers) : NoError(i - 1) => RightAnswer(i)

\* The invariant of a conversation made as Talk says: no answer is wrong, and if none
\* is an error the server is where Waiting says.
Progress(ms, o, fr) ==
  /\ sent \in client.cuts \cup {0} /\ (pc = "parse" => got \in client.cuts \cup {0})
  /\ Answered
  /\ NoError(Len(answers)) => Waiting(ms, o, fr)

\* The requests come one after the other.
LEMMA TalkGrows ==
  ASSUME NEW c, NEW ms, NEW o, NEW fr, Talk(c, ms, o, fr)
  PROVE  \A i \in 0..Len(c.meant) : o[i] \in Nat /\ \A j \in 0..i : o[j] \in Nat /\ o[j] <= o[i]
<1> DEFINE Z == Len(c.meant)
           T == {i \in Nat : i \in 0..Z => \A j \in 0..i : o[j] <= o[i]}
<1>1. /\ Z \in Nat /\ o \in [0..Z -> Nat]
      /\ \A i \in 1..Z : /\ o[i] = o[i - 1] + Len(ms[i].head) + Len(ms[i].body)
                         /\ Len(ms[i].head) \in Nat /\ Len(ms[i].body) \in Nat
  BY DEF Talk, Frame, IsText
<1> HIDE DEF Z
<1>2. ASSUME NEW i \in Nat, \A l \in Nat : l < i => l \in T PROVE i \in T
  <2> SUFFICES ASSUME i \in 0..Z, NEW j \in 0..i PROVE o[j] <= o[i]
    OBVIOUS
  <2>1. CASE j = i
    BY <1>1, <2>1
  <2>2. CASE j # i
    <3> DEFINE k == i - 1
    <3>1. k \in T /\ k \in 0..Z /\ j \in 0..k /\ i \in 1..Z
      BY <1>1, <1>2, <2>2
    <3>2. o[j] <= o[k] /\ o[j] \in Nat /\ o[k] \in Nat
      BY <1>1, <3>1
    <3>3. o[i] = o[k] + Len(ms[i].head) + Len(ms[i].body) /\ Len(ms[i].head) \in Nat /\ Len(ms[i].body) \in Nat
      BY <1>1, <3>1
    <3> DEFINE x == o[j]
               y == o[k]
               z == o[i]
               v == Len(ms[i].head)
               w == Len(ms[i].body)
    <3> HIDE DEF x, y, z, v, w, T, k
    <3>4. x <= y /\ x \in Nat /\ y \in Nat /\ z = y + v + w /\ v \in Nat /\ w \in Nat
      BY <3>2, <3>3 DEF x, y, z, v, w
    <3>5. x <= z
      BY <3>4
    <3> QED BY <3>5 DEF x, z
  <2> QED BY <2>1, <2>2
<1>3. Nat \subseteq T
  <2> HIDE DEF T
  <2> QED BY <1>2, Induction
<1>4. ASSUME NEW i \in 0..Z, NEW j \in 0..i PROVE o[j] \in Nat /\ o[j] <= o[i]
  <2>1. i \in T /\ j \in 0..Z
    BY <1>1, <1>3
  <2> QED BY <1>1, <2>1
<1> QED BY <1>1, <1>4 DEF Z

\* No piece of a message ends after it.
LEMMA StopsWithin ==
  ASSUME NEW m, NEW f, Frame(m, f), NEW x \in Stops(m, f)
  PROVE  x \in Nat /\ x <= Len(m.head) + Len(m.body)
<1> DEFINE n == Len(f.hs)
           w == f.e[n]
           h == Len(m.head)
           l == Len(m.body)
<1>1. Lines(f.hs) /\ Ruled(f.e, f.hs) /\ n \in Nat \ {0} /\ h \in Nat /\ l \in Nat
      /\ (Ended(m, f) \/ Broken(m, f)) /\ n \in 0..n
  BY DEF Frame, Lines, IsText
<1>2. ASSUME NEW k \in 0..n PROVE f.e[k] \in Nat /\ w \in Nat /\ f.e[k] <= w
  <2>1. k \in 0..n
    OBVIOUS
  <2> QED BY <1>1, <2>1, RuledGrows
<1>3. /\ (Ended(m, f) => h = w + 2) /\ (Broken(m, f) => h = w + 7) /\ w \in Nat
  BY <1>1, <1>2 DEF Ended, Broken
<1>4. \/ \E k \in 0..n : x = f.e[k]
      \/ \E b \in 0..l : x = h + b
      \/ Broken(m, f) /\ x = w + 5
  BY DEF Stops
<1> HIDE DEF w, h, l
<1>5. CASE \E k \in 0..n : x = f.e[k]
  <2>1. x \in Nat /\ x <= w
    BY <1>2, <1>5
  <2>2. w <= h
    BY <1>1, <1>3
  <2>3. h \in Nat /\ l \in Nat /\ w \in Nat
    BY <1>1, <1>3
  <2>4. x <= h + l
    BY ONLY <2>1, <2>2, <2>3
  <2> QED BY <2>1, <2>4 DEF h, l
<1>6. CASE \E b \in 0..l : x = h + b
  BY <1>1, <1>6 DEF h, l
<1>7. CASE Broken(m, f) /\ x = w + 5
  <2>1. x \in Nat /\ x <= h + l
    BY <1>1, <1>3, <1>7
  <2> QED BY <2>1 DEF h, l
<1> QED BY <1>4, <1>5, <1>6, <1>7

\* What is in the buffer is a piece of the next message, and ends where it may.
LEMMA NextPiece ==
  ASSUME InputInv, NEW ms, NEW o, NEW fr, Talk(client, ms, o, fr), Waiting(ms, o, fr),
         Len(answers) # Len(client.meant), got \in client.cuts \cup {0}
  PROVE  LET k == Len(answers)
             m == ms[k + 1]
             f == fr[k + 1]
             c == Place - o[k]
             s == PeekString
         IN  /\ k + 1 \in 1..Len(client.meant) /\ IsText(s) /\ c \in Nat
             /\ Frame(m, f) /\ RestAt(m_request, m, f, c) /\ PieceOf(s, m, c)
             /\ Len(s) = 0 \/ c + Len(s) \in Stops(m, f) \/ c + Len(s) >= Len(m.head) + Len(m.body)
<1> DEFINE k == Len(answers)
           Z == Len(client.meant)
           m == ms[k + 1]
           f == fr[k + 1]
           z == Place
           a == o[k]
           b == o[k + 1]
           c == z - a
           s == PeekString
           l == Len(s)
           h == Len(m.head)
           w == Len(m.body)
<1>1. s \in Seq(Bytes) /\ l = ReadableBytes /\ ReadableBytes \in Nat
  BY PeekIsSeq DEF InputInv
<1>2. IsText(s)
  BY <1>1, SeqIsText
<1>3. /\ k \in 0..Z /\ k # Z /\ z \in Nat /\ a <= z /\ RestAt(m_request, m, f, c)
      /\ \A p \in 1..l : s[p] = client.stream[z + p]
  BY <1>1 DEF Waiting
<1>4. /\ Z \in Nat /\ o \in [0..Z -> Nat] /\ o[0] = 0
      /\ \A i \in 1..Z : /\ Frame(ms[i], fr[i])
                         /\ o[i] = o[i - 1] + Len(ms[i].head) + Len(ms[i].body)
  BY DEF Talk
<1>5. k + 1 \in 1..Z /\ k + 1 - 1 = k /\ k \in 0..Z /\ k + 1 \in 0..Z
  BY <1>3, <1>4
<1>6. /\ Frame(m, f) /\ b = a + h + w /\ At(client.stream, a + 1, m.head)
      /\ At(client.stream, a + h + 1, m.body) /\ a \in Nat /\ b \in Nat
  <2>1. At(client.stream, o[k + 1 - 1] + 1, m.head) /\ At(client.stream, o[k + 1 - 1] + h + 1, m.body)
    BY <1>5 DEF Talk
  <2>2. Frame(m, f) /\ o[k + 1] = o[k + 1 - 1] + h + w
    BY <1>4, <1>5
  <2> QED BY <1>4, <1>5, <2>1, <2>2
<1>7. h \in Nat /\ w \in Nat
  BY <1>6 DEF Frame, IsText
<1>8. z + l = got
  <2>1. z = got - l /\ got \in Nat
    BY <1>1, StreamIs DEF Place, InputInv, ClientInv
  <2> HIDE DEF z, l
  <2> QED BY <1>1, <2>1 DEF l
<1>8a. l \in Nat
  BY <1>1
<1>8b. ASSUME NEW i \in 1..h PROVE client.stream[a + 1 + i - 1] = m.head[i]
  BY <1>6 DEF At
<1>8c. ASSUME NEW i \in 1..w PROVE client.stream[a + h + 1 + i - 1] = m.body[i]
  BY <1>6 DEF At
<1>8d. \A p \in 1..l : s[p] = client.stream[z + p]
  BY <1>3
<1> HIDE DEF z, l, a, b, h, w, s
<1>9. c \in Nat /\ c + l = got - a /\ a + c = z
  BY <1>3, <1>6, <1>8, <1>8a
<1>10. PieceOf(s, m, c)
  <2>1. ASSUME NEW x \in 1..l, c + x <= h PROVE s[x] = m.head[c + x]
    <3> DEFINE i == c + x
    <3>1. i \in 1..h /\ a + 1 + i - 1 = z + x
      BY <1>3, <1>6, <1>7, <1>8a, <1>9, <2>1
    <3> HIDE DEF i, c
    <3>2. client.stream[a + 1 + i - 1] = m.head[i]
      BY <1>8b, <3>1
    <3> QED BY <1>8d, <3>1, <3>2 DEF i
  <2>2. ASSUME NEW x \in 1..l, c + x > h, c + x <= h + w PROVE s[x] = m.body[c + x - h]
    <3> DEFINE i == c + x - h
    <3>1. i \in 1..w /\ a + h + 1 + i - 1 = z + x
      BY <1>3, <1>6, <1>7, <1>8a, <1>9, <2>2
    <3> HIDE DEF i, c
    <3>2. client.stream[a + h + 1 + i - 1] = m.body[i]
      BY <1>8c, <3>1
    <3> QED BY <1>8d, <3>1, <3>2 DEF i
  <2> HIDE DEF c
  <2> QED BY <2>1, <2>2 DEF PieceOf, l, h, w
<1>11. l = 0 \/ c + l \in Stops(m, f) \/ c + l >= h + w
  <2>1. CASE got = 0
    BY <1>3, <1>8, <1>8a, <2>1
  <2>2. CASE got \in client.cuts /\ l # 0
    <3>1. PICK i \in 1..Z : o[i - 1] <= got /\ got - o[i - 1] \in Stops(ms[i], fr[i])
      BY <2>2 DEF Talk
    <3>2. i \in 0..Z /\ i - 1 \in 0..Z /\ i \in Nat /\ i - 1 \in Nat
      BY <1>4
    <3> DEFINE u == o[i - 1]
               v == o[i]
               hi == Len(ms[i].head)
               wi == Len(ms[i].body)
    <3>3. /\ u \in Nat /\ v \in Nat /\ v = u + hi + wi /\ Frame(ms[i], fr[i]) /\ hi \in Nat /\ wi \in Nat
      BY <1>4, <3>2 DEF Frame, IsText
    <3>4. got - u \in Nat /\ got - u <= hi + wi
      BY <3>1, <3>3, StopsWithin
    <3>5. got \in Nat
      BY <1>3, <1>8, <1>8a
    <3> HIDE DEF u, v, hi, wi
    <3>6. got <= v
      BY <3>3, <3>4, <3>5
    <3>7. CASE i = k + 1
      <4>1. u = a /\ ms[i] = m /\ fr[i] = f
        BY <1>5, <3>7 DEF u, a
      <4>2. c + l \in Stops(m, f)
        BY <1>9, <3>1, <4>1 DEF u
      <4> QED BY <4>2
    <3>8. CASE i < k + 1
      <4>1. i \in 0..k
        BY <1>5, <3>2, <3>8
      <4>2. v <= a
        BY <1>5, <4>1, TalkGrows DEF v, a
      <4> QED BY <1>3, <1>6, <1>8, <1>8a, <2>2, <3>3, <3>5, <3>6, <4>2
    <3>9. CASE i > k + 1
      <4>1. k + 1 \in 0..i - 1 /\ i - 1 \in 0..Z
        BY <1>5, <3>2, <3>9
      <4>2. b <= u
        BY <4>1, TalkGrows DEF b, u
      <4>3. u <= got
        BY <3>1 DEF u
      <4> QED BY <1>6, <1>7, <1>9, <3>3, <3>5, <4>2, <4>3
    <3> QED BY <1>5, <3>2, <3>7, <3>8, <3>9
  <2> QED BY <2>1, <2>2
<1>12. RestAt(m_request, m, f, c) /\ Frame(m, f) /\ IsText(s) /\ c \in Nat /\ k + 1 \in 1..Z
  BY <1>2, <1>3, <1>5, <1>6, <1>9
<1> HIDE DEF c, m, f, k, Z
<1> QED BY <1>10, <1>11, <1>12 DEF c, m, f, k, Z, h, w, l, s, z, a

\* One more answer.
LEMMA AnswersAre ==
  ASSUME AnswersInv, NEW a, answers' = Append(answers, a)
  PROVE  /\ Len(answers) \in Nat /\ Len(answers') = Len(answers) + 1
         /\ \A i \in 1..Len(answers) : answers'[i] = answers[i]
         /\ answers'[Len(answers) + 1] = a
<1> DEFINE S == Given \cup {a}
<1>1. answers \in Seq(S)
  BY SeqMonotonic DEF AnswersInv
<1> QED BY <1>1, AppendProperties, LenProperties

\* One more answer, which is right if the ones before it are no errors.
LEMMA AnswerAdded ==
  ASSUME AnswersInv, Answered, NEW a, answers' = Append(answers, a), client' = client,
         NEW k, k = Len(answers), NoError(k) => RightAnswer(k + 1)'
  PROVE  Answered' /\ (a.code # 0 => ~NoError(Len(answers))')
<1>1. /\ k \in Nat /\ Len(answers') = k + 1 /\ (\A i \in 1..k : answers'[i] = answers[i])
      /\ answers'[k + 1] = a
  BY AnswersAre
<1>2. ASSUME NEW i \in 1..k + 1, NoError(i - 1)' PROVE RightAnswer(i)'
  <2>1. \A l \in 1..i - 1 : l \in 1..k
    BY <1>1
  <2>2. NoError(i - 1)
    BY <1>1, <1>2, <2>1 DEF NoError
  <2>3. CASE i \in 1..k
    <3>1. RightAnswer(i)
      BY <2>2, <2>3 DEF Answered
    <3> QED BY <1>1, <2>3, <3>1 DEF RightAnswer
  <2>4. CASE i = k + 1
    <3>1. i - 1 = k
      BY <1>1, <2>4
    <3> QED BY <2>2, <2>4, <3>1
  <2> QED BY <1>1, <2>3, <2>4
<1>3. Answered'
  BY <1>1, <1>2 DEF Answered
<1>4. ASSUME a.code # 0 PROVE ~NoError(Len(answers))'
  <2>1. k + 1 \in 1..k + 1
    BY <1>1
  <2> QED BY <1>1, <1>4, <2>1 DEF NoError
<1> QED BY <1>3, <1>4

\* No more answers.
LEMMA AnsweredSame ==
  ASSUME Answered, UNCHANGED <<answers, client>>
  PROVE  Answered'
BY DEF Answered, NoError, RightAnswer

\* Nothing happens to the buffer.
LEMMA WaitingSame ==
  ASSUME NEW ms, NEW o, NEW fr, Waiting(ms, o, fr),
         UNCHANGED <<bufferVars, client, got, m_request, answers>>
  PROVE  Waiting(ms, o, fr)'
BY DEF Waiting, Place, ReadableBytes, PeekString, bufferVars

\* The invariant holds initially;
LEMMA ProgressInit ==
  ASSUME Init, NEW ms, NEW o, NEW fr, Talk(client, ms, o, fr)
  PROVE  Progress(ms, o, fr)
<1>1. sent = 0 /\ got = 0 /\ m_request = NewRequest(<<>>) /\ answers = <<>> /\ pc = "idle" /\ BufferInit
  BY DEF Init
<1>2. Len(answers) = 0 /\ ReadableBytes = 0
  BY <1>1, SizesAssumption, Single DEF BufferInit, ReadableBytes
<1>3. Len(client.meant) \in Nat /\ o[0] = 0
  BY DEF Talk
<1>4. Answered
  BY <1>2 DEF Answered
<1>5. Place = 0
  BY <1>1, <1>2 DEF Place
<1>6. CASE Len(client.meant) = 0
  BY <1>1, <1>2, <1>3, <1>4, <1>5, <1>6 DEF Progress, Waiting
<1>7. CASE Len(client.meant) # 0
  <2>1. RestAt(m_request, ms[0 + 1], fr[0 + 1], Place - o[0])
    BY <1>1, <1>3, <1>5 DEF RestAt
  <2> QED BY <1>1, <1>2, <1>3, <1>4, <1>5, <1>7, <2>1 DEF Progress, Waiting
<1> QED BY <1>6, <1>7

\* What Parse makes of the buffer.
LEMMA ParsedNow ==
  ASSUME InputInv, NEW ms, NEW o, NEW fr, Talk(client, ms, o, fr), Waiting(ms, o, fr),
         got \in client.cuts \cup {0}, Len(answers) # Len(client.meant)
  PROVE  Parsed(Parse(m_request, PeekString), ms[Len(answers) + 1], fr[Len(answers) + 1],
                Place - o[Len(answers)])
BY NextPiece, MessageParsed

\* Nothing comes of an empty buffer.
LEMMA ParsedNothing ==
  ASSUME NEW key
  PROVE  Parse(NewRequest(key), <<>>) = NewRequest(key)
<1>1. PICK g : /\ g[0] = Restarted(NewRequest(key)) /\ Parse(NewRequest(key), <<>>) = g[Len(<<>>)]
               /\ Chain(g, <<>>)
  BY Single, ChainOfParse
<1>2. Len(<<>>) = 0
  BY Single
<1>3. g[0] = NewRequest(key)
  BY <1>1, NewRestarted
<1> QED BY <1>1, <1>2, <1>3

\* n bytes are taken out.
LEMMA PlaceMoves ==
  ASSUME InputInv, NEW n \in Nat, Retrieve(n), UNCHANGED <<got, client>>, Place \in Nat,
         \A p \in 1..ReadableBytes : PeekString[p] = client.stream[Place + p]
  PROVE  /\ Place' = Place + n
         /\ (\A p \in 1..ReadableBytes : PeekString[p] = client.stream[Place + p])'
<1> DEFINE s == PeekString
           l == ReadableBytes
           z == Place
           t == PeekString'
           v == ReadableBytes'
<1>1. /\ BufferTypeOK' /\ n \in 0..Len(s) /\ t = SubSeq(s, n + 1, Len(s))
  BY RetrieveKeeps DEF InputInv
<1>2. s \in Seq(Bytes) /\ Len(s) = l /\ l \in Nat /\ v = Len(t)
  <2>1. s \in Seq(Bytes) /\ Len(s) = l /\ l \in Nat
    BY PeekIsSeq DEF InputInv
  <2>2. v = Len(t)
    <3>1. /\ m_buffer' \in Seq(Bytes) /\ m_readIndex' \in Nat
          /\ m_writeIndex' \in m_readIndex'..Len(m_buffer')
      BY <1>1, SizesAssumption, LenProperties DEF BufferTypeOK
    <3> QED BY <3>1, BetweenIsSeq DEF PeekString, ReadableBytes
  <2> QED BY <2>1, <2>2
<1>3. IsText(s) /\ got \in Nat /\ z = got - l
  BY <1>2, SeqIsText, StreamIs DEF InputInv, ClientInv, Place
<1>4. /\ IsText(SubSeq(s, n + 1, l)) /\ Len(SubSeq(s, n + 1, l)) = IF n + 1 <= l THEN l - (n + 1) + 1 ELSE 0
      /\ \A i \in 1..(l - (n + 1) + 1) : SubSeq(s, n + 1, l)[i] = s[n + 1 + i - 1]
  <2>1. n + 1 \in Nat \ {0} /\ l \in Int /\ l <= Len(s)
    BY <1>2
  <2> HIDE DEF s, l
  <2> QED BY ONLY <1>3, <2>1, PartOfText
<1>5. \A p \in 1..l : s[p] = client.stream[z + p]
  OBVIOUS
<1>6. Place' = got - v /\ z \in Nat /\ t = SubSeq(s, n + 1, l) /\ n \in 0..l
  BY <1>1, <1>2 DEF Place
<1> HIDE DEF s, l, z, t, v
<1>7. v = l - n /\ \A i \in 1..v : t[i] = s[n + i] /\ n + i \in 1..l
  <2>1. (IF n + 1 <= l THEN l - (n + 1) + 1 ELSE 0) = l - n /\ l - (n + 1) + 1 = l - n
    BY <1>2, <1>6
  <2>2. \A i \in 1..l - n : n + 1 + i - 1 = n + i /\ n + i \in 1..l
    BY <1>2, <1>6
  <2> QED BY <1>2, <1>4, <1>6, <2>1, <2>2
<1>8. Place' = z + n
  BY <1>2, <1>3, <1>6, <1>7
<1>9. \A p \in 1..v : t[p] = client.stream[z + n + p]
  <2> SUFFICES ASSUME NEW p \in 1..v PROVE t[p] = client.stream[z + n + p]
    OBVIOUS
  <2>1. z + (n + p) = z + n + p /\ n + p \in 1..l /\ t[p] = s[n + p]
    BY <1>2, <1>6, <1>7
  <2>2. s[n + p] = client.stream[z + (n + p)]
    BY <1>5, <2>1
  <2> QED BY <2>1, <2>2
<1>10. \A p \in 1..ReadableBytes' : PeekString'[p] = client'.stream[Place' + p]
  BY <1>8, <1>9 DEF t, v
<1> QED BY <1>8, <1>10 DEF z

\* The answer is an error.
LEMMA RefusedStep ==
  ASSUME InputInv, NEW ms, NEW o, NEW fr, Talk(client, ms, o, fr), Progress(ms, o, fr),
         NEW code, answers' = Append(answers, Refused(code)), code # 0, UNCHANGED <<client, sent>>,
         pc' # "parse",
         \/ code = 403
         \/ NoError(Len(answers)) =>
              Len(answers) + 1 \in 1..Len(client.meant) /\ client.meant[Len(answers) + 1].code = code
  PROVE  Progress(ms, o, fr)'
<1> DEFINE a == Refused(code)
<1>1. a.code = code
  BY DEF Refused
<1>2. PICK k : k = Len(answers)
  OBVIOUS
<1>3. AnswersInv /\ Answered
  BY DEF InputInv, Progress
<1>4. answers' = Append(answers, a)
  OBVIOUS
<1> HIDE DEF a
<1>5. answers'[k + 1] = a
  BY <1>2, <1>3, <1>4, AnswersAre
<1>6. NoError(k) => RightAnswer(k + 1)'
  BY <1>1, <1>2, <1>5 DEF RightAnswer
<1>7. Answered' /\ ~NoError(Len(answers))'
  BY <1>1, <1>2, <1>3, <1>4, <1>6, AnswerAdded
<1> QED BY <1>7 DEF Progress

\* a read keeps it,
LEMMA ReadChunkProgress ==
  ASSUME InputInv, NEW ms, NEW o, NEW fr, Talk(client, ms, o, fr), Progress(ms, o, fr), ReadChunk
  PROVE  Progress(ms, o, fr)'
<1> DEFINE s == PeekString
           l == ReadableBytes
           t == PeekString'
           v == ReadableBytes'
           n == Len(Chunk)
           z == Place
<1>1. /\ Chunk \in Seq(Bytes) /\ n \in Nat \ {0} /\ got + n \in 0..sent
  BY ChunkIs, ReadAssumption DEF ReadChunk, InputInv
<1>2. BufferTypeOK' /\ t = s \o Chunk
  BY <1>1, AppendKeeps DEF ReadChunk, InputInv
<1>3. s \in Seq(Bytes) /\ Len(s) = l /\ l \in Nat
  BY PeekIsSeq DEF InputInv
<1>4. v = Len(t)
  <2>1. /\ m_buffer' \in Seq(Bytes) /\ m_readIndex' \in Nat
        /\ m_writeIndex' \in m_readIndex'..Len(m_buffer')
    BY <1>2, SizesAssumption, LenProperties DEF BufferTypeOK
  <2> QED BY <2>1, BetweenIsSeq DEF PeekString, ReadableBytes
<1>5. /\ client' = client /\ sent' = sent /\ m_request' = m_request /\ answers' = answers /\ pc' = "read"
      /\ got' = got + n /\ got \in Nat /\ got < sent /\ sent \in Nat /\ sent <= Len(client.stream)
      /\ IsText(client.stream) /\ Len(client.stream) \in Nat
  BY StreamIs, SeqIsText DEF ReadChunk, InputInv, ClientInv
<1>6. \A i \in 1..n : Chunk[i] = client.stream[got + i]
  <2> DEFINE q == Min({got + READ_BUFFER, sent})
  <2>1. Chunk = SubSeq(client.stream, got + 1, q)
    BY DEF Chunk
  <2>2. q \in Nat /\ q <= sent
    <3>1. {got + READ_BUFFER, sent} \subseteq Nat /\ sent \in {got + READ_BUFFER, sent}
      BY <1>5, ReadAssumption
    <3> QED BY <3>1, MinIs
  <2> HIDE DEF q
  <2>3. got + 1 \in Nat \ {0} /\ q \in Int /\ q <= Len(client.stream)
    BY <1>5, <2>2
  <2>4. /\ n = IF got + 1 <= q THEN q - (got + 1) + 1 ELSE 0
        /\ \A i \in 1..(q - (got + 1) + 1) : Chunk[i] = client.stream[got + 1 + i - 1]
    BY <1>5, <2>1, <2>3, PartOfText
  <2>5. q - (got + 1) + 1 = n /\ \A i \in 1..n : got + 1 + i - 1 = got + i
    BY <1>1, <1>5, <2>2, <2>4
  <2> QED BY <2>4, <2>5
<1>7. /\ Len(t) = l + n /\ (\A i \in 1..l : t[i] = s[i]) /\ \A i \in 1..n : t[l + i] = Chunk[i]
  <2>1. IsText(s) /\ IsText(Chunk)
    BY <1>1, <1>3, SeqIsText
  <2>2. /\ Len(s \o Chunk) = Len(s) + Len(Chunk)
        /\ \A i \in 1..Len(s) : (s \o Chunk)[i] = s[i]
        /\ \A i \in 1..Len(Chunk) : (s \o Chunk)[Len(s) + i] = Chunk[i]
    <3> HIDE DEF s
    <3> QED BY <2>1, Joined
  <2> HIDE DEF s, l, t
  <2> QED BY <1>2, <1>3, <2>2
<1>8. Answered'
  BY <1>5, AnsweredSame DEF Progress
<1>9. ASSUME NoError(Len(answers)) PROVE Waiting(ms, o, fr)'
  <2>1. Waiting(ms, o, fr)
    BY <1>9 DEF Progress
  <2>2. Place' = z
    <3>1. Place' = got + n - v /\ z = got - l /\ v = l + n
      BY <1>4, <1>5, <1>7 DEF Place
    <3> HIDE DEF z, l, v, n
    <3> QED BY <1>1, <1>3, <1>5, <3>1
  <2>3. z \in Nat /\ \A p \in 1..l : s[p] = client.stream[z + p]
    BY <2>1 DEF Waiting
  <2>4. z + l = got
    <3>1. z = got - l
      BY DEF Place
    <3> HIDE DEF z, l
    <3> QED BY <1>3, <1>5, <3>1
  <2>5. \A p \in 1..v : t[p] = client.stream[z + p]
    <3> HIDE DEF s, l, t, z, n, v
    <3> SUFFICES ASSUME NEW p \in 1..v PROVE t[p] = client.stream[z + p]
      OBVIOUS
    <3>1. CASE p \in 1..l
      BY <1>7, <2>3, <3>1
    <3>2. CASE p \notin 1..l
      <4> DEFINE i == p - l
      <4>1. i \in 1..n /\ p = l + i /\ z + p = got + i
        BY <1>1, <1>3, <1>4, <1>7, <2>3, <2>4, <3>2
      <4> HIDE DEF i
      <4>2. t[l + i] = Chunk[i] /\ Chunk[i] = client.stream[got + i]
        BY <1>6, <1>7, <4>1
      <4> QED BY <4>1, <4>2
    <3> QED BY <3>1, <3>2
  <2>6. \A p \in 1..ReadableBytes' : PeekString'[p] = client'.stream[Place' + p]
    BY <1>5, <2>2, <2>5
  <2> HIDE DEF s, l, t, v, n
  <2> QED BY <1>5, <2>1, <2>2, <2>6 DEF Waiting
<1>10. NoError(Len(answers))' => NoError(Len(answers))
  BY <1>5 DEF NoError
<1> QED BY <1>5, <1>8, <1>9, <1>10 DEF Progress

\* and so does a call of Parse with all that follows it.
LEMMA ParseOnceProgress ==
  ASSUME InputInv, NEW ms, NEW o, NEW fr, Talk(client, ms, o, fr), Progress(ms, o, fr), ParseOnce
  PROVE  Progress(ms, o, fr)'
<1> DEFINE r == Parse(m_request, PeekString)
           Z == Len(client.meant)
<1>1. /\ UNCHANGED <<client, sent, got, edge, received>> /\ pc = "parse"
      /\ got \in client.cuts \cup {0} /\ AnswersInv /\ Answered /\ sent \in client.cuts \cup {0}
  BY DEF ParseOnce, Progress, InputInv
<1>2. PICK k : k = Len(answers)
  OBVIOUS
<1>3. ASSUME NoError(k), k # Z
      PROVE  Parsed(r, ms[k + 1], fr[k + 1], Place - o[k]) /\ k + 1 \in 1..Z
             /\ Place - o[k] \in Nat /\ Waiting(ms, o, fr)
             /\ client.meant[k + 1] = ms[k + 1].meant /\ AsMeant(ms[k + 1], fr[k + 1])
             /\ o[k + 1] = o[k] + Len(ms[k + 1].head) + Len(ms[k + 1].body)
  <2>1. Waiting(ms, o, fr)
    BY <1>2, <1>3 DEF Progress
  <2>2. k + 1 \in 1..Z /\ Place - o[k] \in Nat
    BY <1>1, <1>2, <1>3, <2>1, NextPiece
  <2>3. Parsed(r, ms[k + 1], fr[k + 1], Place - o[k])
    BY <1>1, <1>2, <1>3, <2>1, ParsedNow
  <2>4. k + 1 - 1 = k
    BY <1>2 DEF Waiting, InputInv, AnswersInv
  <2>5. client.meant[k + 1] = ms[k + 1].meant /\ AsMeant(ms[k + 1], fr[k + 1])
        /\ o[k + 1] = o[k] + Len(ms[k + 1].head) + Len(ms[k + 1].body)
    <3> DEFINE i == k + 1
    <3>1. i \in 1..Len(client.meant) /\ i - 1 = k
      <4>1. k \in Nat
        BY <1>2, <2>1 DEF Waiting
      <4> QED BY <2>2, <4>1
    <3> HIDE DEF i
    <3>2. client.meant[i] = ms[i].meant /\ AsMeant(ms[i], fr[i]) /\ o[i] = o[i - 1] + Len(ms[i].head) + Len(ms[i].body)
      BY <3>1 DEF Talk
    <3>3. o[i] = o[k] + Len(ms[i].head) + Len(ms[i].body)
      BY <3>1, <3>2
    <3> QED BY <3>2, <3>3 DEF i
  <2> QED BY <2>1, <2>2, <2>3, <2>4, <2>5
<1>4. ASSUME NoError(k), k = Z
      PROVE  /\ \E key : r = NewRequest(key) /\ m_request = NewRequest(key)
             /\ Waiting(ms, o, fr)
  <2>1. Waiting(ms, o, fr)
    BY <1>2, <1>4 DEF Progress
  <2>2. Place = o[Z] /\ o[Z] = Len(client.stream)
    BY <1>2, <1>4, <2>1 DEF Waiting, Talk
  <2>3. PICK key : m_request = NewRequest(key)
    BY <1>2, <1>4, <2>1 DEF Waiting
  <2>4. PeekString = <<>>
    <3>1. PeekString \in Seq(Bytes) /\ Len(PeekString) = ReadableBytes /\ ReadableBytes \in Nat
      BY PeekIsSeq DEF InputInv
    <3>2. got \in Nat /\ got <= Len(client.stream) /\ Len(client.stream) \in Nat
      BY StreamIs DEF InputInv, ClientInv
    <3>3. ReadableBytes = 0
      BY <2>2, <3>1, <3>2 DEF Place
    <3> QED BY <3>1, <3>3, EmptySeq
  <2>5. r = NewRequest(key)
    BY <2>3, <2>4, ParsedNothing
  <2> QED BY <2>1, <2>3, <2>5
<1>5. NoError(k) /\ k = Z => r.parse # "THROWN" /\ r.failed = FALSE /\ r.end = 0 /\ r.parse # "FINISH"
  BY <1>4 DEF NewRequest
<1> HIDE DEF r, Z
<1>6. CASE /\ r.parse = "THROWN" /\ pc' = "terminated"
           /\ answers' = Append(answers, Refused(-1))
  <2>1. NoError(k) => k + 1 \in 1..Z /\ client.meant[k + 1].code = -1
    BY <1>3, <1>5, <1>6 DEF Parsed
  <2>2. NoError(Len(answers)) => Len(answers) + 1 \in 1..Len(client.meant) /\ client.meant[Len(answers) + 1].code = -1
    BY <1>2, <2>1 DEF Z
  <2>3. UNCHANGED <<client, sent>> /\ pc' # "parse" /\ -1 # 0
    BY <1>1, <1>6
  <2> QED BY <1>6, <2>2, <2>3, RefusedStep
<1>7. CASE /\ r.failed /\ answers' = Append(answers, Refused(400)) /\ pc' = "idle"
  <2>1. NoError(k) => k + 1 \in 1..Z /\ client.meant[k + 1].code = 400
    BY <1>3, <1>5, <1>7 DEF Parsed
  <2>2. NoError(Len(answers)) => Len(answers) + 1 \in 1..Len(client.meant) /\ client.meant[Len(answers) + 1].code = 400
    BY <1>2, <2>1 DEF Z
  <2>3. UNCHANGED <<client, sent>> /\ pc' # "parse" /\ 400 # 0
    BY <1>1, <1>7
  <2> QED BY <1>7, <2>2, <2>3, RefusedStep
<1>8. CASE /\ r.parse # "THROWN" /\ ~r.failed /\ r.end = 0
           /\ m_request' = r /\ pc' = "idle" /\ UNCHANGED <<bufferVars, answers>>
  <2>1. Answered'
    BY <1>1, <1>8, AnsweredSame
  <2>2. ASSUME NoError(k) PROVE Waiting(ms, o, fr)'
    <3>1. Waiting(ms, o, fr)
      BY <1>2, <2>2 DEF Progress
    <3>2. Place' = Place /\ ReadableBytes' = ReadableBytes /\ PeekString' = PeekString
      BY <1>1, <1>8 DEF bufferVars, Place, ReadableBytes, PeekString
    <3>3. CASE k = Z
      <4>1. \E key : r = NewRequest(key)
        BY <1>4, <2>2, <3>3
      <4> QED BY <1>1, <1>2, <1>8, <3>1, <3>2, <3>3, <4>1 DEF Waiting, Z
    <3>4. CASE k # Z
      <4>1. Parsed(r, ms[k + 1], fr[k + 1], Place - o[k]) /\ Place - o[k] \in Nat
        BY <1>3, <2>2, <3>4
      <4>2. RestAt(r, ms[k + 1], fr[k + 1], Place - o[k] + r.end)
        BY <1>8, <4>1 DEF Parsed
      <4>3. Place - o[k] + r.end = Place - o[k]
        BY <1>8, <4>1
      <4> QED BY <1>1, <1>2, <1>8, <3>1, <3>2, <3>4, <4>2, <4>3 DEF Waiting, Z
    <3> QED BY <3>3, <3>4
  <2>3. NoError(Len(answers))' => NoError(k)
    BY <1>2, <1>8 DEF NoError
  <2> QED BY <1>1, <1>8, <2>1, <2>2, <2>3 DEF Progress
<1>9. CASE /\ r.parse # "THROWN" /\ ~r.failed /\ r.end > 0 /\ ~IsFinish(r)
           /\ m_request' = r /\ UNCHANGED answers /\ Retrieve(r.end) /\ UNCHANGED pc
  <2>1. Answered'
    BY <1>1, <1>9, AnsweredSame
  <2>2. ASSUME NoError(k) PROVE Waiting(ms, o, fr)'
    <3>1. Waiting(ms, o, fr) /\ k # Z
      BY <1>2, <1>5, <1>9, <2>2 DEF Progress
    <3>2. Parsed(r, ms[k + 1], fr[k + 1], Place - o[k]) /\ Place - o[k] \in Nat
      BY <1>3, <2>2, <3>1
    <3>3. RestAt(r, ms[k + 1], fr[k + 1], Place - o[k] + r.end) /\ r.end \in Nat
      BY <1>9, <3>2 DEF Parsed, IsFinish
    <3>4. Place \in Nat /\ o[k] <= Place /\ \A p \in 1..ReadableBytes : PeekString[p] = client.stream[Place + p]
      BY <1>2, <3>1 DEF Waiting
    <3>5. PICK n \in Nat : n = r.end
      BY <3>3
    <3>6. /\ Place' = Place + n
          /\ (\A p \in 1..ReadableBytes : PeekString[p] = client.stream[Place + p])'
      BY <1>1, <1>9, <3>4, <3>5, PlaceMoves
    <3>7. o[k] \in Nat
      <4>1. k \in 0..Z
        BY <1>2, <3>1 DEF Waiting, Z
      <4> QED BY <4>1 DEF Talk, Z
    <3>8. Place' \in Nat /\ o[k] <= Place' /\ Place' - o[k] = Place - o[k] + r.end
      BY <3>4, <3>5, <3>6, <3>7
    <3>9. RestAt(m_request', ms[k + 1], fr[k + 1], Place' - o[k])
      BY <1>9, <3>3, <3>8
    <3> QED BY <1>1, <1>2, <1>9, <3>1, <3>6, <3>8, <3>9 DEF Waiting, Z
  <2>3. NoError(Len(answers))' => NoError(k)
    BY <1>2, <1>9 DEF NoError
  <2> QED BY <1>1, <1>9, <2>1, <2>2, <2>3 DEF Progress
<1>10. CASE /\ r.parse # "THROWN" /\ ~r.failed /\ r.end > 0 /\ IsFinish(r)
            /\ answers' = Append(answers, [code |-> 0, request |-> r])
            /\ m_request' = NewRequest(r.curKey) /\ Retrieve(r.end) /\ UNCHANGED pc
  <2> DEFINE a == [code |-> 0, request |-> r]
  <2>1. a.code = 0 /\ a.request = r /\ answers' = Append(answers, a)
    BY <1>10
  <2> HIDE DEF a
  <2>2. /\ k \in Nat /\ Len(answers') = k + 1 /\ (\A i \in 1..k : answers'[i] = answers[i])
        /\ answers'[k + 1] = a
    BY <1>1, <1>2, <2>1, AnswersAre
  <2>3. ASSUME NoError(k)
        PROVE  /\ k + 1 \in 1..Z /\ client.meant[k + 1].code = 0 /\ Understood(r) = client.meant[k + 1].request
               /\ Place - o[k] + r.end = Len(ms[k + 1].head) + Len(ms[k + 1].body) /\ r.end \in Nat
               /\ Waiting(ms, o, fr) /\ o[k + 1] = o[k] + Len(ms[k + 1].head) + Len(ms[k + 1].body)
               /\ Frame(ms[k + 1], fr[k + 1])
    <3>1. k # Z
      BY <1>5, <1>10, <2>3
    <3>2. Parsed(r, ms[k + 1], fr[k + 1], Place - o[k])
      BY <1>3, <2>3, <3>1
    <3>3. /\ ms[k + 1].meant.code = 0
          /\ r.end \in Nat /\ Place - o[k] + r.end = Len(ms[k + 1].head) + Len(ms[k + 1].body)
          /\ Holds(r, fr[k + 1].method, fr[k + 1].url, HeadersOf(fr[k + 1].hs, Len(fr[k + 1].hs)))
          /\ r.body = ms[k + 1].body
      BY <1>10, <3>2 DEF Parsed, IsFinish
    <3>4. AsMeant(ms[k + 1], fr[k + 1]) /\ client.meant[k + 1] = ms[k + 1].meant /\ k + 1 \in 1..Z
          /\ Waiting(ms, o, fr) /\ o[k + 1] = o[k] + Len(ms[k + 1].head) + Len(ms[k + 1].body)
      BY <1>3, <2>3, <3>1
    <3>5. Understood(r) = ms[k + 1].meant.request
      BY <3>3, <3>4 DEF AsMeant
    <3>6. Frame(ms[k + 1], fr[k + 1])
      BY <3>4 DEF Talk, Z
    <3> QED BY <3>3, <3>4, <3>5, <3>6
  <2>4. NoError(k) => RightAnswer(k + 1)'
    BY <1>1, <2>1, <2>2, <2>3 DEF RightAnswer, Z
  <2>5. Answered'
    BY <1>1, <1>2, <2>1, <2>4, AnswerAdded
  <2>6. ASSUME NoError(k) PROVE Waiting(ms, o, fr)'
    <3>1. Place \in Nat /\ o[k] <= Place /\ \A p \in 1..ReadableBytes : PeekString[p] = client.stream[Place + p]
      BY <1>2, <2>3, <2>6 DEF Waiting
    <3>2. PICK n \in Nat : n = r.end
      BY <2>3, <2>6
    <3>3. /\ Place' = Place + n
          /\ (\A p \in 1..ReadableBytes : PeekString[p] = client.stream[Place + p])'
      BY <1>1, <1>10, <3>1, <3>2, PlaceMoves
    <3>4. o[k] \in Nat /\ o[k + 1] \in Nat
      <4>1. k \in 0..Z /\ k + 1 \in 0..Z
        BY <2>2, <2>3, <2>6 DEF Talk, Z
      <4> QED BY <4>1 DEF Talk, Z
    <3>5. Place' = o[k + 1]
      <4> DEFINE h == Len(ms[k + 1].head)
                 w == Len(ms[k + 1].body)
                 x == o[k]
                 y == o[k + 1]
      <4>1. y = x + h + w /\ Place - x + n = h + w /\ h \in Nat /\ w \in Nat
        BY <2>3, <2>6, <3>2 DEF Frame, IsText
      <4>2. x \in Nat /\ y \in Nat
        BY <3>4
      <4> HIDE DEF h, w, x, y
      <4>3. Place + n = y
        BY <3>1, <3>2, <4>1, <4>2
      <4> QED BY <3>3, <4>3 DEF y
    <3>6. Place' \in Nat /\ o[k + 1] <= Place' /\ Place' - o[k + 1] = 0 /\ k + 1 \in 0..Z
      BY <2>2, <2>3, <2>6, <3>4, <3>5
    <3>7. RestAt(m_request', ms[k + 1 + 1], fr[k + 1 + 1], Place' - o[k + 1])
      BY <1>10, <3>6 DEF RestAt
    <3>8. \E key : m_request' = NewRequest(key)
      BY <1>10
    <3>9. client' = client /\ Len(answers)' = k + 1
      BY <1>1, <2>2
    <3> QED BY <3>3, <3>5, <3>6, <3>7, <3>8, <3>9 DEF Waiting, Z
  <2>7. NoError(Len(answers))' => NoError(k)
    <3>1. \A l \in 1..k : l \in 1..k + 1
      BY <2>2
    <3> QED BY <2>2, <3>1 DEF NoError
  <2> QED BY <1>1, <1>10, <2>5, <2>6, <2>7 DEF Progress
<1> QED BY <1>6, <1>7, <1>8, <1>9, <1>10 DEF ParseOnce, r

\* The next piece, and steps that only move pc.
LEMMA OtherProgress ==
  ASSUME InputInv, NEW ms, NEW o, NEW fr, Talk(client, ms, o, fr), Progress(ms, o, fr),
         HandleRequest \/ ReadAll \/ Close \/ ClientSends \/ UNCHANGED vars
  PROVE  Progress(ms, o, fr)'
<1>1. UNCHANGED <<bufferVars, client, got, m_request, answers>>
  BY DEF HandleRequest, ReadAll, Close, ClientSends, vars
<1>2. sent' \in client'.cuts \cup {0}
  <2>1. CASE ClientSends
    <3> DEFINE T == {cut \in client.cuts : cut > sent}
    <3>1. /\ client.stream \in Seq(Bytes) /\ Len(client.stream) \in Nat
          /\ client.cuts \subseteq 1..Len(client.stream) /\ sent \in 0..Len(client.stream)
          /\ sent < Len(client.stream) /\ Len(client.stream) \in client.cuts
      BY <2>1, StreamIs, LenProperties, EmptySeq DEF ClientSends, InputInv, ClientInv
    <3>2. T \subseteq Nat /\ Len(client.stream) \in T
      BY <3>1
    <3>3. Min(T) \in T
      BY <3>2, MinIs
    <3> QED BY <1>1, <2>1, <3>3 DEF ClientSends
  <2>2. CASE ~ClientSends
    <3>1. sent' = sent
      BY <2>2 DEF HandleRequest, ReadAll, Close, vars
    <3> QED BY <1>1, <3>1 DEF Progress
  <2> QED BY <2>1, <2>2
<1>3. pc' = "parse" => got' \in client'.cuts \cup {0}
  <2>1. CASE ReadAll
    BY <1>1, <2>1 DEF ReadAll, Progress
  <2>2. CASE ~ReadAll
    <3>1. pc' = "parse" => pc = "parse"
      BY <2>2 DEF HandleRequest, Close, ClientSends, vars
    <3> QED BY <1>1, <3>1 DEF Progress
  <2> QED BY <2>1, <2>2
<1>4. Answered'
  BY <1>1, AnsweredSame DEF Progress
<1>5. NoError(Len(answers))' => NoError(Len(answers))
  BY <1>1 DEF NoError
<1>6. NoError(Len(answers)) => Waiting(ms, o, fr)'
  BY <1>1, WaitingSame DEF Progress
<1> QED BY <1>2, <1>3, <1>4, <1>5, <1>6 DEF Progress

\* The invariant, for some account of what the client sends.
Progresses == \E ms, o, fr : Talk(client, ms, o, fr) /\ Progress(ms, o, fr)

\* It is kept by every step
LEMMA NextProgress == InputInv /\ Progresses /\ [Next]_vars => Progresses'
<1> SUFFICES ASSUME InputInv, Progresses, [Next]_vars PROVE Progresses'
  OBVIOUS
<1>1. PICK ms, o, fr : Talk(client, ms, o, fr) /\ Progress(ms, o, fr)
  BY DEF Progresses
<1>2. client' = client
  BY DEF Next, Server, HandleRequest, ReadChunk, ReadTooMuch, ReadAll, ParseOnce, Close, ClientSends, vars
<1>3. Progress(ms, o, fr)'
  <2>1. CASE ReadTooMuch
    <3>1. answers' = Append(answers, Refused(403)) /\ UNCHANGED <<client, sent>> /\ pc' # "parse" /\ 403 # 0
      BY <2>1 DEF ReadTooMuch
    <3> QED BY <1>1, <3>1, RefusedStep
  <2>2. CASE ReadChunk
    BY <1>1, <2>2, ReadChunkProgress
  <2>3. CASE ParseOnce
    BY <1>1, <2>3, ParseOnceProgress
  <2>4. CASE HandleRequest \/ ReadAll \/ Close \/ ClientSends \/ UNCHANGED vars
    BY <1>1, <2>4, OtherProgress
  <2> QED BY <2>1, <2>2, <2>3, <2>4 DEF Next, Server
<1>4. Talk(client', ms, o, fr)
  BY <1>1, <1>2
<1> QED BY <1>3, <1>4 DEF Progresses

\* The answers up to the first error.
LEMMA UpToErrorIs ==
  ASSUME NEW s, IsText(s)
  PROVE  /\ \A i : i \in DOMAIN UpToError(s) <=> i \in 1..Len(s) /\ \A l \in 1..i - 1 : s[l].code = 0
         /\ \A i \in DOMAIN UpToError(s) : UpToError(s)[i] = s[i]
<1> DEFINE T == {i \in DOMAIN s : s[i].code # 0}
           n == Len(s)
           u == UpToError(s)
<1>1. n \in Nat /\ DOMAIN s = 1..n /\ UpToError(s) = IF T = {} THEN s ELSE SubSeq(s, 1, Min(T))
  BY DEF IsText, UpToError
<1> HIDE DEF n
<1>2. CASE T = {}
  <2>1. u = s /\ \A i \in 1..n : s[i].code = 0
    BY <1>1, <1>2
  <2>2. DOMAIN u = 1..n /\ \A i \in 1..n : u[i] = s[i]
    BY <1>1, <2>1
  <2>3. ASSUME NEW i \in 1..n, NEW l \in 1..i - 1 PROVE s[l].code = 0
    <3>1. l \in 1..n
      BY <1>1
    <3> QED BY <2>1, <3>1
  <2> HIDE DEF u, T
  <2> QED BY <2>2, <2>3 DEF u, n
<1>3. CASE T # {}
  <2> DEFINE m == Min(T)
  <2>1. T \subseteq Nat
    BY <1>1
  <2>2. m \in T /\ \A i \in T : m <= i
    BY <1>3, <2>1, MinIs
  <2> HIDE DEF m
  <2>3. /\ m \in 1..n /\ m \in Nat \ {0} /\ s[m].code # 0
        /\ \A i \in 1..n : i < m => s[i].code = 0
    <3>1. m \in 1..n /\ s[m].code # 0
      BY <1>1, <2>2
    <3>2. ASSUME NEW i \in 1..n, i < m PROVE s[i].code = 0
      <4>1. i \notin T
        <5> HIDE DEF T
        <5> QED BY <1>1, <2>2, <3>1, <3>2
      <4> QED BY <1>1, <4>1
    <3> QED BY <1>1, <3>1, <3>2
  <2>4. u = SubSeq(s, 1, m)
    BY <1>1, <1>3 DEF m
  <2> HIDE DEF T, u
  <2>5. /\ IsText(u) /\ Len(u) = IF 1 <= m THEN m - 1 + 1 ELSE 0
        /\ \A i \in 1..(m - 1 + 1) : u[i] = s[1 + i - 1]
    <3>1. 1 \in Nat \ {0} /\ m \in Int /\ m <= Len(s)
      BY <2>3 DEF n
    <3> QED BY <2>4, <3>1, PartOfText
  <2>6. Len(u) = m /\ DOMAIN u = 1..m /\ \A i \in 1..m : u[i] = s[i]
    <3>1. m - 1 + 1 = m /\ 1 <= m /\ \A i \in 1..m : 1 + i - 1 = i
      BY <2>3
    <3>2. Len(u) = m
      BY <2>5, <3>1
    <3> QED BY <2>5, <3>1, <3>2 DEF IsText
  <2>7. ASSUME NEW i PROVE i \in 1..m <=> i \in 1..n /\ \A l \in 1..i - 1 : s[l].code = 0
    <3>1. ASSUME i \in 1..m PROVE i \in 1..n /\ \A l \in 1..i - 1 : s[l].code = 0
      BY <1>1, <2>3, <3>1
    <3>2. ASSUME i \in 1..n, \A l \in 1..i - 1 : s[l].code = 0 PROVE i \in 1..m
      <4>1. ~(m \in 1..i - 1)
        BY <2>3, <3>2
      <4> QED BY <2>3, <3>2, <4>1
    <3> QED BY <3>1, <3>2
  <2> QED BY <2>6, <2>7 DEF u, n
<1> QED BY <1>2, <1>3

\* and implies that the answers are right.
LEMMA DeliveredNow == InputInv /\ Progresses => DeliveredAsSent
<1> SUFFICES ASSUME InputInv, Progresses PROVE DeliveredAsSent
  OBVIOUS
<1>1. PICK ms, o, fr : Talk(client, ms, o, fr) /\ Progress(ms, o, fr)
  BY DEF Progresses
<1>2. IsText(answers) /\ IsText(client.meant)
  BY <1>1, SeqIsText DEF InputInv, AnswersInv, Talk
<1> DEFINE given == UpToError(answers)
           meant == UpToError(client.meant)
<1>3. ASSUME NEW i \in DOMAIN given
      PROVE  \/ given[i].code = 403
             \/ /\ i \in DOMAIN meant /\ given[i].code = meant[i].code
                /\ given[i].code = 0 => Understood(given[i].request) = meant[i].request
  <2>1. i \in 1..Len(answers) /\ (\A l \in 1..i - 1 : answers[l].code = 0) /\ given[i] = answers[i]
    BY <1>2, UpToErrorIs
  <2>2. RightAnswer(i)
    BY <1>1, <2>1 DEF Progress, Answered, NoError
  <2>3. CASE answers[i].code # 403
    <3>1. i \in 1..Len(client.meant)
      BY <2>2, <2>3 DEF RightAnswer
    <3>2. ASSUME NEW l \in 1..i - 1 PROVE client.meant[l].code = 0
      <4>1. /\ l \in 1..Len(answers) /\ answers[l].code = 0
            /\ \A j \in 1..l - 1 : j \in 1..i - 1
        BY <2>1
      <4>2. NoError(l - 1)
        BY <2>1, <4>1 DEF NoError
      <4>3. RightAnswer(l)
        BY <1>1, <4>1, <4>2 DEF Progress, Answered
      <4> QED BY <4>1, <4>3 DEF RightAnswer
    <3>3. i \in DOMAIN meant
      BY <1>2, <3>1, <3>2, UpToErrorIs
    <3>4. meant[i] = client.meant[i]
      BY <1>2, <3>3, UpToErrorIs
    <3> QED BY <2>1, <2>2, <2>3, <3>3, <3>4 DEF RightAnswer
  <2> QED BY <2>1, <2>3
<1> QED BY <1>3 DEF DeliveredAsSent

\* Every conversation consists of messages that are understood as they are meant.
Talkable == \A wishes \in Conversations : \E ms, o, fr : Talk(Conversation(wishes), ms, o, fr)

\* If every conversation is made as Talk says, it is delivered as sent.
LEMMA DeliveredIfTalkable == ASSUME Talkable PROVE Spec => []DeliveredAsSent
<1>1. Init => Progresses
  <2> SUFFICES ASSUME Init PROVE Progresses
    OBVIOUS
  <2>1. PICK wishes \in Conversations : client = Conversation(wishes)
    BY DEF Init
  <2>2. PICK ms, o, fr : Talk(Conversation(wishes), ms, o, fr)
    BY DEF Talkable
  <2>3. Talk(client, ms, o, fr)
    BY <2>1, <2>2
  <2>4. Progress(ms, o, fr)
    BY <2>3, ProgressInit
  <2> QED BY <2>3, <2>4 DEF Progresses
<1> QED BY <1>1, NextProgress, InputInvariant, DeliveredNow, PTL DEF Spec

(***************************************************************************)
(* What the client sends is a conversation of messages.                    *)
(***************************************************************************)

\* The message m is made as f says, is understood as it is meant, and can be cut
\* where its lines end.
Framed(m, f) ==
  /\ Frame(m, f) /\ AsMeant(m, f)
  /\ \A q \in 1..Len(m.head) : m.head[q] = LF => q \in Stops(m, f)

\* What follows one another, and where.
Follows(b, n, ms) ==
  /\ b[0] = <<>> /\ \A i \in 0..n : IsText(b[i])
  /\ \A i \in 1..n : b[i] = b[i - 1] \o ms[i].head \o ms[i].body

\* b is the recursive function that joins the first messages.
Bytewise(b, n, ms) ==
  b = [i \in 0..n |-> IF i = 0 THEN <<>> ELSE b[i - 1] \o ms[i].head \o ms[i].body]

\* Its values are texts.
JoinedTexts(b, n, ms) == Bytewise(b, n, ms) /\ \A i \in 0..n : IsText(b[i])

\* There is such a function.
LEMMA BytesExist ==
  ASSUME NEW n \in Nat, NEW ms, \A i \in 1..n : IsText(ms[i].head) /\ IsText(ms[i].body)
  PROVE  \E b : JoinedTexts(b, n, ms)
<1> DEFINE C == UNION {{ms[i].head[j] : j \in 1..Len(ms[i].head)} \cup
                       {ms[i].body[j] : j \in 1..Len(ms[i].body)} : i \in 1..n}
           S == Seq(C)
           D == 0..n
           rank == [i \in D |-> i]
           F == [x \in D \X [D -> S] |->
                   IF x[1] = 0 THEN <<>> ELSE x[2][x[1] - 1] \o ms[x[1]].head \o ms[x[1]].body]
<1>1. ASSUME NEW i \in 1..n PROVE ms[i].head \in S /\ ms[i].body \in S
  <2>1. /\ IsText(ms[i].head) /\ \A j \in 1..Len(ms[i].head) : ms[i].head[j] \in C
        /\ IsText(ms[i].body) /\ \A j \in 1..Len(ms[i].body) : ms[i].body[j] \in C
    OBVIOUS
  <2> HIDE DEF C
  <2> QED BY <2>1, TextIsSeq
<1> HIDE DEF C
<1>2. F \in [D \X [D -> S] -> S]
  <2>1. ASSUME NEW i \in D, NEW f \in [D -> S]
        PROVE  (IF i = 0 THEN <<>> ELSE f[i - 1] \o ms[i].head \o ms[i].body) \in S
    <3>1. CASE i = 0
      BY <3>1, EmptySeq
    <3>2. CASE i # 0
      <4>1. i \in 1..n /\ i - 1 \in D
        BY <3>2
      <4>2. f[i - 1] \in S /\ ms[i].head \in S /\ ms[i].body \in S
        BY <1>1, <4>1
      <4> QED BY <3>2, <4>2, ConcatProperties
    <3> QED BY <3>1, <3>2
  <2> QED BY <2>1
<1>3. rank \in [D -> 0..n] /\ S # {}
  <2>1. <<>> \in S
    BY EmptySeq
  <2>2. rank \in [D -> 0..n]
    OBVIOUS
  <2> HIDE DEF rank, D, S
  <2> QED BY <2>1, <2>2
<1>4. RespectsRank(D, S, rank, F)
  <2> SUFFICES ASSUME NEW i \in D, NEW f \in [D -> S], NEW g \in [D -> S],
                      \A j \in D : rank[j] < rank[i] => f[j] = g[j]
               PROVE  F[<<i, f>>] = F[<<i, g>>]
    BY DEF RespectsRank
  <2>1. F[<<i, f>>] = IF i = 0 THEN <<>> ELSE f[i - 1] \o ms[i].head \o ms[i].body
    OBVIOUS
  <2>2. F[<<i, g>>] = IF i = 0 THEN <<>> ELSE g[i - 1] \o ms[i].head \o ms[i].body
    OBVIOUS
  <2>3. i # 0 => f[i - 1] = g[i - 1]
    OBVIOUS
  <2> QED BY <2>1, <2>2, <2>3
<1>5. PICK f : Solves(f, D, S, F)
  <2> HIDE DEF D, S, rank, F
  <2> QED BY <1>2, <1>3, <1>4, RecursionExists
<1>6. /\ f \in [D -> S]
      /\ \A i \in D : f[i] = IF i = 0 THEN <<>> ELSE f[i - 1] \o ms[i].head \o ms[i].body
  BY <1>5 DEF Solves
<1>7. f = [i \in D |-> IF i = 0 THEN <<>> ELSE f[i - 1] \o ms[i].head \o ms[i].body]
  <2> HIDE DEF S, F
  <2> QED BY <1>6
<1>8. \A i \in D : IsText(f[i])
  <2> HIDE DEF F
  <2> QED BY <1>6, SeqIsText
<1> HIDE DEF S, F
<1>9. JoinedTexts(f, n, ms)
  BY <1>7, <1>8 DEF JoinedTexts, Bytewise
<1> QED BY <1>9

\* c is a conversation of the messages ms; b is what is sent with the first ones.
Made(c, b, n, ms) ==
  /\ Follows(b, n, ms)
  /\ c.stream = b[n] /\ c.meant = [i \in 1..n |-> ms[i].meant]
  /\ c.cuts = UNION {{Len(b[i - 1]) + p :
                       p \in {q \in 1..Len(ms[i].head) : ms[i].head[q] = LF}
                         \cup {Len(ms[i].head) + q : q \in BodyCuts(ms[i].body)}} :
                     i \in 1..n}

\* What a conversation's messages are, and its bytes.
LEMMA ConversationIs ==
  ASSUME NEW wishes, Len(wishes) \in Nat, ~CutAnywhere,
         \A i \in 1..Len(wishes) : IsText(Sent(wishes[i]).head) /\ IsText(Sent(wishes[i]).body)
  PROVE  \E b : Made(Conversation(wishes), b, Len(wishes), [i \in 1..Len(wishes) |-> Sent(wishes[i])])
<1> DEFINE Z == Len(wishes)
           ms == [i \in 1..Z |-> Sent(wishes[i])]
           Is(x) == x = [i \in 0..Z |-> IF i = 0 THEN <<>> ELSE x[i - 1] \o ms[i].head \o ms[i].body]
           b == CHOOSE x : Is(x)
<1>1. /\ Conversation(wishes).stream = b[Z]
      /\ Conversation(wishes).meant = [i \in 1..Z |-> ms[i].meant]
      /\ Conversation(wishes).cuts =
           UNION {{Len(b[i - 1]) + p :
                     p \in {q \in 1..Len(ms[i].head) : ms[i].head[q] = LF}
                       \cup {Len(ms[i].head) + q : q \in BodyCuts(ms[i].body)}} :
                   i \in 1..Z}
  BY DEF Conversation
<1>1a. \A i \in 1..Z : IsText(ms[i].head) /\ IsText(ms[i].body)
  OBVIOUS
<1>1b. Z \in Nat
  OBVIOUS
<1> HIDE DEF ms, Z
<1>2. PICK x : JoinedTexts(x, Z, ms)
  BY <1>1a, <1>1b, BytesExist
<1>2a. Is(x) /\ \A i \in 0..Z : IsText(x[i])
  BY <1>2 DEF JoinedTexts, Bytewise
<1>3. Is(b)
  BY <1>2a
<1> HIDE DEF b
<1>3a. \A y : Is(y) => y[0] = <<>> /\ \A i \in 1..Z : y[i] = y[i - 1] \o ms[i].head \o ms[i].body
  <2> SUFFICES ASSUME NEW y, Is(y)
               PROVE  y[0] = <<>> /\ \A i \in 1..Z : y[i] = y[i - 1] \o ms[i].head \o ms[i].body
    OBVIOUS
  <2>1. \A i \in 0..Z : y[i] = IF i = 0 THEN <<>> ELSE y[i - 1] \o ms[i].head \o ms[i].body
    OBVIOUS
  <2>2. 0 \in 0..Z /\ \A i \in 1..Z : i \in 0..Z /\ i # 0
    BY <1>1b
  <2> HIDE DEF Is
  <2> QED BY <2>1, <2>2
<1> HIDE DEF Is
<1>3b. /\ b[0] = <<>> /\ \A i \in 1..Z : b[i] = b[i - 1] \o ms[i].head \o ms[i].body
       /\ x[0] = <<>> /\ \A i \in 1..Z : x[i] = x[i - 1] \o ms[i].head \o ms[i].body
  BY <1>2a, <1>3, <1>3a
<1> DEFINE T == {i \in Nat : i \in 0..Z => b[i] = x[i]}
<1>4. ASSUME NEW i \in Nat, \A l \in Nat : l < i => l \in T PROVE i \in T
  <2>1. CASE i = 0
    BY <1>3b, <2>1
  <2>2. CASE i # 0 /\ i \in 0..Z
    <3>1. i - 1 \in T /\ i - 1 \in 0..Z /\ i \in 1..Z
      BY <1>1b, <1>4, <2>2
    <3>2. b[i - 1] = x[i - 1]
      BY <3>1
    <3>4. b[i] = x[i]
      BY <1>3b, <3>1, <3>2
    <3> QED BY <3>4
  <2> QED BY <2>1, <2>2
<1>5. Nat \subseteq T
  <2> HIDE DEF T
  <2> QED BY <1>4, Induction
<1>6. Follows(b, Z, ms)
  <2>1. \A i \in 0..Z : i \in Nat
    BY <1>1b
  <2>2. \A i \in 0..Z : IsText(b[i])
    BY <1>2a, <1>5, <2>1
  <2> HIDE DEF T
  <2> QED BY <1>3b, <2>2 DEF Follows
<1>7. Made(Conversation(wishes), b, Z, ms)
  BY <1>1, <1>6 DEF Made
<1> QED BY <1>7 DEF ms, Z

\* What is in a text stays where it is when something follows the text.
LEMMA AtGrows ==
  \A s, u, t, p : IsText(s) /\ IsText(u) /\ IsText(t) /\ p \in Nat \ {0} /\ At(s, p, t) => At(s \o u, p, t)
<1> SUFFICES ASSUME NEW s, NEW u, NEW t, NEW p \in Nat \ {0}, IsText(s), IsText(u), IsText(t), At(s, p, t)
             PROVE  At(s \o u, p, t)
  OBVIOUS
<1> DEFINE v == s \o u
<1>1. IsText(v)
  BY Joined
<1>2. At(v, 1, v)
  BY <1>1, AtItself
<1> HIDE DEF v
<1>3. At(v, 1, s)
  BY <1>1, <1>2, AtJoined DEF v
<1>4. 1 \in Nat /\ 1 + p - 1 = p
  OBVIOUS
<1>5. At(v, 1 + p - 1, t)
  BY <1>1, <1>3, <1>4, AtWithin
<1> QED BY <1>4, <1>5 DEF v

\* Two texts after another one.
LEMMA AtEnd ==
  \A s, u, v : IsText(s) /\ IsText(u) /\ IsText(v) =>
    /\ IsText(s \o u \o v) /\ Len(s \o u \o v) = Len(s) + Len(u) + Len(v)
    /\ Len(s) \in Nat /\ Len(u) \in Nat /\ Len(v) \in Nat
    /\ At(s \o u \o v, 1, s) /\ At(s \o u \o v, Len(s) + 1, u) /\ At(s \o u \o v, Len(s) + Len(u) + 1, v)
<1> SUFFICES ASSUME NEW s, NEW u, NEW v, IsText(s), IsText(u), IsText(v)
             PROVE  /\ IsText(s \o u \o v) /\ Len(s \o u \o v) = Len(s) + Len(u) + Len(v)
                    /\ Len(s) \in Nat /\ Len(u) \in Nat /\ Len(v) \in Nat
                    /\ At(s \o u \o v, 1, s) /\ At(s \o u \o v, Len(s) + 1, u)
                    /\ At(s \o u \o v, Len(s) + Len(u) + 1, v)
  OBVIOUS
<1> DEFINE x == s \o u
           y == x \o v
<1>1. IsText(x) /\ Len(x) = Len(s) + Len(u) /\ Len(s) \in Nat /\ Len(u) \in Nat
  BY Joined
<1> HIDE DEF x
<1>2. IsText(y) /\ Len(y) = Len(x) + Len(v) /\ Len(v) \in Nat
  BY <1>1, Joined
<1>3. At(y, 1, y)
  BY <1>2, AtItself
<1> HIDE DEF y
<1>4. At(y, 1, x) /\ At(y, 1 + Len(x), v)
  BY <1>1, <1>2, <1>3, AtJoined DEF y
<1>5. At(y, 1, s) /\ At(y, 1 + Len(s), u)
  BY <1>2, <1>4, AtJoined DEF x
<1>6. 1 + Len(s) = Len(s) + 1 /\ 1 + Len(x) = Len(s) + Len(u) + 1
  BY <1>1
<1> QED BY <1>1, <1>2, <1>4, <1>5, <1>6 DEF x, y

\* Where the head and the body of each message stand.
LEMMA FollowsAt ==
  ASSUME NEW b, NEW n \in Nat, NEW ms, Follows(b, n, ms),
         \A i \in 1..n : IsText(ms[i].head) /\ IsText(ms[i].body)
  PROVE  /\ \A i \in 0..n : Len(b[i]) \in Nat
         /\ \A i \in 1..n : /\ Len(b[i]) = Len(b[i - 1]) + Len(ms[i].head) + Len(ms[i].body)
                            /\ At(b[n], Len(b[i - 1]) + 1, ms[i].head)
                            /\ At(b[n], Len(b[i - 1]) + Len(ms[i].head) + 1, ms[i].body)
<1>1. \A i \in 0..n : IsText(b[i]) /\ Len(b[i]) \in Nat
  BY DEF Follows, IsText
<1> DEFINE Lies(s, i) == /\ At(s, Len(b[i - 1]) + 1, ms[i].head)
                         /\ At(s, Len(b[i - 1]) + Len(ms[i].head) + 1, ms[i].body)
           T == {k \in Nat : k \in 0..n => \A i \in 1..k : Lies(b[k], i)}
<1>2. ASSUME NEW k \in 1..n
      PROVE  /\ Len(b[k]) = Len(b[k - 1]) + Len(ms[k].head) + Len(ms[k].body) /\ Lies(b[k], k)
             /\ At(b[k], 1, b[k - 1]) /\ IsText(b[k - 1]) /\ IsText(b[k])
             /\ Len(ms[k].head) \in Nat
  <2>1. k - 1 \in 0..n /\ k \in 0..n
    OBVIOUS
  <2>2. IsText(b[k - 1]) /\ IsText(b[k]) /\ IsText(ms[k].head) /\ IsText(ms[k].body)
        /\ b[k] = b[k - 1] \o ms[k].head \o ms[k].body
    BY <1>1, <2>1 DEF Follows
  <2> DEFINE u == b[k - 1]
             v == ms[k].head
             w == ms[k].body
  <2>3. IsText(u) /\ IsText(v) /\ IsText(w) /\ b[k] = u \o v \o w
    BY <2>2
  <2> HIDE DEF u, v, w
  <2>4. /\ Len(b[k]) = Len(u) + Len(v) + Len(w) /\ Len(v) \in Nat
        /\ At(b[k], 1, u) /\ At(b[k], Len(u) + 1, v) /\ At(b[k], Len(u) + Len(v) + 1, w)
    BY <2>3, AtEnd
  <2> QED BY <2>2, <2>4 DEF u, v, w
<1>3. ASSUME NEW k \in Nat, \A l \in Nat : l < k => l \in T PROVE k \in T
  <2> SUFFICES ASSUME k \in 0..n, NEW i \in 1..k PROVE Lies(b[k], i)
    <3> HIDE DEF Lies
    <3> QED OBVIOUS
  <2>1. CASE i = k
    <3>1. k \in 1..n
      BY <2>1
    <3>2. Lies(b[k], k)
      BY <1>2, <3>1
    <3> QED BY <2>1, <3>2
  <2>2. CASE i # k
    <3> DEFINE j == k - 1
    <3>0. j \in Nat /\ j < k /\ j \in 0..n /\ i \in 1..j /\ k \in 1..n /\ i \in 1..n /\ i - 1 \in 0..n
      BY <2>2
    <3>1. j \in T /\ j \in 0..n /\ i \in 1..j /\ k \in 1..n /\ i \in 1..n /\ i - 1 \in 0..n
      <4> HIDE DEF T, j
      <4> QED BY <1>3, <3>0
    <3>2. Lies(b[j], i)
      <4> HIDE DEF Lies, j
      <4> QED BY <3>1
    <3>3. At(b[k], 1, b[j]) /\ IsText(b[j]) /\ IsText(b[k]) /\ IsText(ms[i].head) /\ IsText(ms[i].body)
          /\ Len(b[i - 1]) \in Nat /\ Len(ms[i].head) \in Nat
      <4>1. At(b[k], 1, b[k - 1]) /\ IsText(b[k - 1]) /\ IsText(b[k])
        BY <1>2, <3>1
      <4>2. Len(b[i - 1]) \in Nat
        BY <1>1, <3>1
      <4>3. IsText(ms[i].head) /\ IsText(ms[i].body) /\ Len(ms[i].head) \in Nat
        BY <1>2, <3>1
      <4> QED BY <4>1, <4>2, <4>3
    <3> DEFINE p == Len(b[i - 1]) + 1
               q == Len(b[i - 1]) + Len(ms[i].head) + 1
    <3>4. p \in Nat \ {0} /\ q \in Nat \ {0}
      <4> DEFINE x == Len(b[i - 1])
                 y == Len(ms[i].head)
      <4>1. x \in Nat /\ y \in Nat
        BY <3>3
      <4> HIDE DEF x, y
      <4>2. x + 1 \in Nat \ {0} /\ x + y + 1 \in Nat \ {0}
        BY ONLY <4>1
      <4> QED BY <4>2 DEF x, y
    <3>5. At(b[j], p, ms[i].head) /\ At(b[j], q, ms[i].body)
      BY <3>2
    <3> HIDE DEF p, q, j, T
    <3>6. At(b[k], 1 + p - 1, ms[i].head)
      BY <3>3, <3>4, <3>5, AtWithin
    <3>7. At(b[k], 1 + q - 1, ms[i].body)
      BY <3>3, <3>4, <3>5, AtWithin
    <3>8. 1 + p - 1 = p /\ 1 + q - 1 = q
      BY <3>4
    <3>9. At(b[k], p, ms[i].head) /\ At(b[k], q, ms[i].body)
      BY <3>6, <3>7, <3>8
    <3> QED BY <3>9 DEF p, q
  <2> QED BY <2>1, <2>2
<1>4. n \in T
  <2> HIDE DEF T
  <2> QED BY <1>3, Induction
<1>5. \A i \in 1..n : Lies(b[n], i)
  <2> HIDE DEF Lies
  <2> QED BY <1>4
<1> HIDE DEF T
<1> QED BY <1>1, <1>2, <1>5

\* A conversation of messages that are made as Framed says is made as Talk says.
LEMMA TalkIs ==
  ASSUME NEW wishes, Len(wishes) \in Nat, ~CutAnywhere,
         \A i \in 1..Len(wishes) : \E f : Framed(Sent(wishes[i]), f)
  PROVE  \E ms, o, fr : Talk(Conversation(wishes), ms, o, fr)
<1> DEFINE Z == Len(wishes)
           ms == [i \in 1..Z |-> Sent(wishes[i])]
           fr == [i \in 1..Z |-> CHOOSE f : Framed(ms[i], f)]
           c == Conversation(wishes)
<1>1. \A i \in 1..Z : Framed(ms[i], fr[i])
  OBVIOUS
<1>2. \A i \in 1..Z : ms[i] = Sent(wishes[i])
  OBVIOUS
<1>3. Z \in Nat
  OBVIOUS
<1> HIDE DEF fr
<1>4. \A i \in 1..Z : IsText(ms[i].head) /\ IsText(ms[i].body)
  BY <1>1 DEF Framed, Frame
<1>5. PICK b : Made(c, b, Z, ms)
  <2>1. \A i \in 1..Z : IsText(Sent(wishes[i]).head) /\ IsText(Sent(wishes[i]).body)
    BY <1>4
  <2> QED BY <2>1, ConversationIs
<1> DEFINE o == [i \in 0..Z |-> Len(b[i])]
<1> HIDE DEF ms, c, Z
<1>6. /\ Follows(b, Z, ms) /\ c.stream = b[Z] /\ c.meant = [i \in 1..Z |-> ms[i].meant]
  BY <1>5 DEF Made
<1>7. /\ \A i \in 0..Z : Len(b[i]) \in Nat
      /\ \A i \in 1..Z : /\ Len(b[i]) = Len(b[i - 1]) + Len(ms[i].head) + Len(ms[i].body)
                         /\ At(b[Z], Len(b[i - 1]) + 1, ms[i].head)
                         /\ At(b[Z], Len(b[i - 1]) + Len(ms[i].head) + 1, ms[i].body)
  BY <1>3, <1>4, <1>6, FollowsAt
<1>8. /\ o \in [0..Z -> Nat] /\ o[0] = 0 /\ o[Z] = Len(c.stream)
      /\ \A i \in 1..Z : o[i] = Len(b[i]) /\ o[i - 1] = Len(b[i - 1])
  <2>1. b[0] = <<>> /\ Len(<<>>) = 0
    BY <1>6, Single DEF Follows
  <2>2. 0 \in 0..Z /\ Z \in 0..Z /\ \A i \in 1..Z : i \in 0..Z /\ i - 1 \in 0..Z
    BY <1>3
  <2> QED BY <1>6, <1>7, <2>1, <2>2
<1>9. IsText(c.meant) /\ Len(c.meant) = Z /\ \A i \in 1..Z : c.meant[i] = ms[i].meant
  <2>1. DOMAIN c.meant = 1..Z /\ c.meant = [i \in 1..Z |-> c.meant[i]] /\ \A i \in 1..Z : c.meant[i] = ms[i].meant
    BY <1>6
  <2> QED BY <1>3, <2>1, TextOf
<1>10. IsText(c.stream)
  BY <1>3, <1>6 DEF Follows
<1>11. ASSUME NEW x \in c.cuts
       PROVE  \E i \in 1..Z : o[i - 1] <= x /\ x - o[i - 1] \in Stops(ms[i], fr[i])
  <2>1. PICK i \in 1..Z : \E p \in {q \in 1..Len(ms[i].head) : ms[i].head[q] = LF}
                             \cup {Len(ms[i].head) + q : q \in BodyCuts(ms[i].body)} :
                            x = Len(b[i - 1]) + p
    BY <1>5, <1>11 DEF Made
  <2>2. PICK p \in {q \in 1..Len(ms[i].head) : ms[i].head[q] = LF}
                             \cup {Len(ms[i].head) + q : q \in BodyCuts(ms[i].body)} :
                            x = Len(b[i - 1]) + p
    BY <2>1
  <2>3. Len(ms[i].head) \in Nat /\ Len(ms[i].body) \in Nat
    BY <1>4 DEF IsText
  <2>4. p \in Stops(ms[i], fr[i]) /\ p \in Nat
    <3>1. CASE p \in {q \in 1..Len(ms[i].head) : ms[i].head[q] = LF}
      BY <1>1, <2>3, <3>1 DEF Framed
    <3>2. CASE p \in {Len(ms[i].head) + q : q \in BodyCuts(ms[i].body)}
      <4>1. PICK q \in BodyCuts(ms[i].body) : p = Len(ms[i].head) + q
        BY <3>2
      <4>2. q \in 0..Len(ms[i].body)
        BY <2>3, <4>1 DEF BodyCuts
      <4>3. p \in Nat
        BY <2>3, <4>1, <4>2
      <4> QED BY <4>1, <4>2, <4>3 DEF Stops
    <3> QED BY <2>2, <3>1, <3>2
  <2>5. o[i - 1] = Len(b[i - 1]) /\ o[i - 1] \in Nat
    <3>1. i - 1 \in 0..Z
      BY <1>3
    <3> QED BY <1>7, <1>8, <3>1
  <2> HIDE DEF o
  <2>6. o[i - 1] <= x /\ x - o[i - 1] = p
    BY <2>2, <2>4, <2>5
  <2> QED BY <2>4, <2>6
<1> HIDE DEF o
<1>12. Talk(c, ms, o, fr)
  <2>1. ASSUME NEW i \in 1..Z
        PROVE  /\ o[i] = o[i - 1] + Len(ms[i].head) + Len(ms[i].body)
               /\ At(c.stream, o[i - 1] + 1, ms[i].head)
               /\ At(c.stream, o[i - 1] + Len(ms[i].head) + 1, ms[i].body)
               /\ Frame(ms[i], fr[i]) /\ AsMeant(ms[i], fr[i]) /\ c.meant[i] = ms[i].meant
    BY <1>1, <1>6, <1>7, <1>8, <1>9 DEF Framed
  <2> QED BY <1>3, <1>8, <1>9, <1>10, <1>11, <2>1 DEF Talk
<1> QED BY <1>12 DEF c

(***************************************************************************)
(* How the head of a message is made.                                       *)
(***************************************************************************)

\* h is the request line and the header lines that f says; a line ends only
\* where f says.
HeadOver(h, f) ==
  /\ f.method \in Methods /\ IsText(f.url) /\ \A i \in 1..Len(f.url) : f.url[i] \notin {SP, LF}
  /\ Lines(f.hs) /\ Len(f.hs) \in Nat /\ Ruled(f.e, f.hs) /\ f.e[0] = Len(f.url) + 6
  /\ IsText(h) /\ Len(h) = f.e[Len(f.hs)] /\ At(h, 1, RequestLine(f.method, f.url))
  /\ \A i \in 1..Len(f.hs) : At(h, f.e[i - 1] + 1, HeaderLine(f.hs[i].key, f.hs[i].value))
  /\ \A q \in 1..Len(h) : h[q] = LF => \E i \in 0..Len(f.hs) : q = f.e[i]

\* The account of a head without header lines,
NoLine(method, url) ==
  [method |-> method, url |-> url, hs |-> <<>>, e |-> [i \in 0..0 |-> Len(url) + 6]]

\* and of one with one more line.
WithLine(f, key, value) ==
  [method |-> f.method, url |-> f.url, hs |-> f.hs \o <<[key |-> key, value |-> value]>>,
   e |-> [i \in 0..Len(f.hs) + 1 |->
            IF i <= Len(f.hs) THEN f.e[i] ELSE f.e[Len(f.hs)] + Len(value) + 5]]

\* The symbols of a request line.
LEMMA RequestLineIs ==
  ASSUME NEW method, NEW url, IsText(url)
  PROVE  LET l == RequestLine(method, url) IN
         /\ IsText(l) /\ Len(l) = Len(url) + 6 /\ Len(url) \in Nat
         /\ l[1] = method /\ l[2] = SP /\ (\A i \in 1..Len(url) : l[2 + i] = url[i])
         /\ l[Len(url) + 3] = SP /\ l[Len(url) + 4] = "HTTP/1.1"
         /\ l[Len(url) + 5] = CR /\ l[Len(url) + 6] = LF
<1> DEFINE a == <<method, SP>>
           b == <<SP, "HTTP/1.1">>
           u == a \o url
           v == u \o b
           l == v \o CRLF
           n == Len(url)
<1>1. /\ IsText(a) /\ Len(a) = 2 /\ a[1] = method /\ a[2] = SP
      /\ IsText(b) /\ Len(b) = 2 /\ b[1] = SP /\ b[2] = "HTTP/1.1"
      /\ IsText(CRLF) /\ Len(CRLF) = 2 /\ CRLF[1] = CR /\ CRLF[2] = LF
  BY Single DEF CRLF, CR, LF
<1>2. n \in Nat
  BY DEF IsText
<1> HIDE DEF a, b, n
<1>3. /\ IsText(u) /\ Len(u) = 2 + n /\ (\A i \in 1..2 : u[i] = a[i])
      /\ \A i \in 1..n : u[2 + i] = url[i]
  <2>1. IsText(a) /\ IsText(url)
    BY <1>1
  <2>2. /\ IsText(a \o url) /\ Len(a \o url) = Len(a) + Len(url)
        /\ \A i \in 1..Len(a) : (a \o url)[i] = a[i]
        /\ \A i \in 1..Len(url) : (a \o url)[Len(a) + i] = url[i]
    BY <2>1, Joined
  <2> QED BY <1>1, <2>2 DEF n
<1> HIDE DEF u
<1>4. /\ IsText(v) /\ Len(v) = 2 + n + 2 /\ (\A i \in 1..2 + n : v[i] = u[i])
      /\ \A i \in 1..2 : v[2 + n + i] = b[i]
  <2>1. IsText(u) /\ IsText(b)
    BY <1>1, <1>3
  <2>2. /\ IsText(u \o b) /\ Len(u \o b) = Len(u) + Len(b)
        /\ \A i \in 1..Len(u) : (u \o b)[i] = u[i]
        /\ \A i \in 1..Len(b) : (u \o b)[Len(u) + i] = b[i]
    BY <2>1, Joined
  <2> QED BY <1>1, <1>3, <2>2 
<1> HIDE DEF v
<1>5. /\ IsText(l) /\ Len(l) = 2 + n + 2 + 2 /\ (\A i \in 1..2 + n + 2 : l[i] = v[i])
      /\ \A i \in 1..2 : l[2 + n + 2 + i] = CRLF[i]
  <2>1. IsText(v) /\ IsText(CRLF)
    BY <1>1, <1>4
  <2>2. /\ IsText(v \o CRLF) /\ Len(v \o CRLF) = Len(v) + Len(CRLF)
        /\ \A i \in 1..Len(v) : (v \o CRLF)[i] = v[i]
        /\ \A i \in 1..Len(CRLF) : (v \o CRLF)[Len(v) + i] = CRLF[i]
    BY <2>1, Joined
  <2> QED BY <1>1, <1>4, <2>2 
<1>6. l = RequestLine(method, url)
  BY DEF l, v, u, a, b, RequestLine
<1> HIDE DEF l
<1>7. Len(l) = n + 6
  BY <1>2, <1>5
<1>8. 1 \in 1..2 /\ 2 \in 1..2 /\ 1 \in 1..2 + n /\ 2 \in 1..2 + n /\ 1 \in 1..2 + n + 2 /\ 2 \in 1..2 + n + 2
  BY <1>2
<1>9. l[1] = method /\ l[2] = SP
  BY <1>1, <1>3, <1>4, <1>5, <1>8
<1>10. ASSUME NEW i \in 1..n PROVE l[2 + i] = url[i]
  <2>1. 2 + i \in 1..2 + n /\ 2 + i \in 1..2 + n + 2
    BY <1>2
  <2> QED BY <1>3, <1>4, <1>5, <2>1
<1>11. l[n + 3] = SP /\ l[n + 4] = "HTTP/1.1"
  <2>1. n + 3 = 2 + n + 1 /\ n + 4 = 2 + n + 2 /\ n + 3 \in 1..2 + n + 2 /\ n + 4 \in 1..2 + n + 2
    BY <1>2
  <2>2. v[2 + n + 1] = b[1] /\ v[2 + n + 2] = b[2]
    BY <1>4, <1>8
  <2>3. l[n + 3] = v[n + 3] /\ l[n + 4] = v[n + 4]
    BY <1>5, <2>1
  <2> QED BY <1>1, <2>1, <2>2, <2>3
<1>12. l[n + 5] = CR /\ l[n + 6] = LF
  <2>1. n + 5 = 2 + n + 2 + 1 /\ n + 6 = 2 + n + 2 + 2
    BY <1>2
  <2>2. l[2 + n + 2 + 1] = CRLF[1] /\ l[2 + n + 2 + 2] = CRLF[2]
    BY <1>5, <1>8
  <2> QED BY <1>1, <2>1, <2>2
<1>13. /\ IsText(l) /\ Len(l) = n + 6 /\ n \in Nat
       /\ l[1] = method /\ l[2] = SP /\ (\A i \in 1..n : l[2 + i] = url[i])
       /\ l[n + 3] = SP /\ l[n + 4] = "HTTP/1.1" /\ l[n + 5] = CR /\ l[n + 6] = LF
  BY <1>2, <1>5, <1>7, <1>9, <1>10, <1>11, <1>12
<1> QED BY <1>6, <1>13 DEF n

\* A head begins with its request line
LEMMA HeadBegins ==
  ASSUME NEW method \in Methods, NEW url, IsText(url), \A i \in 1..Len(url) : url[i] \notin {SP, LF}
  PROVE  HeadOver(RequestLine(method, url), NoLine(method, url))
<1> DEFINE f == NoLine(method, url)
           l == RequestLine(method, url)
           n == Len(url)
<1>1. f.method = method /\ f.url = url /\ f.hs = <<>> /\ f.e = [i \in 0..0 |-> n + 6]
  BY DEF NoLine
<1>2. /\ IsText(l) /\ Len(l) = n + 6 /\ n \in Nat
      /\ l[1] = method /\ l[2] = SP /\ (\A i \in 1..n : l[2 + i] = url[i])
      /\ l[n + 3] = SP /\ l[n + 4] = "HTTP/1.1" /\ l[n + 5] = CR /\ l[n + 6] = LF
  BY RequestLineIs
<1> HIDE DEF f, l, n
<1>3. Len(f.hs) = 0 /\ IsText(f.hs) /\ 1..0 = {} /\ 0 \in 0..0 /\ 0 \in Nat
  BY <1>1, Single
<1>4. f.e \in [0..0 -> Nat] /\ f.e[0] = n + 6
  BY <1>1, <1>2
<1>5. Lines(f.hs) /\ Ruled(f.e, f.hs)
  BY <1>3, <1>4 DEF Lines, Ruled
<1>6. ASSUME NEW q \in 1..Len(l), l[q] = LF PROVE q = n + 6
  <2>1. \/ q = 1 \/ q = 2 \/ q - 2 \in 1..n \/ q = n + 3 \/ q = n + 4 \/ q = n + 5 \/ q = n + 6
    BY <1>2
  <2>2. q # 1 /\ q # 2 /\ q # n + 3 /\ q # n + 4 /\ q # n + 5
    BY <1>2, <1>6 DEF Methods, SP, CR, LF
  <2>3. ~(q - 2 \in 1..n)
    <3> SUFFICES ASSUME q - 2 \in 1..n PROVE FALSE
      OBVIOUS
    <3> DEFINE i == q - 2
    <3>1. i \in 1..n /\ 2 + i = q
      BY <1>2
    <3> HIDE DEF i
    <3>2. url[i] = LF
      BY <1>2, <1>6, <3>1
    <3> QED BY <3>1, <3>2 DEF n
  <2> QED BY <2>1, <2>2, <2>3
<1>7. At(l, 1, l)
  BY <1>2, AtItself
<1>8. /\ f.method \in Methods /\ IsText(f.url) /\ \A i \in 1..Len(f.url) : f.url[i] \notin {SP, LF}
      /\ Len(f.url) = n
  BY <1>1 DEF n
<1>9. l = RequestLine(f.method, f.url)
  BY <1>1 DEF l
<1> QED BY <1>2, <1>3, <1>4, <1>5, <1>6, <1>7, <1>8, <1>9 DEF HeadOver, l, f

\* (the symbols of a header line)
LEMMA LineSymbols ==
  ASSUME NEW key, NEW value, IsText(value)
  PROVE  LET l == HeaderLine(key, value) IN
         /\ IsText(l) /\ Len(l) = Len(value) + 5 /\ Len(value) \in Nat
         /\ l[1] = key /\ l[2] = COLON /\ l[3] = SP /\ (\A i \in 1..Len(value) : l[3 + i] = value[i])
         /\ l[Len(value) + 4] = CR /\ l[Len(value) + 5] = LF
<1> DEFINE l == HeaderLine(key, value)
           n == Len(value)
<1>1. IsText(l) /\ Len(l) = n + 5 /\ n \in Nat
  BY HeaderLineIs DEF IsText
<1>2. At(l, 1, l) /\ 1 \in Nat \ {0}
  BY <1>1, AtItself
<1>3. /\ l[1] = key /\ l[1 + 1] = COLON /\ l[1 + 2] = SP /\ At(l, 1 + 3, value)
      /\ l[1 + n + 3] = CR /\ l[1 + n + 4] = LF
  BY <1>1, <1>2, HeaderLineIs
<1> HIDE DEF l, n
<1>4. ASSUME NEW i \in 1..n PROVE l[3 + i] = value[i]
  <2>1. 1 + 3 + i - 1 = 3 + i /\ i \in 1..Len(value)
    BY <1>1 DEF n
  <2>2. l[1 + 3 + i - 1] = value[i]
    BY <1>3, <2>1 DEF At
  <2> QED BY <2>1, <2>2
<1>5. 1 + n + 3 = n + 4 /\ 1 + n + 4 = n + 5 /\ 1 + 1 = 2 /\ 1 + 2 = 3
  BY <1>1
<1> QED BY <1>1, <1>3, <1>4, <1>5 DEF l, n

\* A header line ends only at its end.
LEMMA LineEndsOnce ==
  ASSUME NEW key, NEW value, Writable(key, value), \A i \in 1..Len(value) : value[i] # LF,
         NEW q \in 1..Len(HeaderLine(key, value)), HeaderLine(key, value)[q] = LF
  PROVE  q = Len(HeaderLine(key, value))
<1> DEFINE l == HeaderLine(key, value)
           n == Len(value)
<1>1. /\ IsText(l) /\ Len(l) = n + 5 /\ n \in Nat
      /\ l[1] = key /\ l[2] = COLON /\ l[3] = SP /\ (\A i \in 1..n : l[3 + i] = value[i])
      /\ l[n + 4] = CR /\ l[n + 5] = LF
  BY LineSymbols DEF Writable
<1> HIDE DEF l
<1>2. q \in 1..Len(l) /\ l[q] = LF
  BY DEF l
<1>3. q = 1 \/ q = 2 \/ q = 3 \/ q - 3 \in 1..n \/ q = n + 4 \/ q = n + 5
  BY <1>1, <1>2
<1>4. q # 1 /\ q # 2 /\ q # 3 /\ q # n + 4
  BY <1>1, <1>2 DEF Writable, COLON, SP, CR, LF
<1>5. ~(q - 3 \in 1..n)
  <2> SUFFICES ASSUME q - 3 \in 1..n PROVE FALSE
    OBVIOUS
  <2> DEFINE i == q - 3
  <2>1. i \in 1..n /\ 3 + i = q
    BY <1>1
  <2> HIDE DEF i
  <2>2. value[i] = LF
    BY <1>1, <1>2, <2>1
  <2> QED BY <2>1, <2>2
<1> QED BY <1>1, <1>3, <1>4, <1>5 DEF l

\* and grows by header lines.
LEMMA HeadGrows ==
  ASSUME NEW h, NEW f, HeadOver(h, f), NEW key, NEW value, Writable(key, value),
         \A i \in 1..Len(value) : value[i] # LF, \A i \in 1..Len(f.hs) : f.hs[i].key # key
  PROVE  HeadOver(h \o HeaderLine(key, value), WithLine(f, key, value))
<1> DEFINE n == Len(f.hs)
           n1 == n + 1
           a == [key |-> key, value |-> value]
           hs == f.hs \o <<a>>
           v == Len(value)
           g == WithLine(f, key, value)
           l == HeaderLine(key, value)
           hl == h \o l
           z == f.e[n]
<1>1. /\ n \in Nat /\ Lines(f.hs) /\ Ruled(f.e, f.hs) /\ f.e[0] = Len(f.url) + 6 /\ IsText(h)
      /\ Len(h) = z /\ At(h, 1, RequestLine(f.method, f.url))
      /\ \A i \in 1..n : At(h, f.e[i - 1] + 1, HeaderLine(f.hs[i].key, f.hs[i].value))
      /\ \A q \in 1..Len(h) : h[q] = LF => \E i \in 0..n : q = f.e[i]
  BY DEF HeadOver
<1>2. /\ g.method = f.method /\ g.url = f.url /\ g.hs = hs
      /\ g.e = [i \in 0..n + 1 |-> IF i <= n THEN f.e[i] ELSE z + v + 5]
  BY DEF WithLine
<1>3. IsText(l) /\ Len(l) = v + 5 /\ v \in Nat /\ IsText(value)
  BY LineSymbols DEF Writable
<1>4. /\ IsText(hs) /\ Len(hs) = n + 1 /\ (\A i \in 1..n : hs[i] = f.hs[i]) /\ hs[n + 1] = a
  <2>1. IsText(f.hs) /\ IsText(<<a>>) /\ Len(<<a>>) = 1 /\ <<a>>[1] = a /\ 1 \in 1..1
    BY <1>1, Single DEF Lines
  <2>2. /\ IsText(f.hs \o <<a>>) /\ Len(f.hs \o <<a>>) = Len(f.hs) + Len(<<a>>)
        /\ \A i \in 1..Len(f.hs) : (f.hs \o <<a>>)[i] = f.hs[i]
        /\ \A i \in 1..Len(<<a>>) : (f.hs \o <<a>>)[Len(f.hs) + i] = <<a>>[i]
    BY <2>1, Joined
  <2> QED BY <2>1, <2>2
<1>5. a.key = key /\ a.value = value
  OBVIOUS
<1> HIDE DEF a, hs, g, l, v, n, z
<1>6. /\ IsText(hl) /\ Len(hl) = z + v + 5 /\ z \in Nat /\ (\A i \in 1..z : hl[i] = h[i])
      /\ \A i \in 1..v + 5 : hl[z + i] = l[i]
  <2>1. /\ IsText(h \o l) /\ Len(h \o l) = Len(h) + Len(l)
        /\ Len(h) \in Nat
        /\ \A i \in 1..Len(h) : (h \o l)[i] = h[i]
        /\ \A i \in 1..Len(l) : (h \o l)[Len(h) + i] = l[i]
    <3>1. IsText(h) /\ IsText(l)
      BY <1>1, <1>3
    <3> QED BY <3>1, Joined
  <2> QED BY <1>1, <1>3, <2>1
<1> HIDE DEF hl
<1>7. At(hl, 1, hl)
  BY <1>6, AtItself
<1>8. At(hl, 1, h) /\ At(hl, 1 + Len(h), l)
  BY <1>1, <1>3, <1>7, <1>6, AtJoined DEF hl
<1>9. /\ \A i \in 0..n : g.e[i] = f.e[i] /\ f.e[i] \in Nat
      /\ g.e[n + 1] = z + v + 5 /\ g.e \in [0..n + 1 -> Nat] /\ g.e[n] = z
  <2>1. f.e \in [0..n -> Nat]
    BY <1>1 DEF Ruled, n
  <2>2. ASSUME NEW i \in 0..n PROVE i \in 0..n + 1 /\ i <= n /\ f.e[i] \in Nat
    BY <1>1, <2>1
  <2>3. n + 1 \in 0..n + 1 /\ ~(n + 1 <= n) /\ n \in 0..n
    BY <1>1
  <2>4. ASSUME NEW i \in 0..n + 1, ~(i \in 0..n) PROVE i = n + 1
    BY <1>1, <2>4
  <2>5. z + v + 5 \in Nat
    BY <1>3, <1>6
  <2>6. g.e[n] = z
    BY <1>2, <2>2, <2>3 DEF z
  <2> QED BY <1>2, <2>2, <2>3, <2>4, <2>5, <2>6
<1>10. Lines(hs)
  <2>1. ASSUME NEW i \in 1..Len(hs) PROVE Writable(hs[i].key, hs[i].value)
    <3>1. CASE i \in 1..n
      BY <1>1, <1>4, <3>1 DEF Lines, n
    <3>2. CASE i = n + 1
      BY <1>4, <1>5, <3>2
    <3> QED BY <1>1, <1>4, <3>1, <3>2
  <2>2. ASSUME NEW i \in 1..Len(hs), NEW j \in 1..Len(hs), hs[i].key = hs[j].key PROVE i = j
    <3>1. CASE i \in 1..n /\ j \in 1..n
      BY <1>1, <1>4, <2>2, <3>1 DEF Lines, n
    <3>2. CASE i = n + 1 /\ j \in 1..n
      BY <1>4, <1>5, <2>2, <3>2 DEF n
    <3>3. CASE i \in 1..n /\ j = n + 1
      BY <1>4, <1>5, <2>2, <3>3 DEF n
    <3> QED BY <1>1, <1>4, <3>1, <3>2, <3>3
  <2> QED BY <1>4, <2>1, <2>2 DEF Lines
<1>11. Ruled(g.e, hs)
  <2>1. ASSUME NEW i \in 1..n + 1 PROVE g.e[i] = g.e[i - 1] + Len(hs[i].value) + 5
    <3>1. CASE i \in 1..n
      <4>1. i - 1 \in 0..n /\ i \in 0..n
        BY <1>1, <3>1
      <4>2. f.e[i] = f.e[i - 1] + Len(f.hs[i].value) + 5
        BY <1>1, <3>1 DEF Ruled, n
      <4> QED BY <1>4, <1>9, <3>1, <4>1, <4>2
    <3>2. CASE i = n + 1
      <4>1. i - 1 = n
        BY <1>1, <3>2
      <4> QED BY <1>4, <1>5, <1>9, <3>2, <4>1 DEF v
    <3> QED BY <1>1, <3>1, <3>2
  <2> QED BY <1>4, <1>9, <2>1 DEF Ruled
<1>12. IsText(f.url) /\ At(hl, 1, RequestLine(f.method, f.url))
  <2>1. IsText(RequestLine(f.method, f.url)) /\ IsText(f.url)
    BY RequestLineIs DEF HeadOver
  <2>2. 1 \in Nat /\ 1 \in Nat \ {0} /\ 1 + 1 - 1 = 1
    OBVIOUS
  <2>3. At(h, 1, RequestLine(f.method, f.url))
    BY <1>1
  <2>4. At(hl, 1 + 1 - 1, RequestLine(f.method, f.url))
    BY <1>1, <1>6, <1>8, <2>1, <2>2, <2>3, AtWithin
  <2> QED BY <2>1, <2>2, <2>4
<1>13. ASSUME NEW i \in 1..n + 1 PROVE At(hl, g.e[i - 1] + 1, HeaderLine(hs[i].key, hs[i].value))
  <2>1. CASE i \in 1..n
    <3> DEFINE p == f.e[i - 1] + 1
               t == HeaderLine(f.hs[i].key, f.hs[i].value)
    <3>1. i - 1 \in 0..n
      BY <1>1, <2>1
    <3>2. f.e[i - 1] \in Nat
      BY <1>9, <3>1
    <3>3. p \in Nat \ {0} /\ 1 + p - 1 = p
      BY <3>2
    <3>4. At(h, p, t)
      BY <1>1, <2>1
    <3>5. IsText(t)
      <4>1. IsText(f.hs[i].value)
        BY <1>1, <2>1 DEF Lines, Writable, n
      <4> QED BY <4>1, LineSymbols
    <3> HIDE DEF p, t
    <3>6. 1 \in Nat
      OBVIOUS
    <3>7. At(hl, 1 + p - 1, t)
      BY <1>1, <1>6, <1>8, <3>3, <3>4, <3>5, <3>6, AtWithin
    <3>8. g.e[i - 1] + 1 = p /\ hs[i] = f.hs[i]
      BY <1>4, <1>9, <2>1, <3>1 DEF p
    <3> QED BY <3>3, <3>7, <3>8 DEF t
  <2>2. CASE i = n + 1
    <3>1. i - 1 = n /\ 1 + z = z + 1
      BY <1>1, <1>6, <2>2
    <3>2. g.e[i - 1] = z
      BY <1>9, <3>1
    <3>3. At(hl, z + 1, l)
      BY <1>1, <1>8, <3>1
    <3> QED BY <1>4, <1>5, <2>2, <3>2, <3>3 DEF l
  <2> QED BY <1>1, <2>1, <2>2
<1>14. ASSUME NEW q \in 1..Len(hl), hl[q] = LF PROVE \E i \in 0..n + 1 : q = g.e[i]
  <2>1. CASE q \in 1..z
    <3>1. PICK i \in 0..n : q = f.e[i]
      BY <1>1, <1>6, <1>14, <2>1
    <3>2. i \in 0..n + 1 /\ g.e[i] = f.e[i]
      BY <1>1, <1>9
    <3> QED BY <3>1, <3>2
  <2>2. CASE ~(q \in 1..z)
    <3> DEFINE j == q - z
    <3>1. j \in 1..v + 5 /\ z + j = q
      BY <1>3, <1>6, <2>2
    <3> HIDE DEF j
    <3>2. l[j] = LF /\ j \in 1..Len(l)
      BY <1>3, <1>6, <1>14, <3>1
    <3>3. j = Len(l)
      BY <3>2, LineEndsOnce DEF l
    <3>4. n + 1 \in 0..n + 1 /\ q = z + v + 5
      BY <1>1, <1>3, <1>6, <3>1, <3>3
    <3> QED BY <1>9, <3>4
  <2> QED BY <2>1, <2>2
<1>15. /\ g.method \in Methods /\ IsText(g.url) /\ \A i \in 1..Len(g.url) : g.url[i] \notin {SP, LF}
  BY <1>2 DEF HeadOver
<1>16. g.e[0] = Len(g.url) + 6 /\ Len(hl) = g.e[Len(g.hs)] /\ Len(g.hs) = n + 1 /\ Len(g.hs) \in Nat
  <2>1. 0 \in 0..n /\ n + 1 \in Nat
    BY <1>1
  <2> QED BY <1>1, <1>2, <1>4, <1>6, <1>9, <2>1
<1>17. HeadOver(hl, g)
  BY <1>2, <1>6, <1>10, <1>11, <1>12, <1>13, <1>14, <1>15, <1>16 DEF HeadOver
<1> QED BY <1>17 DEF hl, g, l

\* What the head of a message says of what follows it.
EndMeant(m, f) ==
  LET n == Len(f.hs)
      h == HeadersOf(f.hs, n)
  IN  \/ m.meant.code = -1 /\ \E i \in 1..n : Throwing(f.hs[i])
      \/ /\ \A i \in 1..n : ~Throwing(f.hs[i])
         /\ \/ m.meant.code = 0 /\ Len(m.body) # 0 /\ LengthOf(h) = Len(m.body)
            \/ m.meant.code = 0 /\ m.body = <<>> /\ LengthOf(h) = 0 /\ f.method # "POST"
            \/ /\ m.meant.code = 400 /\ m.body = <<>> /\ LengthOf(h) = 0
               /\ f.method = "POST" /\ <<"Content-Length">> \notin DOMAIN h

\* A head's line feeds are at the places where a piece may end.
LinesEnd(m, f) == \A q \in 1..Len(m.head) : m.head[q] = LF => q \in Stops(m, f)

\* s is the lines of a head, and t.
HeadThen(s, f, t) ==
  LET z == f.e[Len(f.hs)] IN
  /\ IsText(s) /\ Len(s) = z + Len(t) /\ z \in Nat /\ Len(t) \in Nat
  /\ \A i \in 1..Len(t) : s[z + i] = t[i]
  /\ At(s, 1, RequestLine(f.method, f.url))
  /\ \A i \in 1..Len(f.hs) : At(s, f.e[i - 1] + 1, HeaderLine(f.hs[i].key, f.hs[i].value))
  /\ \A q \in 1..Len(s) : s[q] = LF =>
       \/ \E i \in 0..Len(f.hs) : q = f.e[i]
       \/ q - z \in 1..Len(t) /\ t[q - z] = LF

\* A head and what follows it.
LEMMA HeadFollowed ==
  ASSUME NEW h, NEW f, HeadOver(h, f), NEW t, IsText(t)
  PROVE  HeadThen(h \o t, f, t)
<1> DEFINE n == Len(f.hs)
           z == f.e[n]
           s == h \o t
           w == Len(t)
<1>1. /\ n \in Nat /\ Lines(f.hs) /\ Ruled(f.e, f.hs) /\ IsText(h)
      /\ Len(h) = z /\ At(h, 1, RequestLine(f.method, f.url)) /\ IsText(f.url)
      /\ \A i \in 1..n : At(h, f.e[i - 1] + 1, HeaderLine(f.hs[i].key, f.hs[i].value))
      /\ \A q \in 1..Len(h) : h[q] = LF => \E i \in 0..n : q = f.e[i]
  BY DEF HeadOver
<1> HIDE DEF z, n
<1>2. /\ IsText(s) /\ Len(s) = z + w /\ z \in Nat /\ w \in Nat /\ (\A i \in 1..z : s[i] = h[i])
      /\ \A i \in 1..w : s[z + i] = t[i]
  BY <1>1, Joined
<1>3. At(s, 1, RequestLine(f.method, f.url))
  <2>1. IsText(RequestLine(f.method, f.url)) /\ 1 \in Nat \ {0}
    BY <1>1, RequestLineIs
  <2> QED BY <1>1, <2>1, AtGrows
<1>4. ASSUME NEW i \in 1..n PROVE At(s, f.e[i - 1] + 1, HeaderLine(f.hs[i].key, f.hs[i].value))
  <2> DEFINE p == f.e[i - 1] + 1
             l == HeaderLine(f.hs[i].key, f.hs[i].value)
  <2>1. f.e[i - 1] \in Nat
    <3>1. i - 1 \in 0..n
      BY <1>1
    <3> QED BY <1>1, <3>1 DEF Ruled, n
  <2>2. IsText(l)
    <3>1. IsText(f.hs[i].value)
      BY <1>1 DEF Lines, Writable, n
    <3> QED BY <3>1, LineSymbols
  <2>3. p \in Nat \ {0} /\ At(h, p, l)
    BY <1>1, <2>1
  <2> HIDE DEF p, l, s
  <2>4. At(s, p, l)
    BY <1>1, <2>2, <2>3, AtGrows DEF s
  <2> QED BY <2>4 DEF p, l
<1>5. ASSUME NEW q \in 1..Len(s), s[q] = LF
      PROVE  (\E i \in 0..n : q = f.e[i]) \/ (q - z \in 1..w /\ t[q - z] = LF)
  <2> HIDE DEF s, w
  <2>1. CASE q \in 1..z
    BY <1>1, <1>2, <1>5, <2>1
  <2>2. CASE ~(q \in 1..z)
    <3> DEFINE j == q - z
    <3>1. j \in 1..w /\ z + j = q
      BY <1>2, <2>2
    <3> HIDE DEF j
    <3>2. t[j] = LF
      BY <1>2, <1>5, <3>1
    <3> QED BY <3>1, <3>2 DEF j
  <2> QED BY <2>1, <2>2
<1> HIDE DEF s, w
<1>6. /\ IsText(s) /\ Len(s) = z + w /\ z \in Nat /\ w \in Nat
      /\ \A i \in 1..w : s[z + i] = t[i]
  BY <1>2
<1> QED BY <1>3, <1>4, <1>5, <1>6 DEF s, w, n, z, HeadThen

\* The lines of a head and what follows them make a message,
LEMMA FrameBase ==
  ASSUME NEW h, NEW f, HeadOver(h, f), Len(f.hs) # 0, NEW t, NEW m, HeadThen(m.head, f, t),
         IsText(m.body), Ended(m, f) \/ Broken(m, f)
  PROVE  Frame(m, f)
<1>1. /\ f.method \in Methods /\ IsText(f.url) /\ (\A i \in 1..Len(f.url) : f.url[i] # SP)
      /\ Lines(f.hs) /\ Ruled(f.e, f.hs) /\ f.e[0] = Len(f.url) + 6
  BY DEF HeadOver
<1>2. /\ IsText(m.head) /\ At(m.head, 1, RequestLine(f.method, f.url))
      /\ \A i \in 1..Len(f.hs) : At(m.head, f.e[i - 1] + 1, HeaderLine(f.hs[i].key, f.hs[i].value))
  BY DEF HeadThen
<1> QED BY <1>1, <1>2 DEF Frame

\* for a head that is complete,
LEMMA FrameEnded ==
  ASSUME NEW h, NEW f, HeadOver(h, f), Len(f.hs) # 0, NEW m, m.head = h \o CRLF,
         IsText(m.body), EndMeant(m, f)
  PROVE  Frame(m, f) /\ LinesEnd(m, f)
<1> DEFINE n == Len(f.hs)
           z == f.e[n]
<1>1. IsText(CRLF) /\ Len(CRLF) = 2 /\ CRLF[1] = CR /\ CRLF[2] = LF /\ 1 \in 1..2 /\ 2 \in 1..2
  BY Single DEF CRLF, CR, LF
<1>2. /\ IsText(m.head) /\ Len(m.head) = z + 2 /\ z \in Nat
      /\ (\A i \in 1..2 : m.head[z + i] = CRLF[i])
      /\ \A q \in 1..Len(m.head) : m.head[q] = LF =>
           (\E i \in 0..n : q = f.e[i]) \/ (q - z \in 1..2 /\ CRLF[q - z] = LF)
  <2>1. IsText(CRLF)
    BY <1>1
  <2>2. HeadThen(m.head, f, CRLF)
    BY <2>1, HeadFollowed
  <2> QED BY <1>1, <2>2 DEF HeadThen
<1>2a. HeadThen(m.head, f, CRLF)
  BY <1>1, HeadFollowed
<1>3. Ended(m, f)
  <2>1. m.head[z + 1] = CR /\ m.head[z + 2] = LF
    BY <1>1, <1>2
  <2> QED BY <1>2, <2>1 DEF Ended, EndMeant
<1>4. Frame(m, f)
  BY <1>2a, <1>3, FrameBase
<1> HIDE DEF z
<1>5. LinesEnd(m, f)
  <2> SUFFICES ASSUME NEW q \in 1..Len(m.head), m.head[q] = LF PROVE q \in Stops(m, f)
    BY DEF LinesEnd
  <2>1. CASE \E i \in 0..n : q = f.e[i]
    BY <2>1 DEF Stops
  <2>2. CASE q - z \in 1..2 /\ CRLF[q - z] = LF
    <3>1. q - z # 1
      BY <1>1, <2>2 DEF CR, LF
    <3>2. q = Len(m.head) + 0
      BY <1>2, <2>2, <3>1
    <3>3. 0 \in 0..Len(m.body)
      BY DEF IsText
    <3> QED BY <3>2, <3>3 DEF Stops
  <2> QED BY <1>2, <2>1, <2>2
<1> QED BY <1>4, <1>5

\* and for one that ends
BrokenEnd == <<"Connection", ":", "close">> \o CRLF \o CRLF

\* with a line without a blank,
IsBrokenEnd(t) ==
  /\ IsText(t) /\ Len(t) = 7 /\ t[1] = "Connection" /\ t[2] = COLON /\ t[3] = "close"
  /\ t[4] = CR /\ t[5] = LF /\ t[6] = CR /\ t[7] = LF

\* which is this one.
LEMMA BrokenEndIs == IsBrokenEnd(BrokenEnd)
<1> DEFINE a == <<"Connection", ":", "close">>
           b == a \o CRLF
           t == b \o CRLF
<1>1. IsText(CRLF) /\ Len(CRLF) = 2 /\ CRLF[1] = CR /\ CRLF[2] = LF /\ 1 \in 1..2 /\ 2 \in 1..2
  BY Single DEF CRLF, CR, LF
<1>2. /\ IsText(a) /\ Len(a) = 3 /\ a[1] = "Connection" /\ a[2] = COLON /\ a[3] = "close"
  BY Single DEF COLON
<1> HIDE DEF a
<1>3. /\ IsText(b) /\ Len(b) = 5 /\ b[1] = "Connection" /\ b[2] = COLON /\ b[3] = "close"
      /\ b[4] = CR /\ b[5] = LF
  <2>1. /\ IsText(a \o CRLF) /\ Len(a \o CRLF) = Len(a) + Len(CRLF)
        /\ \A i \in 1..Len(a) : (a \o CRLF)[i] = a[i]
        /\ \A i \in 1..Len(CRLF) : (a \o CRLF)[Len(a) + i] = CRLF[i]
    <3>1. IsText(a) /\ IsText(CRLF)
      BY <1>1, <1>2
    <3> QED BY <3>1, Joined
  <2>2. 1 \in 1..3 /\ 2 \in 1..3 /\ 3 \in 1..3 /\ 3 + 1 = 4 /\ 3 + 2 = 5
    OBVIOUS
  <2>3. b[1] = a[1] /\ b[2] = a[2] /\ b[3] = a[3] /\ b[3 + 1] = CRLF[1] /\ b[3 + 2] = CRLF[2]
    BY <1>1, <1>2, <2>1, <2>2
  <2> QED BY <1>1, <1>2, <2>1, <2>2, <2>3
<1> HIDE DEF b
<1>4. /\ IsText(t) /\ Len(t) = 7 /\ t[1] = "Connection" /\ t[2] = COLON /\ t[3] = "close"
      /\ t[4] = CR /\ t[5] = LF /\ t[6] = CR /\ t[7] = LF
  <2>1. /\ IsText(b \o CRLF) /\ Len(b \o CRLF) = Len(b) + Len(CRLF)
        /\ \A i \in 1..Len(b) : (b \o CRLF)[i] = b[i]
        /\ \A i \in 1..Len(CRLF) : (b \o CRLF)[Len(b) + i] = CRLF[i]
    <3>1. IsText(b) /\ IsText(CRLF)
      BY <1>1, <1>3
    <3> QED BY <3>1, Joined
  <2>2. /\ 1 \in 1..5 /\ 2 \in 1..5 /\ 3 \in 1..5 /\ 4 \in 1..5 /\ 5 \in 1..5
        /\ 5 + 1 = 6 /\ 5 + 2 = 7
    OBVIOUS
  <2>3. t[1] = b[1] /\ t[2] = b[2] /\ t[3] = b[3] /\ t[4] = b[4] /\ t[5] = b[5]
        /\ t[5 + 1] = CRLF[1] /\ t[5 + 2] = CRLF[2]
    BY <1>1, <1>3, <2>1, <2>2
  <2> QED BY <1>1, <1>3, <2>1, <2>2, <2>3
<1>5. t = BrokenEnd
  BY DEF t, b, a, BrokenEnd
<1> HIDE DEF t
<1> QED BY <1>4, <1>5 DEF IsBrokenEnd

\* A head that ends with such a line is a message.
LEMMA FrameBroken ==
  ASSUME NEW h, NEW f, HeadOver(h, f), Len(f.hs) # 0, NEW t, IsBrokenEnd(t), NEW m, m.head = h \o t,
         IsText(m.body), m.meant.code = 400, \A i \in 1..Len(f.hs) : ~Throwing(f.hs[i])
  PROVE  Frame(m, f) /\ LinesEnd(m, f)
<1> DEFINE n == Len(f.hs)
           z == f.e[n]
<1>4. /\ IsText(t) /\ Len(t) = 7 /\ t[1] = "Connection" /\ t[2] = COLON /\ t[3] = "close"
      /\ t[4] = CR /\ t[5] = LF /\ t[6] = CR /\ t[7] = LF
  BY DEF IsBrokenEnd
<1>5. m.head = h \o t
  OBVIOUS
<1>6. /\ IsText(m.head) /\ Len(m.head) = z + 7 /\ z \in Nat
      /\ (\A i \in 1..7 : m.head[z + i] = t[i])
      /\ \A q \in 1..Len(m.head) : m.head[q] = LF =>
           (\E i \in 0..n : q = f.e[i]) \/ (q - z \in 1..7 /\ t[q - z] = LF)
  <2>1. IsText(t)
    BY <1>4
  <2>2. HeadThen(m.head, f, t)
    BY <2>1, HeadFollowed
  <2> QED BY ONLY <1>4, <2>2 DEF HeadThen
<1>7. Broken(m, f)
  <2>1. 1 \in 1..7 /\ 2 \in 1..7 /\ 3 \in 1..7
    OBVIOUS
  <2>2. m.head[z + 1] = "Connection" /\ m.head[z + 2] = COLON /\ m.head[z + 3] = "close"
    BY ONLY <1>4, <1>6, <2>1
  <2> QED BY <1>6, <2>2 DEF Broken, COLON, CR, LF, SP
<1>8. Frame(m, f)
  <2>1. IsText(t)
    BY <1>4
  <2>2. HeadThen(m.head, f, t)
    BY <2>1, HeadFollowed
  <2> QED BY <1>7, <2>2, FrameBase
<1> HIDE DEF z
<1>9. LinesEnd(m, f)
  <2> SUFFICES ASSUME NEW q \in 1..Len(m.head), m.head[q] = LF PROVE q \in Stops(m, f)
    BY DEF LinesEnd
  <2>1. CASE \E i \in 0..n : q = f.e[i]
    BY <2>1 DEF Stops
  <2>2. CASE q - z \in 1..7 /\ t[q - z] = LF
    <3>1. q - z # 1 /\ q - z # 2 /\ q - z # 3 /\ q - z # 4 /\ q - z # 6
      BY <1>4, <2>2 DEF CR, LF, COLON
    <3>2. q = z + 5 \/ q = Len(m.head) + 0
      BY <1>6, <2>2, <3>1
    <3>3. 0 \in 0..Len(m.body)
      BY DEF IsText
    <3> QED BY <1>7, <3>2, <3>3 DEF Stops, z
  <2> QED BY <1>6, <2>1, <2>2
<1> QED BY <1>8, <1>9

\* The header lines of the messages.
LEMMA LineAppended ==
  ASSUME NEW f, IsText(f.hs), NEW key, NEW value
  PROVE  LET g == WithLine(f, key, value) IN
         /\ g.method = f.method /\ g.url = f.url /\ IsText(g.hs) /\ Len(g.hs) = Len(f.hs) + 1
         /\ Len(f.hs) \in Nat /\ \A i \in 1..Len(f.hs) : g.hs[i] = f.hs[i]
         /\ g.hs[Len(f.hs) + 1].key = key /\ g.hs[Len(f.hs) + 1].value = value
<1> DEFINE a == [key |-> key, value |-> value]
           g == WithLine(f, key, value)
<1>1. a.key = key /\ a.value = value
  OBVIOUS
<1>2. g.method = f.method /\ g.url = f.url /\ g.hs = f.hs \o <<a>>
  BY DEF WithLine
<1> HIDE DEF a, g
<1>3. IsText(<<a>>) /\ Len(<<a>>) = 1 /\ <<a>>[1] = a /\ 1 \in 1..1
  BY Single
<1>4. /\ IsText(f.hs \o <<a>>) /\ Len(f.hs \o <<a>>) = Len(f.hs) + Len(<<a>>) /\ Len(f.hs) \in Nat
      /\ \A i \in 1..Len(f.hs) : (f.hs \o <<a>>)[i] = f.hs[i]
      /\ \A i \in 1..Len(<<a>>) : (f.hs \o <<a>>)[Len(f.hs) + i] = <<a>>[i]
  BY <1>3, Joined
<1> QED BY <1>1, <1>2, <1>3, <1>4 DEF g

\* The account of the line of the host,
Host(method, url) == WithLine(NoLine(method, url), "Host", <<"x">>)

\* and of the lines of a form.
PostLines(path, type, length) ==
  WithLine(WithLine(Host("POST", <<"/", path>>), "Content-Type", type), "Content-Length", length)

\* What that account says,
LEMMA HostIs ==
  ASSUME NEW method, NEW url
  PROVE  LET f == Host(method, url) IN
         /\ f.method = method /\ f.url = url /\ IsText(f.hs) /\ Len(f.hs) = 1
         /\ f.hs[1].key = "Host" /\ f.hs[1].value = <<"x">>
<1> DEFINE f == NoLine(method, url)
<1>1. f.method = method /\ f.url = url /\ f.hs = <<>>
  BY DEF NoLine
<1> HIDE DEF f
<1>2. IsText(f.hs) /\ Len(f.hs) = 0 /\ 0 + 1 = 1
  BY <1>1, Single
<1>3. Host(method, url) = WithLine(f, "Host", <<"x">>)
  BY DEF Host, f
<1> DEFINE g == WithLine(f, "Host", <<"x">>)
<1>4. /\ g.method = f.method /\ g.url = f.url /\ IsText(g.hs) /\ Len(g.hs) = Len(f.hs) + 1
      /\ g.hs[Len(f.hs) + 1].key = "Host" /\ g.hs[Len(f.hs) + 1].value = <<"x">>
  <2>1. IsText(f.hs)
    BY <1>2
  <2> QED BY <2>1, LineAppended
<1> HIDE DEF g
<1>5. Len(f.hs) + 1 = 1
  BY <1>2
<1>6. Len(g.hs) = 1 /\ g.hs[1].key = "Host" /\ g.hs[1].value = <<"x">>
  BY <1>4, <1>5
<1> QED BY <1>1, <1>3, <1>4, <1>6 DEF g

\* and that it is one.
LEMMA HostLineIs ==
  ASSUME NEW method \in Methods, NEW url, IsText(url), \A i \in 1..Len(url) : url[i] \notin {SP, LF}
  PROVE  HeadOver(RequestLine(method, url) \o HeaderLine("Host", <<"x">>), Host(method, url))
<1> DEFINE h == RequestLine(method, url)
           f == NoLine(method, url)
<1>1. HeadOver(h, f)
  BY HeadBegins
<1>2. f.hs = <<>>
  BY DEF NoLine
<1> HIDE DEF h, f
<1>3. /\ IsText(<<"x">>) /\ Len(<<"x">>) = 1 /\ <<"x">>[1] = "x" /\ \A i \in 1..1 : i = 1
      /\ Len(f.hs) = 0 /\ 1..0 = {}
  BY <1>2, Single
<1>4. Writable("Host", <<"x">>) /\ \A i \in 1..Len(<<"x">>) : <<"x">>[i] # LF
  BY <1>3 DEF Writable, COLON, CR, LF
<1>5. HeadOver(h \o HeaderLine("Host", <<"x">>), WithLine(f, "Host", <<"x">>))
  BY <1>1, <1>3, <1>4, HeadGrows
<1> QED BY <1>5 DEF h, f, Host

\* The head of a message: what follows the line of the host.
LEMMA HeadOfIs ==
  ASSUME NEW method, NEW url, IsText(url), NEW headers, IsText(headers)
  PROVE  LET h == RequestLine(method, url) \o HeaderLine("Host", <<"x">>) IN
         IsText(h) /\ HeadOf(method, url, headers) = h \o headers \o CRLF
<1>1. IsText(RequestLine(method, url)) /\ IsText(HeaderLine("Host", <<"x">>))
  BY RequestLineIs, HeaderLineIs, Single
<1>2. IsText(RequestLine(method, url) \o HeaderLine("Host", <<"x">>))
  BY <1>1, Joined
<1> QED BY <1>2 DEF HeadOf, RequestLine

(***************************************************************************)
(* The messages.                                                            *)
(***************************************************************************)

\* A GET of this URL is understood as q.
GetMeans(url, keep, q) ==
  \A r : r.method = "GET" /\ r.url = url /\ r.keepAlive = keep => Understood(r) = q

\* A POST of this form is understood as q.
PostMeans(url, type, body, q) ==
  \A r : r.method = "POST" /\ r.url = url /\ r.keepAlive = TRUE
           /\ r.headers[<<"Content-Type">>] = type /\ r.body = body => Understood(r) = q

\* The names in the headers of the first j lines.
LEMMA HeaderNames ==
  \A hs, j, x : x \in DOMAIN HeadersOf(hs, j) <=> \E i \in 1..j : x = <<hs[i].key>>
BY DEF HeadersOf

\* A message without a Content-Length.
LEMMA NoLength ==
  ASSUME NEW h, NEW f, HeadOver(h, f), \A i \in 1..Len(f.hs) : f.hs[i].key # "Content-Length"
  PROVE  /\ \A i \in 1..Len(f.hs) : ~Throwing(f.hs[i])
         /\ <<"Content-Length">> \notin DOMAIN HeadersOf(f.hs, Len(f.hs))
         /\ LengthOf(HeadersOf(f.hs, Len(f.hs))) = 0
<1>3. <<"Content-Length">> \notin DOMAIN HeadersOf(f.hs, Len(f.hs))
  <2> SUFFICES ASSUME NEW i \in 1..Len(f.hs), <<"Content-Length">> = <<f.hs[i].key>> PROVE FALSE
    BY HeaderNames
  <2>1. f.hs[i].key = "Content-Length"
    BY SameWord
  <2> QED BY <2>1
<1> QED BY <1>3 DEF Throwing, LengthOf

\* A head without a Content-Length is a message,
LEMMA GetMade ==
  ASSUME NEW h, NEW f, HeadOver(h, f), Len(f.hs) # 0, f.method = "GET",
         \A i \in 1..Len(f.hs) : f.hs[i].key # "Content-Length",
         NEW m, m.head = h \o CRLF, m.body = <<>>, m.meant.code = 0,
         GetMeans(f.url, KeepOf(HeadersOf(f.hs, Len(f.hs))), m.meant.request)
  PROVE  Framed(m, f)
<1>1. IsText(m.body)
  BY Single
<1>2. EndMeant(m, f)
  BY NoLength DEF EndMeant
<1>3. Frame(m, f) /\ LinesEnd(m, f)
  BY <1>1, <1>2, FrameEnded
<1>4. AsMeant(m, f)
  BY DEF AsMeant, Holds, GetMeans
<1> QED BY <1>3, <1>4 DEF Framed, LinesEnd

\* A message that has an error.
LEMMA ErrorMade ==
  ASSUME NEW m, NEW f, Frame(m, f) /\ LinesEnd(m, f), m.meant.code # 0
  PROVE  Framed(m, f)
BY DEF Framed, LinesEnd, AsMeant

\* so that Get makes messages that are understood as meant.
LEMMA GetFramed ==
  ASSUME NEW url, IsText(url), \A i \in 1..Len(url) : url[i] \notin {SP, LF}, NEW close \in BOOLEAN,
         NEW meant, meant.code = 0, GetMeans(url, ~close, meant.request)
  PROVE  \E f : Framed(Get(url, close, meant), f)
<1> DEFINE h == RequestLine("GET", url) \o HeaderLine("Host", <<"x">>)
           f == Host("GET", url)
           m == Get(url, close, meant)
           headers == IF close THEN HeaderLine("Connection", <<"close">>) ELSE <<>>
<1>1. "GET" \in Methods
  BY DEF Methods
<1>2. HeadOver(h, f)
  BY <1>1, HostLineIs
<1>3. /\ f.method = "GET" /\ f.url = url /\ IsText(f.hs) /\ Len(f.hs) = 1
      /\ f.hs[1].key = "Host" /\ f.hs[1].value = <<"x">>
  BY HostIs
<1>4. m.head = HeadOf("GET", url, headers) /\ m.body = <<>> /\ m.meant = meant
  BY DEF Get, Message
<1>5. IsText(headers) /\ IsText(h)
  <2>1. IsText(<<"close">>) /\ IsText(<<>>)
    BY Single
  <2>2. IsText(HeaderLine("Connection", <<"close">>))
    BY <2>1, HeaderLineIs
  <2> QED BY <1>2, <2>1, <2>2 DEF HeadOver
<1>6. m.head = h \o headers \o CRLF
  <2>1. IsText(headers)
    BY <1>5
  <2> HIDE DEF headers
  <2>2. HeadOf("GET", url, headers) = h \o headers \o CRLF
    BY <2>1, HeadOfIs
  <2> HIDE DEF h, m
  <2> QED BY <1>4, <2>2
<1>7. CASE ~close
  <2>1. h \o headers = h
    BY <1>5, <1>7, JoinedEmpty
  <2> HIDE DEF h, f, m, headers
  <2>2. m.head = h \o CRLF
    BY <1>6, <2>1
  <2>3. \A i \in 1..Len(f.hs) : i = 1
    BY <1>3
  <2>4. \A i \in 1..Len(f.hs) : f.hs[i].key = "Host"
    BY <1>3, <2>3
  <2>5. <<"Connection">> \notin DOMAIN HeadersOf(f.hs, Len(f.hs))
    <3>1. <<"Connection">> # <<"Host">>
      BY SameWord
    <3> QED BY <2>4, <3>1, HeaderNames
  <2>6. KeepOf(HeadersOf(f.hs, Len(f.hs))) = TRUE
    BY <2>5 DEF KeepOf
  <2>7. Len(f.hs) # 0 /\ \A i \in 1..Len(f.hs) : f.hs[i].key # "Content-Length"
    BY <1>3, <2>4
  <2>8. GetMeans(f.url, KeepOf(HeadersOf(f.hs, Len(f.hs))), m.meant.request) /\ m.meant.code = 0
    BY <1>3, <1>4, <1>7, <2>6
  <2>9. Framed(m, f)
    BY <1>2, <1>3, <1>4, <2>2, <2>7, <2>8, GetMade
  <2> QED BY <2>9 DEF m
<1>8. CASE close
  <2> DEFINE g == WithLine(f, "Connection", <<"close">>)
             k == h \o headers
  <2>1. IsText(<<"close">>) /\ Len(<<"close">>) = 1 /\ <<"close">>[1] = "close" /\ \A i \in 1..1 : i = 1
    BY Single
  <2>2. Writable("Connection", <<"close">>) /\ \A i \in 1..Len(<<"close">>) : <<"close">>[i] # LF
    BY <2>1 DEF Writable, COLON, CR, LF
  <2> HIDE DEF h, f, m
  <2>3. \A i \in 1..Len(f.hs) : i = 1
    BY <1>3
  <2>4. \A i \in 1..Len(f.hs) : f.hs[i].key # "Connection"
    BY <1>3, <2>3
  <2>5. HeadOver(h \o HeaderLine("Connection", <<"close">>), g)
    BY <1>2, <2>1, <2>2, <2>4, HeadGrows
  <2>6. HeadOver(k, g)
    BY <1>8, <2>5
  <2>7. /\ g.method = f.method /\ g.url = f.url /\ IsText(g.hs) /\ Len(g.hs) = Len(f.hs) + 1
        /\ \A i \in 1..Len(f.hs) : g.hs[i] = f.hs[i]
        /\ g.hs[Len(f.hs) + 1].key = "Connection" /\ g.hs[Len(f.hs) + 1].value = <<"close">>
    <3>1. IsText(f.hs)
      BY <1>3
    <3> QED BY <3>1, LineAppended
  <2> HIDE DEF g, k, headers
  <2>8. Len(f.hs) + 1 = 2 /\ 1 \in 1..Len(f.hs)
    BY <1>3
  <2>9. /\ Len(g.hs) = 2 /\ g.hs[1].key = "Host" /\ g.hs[2].key = "Connection" /\ g.hs[2].value = <<"close">>
    BY <1>3, <2>7, <2>8
  <2>10. \A i \in 1..Len(g.hs) : i = 1 \/ i = 2
    BY <2>9
  <2>11. KeepOf(HeadersOf(g.hs, Len(g.hs))) = FALSE
    <3>1. Lines(g.hs) /\ Len(g.hs) \in 0..Len(g.hs) /\ 2 \in 1..Len(g.hs)
      BY <2>6, <2>9 DEF HeadOver
    <3>2. \A i \in 1..Len(g.hs) : HeadersOf(g.hs, Len(g.hs))[<<g.hs[i].key>>] = g.hs[i].value
      BY <3>1, HeaderOf
    <3>3. HeadersOf(g.hs, Len(g.hs))[<<g.hs[2].key>>] = g.hs[2].value
      BY <3>1, <3>2
    <3>4. <<"Connection">> \in DOMAIN HeadersOf(g.hs, Len(g.hs))
      BY <2>9, <3>1, HeaderNames
    <3> QED BY <2>9, <3>3, <3>4 DEF KeepOf
  <2>12. Len(g.hs) # 0 /\ \A i \in 1..Len(g.hs) : g.hs[i].key # "Content-Length"
    BY <2>9, <2>10
  <2>13. GetMeans(g.url, KeepOf(HeadersOf(g.hs, Len(g.hs))), m.meant.request) /\ m.meant.code = 0
    BY <1>3, <1>4, <1>8, <2>7, <2>11
  <2>14. g.method = "GET" /\ m.head = k \o CRLF
    BY <1>3, <1>6, <2>7 DEF k
  <2>15. Framed(m, g)
    BY <1>4, <2>6, <2>12, <2>13, <2>14, GetMade
  <2> QED BY <2>15 DEF m
<1> QED BY <1>7, <1>8

\* A value that can be written on a header line.
Value(v) == IsText(v) /\ Len(v) # 0 /\ \A i \in 1..Len(v) : v[i] \notin {CR, LF}

\* What stoi reads can be written on a header line.
Words == \A v \in DOMAIN IntOf : Value(v)

\* A value without line ends is written on a line.
LEMMA WritableIs ==
  ASSUME NEW key, key \notin {COLON, CR, LF}, NEW v, Value(v)
  PROVE  Writable(key, v) /\ (\A i \in 1..Len(v) : v[i] # LF) /\ IsText(HeaderLine(key, v))
BY HeaderLineIs DEF Value, Writable

\* The lines of a form.
LEMMA PostLinesAre ==
  ASSUME NEW path, path \notin {SP, LF}, NEW type, Value(type), NEW length, Value(length)
  PROVE  LET f == PostLines(path, type, length)
             h == RequestLine("POST", <<"/", path>>) \o HeaderLine("Host", <<"x">>)
         IN  /\ f.method = "POST" /\ f.url = <<"/", path>> /\ Len(f.hs) = 3
             /\ f.hs[1].key = "Host" /\ f.hs[2].key = "Content-Type" /\ f.hs[2].value = type
             /\ f.hs[3].key = "Content-Length" /\ f.hs[3].value = length
             /\ HeadOver(h \o HeaderLine("Content-Type", type) \o HeaderLine("Content-Length", length), f)
<1> DEFINE h == RequestLine("POST", <<"/", path>>) \o HeaderLine("Host", <<"x">>)
           f == Host("POST", <<"/", path>>)
           g == WithLine(f, "Content-Type", type)
           k == WithLine(g, "Content-Length", length)
           h1 == h \o HeaderLine("Content-Type", type)
           h2 == h1 \o HeaderLine("Content-Length", length)
<1>1. "POST" \in Methods /\ IsText(<<"/", path>>) /\ \A i \in 1..Len(<<"/", path>>) : <<"/", path>>[i] \notin {SP, LF}
  <2> DEFINE u == <<"/", path>>
  <2>1. IsText(u) /\ Len(u) = 2 /\ u[1] = "/" /\ u[2] = path /\ \A i \in 1..2 : i = 1 \/ i = 2
    BY Single
  <2>2. "/" \notin {SP, LF}
    BY DEF SP, LF
  <2> HIDE DEF u
  <2>3. \A i \in 1..Len(u) : u[i] \notin {SP, LF}
    BY <2>1, <2>2
  <2> QED BY <2>1, <2>3 DEF Methods, u
<1>2. HeadOver(h, f)
  BY <1>1, HostLineIs
<1>3. /\ f.method = "POST" /\ f.url = <<"/", path>> /\ IsText(f.hs) /\ Len(f.hs) = 1 /\ f.hs[1].key = "Host"
  BY HostIs
<1>4. /\ Writable("Content-Type", type) /\ (\A i \in 1..Len(type) : type[i] # LF)
      /\ Writable("Content-Length", length) /\ (\A i \in 1..Len(length) : length[i] # LF)
  <2>1. "Content-Type" \notin {COLON, CR, LF} /\ "Content-Length" \notin {COLON, CR, LF}
    BY DEF COLON, CR, LF
  <2> QED BY <2>1, WritableIs
<1> HIDE DEF h, f
<1>5. \A i \in 1..Len(f.hs) : f.hs[i].key # "Content-Type"
  <2>1. \A i \in 1..Len(f.hs) : i = 1
    BY <1>3
  <2> QED BY <1>3, <2>1
<1>6. HeadOver(h1, g)
  BY <1>2, <1>4, <1>5, HeadGrows
<1>7. /\ g.method = "POST" /\ g.url = <<"/", path>> /\ IsText(g.hs) /\ Len(g.hs) = 2 /\ g.hs[1].key = "Host"
      /\ g.hs[2].key = "Content-Type" /\ g.hs[2].value = type
  <2>1. IsText(f.hs)
    BY <1>3
  <2>2. /\ g.method = f.method /\ g.url = f.url /\ IsText(g.hs) /\ Len(g.hs) = Len(f.hs) + 1
        /\ \A i \in 1..Len(f.hs) : g.hs[i] = f.hs[i]
        /\ g.hs[Len(f.hs) + 1].key = "Content-Type" /\ g.hs[Len(f.hs) + 1].value = type
    BY <2>1, LineAppended
  <2>3. Len(f.hs) + 1 = 2 /\ 1 \in 1..Len(f.hs)
    BY <1>3
  <2> HIDE DEF g
  <2> QED BY <1>3, <2>2, <2>3
<1> HIDE DEF g, h1
<1>8. \A i \in 1..Len(g.hs) : g.hs[i].key # "Content-Length"
  <2>1. \A i \in 1..Len(g.hs) : i = 1 \/ i = 2
    BY <1>7
  <2> QED BY <1>7, <2>1
<1>9. HeadOver(h2, k)
  BY <1>4, <1>6, <1>8, HeadGrows
<1>10. /\ k.method = "POST" /\ k.url = <<"/", path>> /\ Len(k.hs) = 3 /\ k.hs[1].key = "Host"
       /\ k.hs[2].key = "Content-Type" /\ k.hs[2].value = type
       /\ k.hs[3].key = "Content-Length" /\ k.hs[3].value = length
  <2>1. IsText(g.hs)
    BY <1>7
  <2>2. /\ k.method = g.method /\ k.url = g.url /\ IsText(k.hs) /\ Len(k.hs) = Len(g.hs) + 1
        /\ \A i \in 1..Len(g.hs) : k.hs[i] = g.hs[i]
        /\ k.hs[Len(g.hs) + 1].key = "Content-Length" /\ k.hs[Len(g.hs) + 1].value = length
    BY <2>1, LineAppended
  <2>3. Len(g.hs) + 1 = 3 /\ 1 \in 1..Len(g.hs) /\ 2 \in 1..Len(g.hs)
    BY <1>7
  <2> HIDE DEF k
  <2> QED BY <1>7, <2>2, <2>3
<1>11. k = PostLines(path, type, length)
  BY DEF k, g, f, PostLines
<1> HIDE DEF k, h2
<1> QED BY <1>9, <1>10, <1>11 DEF h2, h1, h

\* Post makes messages that are understood as meant.
LEMMA PostFramed ==
  ASSUME Words, NEW path, path \notin {SP, LF}, NEW type, Value(type), NEW body, IsText(body), Len(body) # 0,
         \E v \in DOMAIN IntOf : IntOf[v] = Len(body),
         NEW meant, meant.code = 0, PostMeans(<<"/", path>>, type, body, meant.request)
  PROVE  \E f : Framed(Post(path, type, body, meant), f)
<1> DEFINE m == Post(path, type, body, meant)
           length == CHOOSE v \in DOMAIN IntOf : IntOf[v] = Len(body)
           f == PostLines(path, type, length)
           h == RequestLine("POST", <<"/", path>>) \o HeaderLine("Host", <<"x">>)
           t == HeaderLine("Content-Type", type)
           l == HeaderLine("Content-Length", length)
           h2 == h \o t \o l
<1>1. length \in DOMAIN IntOf /\ IntOf[length] = Len(body)
  OBVIOUS
<1>2. m.head = HeadOf("POST", <<"/", path>>, t \o l) /\ m.body = body /\ m.meant = meant
  BY DEF Post, Message
<1> HIDE DEF length
<1>3. Value(length)
  BY <1>1 DEF Words
<1>4. IsText(t) /\ IsText(l)
  BY <1>3, HeaderLineIs DEF Value
<1>5. IsText(t \o l) /\ IsText(<<"/", path>>)
  BY <1>4, Joined, Single
<1> HIDE DEF t, l, m
<1>6. IsText(h) /\ m.head = h \o (t \o l) \o CRLF
  <2>1. IsText(h) /\ HeadOf("POST", <<"/", path>>, t \o l) = h \o (t \o l) \o CRLF
    BY <1>5, HeadOfIs
  <2> HIDE DEF h
  <2> QED BY <1>2, <2>1
<1>7. /\ f.method = "POST" /\ f.url = <<"/", path>> /\ Len(f.hs) = 3
      /\ f.hs[1].key = "Host" /\ f.hs[2].key = "Content-Type" /\ f.hs[2].value = type
      /\ f.hs[3].key = "Content-Length" /\ f.hs[3].value = length
      /\ HeadOver(h2, f)
  BY <1>3, PostLinesAre DEF t, l
<1> HIDE DEF f, h
<1>8. m.head = h2 \o CRLF
  BY <1>4, <1>6, JoinedTwice
<1> HIDE DEF h2
<1> DEFINE hd == HeadersOf(f.hs, Len(f.hs))
<1>9. Lines(f.hs) /\ Len(f.hs) \in 0..Len(f.hs) /\ 2 \in 1..Len(f.hs) /\ 3 \in 1..Len(f.hs)
  BY <1>7 DEF HeadOver
<1>10. \A i \in 1..Len(f.hs) : hd[<<f.hs[i].key>>] = f.hs[i].value /\ <<f.hs[i].key>> \in DOMAIN hd
  BY <1>9, HeaderOf, HeaderNames
<1> HIDE DEF hd
<1>11. /\ hd[<<"Content-Type">>] = type /\ hd[<<"Content-Length">>] = length
       /\ <<"Content-Length">> \in DOMAIN hd
  <2>1. hd[<<f.hs[2].key>>] = f.hs[2].value
    BY <1>9, <1>10
  <2>2. hd[<<f.hs[3].key>>] = f.hs[3].value /\ <<f.hs[3].key>> \in DOMAIN hd
    BY <1>9, <1>10
  <2> QED BY <1>7, <2>1, <2>2
<1>12. KeepOf(hd) = TRUE
  <2>1. <<"Connection">> \notin DOMAIN hd
    <3> SUFFICES ASSUME NEW i \in 1..Len(f.hs), <<"Connection">> = <<f.hs[i].key>> PROVE FALSE
      BY HeaderNames DEF hd
    <3>1. f.hs[i].key = "Connection"
      BY SameWord
    <3>2. i = 1 \/ i = 2 \/ i = 3
      BY <1>7
    <3> QED BY <1>7, <3>1, <3>2
  <2> QED BY <2>1 DEF KeepOf
<1>13. LengthOf(hd) = Len(body)
  BY <1>1, <1>11 DEF LengthOf
<1>14. \A i \in 1..Len(f.hs) : ~Throwing(f.hs[i])
  <2> SUFFICES ASSUME NEW i \in 1..Len(f.hs), Throwing(f.hs[i]) PROVE FALSE
    OBVIOUS
  <2>1. i = 1 \/ i = 2 \/ i = 3
    BY <1>7
  <2> QED BY <1>1, <1>7, <2>1 DEF Throwing
<1>15. EndMeant(m, f)
  BY <1>2, <1>13, <1>14 DEF EndMeant, hd
<1>16. Frame(m, f) /\ LinesEnd(m, f)
  <2>1. Len(f.hs) # 0 /\ IsText(m.body)
    BY <1>2, <1>7
  <2> QED BY <1>7, <1>8, <1>15, <2>1, FrameEnded
<1>17. AsMeant(m, f)
  <2> SUFFICES ASSUME NEW r, Holds(r, f.method, f.url, hd), r.body = m.body
               PROVE  Understood(r) = m.meant.request
    BY DEF AsMeant, hd
  <2>1. /\ r.method = "POST" /\ r.url = <<"/", path>> /\ r.keepAlive = TRUE
        /\ r.headers[<<"Content-Type">>] = type /\ r.body = body
    BY <1>2, <1>7, <1>11, <1>12 DEF Holds
  <2> QED BY <1>2, <2>1 DEF PostMeans
<1>18. Framed(m, f)
  BY <1>16, <1>17 DEF Framed, LinesEnd
<1> QED BY <1>18 DEF m

\* Everything the messages with an error have: the line of the host only.
LEMMA HostOnly ==
  ASSUME NEW method \in Methods, NEW url, IsText(url), \A i \in 1..Len(url) : url[i] \notin {SP, LF}
  PROVE  LET f == Host(method, url) IN
         /\ HeadOver(RequestLine(method, url) \o HeaderLine("Host", <<"x">>), f)
         /\ f.method = method /\ f.url = url /\ IsText(f.hs) /\ Len(f.hs) = 1
         /\ \A i \in 1..Len(f.hs) : f.hs[i].key = "Host"
<1> DEFINE f == Host(method, url)
<1>1. HeadOver(RequestLine(method, url) \o HeaderLine("Host", <<"x">>), f)
  BY HostLineIs
<1>2. f.method = method /\ f.url = url /\ IsText(f.hs) /\ Len(f.hs) = 1 /\ f.hs[1].key = "Host"
  BY HostIs
<1> HIDE DEF f
<1>3. \A i \in 1..Len(f.hs) : i = 1
  BY <1>2
<1>4. \A i \in 1..Len(f.hs) : f.hs[i].key = "Host"
  BY <1>2, <1>3
<1> QED BY <1>1, <1>2, <1>4 DEF f

\* The URLs of the messages with an error.
LEMMA Urls ==
  /\ IsText(<<"/">>) /\ \A i \in 1..Len(<<"/">>) : <<"/">>[i] \notin {SP, LF}
  /\ IsText(<<"/", "login">>) /\ \A i \in 1..Len(<<"/", "login">>) : <<"/", "login">>[i] \notin {SP, LF}
<1> DEFINE u == <<"/">>
           v == <<"/", "login">>
<1>1. /\ IsText(u) /\ Len(u) = 1 /\ u[1] = "/" /\ (\A i \in 1..1 : i = 1)
      /\ IsText(v) /\ Len(v) = 2 /\ v[1] = "/" /\ v[2] = "login" /\ \A i \in 1..2 : i = 1 \/ i = 2
  BY Single
<1>2. "/" \notin {SP, LF} /\ "login" \notin {SP, LF}
  BY DEF SP, LF
<1> HIDE DEF u, v
<1>3. (\A i \in 1..Len(u) : u[i] \notin {SP, LF}) /\ (\A i \in 1..Len(v) : v[i] \notin {SP, LF})
  BY <1>1, <1>2
<1> QED BY <1>1, <1>3 DEF u, v

\* stoi throws for none of the lines.
NoThrow(hs) == \A i \in 1..Len(hs) : ~Throwing(hs[i])

\* A head that ends with a broken line is answered with its error,
LEMMA BrokenMade ==
  ASSUME NEW h, NEW f, HeadOver(h, f), Len(f.hs) # 0, NoThrow(f.hs), NEW m, m.head = h \o BrokenEnd,
         m.body = <<>>, m.meant.code = 400
  PROVE  Framed(m, f)
<1>1. IsText(m.body)
  BY Single
<1>2. \A i \in 1..Len(f.hs) : ~Throwing(f.hs[i])
  BY DEF NoThrow
<1>3. IsBrokenEnd(BrokenEnd)
  BY BrokenEndIs
<1>4. Frame(m, f) /\ LinesEnd(m, f)
  BY <1>1, <1>2, <1>3, FrameBroken
<1>5. m.meant.code # 0
  OBVIOUS
<1> QED BY <1>4, <1>5, ErrorMade

\* such as that of a malformed wish;
LEMMA MalformedFramed ==
  ASSUME NEW m, m = Message(HeadOf("GET", <<"/">>, <<"Connection", ":", "close">> \o CRLF), <<>>, Refused(400))
  PROVE  \E f : Framed(m, f)
<1> DEFINE h == RequestLine("GET", <<"/">>) \o HeaderLine("Host", <<"x">>)
           f == Host("GET", <<"/">>)
           a == <<"Connection", ":", "close">>
<1>1. "GET" \in Methods
  BY DEF Methods
<1>2. /\ HeadOver(h, f) /\ Len(f.hs) = 1 /\ \A i \in 1..Len(f.hs) : f.hs[i].key = "Host"
  BY <1>1, Urls, HostOnly
<1>3. IsText(a) /\ IsText(CRLF)
  BY Single DEF CRLF
<1>4. m.head = HeadOf("GET", <<"/">>, a \o CRLF) /\ m.body = <<>> /\ m.meant.code = 400
  BY DEF Message, Refused
<1> HIDE DEF a
<1>5. IsText(a \o CRLF)
  BY <1>3, Joined
<1>6. IsText(h) /\ HeadOf("GET", <<"/">>, a \o CRLF) = h \o (a \o CRLF) \o CRLF
  BY <1>5, Urls, HeadOfIs
<1> HIDE DEF h, f
<1>7. m.head = h \o (a \o CRLF \o CRLF)
  <2> DEFINE b == a \o CRLF
  <2>1. IsText(b) /\ m.head = h \o b \o CRLF
    BY <1>4, <1>5, <1>6
  <2> HIDE DEF b
  <2>2. h \o (b \o CRLF) = h \o b \o CRLF
    BY ONLY <1>3, <1>6, <2>1, JoinedTwice
  <2> QED BY <2>1, <2>2 DEF b
<1>8. a \o CRLF \o CRLF = BrokenEnd
  BY DEF a, BrokenEnd
<1>9. m.head = h \o BrokenEnd
  BY <1>7, <1>8
<1>10. m.body = <<>> /\ m.meant.code = 400 /\ Len(f.hs) # 0
  BY <1>2, <1>4
<1>10a. NoThrow(f.hs)
  BY <1>2 DEF NoThrow, Throwing
<1>11. Framed(m, f)
  BY <1>2, <1>9, <1>10, <1>10a, BrokenMade
<1> QED BY <1>11

\* a POST without a length is refused
LEMMA UnlimitedFramed ==
  ASSUME NEW m, m = Message(HeadOf("POST", <<"/", "login">>, <<>>), <<>>, Refused(400))
  PROVE  \E f : Framed(m, f)
<1> DEFINE h == RequestLine("POST", <<"/", "login">>) \o HeaderLine("Host", <<"x">>)
           f == Host("POST", <<"/", "login">>)
<1>1. "POST" \in Methods /\ IsText(<<>>)
  BY Single DEF Methods
<1>2. /\ HeadOver(h, f) /\ f.method = "POST" /\ Len(f.hs) = 1
      /\ \A i \in 1..Len(f.hs) : f.hs[i].key = "Host"
  BY <1>1, Urls, HostOnly
<1>3. m.head = HeadOf("POST", <<"/", "login">>, <<>>) /\ m.body = <<>> /\ m.meant.code = 400
  BY DEF Message, Refused
<1>4. IsText(h) /\ HeadOf("POST", <<"/", "login">>, <<>>) = h \o <<>> \o CRLF
  BY <1>1, Urls, HeadOfIs
<1> HIDE DEF h, f
<1>5. m.head = h \o CRLF
  BY <1>3, <1>4, JoinedEmpty
<1>6. \A i \in 1..Len(f.hs) : f.hs[i].key # "Content-Length"
  BY <1>2
<1>7. /\ \A i \in 1..Len(f.hs) : ~Throwing(f.hs[i])
      /\ <<"Content-Length">> \notin DOMAIN HeadersOf(f.hs, Len(f.hs))
      /\ LengthOf(HeadersOf(f.hs, Len(f.hs))) = 0
  BY <1>2, <1>6, NoLength
<1>8. EndMeant(m, f)
  BY <1>2, <1>3, <1>7 DEF EndMeant
<1>9. Len(f.hs) # 0 /\ IsText(m.body)
  BY <1>1, <1>2, <1>3
<1>10. Frame(m, f) /\ LinesEnd(m, f)
  BY <1>2, <1>5, <1>8, <1>9, FrameEnded
<1>11. Framed(m, f)
  BY <1>3, <1>10, ErrorMade
<1> QED BY <1>11

\* and stoi throws for a length that is no number.
LEMMA NoNumberFramed ==
  ASSUME <<"many">> \notin DOMAIN IntOf,
         NEW m, m = Message(HeadOf("POST", <<"/", "login">>, HeaderLine("Content-Length", <<"many">>)),
                            <<>>, Refused(-1))
  PROVE  \E f : Framed(m, f)
<1> DEFINE h == RequestLine("POST", <<"/", "login">>) \o HeaderLine("Host", <<"x">>)
           f == Host("POST", <<"/", "login">>)
           l == HeaderLine("Content-Length", <<"many">>)
           g == WithLine(f, "Content-Length", <<"many">>)
<1>1. "POST" \in Methods /\ IsText(<<>>)
  BY Single DEF Methods
<1>2. /\ HeadOver(h, f) /\ f.method = "POST" /\ IsText(f.hs) /\ Len(f.hs) = 1
      /\ \A i \in 1..Len(f.hs) : f.hs[i].key = "Host"
  BY <1>1, Urls, HostOnly
<1>3. Value(<<"many">>)
  <2>1. /\ IsText(<<"many">>) /\ Len(<<"many">>) = 1 /\ <<"many">>[1] = "many" /\ (\A i \in 1..1 : i = 1)
        /\ "many" \notin {CR, LF}
    BY Single DEF CR, LF
  <2> QED BY <2>1 DEF Value
<1>4. /\ Writable("Content-Length", <<"many">>) /\ (\A i \in 1..Len(<<"many">>) : <<"many">>[i] # LF)
      /\ IsText(l)
  <2>1. "Content-Length" \notin {COLON, CR, LF}
    BY DEF COLON, CR, LF
  <2> QED BY <1>3, <2>1, WritableIs
<1>5. m.head = HeadOf("POST", <<"/", "login">>, l) /\ m.body = <<>> /\ m.meant.code = -1
  BY DEF Message, Refused
<1> HIDE DEF l
<1>6. IsText(h) /\ HeadOf("POST", <<"/", "login">>, l) = h \o l \o CRLF
  BY <1>4, Urls, HeadOfIs
<1> HIDE DEF h, f
<1>7. \A i \in 1..Len(f.hs) : f.hs[i].key # "Content-Length"
  BY <1>2
<1>8. HeadOver(h \o l, g)
  BY <1>2, <1>4, <1>7, HeadGrows DEF l
<1>9. /\ Len(g.hs) = Len(f.hs) + 1
      /\ g.hs[Len(f.hs) + 1].key = "Content-Length" /\ g.hs[Len(f.hs) + 1].value = <<"many">>
  <2>1. IsText(f.hs)
    BY <1>2
  <2> QED BY <2>1, LineAppended
<1> HIDE DEF g
<1>10. Len(g.hs) = 2 /\ g.hs[2].key = "Content-Length" /\ g.hs[2].value = <<"many">> /\ 2 \in 1..Len(g.hs)
  <2>1. Len(f.hs) + 1 = 2
    BY <1>2
  <2> QED BY <1>9, <2>1
<1>11. Throwing(g.hs[2])
  BY <1>10 DEF Throwing
<1>12. EndMeant(m, g)
  BY <1>5, <1>10, <1>11 DEF EndMeant
<1>13. Len(g.hs) # 0 /\ IsText(m.body) /\ m.head = (h \o l) \o CRLF
  <2>1. Len(g.hs) # 0
    BY ONLY <1>10
  <2>2. IsText(m.body)
    BY <1>5, Single
  <2> QED BY <1>5, <1>6, <2>1, <2>2
<1> DEFINE h2 == h \o l
<1> HIDE DEF h2
<1>14. HeadOver(h2, g) /\ m.head = h2 \o CRLF
  BY <1>8, <1>13 DEF h2
<1>15. Frame(m, g) /\ LinesEnd(m, g)
  BY <1>12, <1>13, <1>14, FrameEnded
<1>16. m.meant.code # 0
  BY <1>5
<1>17. Framed(m, g)
  BY <1>15, <1>16, ErrorMade
<1> QED BY <1>17

(***************************************************************************)
(* The wishes.                                                             *)
(***************************************************************************)

\* The request that opens a file's link asks for that file: DecodeUrlPath gives the
\* name back that the page escaped twice (FileLink, UrlEncode, HtmlEscape).
LEMMA OpenMeans ==
  ASSUME NEW user, Name(user), NEW path, Name(path), Avoids(path, {"?", "%"}), NEW keep,
         NEW url, url = UrlOf(Unescape(FileLink(user, path)))
  PROVE  GetMeans(url, keep, Meant("GET", Opened(user, path), NoFields, NoFile, keep).request)
<1>1. IsText(url) /\ Avoids(url, {SP, LF, "?"}) /\ Decoded(url, "+") = Opened(user, path)
  BY OpenUrlIs
<1>2. Find(url, <<"?">>, 1) = 0
  <2>1. \A q \in 1..Len(url) : url[q] # "?"
    BY <1>1 DEF Avoids
  <2>2. 1 \in Nat \ {0}
    OBVIOUS
  <2> QED BY <1>1, <2>1, <2>2, FindSymbol
<1>3. DecodeUrlPath(url) = Opened(user, path) /\ ParseQueryString(url) = NoFields
  BY <1>1, <1>2 DEF DecodeUrlPath, Before, ParseQueryString
<1> SUFFICES ASSUME NEW r, r.method = "GET", r.url = url, r.keepAlive = keep
             PROVE  Understood(r) = Meant("GET", Opened(user, path), NoFields, NoFile, keep).request
  BY DEF GetMeans
<1> QED BY <1>3 DEF Understood, Meant

\* A link to a file is opened as meant.
LEMMA OpenFramed ==
  ASSUME NEW user, Name(user), NEW path, Name(path), Avoids(path, {"?", "%"}), NEW close \in BOOLEAN,
         NEW meant, meant = Meant("GET", Opened(user, path), NoFields, NoFile, ~close)
  PROVE  \E f : Framed(Get(UrlOf(Unescape(FileLink(user, path))), close, meant), f)
<1> DEFINE url == UrlOf(Unescape(FileLink(user, path)))
<1>1. IsText(url) /\ Avoids(url, {SP, LF, "?"})
  BY OpenUrlIs
<1>2. GetMeans(url, ~close, meant.request) /\ meant.code = 0
  BY OpenMeans DEF Meant
<1> HIDE DEF url
<1>3. \A i \in 1..Len(url) : url[i] \notin {SP, LF}
  BY <1>1 DEF Avoids
<1>4. \E f : Framed(Get(url, close, meant), f)
  BY <1>1, <1>2, <1>3, GetFramed
<1> QED BY <1>4 DEF url

\* A download or a delete is understood as meant.
LEMMA FormFramed ==
  ASSUME Words, NEW kind \in {"download", "delete"}, NEW user, Name(user), NEW path, Name(path),
         NEW body, body = UrlEncoded(FileFormFields(user, path)),
         \E v \in DOMAIN IntOf : IntOf[v] = Len(body), NEW fields,
         fields = WithField(WithField(NoFields, <<"path">>, path), <<"username">>, user)
  PROVE  \E f : Framed(Post(kind, FormType, body, Meant("POST", <<"/", kind>>, fields, NoFile, TRUE)), f)
<1> DEFINE meant == Meant("POST", <<"/", kind>>, fields, NoFile, TRUE)
<1>1. IsText(body) /\ Len(body) # 0 /\ ParseFormUrlEncoded(body) = fields
  BY FormBodyIs
<1>2. DecodeUrlPath(<<"/", kind>>) = <<"/", kind>>
  <2>1. kind \notin {"?", "%"}
    OBVIOUS
  <2> QED BY <2>1, PlainPath
<1>3. <<"/", kind>> # <<"/", "upload">>
  <2>1. <<"/", kind>>[2] = kind /\ <<"/", "upload">>[2] = "upload" /\ kind # "upload"
    BY Single
  <2> QED BY <2>1
<1>4. PostMeans(<<"/", kind>>, FormType, body, meant.request)
  <2>1. ASSUME NEW r, r.method = "POST", r.url = <<"/", kind>>, r.keepAlive = TRUE, r.body = body
        PROVE  Understood(r) = meant.request
    BY <1>1, <1>2, <1>3, <2>1 DEF Understood, Meant
  <2> HIDE DEF meant
  <2> QED BY <2>1 DEF PostMeans
<1>5. kind \notin {SP, LF} /\ Value(FormType)
  <2> DEFINE s == FormType
  <2>1. IsText(s) /\ Len(s) = 1 /\ s[1] = "application/x-www-form-urlencoded" /\ \A i \in 1..1 : i = 1
    BY Single DEF FormType
  <2> HIDE DEF s
  <2>2. Value(s)
    BY <2>1 DEF Value, CR, LF
  <2> QED BY <2>2 DEF s, SP, LF
<1>6. meant.code = 0
  BY DEF Meant
<1> HIDE DEF meant
<1>7. \E f : Framed(Post(kind, FormType, body, meant), f)
  BY <1>1, <1>4, <1>5, <1>6, PostFramed
<1> QED BY <1>7 DEF meant

\* The request that opens such a link is understood by its path and its fields.
LEMMA DirectoryMeans ==
  ASSUME NEW body, IsText(body), Len(body) # 0, NEW url, url = <<"/", "files", "?">> \o body, NEW keep,
         NEW fields, ParseFormUrlEncoded(body) = fields
  PROVE  IsText(url) /\ GetMeans(url, keep, Meant("GET", <<"/", "files">>, fields, NoFile, keep).request)
<1> DEFINE c == <<"/", "files", "?">>
           w == <<"/", "files">>
           meant == Meant("GET", w, fields, NoFile, keep)
<1>1. /\ IsText(c) /\ Len(c) = 3 /\ c[1] = "/" /\ c[2] = "files" /\ c[3] = "?" /\ \A q \in 1..2 : c[q] # "?"
  BY FilesBegins
<1>2. url = c \o body
  OBVIOUS
<1>3. IsText(w) /\ Len(w) = 2 /\ w[1] = "/" /\ w[2] = "files"
  BY Single
<1>4. DecodeUrlPath(w) = w /\ Find(w, <<"?">>, 1) = 0
  <2>1. "files" \notin {"?", "%"}
    OBVIOUS
  <2>2. \A q \in 1..2 : q = 1 \/ q = 2
    OBVIOUS
  <2>3. \A q \in 1..Len(w) : w[q] # "?"
    <3> HIDE DEF w
    <3> QED BY <1>3, <2>2
  <2>4. DecodeUrlPath(w) = w
    BY <2>1, PlainPath
  <2>5. IsText(w) /\ 1 \in Nat \ {0}
    BY <1>3
  <2> HIDE DEF w
  <2>6. Find(w, <<"?">>, 1) = 0
    BY <2>3, <2>5, FindSymbol
  <2> QED BY <2>4, <2>6
<1>5. Decoded(w, "+") = w
  <2> HIDE DEF w
  <2> QED BY <1>4 DEF DecodeUrlPath, Before
<1> HIDE DEF c, w
<1>6. /\ IsText(url) /\ Len(url) = Len(c) + Len(body)
      /\ \A i \in 1..Len(c) : url[i] = c[i]
      /\ Len(body) \in Nat
  <2>1. IsText(c) /\ IsText(body)
    BY <1>1
  <2>2. /\ IsText(c \o body) /\ Len(c \o body) = Len(c) + Len(body) /\ Len(body) \in Nat
        /\ \A i \in 1..Len(c) : (c \o body)[i] = c[i]
    BY <2>1, Joined
  <2> QED BY <1>2, <2>2
<1>7. Find(url, <<"?">>, 1) = 3
  <2>1. 3 \in 1..Len(url) /\ url[3] = "?" /\ \A q \in 1..(3 - 1) : url[q] # "?"
    <3>1. 3 \in 1..Len(c) /\ \A q \in 1..(3 - 1) : q \in 1..2 /\ q \in 1..Len(c)
      BY <1>1
    <3> QED BY <1>1, <1>6, <3>1
  <2> DEFINE k == 3
  <2>2. k \in 1..Len(url) /\ url[k] = "?" /\ \A q \in 1..(k - 1) : url[q] # "?"
    BY <2>1
  <2> HIDE DEF k
  <2>3. IsText(url) /\ 1 \in Nat \ {0}
    BY <1>6
  <2>4. Find(url, <<"?">>, 1) = k
    BY ONLY <2>2, <2>3, FindSymbol
  <2> QED BY <2>4 DEF k
<1>8. At(url, 4, body)
  <2>1. IsText(url) /\ IsText(c) /\ IsText(body) /\ 1 \in Nat
    BY <1>1, <1>6
  <2>2. At(url, 1, c \o body)
    BY <1>2, <2>1, AtItself
  <2>3. At(url, 1 + Len(c), body)
    BY <2>1, <2>2, AtJoined
  <2>4. 1 + Len(c) = 4
    BY <1>1
  <2> QED BY <2>3, <2>4
<1>9. From(url, 3 + 1) = body
  <2>1. SubSeq(url, 4, 4 + Len(body) - 1) = body
    BY <1>6, <1>8, 4 \in Nat \ {0}, AtIsPart
  <2>2. 4 + Len(body) - 1 = Len(url) /\ 3 + 1 = 4
    BY <1>1, <1>6
  <2> QED BY <2>1, <2>2 DEF From
<1>10. ParseQueryString(url) = fields
  <2>1. 3 # 0 /\ ~(3 >= Len(url))
    BY <1>1, <1>6
  <2> QED BY <1>7, <1>9, <2>1 DEF ParseQueryString
<1>11. SubSeq(url, 1, 3 - 1) = w
  <2>1. At(url, 1, w)
    <3>1. \A i \in 1..2 : i = 1 \/ i = 2
      OBVIOUS
    <3>2. url[1] = "/" /\ url[2] = "files" /\ 1 + 1 - 1 = 1 /\ 1 + 2 - 1 = 2
      <4>1. 1 \in 1..Len(c) /\ 2 \in 1..Len(c)
        BY <1>1
      <4> QED BY <1>1, <1>6, <4>1
    <3>3. 1 + Len(w) - 1 <= Len(url)
      BY <1>1, <1>3, <1>6
    <3>4. \A i \in 1..Len(w) : url[1 + i - 1] = w[i]
      BY <1>3, <3>1, <3>2
    <3> QED BY <3>3, <3>4 DEF At
  <2>2. SubSeq(url, 1, 1 + Len(w) - 1) = w
    BY <1>3, <1>6, <2>1, 1 \in Nat \ {0}, AtIsPart
  <2>3. 1 + Len(w) - 1 = 3 - 1
    BY <1>3
  <2> QED BY <2>2, <2>3
<1>12. DecodeUrlPath(url) = w
  BY <1>5, <1>7, <1>11, 3 # 0 DEF DecodeUrlPath, Before
<1>13. ASSUME NEW r, r.method = "GET", r.url = url, r.keepAlive = keep
       PROVE  Understood(r) = meant.request
  BY <1>10, <1>12, <1>13 DEF Understood, Meant
<1>14. GetMeans(url, keep, meant.request)
  <2> HIDE DEF meant
  <2> QED BY <1>13 DEF GetMeans
<1> QED BY <1>6, <1>14 DEF w

\* A link to a directory is opened as meant.
LEMMA ListFramed ==
  ASSUME NEW user, Name(user), NEW path, Name(path), NEW close \in BOOLEAN, NEW meant,
         meant = Meant("GET", <<"/", "files">>,
                       WithField(WithField(NoFields, <<"dir">>, path), <<"username">>, user), NoFile, ~close)
  PROVE  \E f : Framed(Get(DirectoryLink(user, path), close, meant), f)
<1> DEFINE url == DirectoryLink(user, path)
           fields == WithField(WithField(NoFields, <<"dir">>, path), <<"username">>, user)
           c == <<"/", "files", "?">>
<1>1. PICK body : /\ url = <<"/", "files", "?">> \o body /\ IsText(body) /\ Len(body) # 0 /\ Avoids(body, {SP, LF})
                  /\ ParseFormUrlEncoded(body)
                       = WithField(WithField(NoFields, <<"dir">>, path), <<"username">>, user)
  BY DirectoryLinkIs
<1> HIDE DEF url, fields
<1>2. meant = Meant("GET", <<"/", "files">>, fields, NoFile, ~close) /\ ParseFormUrlEncoded(body) = fields
  BY <1>1 DEF fields
<1>3. IsText(url) /\ GetMeans(url, ~close, meant.request)
  BY <1>1, <1>2, DirectoryMeans
<1>4. IsText(c) /\ Avoids(c, {SP, LF})
  BY FilesBegins
<1>5. Avoids(url, {SP, LF})
  <2>1. url = c \o body /\ IsText(body) /\ Avoids(body, {SP, LF})
    BY <1>1
  <2> HIDE DEF c
  <2>2. Avoids(c \o body, {SP, LF})
    BY <1>4, <2>1, AvoidsJoined
  <2> QED BY <2>1, <2>2
<1>6. \A i \in 1..Len(url) : url[i] \notin {SP, LF}
  BY <1>5 DEF Avoids
<1>7. meant.code = 0
  BY DEF Meant
<1>8. \E f : Framed(Get(url, close, meant), f)
  BY <1>3, <1>6, <1>7, GetFramed
<1> QED BY <1>8 DEF url

\* An upload is understood as meant.
LEMMA UploadFramed ==
  ASSUME Words, NEW user, Name(user), NEW dir, Name(dir), NEW file, FileText(file),
         NEW body, body = Multipart(UploadFormFields(user, dir), file),
         \E v \in DOMAIN IntOf : IntOf[v] = Len(body), NEW fields,
         fields = WithField(WithField(NoFields, <<"directory">>, dir), <<"username">>, user)
  PROVE  \E f : Framed(Post("upload", UploadType, body, Meant("POST", <<"/", "upload">>, fields, file, TRUE)), f)
<1> DEFINE meant == Meant("POST", <<"/", "upload">>, fields, file, TRUE)
<1>1. /\ IsText(body) /\ Len(body) # 0
      /\ Uploaded(ParseMultipart(UploadType, body).parts) = [fields |-> fields, file |-> file]
  BY MultipartTheorem
<1>2. DecodeUrlPath(<<"/", "upload">>) = <<"/", "upload">>
  BY PlainPath
<1>3. PostMeans(<<"/", "upload">>, UploadType, body, meant.request)
  <2>1. ASSUME NEW r, r.method = "POST", r.url = <<"/", "upload">>, r.keepAlive = TRUE,
               r.headers[<<"Content-Type">>] = UploadType, r.body = body
        PROVE  Understood(r) = meant.request
    <3> DEFINE path == DecodeUrlPath(r.url)
               u == Uploaded(ParseMultipart(r.headers[<<"Content-Type">>], r.body).parts)
    <3>1. u = [fields |-> fields, file |-> file]
      BY <1>1, <2>1
    <3>2. path = <<"/", "upload">>
      BY <1>2, <2>1
    <3>3. Understood(r) = [method |-> r.method, path |-> path, keep |-> r.keepAlive,
                           fields |-> IF r.method = "POST" /\ path = <<"/", "upload">> THEN u.fields
                                      ELSE IF r.method = "POST" THEN ParseFormUrlEncoded(r.body)
                                      ELSE ParseQueryString(r.url),
                           file |-> IF r.method = "POST" /\ path = <<"/", "upload">> THEN u.file ELSE NoFile]
      BY DEF Understood
    <3> HIDE DEF path, u
    <3>4. u.fields = fields /\ u.file = file
      BY <3>1
    <3>5. Understood(r) = [method |-> "POST", path |-> <<"/", "upload">>, keep |-> TRUE,
                           fields |-> fields, file |-> file]
      BY <2>1, <3>2, <3>3, <3>4
    <3> QED BY <3>5 DEF Meant
  <2> HIDE DEF meant
  <2> QED BY <2>1 DEF PostMeans
<1>4. "upload" \notin {SP, LF} /\ Value(UploadType)
  <2> DEFINE s == UploadType
  <2>1. /\ IsText(s) /\ Len(s) = 3 /\ s[1] = MultipartForm /\ s[2] = "boundary=" /\ s[3] = "XYZ"
        /\ \A i \in 1..3 : i = 1 \/ i = 2 \/ i = 3
    BY Single DEF UploadType
  <2>2. MultipartForm \notin {CR, LF}
    BY Zenon DEF MultipartForm, CR, LF
  <2>3. "boundary=" \notin {CR, LF} /\ "XYZ" \notin {CR, LF}
    BY DEF CR, LF
  <2> HIDE DEF s
  <2>4. Value(s)
    BY <2>1, <2>2, <2>3 DEF Value
  <2> QED BY <2>4 DEF s, SP, LF
<1>5. meant.code = 0
  BY DEF Meant
<1> HIDE DEF meant
<1>6. \E f : Framed(Post("upload", UploadType, body, meant), f)
  BY <1>1, <1>3, <1>4, <1>5, PostFramed
<1> QED BY <1>6 DEF meant

\* The numbers that stoi reads are words.
LEMMA NumbersAreWords == Words
<1> SUFFICES ASSUME NEW v \in DOMAIN IntOf PROVE Value(v)
  BY DEF Words
<1>1. v \in Seq(Bytes \ {CR, LF}) /\ v # <<>>
  BY NumbersAssumption
<1>2. IsText(v) /\ \A i \in 1..Len(v) : v[i] \notin {CR, LF}
  <2>1. IsText(v)
    BY <1>1, SeqIsText
  <2>2. \A i \in 1..Len(v) : v[i] \in Bytes \ {CR, LF}
    BY <1>1
  <2> QED BY <2>1, <2>2
<1>3. Len(v) # 0
  BY <1>1
<1> QED BY <1>2, <1>3 DEF Value

\* The names of a wish are names the pages can write,
LEMMA NameIs ==
  ASSUME NEW t \in Seq(NameBytes)
  PROVE  Name(t)
<1>1. IsText(t)
  BY SeqIsText
<1>2. \A i \in 1..Len(t) : t[i] \in NameBytes
  OBVIOUS
<1>3. Avoids(t, {CR, LF})
  BY <1>2 DEF Avoids, NameBytes
<1>4. Unescaped(t)
  BY <1>1, <1>2 DEF Unescaped, NameBytes
<1> QED BY <1>3, <1>4 DEF Name

\* and the file of one can be uploaded.
LEMMA FileIs ==
  ASSUME NEW wish, IsWish(wish), wish.kind = "upload"
  PROVE  FileText(wish.file)
<1> DEFINE name == wish.file.name
           content == wish.file.content
           z == CRLF \o Delimiter
<1>1. /\ wish.file \in [name : Seq(Bytes \ {Quote, CR}) \ {<<>>}, content : Seq(Bytes)]
      /\ ContentEnd(content \o (CRLF \o Delimiter), Delimiter, 1) > Len(content)
  BY DEF IsWish, Delimiter
<1>2. wish.file = [name |-> name, content |-> content]
  BY <1>1
<1>3. name \in Seq(Bytes \ {Quote, CR}) /\ name # <<>> /\ content \in Seq(Bytes)
  BY <1>1
<1> HIDE DEF name, content
<1>4. IsText(name) /\ IsText(content)
  BY <1>3, SeqIsText
<1>5. Avoids(name, {Quote, CR})
  <2>1. \A i \in 1..Len(name) : name[i] \in Bytes \ {Quote, CR}
    BY <1>3
  <2> QED BY <2>1 DEF Avoids
<1>6. IsText(z)
  BY PartEndIs
<1>7. Find(content \o z, z, 1) > Len(content)
  BY <1>1 DEF ContentEnd
<1> HIDE DEF z
<1>8. ASSUME NEW i \in 1..Len(content) PROVE ~At(content \o z, i, z)
  <2> DEFINE s == content \o z
  <2>1. IsText(s) /\ Len(content) \in Nat /\ 1 \in Nat \ {0}
    <3>1. IsText(content) /\ IsText(z)
      BY <1>4, <1>6
    <3> QED BY <3>1, Joined
  <2> HIDE DEF s
  <2> DEFINE p == Find(s, z, 1)
  <2>2. p > Len(content)
    BY <1>7 DEF s
  <2>3. p = 0 \/ (p \in Nat /\ \A q \in 1..p - 1 : ~At(s, q, z))
    BY <1>6, <2>1, FindTextWithin
  <2> HIDE DEF p
  <2>4. i \in 1..p - 1
    BY <2>1, <2>2, <2>3
  <2>5. p # 0
    BY <2>1, <2>2
  <2>6. ~At(s, i, z)
    BY <2>3, <2>4, <2>5
  <2> QED BY <2>6 DEF s
<1>9. Enclosed(content)
  BY <1>8 DEF Enclosed, z
<1> QED BY <1>2, <1>3, <1>4, <1>5, <1>9 DEF FileText, name, content

\* Every wish is understood as meant, or answered with its error.
LEMMA WishFramed ==
  ASSUME NEW wish, IsWish(wish), \E v \in DOMAIN IntOf : IntOf[v] = Len(Sent(wish).body)
  PROVE  \E f : Framed(Sent(wish), f)
<1> DEFINE user == wish.user
           path == wish.path
           close == wish.close
           kind == wish.kind
<1>1. Name(user) /\ Name(path) /\ close \in BOOLEAN
  BY NameIs DEF IsWish
<1>2. Words
  BY NumbersAreWords
<1>3. /\ kind \in {"open", "list", "download", "delete", "upload", "malformed", "unlimited", "no number"}
  BY DEF IsWish
<1>4. CASE kind = "open"
  <2> DEFINE meant == Meant("GET", Opened(user, path), NoFields, NoFile, ~close)
  <2>1. Sent(wish) = Get(UrlOf(Unescape(FileLink(user, path))), close, meant)
    BY <1>4 DEF Sent, Opened
  <2>2. Avoids(path, {"?", "%"})
    <3>1. path \in Seq(NameBytes \ {"?", "%"})
      BY <1>4 DEF IsWish
    <3>2. \A i \in 1..Len(path) : path[i] \in NameBytes \ {"?", "%"}
      BY <3>1
    <3> QED BY <3>2 DEF Avoids
  <2> HIDE DEF user, path, close
  <2>3. \E f : Framed(Get(UrlOf(Unescape(FileLink(user, path))), close, meant), f)
    BY <1>1, <2>2, OpenFramed
  <2> QED BY <2>1, <2>3
<1>5. CASE kind = "list"
  <2> DEFINE meant == Meant("GET", <<"/", "files">>,
                            WithField(WithField(NoFields, <<"dir">>, path), <<"username">>, user), NoFile, ~close)
  <2>1. Sent(wish) = Get(DirectoryLink(user, path), close, meant)
    BY <1>5 DEF Sent, FieldsOf
  <2> HIDE DEF user, path, close
  <2>2. \E f : Framed(Get(DirectoryLink(user, path), close, meant), f)
    BY <1>1, ListFramed
  <2> QED BY <2>1, <2>2
<1>6. CASE kind \in {"download", "delete"}
  <2> DEFINE body == UrlEncoded(FileFormFields(user, path))
             fields == WithField(WithField(NoFields, <<"path">>, path), <<"username">>, user)
             m == Post(kind, FormType, body, Meant("POST", <<"/", kind>>, fields, NoFile, TRUE))
  <2>1. Sent(wish) = m
    BY <1>6 DEF Sent, FieldsOf, FormType
  <2>2. m.body = body
    BY DEF Post, Message
  <2>3. \E v \in DOMAIN IntOf : IntOf[v] = Len(body)
    BY <2>1, <2>2
  <2> HIDE DEF user, path, close, kind
  <2>4. \E f : Framed(m, f)
    <3> HIDE DEF body, fields
    <3>1. body = UrlEncoded(FileFormFields(user, path))
      BY DEF body
    <3>2. fields = WithField(WithField(NoFields, <<"path">>, path), <<"username">>, user)
      BY DEF fields
    <3> QED BY <1>1, <1>2, <1>6, <2>3, <3>1, <3>2, FormFramed
  <2> QED BY <2>1, <2>4
<1>7. CASE kind = "upload"
  <2> DEFINE file == wish.file
             body == Multipart(UploadFormFields(user, path), file)
             fields == WithField(WithField(NoFields, <<"directory">>, path), <<"username">>, user)
             m == Post("upload", UploadType, body, Meant("POST", <<"/", "upload">>, fields, file, TRUE))
  <2>1. Sent(wish) = m
    BY <1>7 DEF Sent, FieldsOf, UploadType
  <2>2. m.body = body
    BY DEF Post, Message
  <2>3. \E v \in DOMAIN IntOf : IntOf[v] = Len(body)
    BY <2>1, <2>2
  <2>4. FileText(file)
    BY <1>7, FileIs
  <2> HIDE DEF user, path, close, kind, file
  <2>5. \E f : Framed(m, f)
    <3> HIDE DEF body, fields
    <3>1. body = Multipart(UploadFormFields(user, path), file)
      BY DEF body
    <3>2. fields = WithField(WithField(NoFields, <<"directory">>, path), <<"username">>, user)
      BY DEF fields
    <3> QED BY <1>1, <1>2, <2>3, <2>4, <3>1, <3>2, UploadFramed
  <2> QED BY <2>1, <2>5
<1>8. CASE kind = "malformed"
  <2>1. Sent(wish) = Message(HeadOf("GET", <<"/">>, <<"Connection", ":", "close">> \o CRLF), <<>>, Refused(400))
    BY <1>8 DEF Sent
  <2> QED BY <2>1, MalformedFramed
<1>9. CASE kind = "unlimited"
  <2>1. Sent(wish) = Message(HeadOf("POST", <<"/", "login">>, <<>>), <<>>, Refused(400))
    BY <1>9 DEF Sent
  <2> QED BY <2>1, UnlimitedFramed
<1>10. CASE kind = "no number"
  <2>1. Sent(wish) = Message(HeadOf("POST", <<"/", "login">>, HeaderLine("Content-Length", <<"many">>)),
                             <<>>, Refused(-1))
    BY <1>10 DEF Sent
  <2>2. <<"many">> \notin DOMAIN IntOf
    BY NumbersAssumption
  <2> QED BY <2>1, <2>2, NoNumberFramed
<1> QED BY <1>3, <1>4, <1>5, <1>6, <1>7, <1>8, <1>9, <1>10

(***************************************************************************)
(* The theorems.                                                            *)
(***************************************************************************)

\* The read buffer is a queue of bytes, for every size and every way in which the
\* stream arrives: moving down, growing, throwing and taking requests out lose and
\* repeat nothing, and the indices stay in the vector (Buffer.cpp,
\* HttpConnect.cpp:148-187, 242-272).
THEOREM BufferTheorem == Spec => BufferIsQueue
<1>1. Init => Queue!Init
  BY SizesAssumption DEF Init, BufferInit, PeekString, ReadableBytes, Queue!Init
<1>2. InputInv /\ [Next]_vars => [Queue!Put \/ Queue!Take]_<<received, PeekString>>
  BY NextInput DEF QueueStep
<1> QED
  BY <1>1, <1>2, InputInvariant, InputType, PTL DEF Spec, BufferIsQueue, Queue!Spec

\* A client is refused for the size of its request only when the bytes that wait
\* and two reads exceed the limit: one read that has no room even when the bytes
\* are moved, in a vector that is at most one read short of the limit (Buffer.cpp,
\* HttpConnect.cpp:148-157).
THEOREM RefusedTheorem == Spec => RefusedOnlyWhenFull
<1>1. ASSUME InputInv, ReadTooMuch
      PROVE  ReadableBytes + 2 * READ_BUFFER + kPrePendIndex > kMaxSize
  <2>1. Len(Chunk) \in 1..READ_BUFFER /\ Throws(Len(Chunk))
    BY <1>1, ChunkIs DEF InputInv, ReadTooMuch
  <2>2. /\ kPrePendIndex \in Nat /\ kMaxSize \in Nat /\ READ_BUFFER \in Nat
        /\ m_readIndex \in Nat /\ m_writeIndex \in Nat /\ Len(m_buffer) \in Nat
        /\ m_writeIndex <= Len(m_buffer)
    BY <1>1, SizesAssumption, ReadAssumption, LenProperties DEF InputInv, BufferTypeOK
  <2>3. /\ m_writeIndex + Len(Chunk) > kMaxSize
        /\ ~(m_readIndex + (Len(m_buffer) - m_writeIndex) - kPrePendIndex >= Len(Chunk))
    BY <2>1 DEF Throws, MovingMakesRoom, PrependableBytes, WritableBytes
  <2> QED BY <2>1, <2>2, <2>3 DEF ReadableBytes
<1>2. InputInv /\ [Next]_vars =>
        [ReadTooMuch => ReadableBytes + 2 * READ_BUFFER + kPrePendIndex > kMaxSize]_vars
  BY <1>1
<1> QED
  BY <1>2, InputInvariant, PTL DEF Spec, RefusedOnlyWhenFull

\* Whatever the clients wish for, in conversations of any length: up to the first
\* error each answer is what the request was meant to be, with its fields and
\* its file, or the error it deserves, or a refusal for the size.  The stream is
\* cut behind the lines of a head and anywhere in a body; a cut anywhere in a head
\* is what the run http_input_split refutes (HttpConnect.cpp:159-240,
\* HttpRequest.cpp, MultipartParser.cpp).
THEOREM DeliveredTheorem == ASSUME ~CutAnywhere PROVE Spec => []DeliveredAsSent
<1>1. ASSUME NEW wishes \in Conversations
      PROVE  \E ms, o, fr : Talk(Conversation(wishes), ms, o, fr)
  <2>1. Len(wishes) \in Nat
    BY WishesAssumption
  <2>2. \A i \in 1..Len(wishes) : \E f : Framed(Sent(wishes[i]), f)
    <3> SUFFICES ASSUME NEW i \in 1..Len(wishes) PROVE \E f : Framed(Sent(wishes[i]), f)
      OBVIOUS
    <3> DEFINE wish == wishes[i]
    <3>1. IsWish(wish) /\ \E v \in DOMAIN IntOf : IntOf[v] = Len(Sent(wish).body)
      BY WishesAssumption, NumbersAssumption
    <3> HIDE DEF wish
    <3>2. \E f : Framed(Sent(wish), f)
      BY <3>1, WishFramed
    <3> QED BY <3>2 DEF wish
  <2> QED BY <2>1, <2>2, TalkIs
<1>2. Talkable
  BY <1>1 DEF Talkable
<1> QED BY <1>2, DeliveredIfTalkable
==============================================================================

--------------------------- MODULE HttpWriteProofs ---------------------------
(***************************************************************************)
(* Theorems about HttpWrite, for every set of responses and every number of *)
(* requests of a client that waits for each answer.                         *)
(***************************************************************************)
EXTENDS HttpWrite, SequenceTheorems, TLAPS

\* How much of the last response the socket has taken.
Written ==
  IF wire # <<>> /\ wire[Len(wire)][1] = Len(answers) THEN wire[Len(wire)][2] ELSE 0

\* The last unit on the wire is one of the last response, or the end of the one
\* before.
WireInv ==
  /\ ResponsesInOrder
  /\ \A i \in 1..Len(wire) :
       /\ wire[i][1] \in 1..Len(answers) /\ wire[i][2] \in 1..Size(wire[i][1])
       /\ wire[i][1] = Len(answers) => wire[i][2] <= Written
  /\ wire = <<>> => Len(answers) <= 1
  /\ wire # <<>> /\ wire[Len(wire)][1] # Len(answers) =>
       /\ wire[Len(wire)][1] = Len(answers) - 1
       /\ wire[Len(wire)][2] = Size(Len(answers) - 1)

\* The buffer holds the units of the head that are not on the wire yet.
BufferInv ==
  /\ answers = <<>> => m_writeBuffer = <<>> /\ pc = "idle"
  /\ answers # <<>> =>
       LET n == Len(answers)
           head == answers[n].head
       IN  /\ Len(m_writeBuffer) = (IF Written < head THEN head - Written ELSE 0)
           /\ \A i \in 1..Len(m_writeBuffer) : m_writeBuffer[i] = <<n, Written + i>>

\* The file that is open is that of the last response, and its position is that
\* of the wire.  None is open while a header is written.
FileInv ==
  /\ openFiles = {f \in {m_fileFd} : f # 0}
  /\ m_fileFd = 0 /\ ~broken => m_fileRemain = 0
  /\ m_fileFd # 0 =>
       LET n == Len(answers) IN
       /\ m_fileFd = n /\ answers[n].file > 0 /\ pc \in {"write", "idle"}
       /\ m_fileOffset = (IF Written > answers[n].head THEN Written - answers[n].head ELSE 0)
       /\ m_fileRemain = answers[n].file - m_fileOffset
       /\ pc = "idle" => m_fileRemain > 0
  /\ pc \in {"header", "open"} =>
       answers[Len(answers)].file > 0 /\ Written <= answers[Len(answers)].head
  /\ (m_fileFd = 0 /\ pc \in {"write", "idle"} /\ answers # <<>> /\ ~broken) =>
       answers[Len(answers)].file = 0 \/ Written = Size(Len(answers))

\* A socket that has failed leaves its response unfinished.
BrokenInv == broken => cut /\ answers # <<>> /\ Written < Size(Len(answers))

\* EPOLLOUT is asked for between two events if something waits.
OutInv ==
  pc = "idle" /\ registered /\ ~broken => (out <=> (~BufferIsEmpty \/ FileIsNext))

WriteInv == TypeOK /\ WireInv /\ BufferInv /\ FileInv /\ BrokenInv /\ OutInv

\* The last response is the only one that may close the connection, and asks for
\* it when it is on the wire.
ClosesByLast ==
  /\ m_closeAfterWrite <=> \E r \in 1..Len(answers) : answers[r].close
  /\ \A r \in 1..Len(answers) :
       /\ answers[r].head > 0
       /\ answers[r].close => r = Len(answers) /\ answers[r].file = 0
  /\ closing /\ ~cut => m_closeAfterWrite /\ Complete
  /\ ~registered => closing

(***************************************************************************)
(* What the invariant says, with the lengths as numbers.                    *)
(***************************************************************************)
Answer == [head : Nat, file : Nat, close : BOOLEAN, bad : BOOLEAN]
Unit == Nat \X Nat

LEMMA SeqFacts ==
  ASSUME NEW S, NEW s \in Seq(S)
  PROVE  /\ Len(s) \in Nat /\ (s = <<>> <=> Len(s) = 0)
         /\ \A i \in 1..Len(s) : s[i] \in S
<1> QED BY EmptySeq, LenProperties, ElementOfSeq

LEMMA LengthFacts ==
  ASSUME TypeOK
  PROVE  /\ answers \in Seq(Answer) /\ wire \in Seq(Unit) /\ m_writeBuffer \in Seq(Unit)
         /\ Len(answers) \in Nat /\ (answers = <<>> <=> Len(answers) = 0)
         /\ Len(wire) \in Nat /\ (wire = <<>> <=> Len(wire) = 0)
         /\ Len(m_writeBuffer) \in Nat /\ (m_writeBuffer = <<>> <=> Len(m_writeBuffer) = 0)
         /\ \A r \in 1..Len(answers) :
              answers[r] \in Answer /\ answers[r].head \in Nat /\ answers[r].file \in Nat
         /\ \A i \in 1..Len(wire) : wire[i] \in Unit /\ wire[i][1] \in Nat /\ wire[i][2] \in Nat
<1>1. answers \in Seq(Answer) /\ wire \in Seq(Unit) /\ m_writeBuffer \in Seq(Unit)
  BY DEF TypeOK, Answer, Unit
<1>2. \A r \in 1..Len(answers) : answers[r] \in Answer
  BY <1>1, SeqFacts
<1>3. \A i \in 1..Len(wire) : wire[i] \in Unit
  BY <1>1, SeqFacts
<1>4. \A r \in 1..Len(answers) : answers[r].head \in Nat /\ answers[r].file \in Nat
  BY <1>2 DEF Answer
<1>5. \A i \in 1..Len(wire) : wire[i][1] \in Nat /\ wire[i][2] \in Nat
  BY <1>3 DEF Unit
<1> QED BY <1>1, <1>2, <1>3, <1>4, <1>5, SeqFacts

LEMMA WrittenFacts ==
  ASSUME TypeOK, WireInv
  PROVE  /\ Written \in Nat
         /\ answers = <<>> => Written = 0 /\ wire = <<>>
         /\ answers # <<>> => Written <= Size(Len(answers)) /\ Size(Len(answers)) \in Nat
<1>1. /\ Len(answers) \in Nat /\ (answers = <<>> <=> Len(answers) = 0)
      /\ Len(wire) \in Nat /\ (wire = <<>> <=> Len(wire) = 0)
      /\ \A r \in 1..Len(answers) : answers[r].head \in Nat /\ answers[r].file \in Nat
  BY LengthFacts
<1>2. \A r \in 1..Len(answers) : Size(r) \in Nat
  BY <1>1 DEF Size
<1>3. \A i \in 1..Len(wire) : wire[i][1] \in 1..Len(answers) /\ wire[i][2] \in 1..Size(wire[i][1])
  BY DEF WireInv
<1>4. wire # <<>> => /\ wire[Len(wire)][1] \in 1..Len(answers)
                     /\ wire[Len(wire)][2] \in 1..Size(wire[Len(wire)][1])
  BY <1>1, <1>3
<1>5. answers = <<>> => wire = <<>>
  BY <1>1, <1>4
<1> QED BY <1>1, <1>2, <1>4, <1>5 DEF Written

\* What Complete says of the units written.
LEMMA CompleteIs ==
  ASSUME TypeOK, WireInv, answers # <<>>
  PROVE  Complete <=> Written = Size(Len(answers)) /\ wire # <<>> /\ wire[Len(wire)][1] = Len(answers)
<1>1. \A i \in 1..Len(wire) : wire[i] \in Nat \X Nat
  BY LengthFacts DEF Unit
<1>2. Len(wire) \in Nat /\ (wire = <<>> <=> Len(wire) = 0)
  BY LengthFacts
<1>3. wire # <<>> => wire[Len(wire)] = <<wire[Len(wire)][1], wire[Len(wire)][2]>>
  BY <1>1, <1>2
<1> QED BY <1>3 DEF Complete, Written

(***************************************************************************)
(* The wire.                                                                *)
(***************************************************************************)

\* The next unit of the last response may be sent.
LEMMA UnitSent ==
  ASSUME TypeOK, WireInv, answers # <<>>, Written < Size(Len(answers)), answers' = answers,
         wire' = Append(wire, <<Len(answers), Written + 1>>)
  PROVE  WireInv' /\ Written' = Written + 1 /\ wire' \in Seq(Unit)
<1>1. PICK n, w, u : n = Len(answers) /\ w = Written /\ u = <<n, w + 1>>
  OBVIOUS
<1>2. /\ n \in Nat \ {0} /\ w \in Nat /\ u \in Unit /\ u[1] = n /\ u[2] = w + 1
      /\ wire \in Seq(Unit) /\ Len(wire) \in Nat /\ (wire = <<>> <=> Len(wire) = 0)
      /\ Size(n) \in Nat /\ w < Size(n) /\ \A r \in 1..n : Size(r)' = Size(r)
  BY <1>1, LengthFacts, WrittenFacts DEF Unit, Size
<1>3. /\ wire' \in Seq(Unit) /\ Len(wire') = Len(wire) + 1 /\ wire' # <<>>
      /\ \A i \in 1..Len(wire) : wire'[i] = wire[i]
      /\ wire'[Len(wire) + 1] = u
  <2>1. wire' = Append(wire, u)
    BY <1>1
  <2> QED BY <1>2, <2>1, AppendProperties
<1>4. Written' = w + 1
  BY <1>1, <1>2, <1>3 DEF Written
<1>5. /\ wire # <<>> => wire[1] = <<1, 1>>
      /\ \A i \in 1..Len(wire) - 1 : wire[i + 1] = Following(wire[i])
      /\ \A i \in 1..Len(wire) :
           /\ wire[i] \in Unit
           /\ wire[i][1] \in 1..n /\ wire[i][2] \in 1..Size(wire[i][1])
           /\ wire[i][1] = n => wire[i][2] <= w
      /\ wire = <<>> => n <= 1 /\ w = 0
      /\ wire # <<>> => IF wire[Len(wire)][1] = n THEN wire[Len(wire)][2] = w
                        ELSE /\ wire[Len(wire)][1] = n - 1 /\ w = 0
                             /\ wire[Len(wire)][2] = Size(n - 1)
  BY <1>1, <1>2, LengthFacts DEF WireInv, ResponsesInOrder, Written
<1>6. wire = <<>> => u = <<1, 1>>
  BY <1>1, <1>2, <1>5
<1>7. wire # <<>> => u = Following(wire[Len(wire)])
  <2>1. CASE wire # <<>> /\ wire[Len(wire)][1] = n
    BY <1>1, <1>2, <1>5, <2>1 DEF Following
  <2>2. CASE wire # <<>> /\ wire[Len(wire)][1] # n
    BY <1>1, <1>2, <1>5, <2>2 DEF Following
  <2> QED BY <2>1, <2>2
<1>8. wire'[1] = <<1, 1>>
  BY <1>2, <1>3, <1>5, <1>6
<1>9. \A i \in 1..Len(wire') - 1 : wire'[i + 1] = Following(wire'[i])
  <2> TAKE i \in 1..Len(wire') - 1
  <2>1. i \in 1..Len(wire)
    BY <1>2, <1>3
  <2>2. CASE i = Len(wire)
    BY <1>2, <1>3, <1>7, <2>1, <2>2
  <2>3. CASE i # Len(wire)
    <3>1. i \in 1..Len(wire) - 1 /\ i + 1 \in 1..Len(wire)
      BY <1>2, <2>1, <2>3
    <3> QED BY <1>3, <1>5, <2>1, <3>1
  <2> QED BY <2>2, <2>3
<1>10. ResponsesInOrder'
  BY <1>8, <1>9 DEF ResponsesInOrder, Following, Size
<1>11. \A i \in 1..Len(wire') :
         /\ wire'[i][1] \in 1..n /\ wire'[i][2] \in 1..Size(wire'[i][1])
         /\ wire'[i][1] = n => wire'[i][2] <= w + 1
  <2> TAKE i \in 1..Len(wire')
  <2>1. CASE i \in 1..Len(wire)
    BY <1>2, <1>3, <1>5, <2>1
  <2>2. CASE i = Len(wire) + 1
    BY <1>2, <1>3, <2>2
  <2> QED BY <1>2, <1>3, <2>1, <2>2
<1> QED
  BY <1>1, <1>2, <1>3, <1>4, <1>10, <1>11 DEF WireInv

LEMMA WireKept ==
  ASSUME TypeOK, WireInv, answers' = answers, wire' = wire
  PROVE  WireInv' /\ Written' = Written
<1>1. Written' = Written
  BY DEF Written
<1>2. \A r : Size(r)' = Size(r)
  BY DEF Size
<1>3. ResponsesInOrder'
  BY DEF WireInv, ResponsesInOrder, Following, Size
<1> QED BY <1>1, <1>3 DEF WireInv, Size

(***************************************************************************)
(* A request.                                                               *)
(***************************************************************************)

\* A client that does not pipeline asks when the last response is written.
LEMMA RequestStep ==
  ASSUME ~Pipelining, WriteInv, NEW a \in Responses, HandleRequest(a)
  PROVE  WriteInv'
<1>1. /\ TypeOK /\ WireInv /\ pc = "idle" /\ Complete
      /\ answers' = Append(answers, a)
      /\ m_writeBuffer' = m_writeBuffer \o [i \in 1..a.head |-> <<Len(answers) + 1, i>>]
      /\ m_closeAfterWrite' = (m_closeAfterWrite \/ a.close)
      /\ m_state' = (IF a.bad THEN "Failed" ELSE m_state)
      /\ pc' = (IF a.file > 0 THEN "header" ELSE "write")
      /\ UNCHANGED <<m_fileFd, m_fileOffset, m_fileRemain, openFiles, out, edge, room, broken,
                     wire, closing, registered, cut>>
  BY DEF WriteInv, HandleRequest, MayAsk, fileVars, epollVars, socketVars
<1>2. PICK n, more : n = Len(answers) /\ more = [i \in 1..a.head |-> <<n + 1, i>>]
  OBVIOUS
<1>3. a \in Answer /\ a.head \in Nat \ {0} /\ a.file \in Nat
  BY ResponsesAssumption DEF Answer
<1>4. /\ answers \in Seq(Answer) /\ wire \in Seq(Unit) /\ m_writeBuffer \in Seq(Unit)
      /\ n \in Nat /\ (answers = <<>> <=> n = 0)
      /\ Len(wire) \in Nat /\ (wire = <<>> <=> Len(wire) = 0)
      /\ Len(m_writeBuffer) \in Nat /\ (m_writeBuffer = <<>> <=> Len(m_writeBuffer) = 0)
      /\ \A r \in 1..n : answers[r].head \in Nat /\ answers[r].file \in Nat
  BY <1>1, <1>2, LengthFacts
<1>5. /\ answers' \in Seq(Answer) /\ Len(answers') = n + 1 /\ answers' # <<>>
      /\ \A r \in 1..n : answers'[r] = answers[r]
      /\ answers'[n + 1] = a
  BY <1>1, <1>2, <1>3, <1>4, AppendProperties, SMTT(30)
<1>6. \A r \in 1..n : Size(r)' = Size(r)
  BY <1>5 DEF Size
<1>7. n > 0 => /\ Written = Size(n) /\ wire # <<>> /\ wire[Len(wire)][1] = n
               /\ wire[Len(wire)][2] = Size(n) /\ Size(n) = answers[n].head + answers[n].file
  BY <1>1, <1>2, <1>4, CompleteIs DEF Written, Size
<1>8. /\ wire # <<>> => wire[1] = <<1, 1>>
      /\ \A i \in 1..Len(wire) - 1 : wire[i + 1] = Following(wire[i])
      /\ \A i \in 1..Len(wire) : wire[i][1] \in 1..n /\ wire[i][2] \in 1..Size(wire[i][1])
  BY <1>1, <1>2 DEF WireInv, ResponsesInOrder
<1>9. Written' = 0
  <2>1. wire # <<>> => wire[Len(wire)][1] # n + 1
    BY <1>4, <1>8
  <2> QED BY <1>1, <1>5, <2>1 DEF Written
<1>10. WireInv'
  <2>1. \A i \in 1..Len(wire) - 1 : Following(wire[i])' = Following(wire'[i])
    <3> TAKE i \in 1..Len(wire) - 1
    <3>1. i \in 1..Len(wire)
      BY <1>4
    <3>2. wire[i][1] \in 1..n
      BY <1>8, <3>1
    <3> QED BY <1>1, <1>6, <3>2 DEF Following
  <2>2. ResponsesInOrder'
    BY <1>1, <1>8, <2>1 DEF ResponsesInOrder
  <2>3. \A i \in 1..Len(wire) :
           /\ wire'[i][1] \in 1..(n + 1) /\ wire'[i][2] \in 1..Size(wire[i][1])'
           /\ wire'[i][1] # n + 1
    BY <1>1, <1>4, <1>6, <1>8
  <2>4. wire' = <<>> => n + 1 <= 1
    BY <1>1, <1>4, <1>7
  <2>5. wire' # <<>> => wire'[Len(wire')][1] = n /\ wire'[Len(wire')][2] = Size(n)'
    BY <1>1, <1>4, <1>6, <1>7, <1>8
  <2> QED BY <1>1, <1>2, <1>4, <1>5, <2>2, <2>3, <2>4, <2>5 DEF WireInv
<1>11. m_writeBuffer = <<>>
  BY <1>1, <1>2, <1>4, <1>7 DEF WriteInv, BufferInv
<1>12. /\ m_writeBuffer' \in Seq(Unit) /\ Len(m_writeBuffer') = a.head
       /\ \A i \in 1..a.head : m_writeBuffer'[i] = <<n + 1, i>>
  <2>1. more \in [1..a.head -> Unit]
    BY <1>2, <1>3, <1>4 DEF Unit
  <2>2. more \in Seq(Unit) /\ Len(more) = a.head
    BY <1>3, <2>1, SeqDef
  <2>3. m_writeBuffer' = more
    BY <1>1, <1>2, <1>11, <2>2, ConcatEmptySeq
  <2> QED BY <1>2, <2>2, <2>3
<1>13. BufferInv'
  BY <1>3, <1>5, <1>9, <1>12 DEF BufferInv
<1>14. ~broken /\ m_fileFd = 0 /\ m_fileRemain = 0 /\ openFiles = {}
  <2>1. ~broken
    BY <1>1, <1>2, <1>4, <1>7 DEF WriteInv, BrokenInv
  <2>2. m_fileFd = 0
    <3> SUFFICES ASSUME m_fileFd # 0 PROVE FALSE
      OBVIOUS
    <3>1. /\ m_fileFd = n /\ answers[n].file > 0 /\ n > 0
          /\ m_fileOffset = (IF Written > answers[n].head THEN Written - answers[n].head ELSE 0)
          /\ m_fileRemain = answers[n].file - m_fileOffset
          /\ m_fileRemain > 0
      BY <1>1, <1>2, <1>4 DEF WriteInv, FileInv
    <3> QED BY <1>4, <1>7, <3>1
  <2> QED BY <2>1, <2>2 DEF WriteInv, FileInv
<1>15. FileInv'
  BY <1>1, <1>3, <1>5, <1>9, <1>14 DEF FileInv
<1>16. TypeOK'
  <2>1. m_closeAfterWrite' \in BOOLEAN
    BY <1>1, <1>3 DEF TypeOK, Answer
  <2>2. m_state' \in {"Connected", "Failed", "Closed"} /\ pc' \in {"idle", "header", "open", "write"}
    BY <1>1 DEF TypeOK
  <2>3. m_fileFd' \in 0..Len(answers') /\ openFiles' \subseteq 1..Len(answers')
    BY <1>1, <1>4, <1>5, <1>14
  <2> QED BY <1>1, <1>5, <1>12, <2>1, <2>2, <2>3 DEF TypeOK, Answer, Unit
<1> QED
  BY <1>1, <1>3, <1>10, <1>13, <1>14, <1>15, <1>16 DEF WriteInv, BrokenInv, OutInv

(***************************************************************************)
(* SendFile between the header and the file.                                *)
(***************************************************************************)
LEMMA OpenFileStep ==
  ASSUME WriteInv, OpenFile
  PROVE  WriteInv'
<1>1. PICK n : n = Len(answers)
  OBVIOUS
<1>2. /\ TypeOK /\ WireInv /\ pc = "open" /\ pc' = "write"
      /\ m_fileFd' = n /\ openFiles' = openFiles \cup {n} /\ m_fileOffset' = 0
      /\ m_fileRemain' = answers[n].file
      /\ UNCHANGED <<answers, m_writeBuffer, m_closeAfterWrite, out, edge, room, broken, wire,
                     m_state, closing, registered, cut>>
  BY <1>1 DEF WriteInv, OpenFile, epollVars, socketVars, stateVars
<1>3. /\ answers # <<>> /\ n \in Nat \ {0} /\ answers[n].file \in Nat \ {0}
      /\ answers[n].head \in Nat /\ Written <= answers[n].head /\ Written \in Nat
      /\ m_fileFd = 0 /\ openFiles = {}
  <2>1. answers # <<>>
    BY <1>2 DEF WriteInv, BufferInv
  <2>2. answers[n].file > 0 /\ Written <= answers[n].head /\ m_fileFd = 0 /\ openFiles = {}
    BY <1>1, <1>2 DEF WriteInv, FileInv
  <2>3. n \in Nat \ {0} /\ answers[n].file \in Nat /\ answers[n].head \in Nat /\ Written \in Nat
    BY <1>1, <1>2, <2>1, LengthFacts, WrittenFacts
  <2> QED BY <2>1, <2>2, <2>3
<1>4. WireInv' /\ Written' = Written
  BY <1>2, WireKept
<1>5. TypeOK'
  BY <1>1, <1>2, <1>3 DEF TypeOK
<1>6. BufferInv'
  BY <1>2, <1>3, <1>4 DEF WriteInv, BufferInv
<1>7. FileInv'
  BY <1>1, <1>2, <1>3, <1>4 DEF FileInv
<1> QED
  BY <1>2, <1>4, <1>5, <1>6, <1>7 DEF WriteInv, BrokenInv, OutInv, Size

\* The page of the error takes the place of the file, after the header.
LEMMA OpenFailsStep ==
  ASSUME WriteInv, OpenFails
  PROVE  WriteInv'
<1>1. PICK n, h, w : n = Len(answers) /\ h = answers[n].head /\ w = Written
  OBVIOUS
<1>2. /\ TypeOK /\ WireInv /\ pc = "open" /\ pc' = "write"
      /\ answers' = [answers EXCEPT ![n].file = 0, ![n].close = TRUE, ![n].head = @ + 1]
      /\ m_writeBuffer' = Append(m_writeBuffer, <<n, h + 1>>)
      /\ m_closeAfterWrite' = TRUE /\ m_fileFd' = 0
      /\ UNCHANGED <<m_fileOffset, m_fileRemain, openFiles, out, edge, room, broken, wire,
                     m_state, closing, registered, cut>>
  BY <1>1 DEF WriteInv, OpenFails, epollVars, socketVars, stateVars
<1>3. /\ answers # <<>> /\ n \in Nat \ {0} /\ answers[n].file \in Nat \ {0} /\ h \in Nat
      /\ w <= h /\ w \in Nat /\ m_fileFd = 0 /\ openFiles = {}
      /\ (~broken => m_fileRemain = 0) /\ answers \in Seq(Answer) /\ answers[n] \in Answer
  <2>1. answers # <<>>
    BY <1>2 DEF WriteInv, BufferInv
  <2>2. /\ answers[n].file > 0 /\ w <= h /\ m_fileFd = 0 /\ openFiles = {}
        /\ (~broken => m_fileRemain = 0)
    BY <1>1, <1>2 DEF WriteInv, FileInv
  <2>3. /\ n \in Nat \ {0} /\ answers[n].file \in Nat /\ h \in Nat /\ w \in Nat
        /\ answers \in Seq(Answer) /\ answers[n] \in Answer
    BY <1>1, <1>2, <2>1, LengthFacts, WrittenFacts
  <2> QED BY <2>1, <2>2, <2>3
<1>4. /\ answers' \in Seq(Answer) /\ Len(answers') = n /\ answers' # <<>>
      /\ \A r \in 1..n : r # n => answers'[r] = answers[r]
      /\ answers'[n].file = 0 /\ answers'[n].head = h + 1 /\ answers'[n].close = TRUE
  <2>1. PICK b : b = [answers[n] EXCEPT !.file = 0, !.close = TRUE, !.head = @ + 1]
    OBVIOUS
  <2>2. b \in Answer /\ b.file = 0 /\ b.head = h + 1 /\ b.close = TRUE
    <3>1. b.file = 0 /\ b.close = TRUE /\ b.bad = answers[n].bad
      BY <1>3, <2>1 DEF Answer
    <3>2. b.head = h + 1
      BY <1>1, <1>3, <2>1 DEF Answer
    <3>3. b \in Answer
      <4>1. answers[n].bad \in BOOLEAN
        BY <1>3 DEF Answer
      <4>2. b = [head |-> h + 1, file |-> 0, close |-> TRUE, bad |-> answers[n].bad]
        BY <1>1, <1>3, <2>1 DEF Answer
      <4> QED BY <1>3, <4>1, <4>2 DEF Answer
    <3> QED BY <3>1, <3>2, <3>3
  <2>3. answers' = [answers EXCEPT ![n] = b]
    BY <1>2, <2>1
  <2>4. n \in 1..Len(answers)
    BY <1>1, <1>3
  <2>5. /\ answers' \in Seq(Answer) /\ Len(answers') = n
        /\ \A r \in 1..n : answers'[r] = IF r = n THEN b ELSE answers[r]
    BY <1>1, <1>3, <2>2, <2>3, <2>4, ExceptSeq
  <2>6. answers' # <<>>
    BY <1>3, <2>5, EmptySeq
  <2> QED BY <1>3, <2>2, <2>5, <2>6
<1>5. Written' = w
  BY <1>1, <1>2, <1>3, <1>4 DEF Written
<1>6. /\ wire # <<>> => wire[1] = <<1, 1>>
      /\ \A i \in 1..Len(wire) - 1 : wire[i + 1] = Following(wire[i])
      /\ \A i \in 1..Len(wire) :
           /\ wire[i][1] \in 1..n /\ wire[i][2] \in 1..Size(wire[i][1])
           /\ wire[i][1] = n => wire[i][2] <= w
           /\ wire[i][2] \in Nat
      /\ wire = <<>> => n <= 1
      /\ wire # <<>> /\ wire[Len(wire)][1] # n =>
           wire[Len(wire)][1] = n - 1 /\ wire[Len(wire)][2] = Size(n - 1)
      /\ Len(wire) \in Nat /\ (wire = <<>> <=> Len(wire) = 0)
  BY <1>1, <1>2, LengthFacts DEF WireInv, ResponsesInOrder
<1>7. /\ \A r \in 1..n : r # n => Size(r)' = Size(r)
      /\ Size(n) \in Nat /\ Size(n) > h /\ Size(n)' = h + 1
  <2>1. \A r \in 1..n : r # n => Size(r)' = Size(r)
    BY <1>4 DEF Size
  <2>2. Size(n) \in Nat /\ Size(n) > h
    BY <1>1, <1>3 DEF Size
  <2>3. Size(n)' = h + 1
    BY <1>3, <1>4 DEF Size
  <2> QED BY <2>1, <2>2, <2>3
<1>8. WireInv'
  <2>1. \A i \in 1..Len(wire) - 1 : Following(wire[i])' = Following(wire'[i])
    <3> TAKE i \in 1..Len(wire) - 1
    <3>1. i \in 1..Len(wire)
      BY <1>6
    <3>2. wire[i][1] \in 1..n /\ (wire[i][1] = n => wire[i][2] <= w) /\ wire[i][2] \in Nat
      BY <1>6, <3>1
    <3>3. CASE wire[i][1] = n
      <4>1. wire[i][2] < h + 1 /\ wire[i][2] < Size(n)
        BY <1>3, <1>7, <3>2, <3>3
      <4> QED BY <1>2, <1>7, <3>3, <4>1 DEF Following
    <3>4. CASE wire[i][1] # n
      BY <1>2, <1>7, <3>2, <3>4 DEF Following
    <3> QED BY <3>3, <3>4
  <2>2. ResponsesInOrder'
    BY <1>2, <1>6, <2>1 DEF ResponsesInOrder
  <2>3. ASSUME NEW i \in 1..Len(wire) PROVE wire[i][2] \in 1..Size(wire[i][1])'
    <3>1. /\ wire[i][1] \in 1..n /\ wire[i][2] \in 1..Size(wire[i][1])
          /\ (wire[i][1] = n => wire[i][2] <= w) /\ wire[i][2] \in Nat
      BY <1>6
    <3>2. CASE wire[i][1] = n
      <4>1. Size(wire[i][1])' = h + 1
        BY <1>2, <1>7, <3>2
      <4> QED BY <1>3, <3>1, <3>2, <4>1
    <3>3. CASE wire[i][1] # n
      <4>1. Size(wire[i][1])' = Size(wire[i][1])
        BY <1>2, <1>7, <3>1, <3>3
      <4> QED BY <3>1, <4>1
    <3> QED BY <3>2, <3>3
  <2>4. wire # <<>> /\ wire[Len(wire)][1] # n => Size(n - 1)' = Size(n - 1)
    <3>1. wire # <<>> => wire[Len(wire)][1] \in 1..n
      BY <1>6
    <3> QED BY <1>3, <1>6, <1>7, <3>1
  <2>5. \A i \in 1..Len(wire') :
           /\ wire'[i][1] \in 1..Len(answers') /\ wire'[i][2] \in 1..Size(wire[i][1])'
           /\ wire'[i][1] = Len(answers') => wire'[i][2] <= Written'
    BY <1>2, <1>4, <1>5, <1>6, <2>3
  <2>6. wire' # <<>> /\ wire'[Len(wire')][1] # Len(answers') =>
          wire'[Len(wire')][1] = Len(answers') - 1 /\ wire'[Len(wire')][2] = Size(Len(answers) - 1)'
    BY <1>1, <1>2, <1>4, <1>6, <2>4
  <2>7. wire' = <<>> => Len(answers') <= 1
    BY <1>2, <1>4, <1>6
  <2> QED BY <2>2, <2>5, <2>6, <2>7 DEF WireInv
<1>9. /\ m_writeBuffer' \in Seq(Unit) /\ Len(m_writeBuffer') = h + 1 - w
      /\ \A i \in 1..(h + 1 - w) : m_writeBuffer'[i] = <<n, w + i>>
  <2>1. /\ m_writeBuffer \in Seq(Unit) /\ Len(m_writeBuffer) = h - w
        /\ \A i \in 1..(h - w) : m_writeBuffer[i] = <<n, w + i>>
    <3>1. /\ Len(m_writeBuffer) = (IF w < h THEN h - w ELSE 0)
          /\ \A i \in 1..Len(m_writeBuffer) : m_writeBuffer[i] = <<n, w + i>>
      BY <1>1, <1>3 DEF WriteInv, BufferInv
    <3>2. Len(m_writeBuffer) = h - w
      BY <1>3, <3>1
    <3> QED BY <1>2, <3>1, <3>2, LengthFacts
  <2>2. <<n, h + 1>> \in Unit
    BY <1>3 DEF Unit
  <2>3. /\ m_writeBuffer' \in Seq(Unit) /\ Len(m_writeBuffer') = h - w + 1
        /\ \A i \in 1..(h - w) : m_writeBuffer'[i] = m_writeBuffer[i]
        /\ m_writeBuffer'[h - w + 1] = <<n, h + 1>>
    BY <1>2, <2>1, <2>2, AppendProperties
  <2>4. ASSUME NEW i \in 1..(h + 1 - w) PROVE m_writeBuffer'[i] = <<n, w + i>>
    <3>1. CASE i \in 1..(h - w)
      BY <2>1, <2>3, <3>1
    <3>2. CASE i = h - w + 1
      BY <1>3, <2>3, <3>2
    <3> QED BY <1>3, <3>1, <3>2
  <2> QED BY <1>3, <2>3, <2>4
<1>10. BufferInv'
  BY <1>3, <1>4, <1>5, <1>9 DEF BufferInv
<1>11. FileInv'
  BY <1>2, <1>3, <1>4 DEF FileInv
<1>12. TypeOK'
  <2>1. m_fileFd' \in 0..Len(answers') /\ openFiles' \subseteq 1..Len(answers')
    BY <1>2, <1>3, <1>4
  <2>2. m_closeAfterWrite' \in BOOLEAN /\ pc' \in {"idle", "header", "open", "write"}
    BY <1>2
  <2> QED BY <1>2, <1>4, <1>9, <2>1, <2>2 DEF TypeOK, Answer, Unit
<1>13. BrokenInv'
  BY <1>1, <1>2, <1>3, <1>4, <1>5, <1>7 DEF WriteInv, BrokenInv
<1> QED
  BY <1>2, <1>8, <1>10, <1>11, <1>12, <1>13 DEF WriteInv, OutInv

(***************************************************************************)
(* WriteNonBlocking.                                                        *)
(***************************************************************************)

\* Where the last response stands while WriteNonBlocking runs.
LEMMA WritingFacts ==
  ASSUME WriteInv, answers # <<>>, NEW n, NEW h, NEW k, NEW w,
         n = Len(answers), h = answers[n].head, k = answers[n].file, w = Written
  PROVE  /\ TypeOK /\ WireInv /\ n \in Nat \ {0} /\ h \in Nat /\ k \in Nat /\ w \in Nat
         /\ Size(n) = h + k /\ w <= h + k
         /\ m_writeBuffer \in Seq(Unit) /\ Len(m_writeBuffer) \in Nat
         /\ Len(m_writeBuffer) = (IF w < h THEN h - w ELSE 0)
         /\ (BufferIsEmpty <=> w >= h)
         /\ \A i \in 1..Len(m_writeBuffer) : m_writeBuffer[i] = <<n, w + i>>
         /\ openFiles = {f \in {m_fileFd} : f # 0}
         /\ m_fileFd = 0 /\ ~broken => m_fileRemain = 0
         /\ m_fileFd # 0 =>
              /\ m_fileFd = n /\ k > 0 /\ pc \in {"write", "idle"}
              /\ m_fileOffset = (IF w > h THEN w - h ELSE 0)
              /\ m_fileRemain = k - m_fileOffset
              /\ pc = "idle" => m_fileRemain > 0
         /\ pc \in {"header", "open"} => k > 0 /\ w <= h
         /\ (m_fileFd = 0 /\ pc \in {"write", "idle"} /\ ~broken) => k = 0 \/ w = h + k
         /\ broken => cut /\ w < h + k
<1>1. TypeOK /\ WireInv
  BY DEF WriteInv
<1>2. /\ n \in Nat \ {0} /\ h \in Nat /\ k \in Nat /\ w \in Nat /\ w <= Size(n)
      /\ m_writeBuffer \in Seq(Unit) /\ Len(m_writeBuffer) \in Nat
      /\ (m_writeBuffer = <<>> <=> Len(m_writeBuffer) = 0)
  BY <1>1, LengthFacts, WrittenFacts
<1>3. Size(n) = h + k
  BY DEF Size
<1>4. /\ Len(m_writeBuffer) = (IF w < h THEN h - w ELSE 0)
      /\ \A i \in 1..Len(m_writeBuffer) : m_writeBuffer[i] = <<n, w + i>>
  BY DEF WriteInv, BufferInv
<1>5. BufferIsEmpty <=> w >= h
  BY <1>2, <1>4 DEF BufferIsEmpty
<1>6. broken => cut /\ w < h + k
  BY <1>3 DEF WriteInv, BrokenInv
<1> HIDE DEF BufferInv
<1>7. /\ openFiles = {f \in {m_fileFd} : f # 0}
      /\ m_fileFd = 0 /\ ~broken => m_fileRemain = 0
      /\ m_fileFd # 0 =>
           /\ m_fileFd = n /\ k > 0 /\ pc \in {"write", "idle"}
           /\ m_fileOffset = (IF w > h THEN w - h ELSE 0)
           /\ m_fileRemain = k - m_fileOffset
           /\ pc = "idle" => m_fileRemain > 0
      /\ pc \in {"header", "open"} => k > 0 /\ w <= h
      /\ (m_fileFd = 0 /\ pc \in {"write", "idle"} /\ ~broken) => k = 0 \/ w = h + k
  BY <1>3 DEF WriteInv, FileInv
<1> QED BY <1>1, <1>2, <1>3, <1>4, <1>5, <1>6, <1>7

\* One unit of the buffer.
LEMMA WriteUnitStep ==
  ASSUME WriteInv, WriteUnit
  PROVE  WriteInv'
<1>1. PICK n, h, k, w : n = Len(answers) /\ h = answers[n].head /\ k = answers[n].file /\ w = Written
  OBVIOUS
<1>2. answers # <<>>
  BY DEF WriteInv, BufferInv, WriteUnit, BufferIsEmpty
<1>3. /\ TypeOK /\ WireInv /\ n \in Nat \ {0} /\ h \in Nat /\ k \in Nat /\ w \in Nat
      /\ Size(n) = h + k
      /\ m_writeBuffer \in Seq(Unit) /\ Len(m_writeBuffer) \in Nat
      /\ Len(m_writeBuffer) = (IF w < h THEN h - w ELSE 0) /\ (BufferIsEmpty <=> w >= h)
      /\ \A i \in 1..Len(m_writeBuffer) : m_writeBuffer[i] = <<n, w + i>>
      /\ openFiles = {f \in {m_fileFd} : f # 0}
      /\ m_fileFd = 0 => m_fileRemain = 0
      /\ m_fileFd # 0 =>
           /\ m_fileFd = n /\ k > 0 /\ pc \in {"write", "idle"}
           /\ m_fileOffset = (IF w > h THEN w - h ELSE 0)
           /\ m_fileRemain = k - m_fileOffset
      /\ pc = "header" => k > 0
      /\ (m_fileFd = 0 /\ pc = "write") => k = 0 \/ w = h + k
      /\ ~broken
  BY <1>1, <1>2, WritingFacts, SMTT(30) DEF WriteUnit
<1>4. /\ pc \in {"header", "write"} /\ ~BufferIsEmpty
      /\ wire' = Append(wire, Head(m_writeBuffer)) /\ m_writeBuffer' = Tail(m_writeBuffer)
      /\ room' \in BOOLEAN
      /\ UNCHANGED <<broken, answers, m_fileFd, m_fileOffset, m_fileRemain, openFiles,
                     m_closeAfterWrite, out, edge, m_state, closing, registered, cut, pc>>
  BY DEF WriteUnit, Writing, Retrieved, fileVars, epollVars, stateVars
<1>5. w < h /\ Len(m_writeBuffer) = h - w /\ m_writeBuffer # <<>>
  BY <1>3, <1>4 DEF BufferIsEmpty
<1>6. Head(m_writeBuffer) = <<n, w + 1>>
  BY <1>3, <1>5, HeadTailProperties
<1>7. /\ m_writeBuffer' \in Seq(Unit) /\ Len(m_writeBuffer') = h - (w + 1)
      /\ \A i \in 1..(h - (w + 1)) : m_writeBuffer'[i] = <<n, (w + 1) + i>>
  <2>1. /\ m_writeBuffer' \in Seq(Unit) /\ Len(m_writeBuffer') = h - w - 1
        /\ \A i \in 1..Len(m_writeBuffer') : m_writeBuffer'[i] = m_writeBuffer[i + 1]
    BY <1>3, <1>4, <1>5, HeadTailProperties
  <2>2. ASSUME NEW i \in 1..(h - (w + 1)) PROVE m_writeBuffer'[i] = <<n, (w + 1) + i>>
    <3>1. i + 1 \in 1..Len(m_writeBuffer) /\ i \in 1..Len(m_writeBuffer')
      BY <1>3, <1>5, <2>1
    <3>2. m_writeBuffer'[i] = <<n, w + (i + 1)>>
      BY <1>3, <2>1, <3>1
    <3> QED BY <1>3, <3>2
  <2> QED BY <1>3, <1>5, <2>1, <2>2, SMTT(30)
<1>8. WireInv' /\ Written' = w + 1 /\ wire' \in Seq(Unit)
  <2>1. w < h + k
    BY <1>3, <1>5
  <2>2. Written < Size(Len(answers))
    BY <1>1, <1>3, <2>1
  <2>3. wire' = Append(wire, <<Len(answers), Written + 1>>)
    BY <1>1, <1>4, <1>6
  <2> QED BY <1>1, <1>2, <1>3, <1>4, <2>2, <2>3, UnitSent
<1>9. BufferInv'
  <2>1. /\ Len(m_writeBuffer') = (IF w + 1 < h THEN h - (w + 1) ELSE 0)
        /\ \A i \in 1..Len(m_writeBuffer') : m_writeBuffer'[i] = <<n, (w + 1) + i>>
    BY <1>3, <1>5, <1>7
  <2>2. Len(answers') = n /\ answers'[n].head = h /\ answers' # <<>> /\ Written' = w + 1
    BY <1>1, <1>2, <1>4, <1>8
  <2> QED BY <2>1, <2>2 DEF BufferInv
<1>10. FileInv'
  <2>1. m_fileFd # 0 => /\ m_fileOffset = 0 /\ m_fileRemain = k
                        /\ (IF w + 1 > h THEN w + 1 - h ELSE 0) = 0
    BY <1>3, <1>5
  <2>2. pc \in {"header", "open"} => k > 0 /\ w + 1 <= h
    BY <1>3, <1>4, <1>5
  <2>3. (m_fileFd = 0 /\ pc \in {"write", "idle"}) => k = 0
    BY <1>3, <1>4, <1>5
  <2> QED BY <1>1, <1>3, <1>4, <1>8, <2>1, <2>2, <2>3 DEF FileInv
<1>11. TypeOK'
  BY <1>3, <1>4, <1>7, <1>8 DEF TypeOK, Unit
<1> QED
  BY <1>3, <1>4, <1>8, <1>9, <1>10, <1>11 DEF WriteInv, BrokenInv, OutInv

\* One unit of the file.
LEMMA SendfileUnitStep ==
  ASSUME WriteInv, SendfileUnit
  PROVE  WriteInv'
<1>1. PICK n, h, k, w : n = Len(answers) /\ h = answers[n].head /\ k = answers[n].file /\ w = Written
  OBVIOUS
<1>2. /\ pc \in {"header", "write"} /\ BufferIsEmpty /\ m_fileFd # 0 /\ m_fileRemain > 0
      /\ wire' = Append(wire, <<m_fileFd, answers[m_fileFd].head + m_fileOffset + 1>>)
      /\ m_fileOffset' = m_fileOffset + 1 /\ m_fileRemain' = m_fileRemain - 1
      /\ room' \in BOOLEAN /\ ~broken
      /\ UNCHANGED <<broken, answers, m_writeBuffer, m_fileFd, openFiles, m_closeAfterWrite,
                     out, edge, m_state, closing, registered, cut, pc>>
  BY DEF SendfileUnit, Writing, FileIsNext, epollVars, stateVars
<1>3. answers # <<>>
  BY <1>2 DEF WriteInv, BufferInv
<1>4. /\ TypeOK /\ WireInv /\ n \in Nat \ {0} /\ h \in Nat /\ k \in Nat /\ w \in Nat
      /\ Size(n) = h + k
      /\ m_writeBuffer \in Seq(Unit) /\ (BufferIsEmpty <=> w >= h)
      /\ openFiles = {f \in {m_fileFd} : f # 0}
      /\ m_fileFd = n /\ k > 0 /\ pc = "write"
      /\ m_fileOffset = (IF w > h THEN w - h ELSE 0)
      /\ m_fileRemain = k - m_fileOffset
  BY <1>1, <1>2, <1>3, WritingFacts
<1>5. /\ w >= h /\ m_fileOffset = w - h /\ m_fileRemain = k - (w - h) /\ w < h + k
      /\ answers[m_fileFd].head + m_fileOffset + 1 = w + 1
  <2>1. w >= h
    BY <1>2, <1>4
  <2>2. m_fileOffset = w - h
    BY <1>4, <2>1
  <2>3. m_fileRemain = k - (w - h) /\ w < h + k
    BY <1>2, <1>4, <2>1, <2>2
  <2>4. answers[m_fileFd].head = h
    BY <1>1, <1>4
  <2>5. h + m_fileOffset + 1 = w + 1
    BY <1>4, <2>1, <2>2
  <2> QED BY <2>1, <2>2, <2>3, <2>4, <2>5
<1>6. WireInv' /\ Written' = w + 1 /\ wire' \in Seq(Unit)
  <2>1. Written < Size(Len(answers))
    BY <1>1, <1>4, <1>5
  <2>2. wire' = Append(wire, <<Len(answers), Written + 1>>)
    BY <1>1, <1>2, <1>4, <1>5
  <2> QED BY <1>1, <1>2, <1>3, <1>4, <2>1, <2>2, UnitSent
<1>7. BufferInv'
  <2>1. m_writeBuffer' = <<>> /\ Len(m_writeBuffer') = 0
    BY <1>2, EmptySeq DEF BufferIsEmpty
  <2> QED BY <1>1, <1>2, <1>3, <1>4, <1>5, <1>6, <2>1, SMTT(30) DEF BufferInv
<1>8. FileInv'
  <2>1. /\ m_fileOffset' = (IF w + 1 > h THEN w + 1 - h ELSE 0)
        /\ m_fileRemain' = k - m_fileOffset'
    BY <1>2, <1>4, <1>5
  <2>2. /\ Len(answers') = n /\ answers'[n].file = k /\ answers'[n].head = h
        /\ Written' = w + 1 /\ m_fileFd' = n /\ n # 0 /\ pc' = "write" /\ k > 0
        /\ openFiles' = {f \in {m_fileFd'} : f # 0}
    BY <1>1, <1>2, <1>4, <1>6
  <2>3. /\ m_fileFd' = Len(answers')
        /\ m_fileOffset' = (IF Written' > answers'[Len(answers')].head
                             THEN Written' - answers'[Len(answers')].head ELSE 0)
        /\ m_fileRemain' = answers'[Len(answers')].file - m_fileOffset'
        /\ answers'[Len(answers')].file > 0
    <3>1. m_fileFd' = Len(answers') /\ answers'[Len(answers')].file > 0
      BY <2>2
    <3>2. answers'[Len(answers')].head = h /\ answers'[Len(answers')].file = k
      BY <2>2
    <3>3. m_fileRemain' = answers'[Len(answers')].file - m_fileOffset'
      BY <2>1, <3>2
    <3>4. m_fileOffset' = (IF Written' > answers'[Len(answers')].head
                           THEN Written' - answers'[Len(answers')].head ELSE 0)
      <4>1. PICK a, b : a = Written' /\ b = answers'[Len(answers')].head
        OBVIOUS
      <4>2. a = w + 1 /\ b = h /\ w \in Nat /\ h \in Nat
        BY <1>4, <1>6, <3>2, <4>1
      <4>3. m_fileOffset' = IF a > b THEN a - b ELSE 0
        BY <2>1, <4>2
      <4> QED BY <4>1, <4>3
    <3> QED BY <3>1, <3>3, <3>4
  <2>4. pc' = "write" /\ m_fileFd' # 0 /\ openFiles' = {f \in {m_fileFd'} : f # 0}
    BY <2>2
  <2> QED BY <2>3, <2>4 DEF FileInv
<1>9. TypeOK'
  <2>1. m_fileOffset' \in Nat
    BY <1>2, <1>4, <1>5
  <2>2. m_fileRemain' \in Nat
    <3>1. k - (w - h) - 1 \in Nat
      BY <1>4, <1>5
    <3> QED BY <1>2, <1>5, <3>1
  <2> QED BY <1>2, <1>4, <1>6, <2>1, <2>2 DEF TypeOK, Unit
<1> QED
  BY <1>2, <1>4, <1>6, <1>7, <1>8, <1>9 DEF WriteInv, BrokenInv, OutInv

\* A step that changes neither the responses nor the buffer nor the wire.
LEMMA NothingSent ==
  ASSUME WriteInv, UNCHANGED <<answers, m_writeBuffer, wire>>, answers = <<>> => pc' = "idle"
  PROVE  WireInv' /\ BufferInv' /\ Written' = Written
<1>1. TypeOK /\ WireInv /\ BufferInv
  BY DEF WriteInv
<1>2. WireInv' /\ Written' = Written
  BY <1>1, WireKept
<1>3. BufferInv'
  BY <1>1, <1>2 DEF BufferInv
<1> QED BY <1>2, <1>3

\* EAGAIN: what is left to write waits for EPOLLOUT.
LEMMA WaitForRoomStep ==
  ASSUME WriteInv, WaitForRoom
  PROVE  WriteInv'
<1>1. PICK n, h, k, w : n = Len(answers) /\ h = answers[n].head /\ k = answers[n].file /\ w = Written
  OBVIOUS
<1>2. /\ pc \in {"header", "write"} /\ (~BufferIsEmpty \/ FileIsNext) /\ ~broken
      /\ out' = TRUE /\ edge' = TRUE /\ room' \in BOOLEAN
      /\ pc' = (IF pc = "header" THEN "open" ELSE "idle")
      /\ UNCHANGED <<answers, m_writeBuffer, m_fileFd, m_fileOffset, m_fileRemain, openFiles,
                     m_closeAfterWrite, broken, wire, m_state, closing, registered, cut>>
  BY DEF WaitForRoom, Writing, EnableWrite, Return, fileVars, stateVars
<1>3. answers # <<>>
  BY <1>2 DEF WriteInv, BufferInv
<1>4. /\ TypeOK /\ WireInv /\ n \in Nat \ {0} /\ h \in Nat /\ k \in Nat /\ w \in Nat
      /\ (BufferIsEmpty <=> w >= h)
      /\ openFiles = {f \in {m_fileFd} : f # 0}
      /\ m_fileFd = 0 => m_fileRemain = 0
      /\ m_fileFd # 0 =>
           /\ m_fileFd = n /\ k > 0 /\ pc \in {"write", "idle"}
           /\ m_fileOffset = (IF w > h THEN w - h ELSE 0)
           /\ m_fileRemain = k - m_fileOffset
      /\ pc = "header" => k > 0 /\ w <= h
  BY <1>1, <1>2, <1>3, WritingFacts
<1>5. m_fileFd = 0 /\ pc = "write" => k = 0 \/ w = Size(n)
  BY <1>1, <1>2, <1>3 DEF WriteInv, FileInv
<1>6. WireInv' /\ BufferInv' /\ Written' = w
  BY <1>1, <1>2, <1>3, NothingSent
<1>7. m_fileFd # 0 => m_fileRemain > 0
  <2>1. CASE FileIsNext
    BY <2>1 DEF FileIsNext
  <2>2. CASE ~BufferIsEmpty
    BY <1>4, <2>2
  <2> QED BY <1>2, <2>1, <2>2
<1>8. FileInv'
  <2>1. Size(n)' = Size(n)
    BY <1>2 DEF Size
  <2> QED BY <1>1, <1>2, <1>4, <1>5, <1>6, <1>7, <2>1 DEF FileInv
<1>9. TypeOK'
  <2>1. pc' \in {"idle", "header", "open", "write"} /\ out' \in BOOLEAN /\ edge' \in BOOLEAN
    BY <1>2
  <2> QED BY <1>2, <1>4, <2>1 DEF TypeOK
<1>10. OutInv'
  BY <1>2 DEF OutInv, BufferIsEmpty, FileIsNext
<1> QED
  BY <1>2, <1>6, <1>8, <1>9, <1>10 DEF WriteInv, BrokenInv

\* An error leaves the response unfinished, and closes the file it comes from.
LEMMA WriteErrorStep ==
  ASSUME WriteInv, WriteError
  PROVE  WriteInv'
<1>1. PICK n, h, k, w : n = Len(answers) /\ h = answers[n].head /\ k = answers[n].file /\ w = Written
  OBVIOUS
<1>2. /\ pc \in {"header", "write"} /\ (~BufferIsEmpty \/ FileIsNext)
      /\ cut' = TRUE /\ broken' = TRUE
      /\ (IF FileIsNext THEN m_fileFd' = 0 /\ openFiles' = openFiles \ {m_fileFd}
                        ELSE UNCHANGED <<m_fileFd, openFiles>>)
      /\ closing' = (closing \/ m_state # "Closed")
      /\ pc' = (IF pc = "header" THEN "open" ELSE "idle")
      /\ UNCHANGED <<answers, m_writeBuffer, m_fileOffset, m_fileRemain, m_closeAfterWrite,
                     out, edge, room, wire, m_state, registered>>
  BY DEF WriteError, Writing, HandleClose, Return, epollVars
<1>3. answers # <<>>
  BY <1>2 DEF WriteInv, BufferInv
<1>4. /\ TypeOK /\ WireInv /\ n \in Nat \ {0} /\ h \in Nat /\ k \in Nat /\ w \in Nat
      /\ Size(n) = h + k /\ (BufferIsEmpty <=> w >= h)
      /\ openFiles = {f \in {m_fileFd} : f # 0}
      /\ m_fileFd # 0 =>
           /\ m_fileFd = n /\ k > 0 /\ pc \in {"write", "idle"}
           /\ m_fileOffset = (IF w > h THEN w - h ELSE 0)
           /\ m_fileRemain = k - m_fileOffset
      /\ pc = "header" => k > 0 /\ w <= h
  BY <1>1, <1>2, <1>3, WritingFacts
<1>5. WireInv' /\ BufferInv' /\ Written' = w
  BY <1>1, <1>2, <1>3, NothingSent
<1>6. w < h + k
  <2>1. CASE FileIsNext
    BY <1>4, <2>1 DEF FileIsNext
  <2>2. CASE ~BufferIsEmpty
    BY <1>4, <2>2
  <2> QED BY <1>2, <2>1, <2>2
<1>7. m_fileFd' # 0 => m_fileFd' = m_fileFd /\ m_fileRemain > 0
  <2>1. CASE FileIsNext
    BY <1>2, <2>1
  <2>2. CASE ~BufferIsEmpty
    <3>1. m_fileFd # 0 => m_fileRemain > 0
      BY <1>4, <2>2
    <3>2. m_fileFd' = m_fileFd
      BY <1>2, <2>2 DEF FileIsNext
    <3> QED BY <3>1, <3>2
  <2> QED BY <1>2, <2>1, <2>2
<1>8. openFiles' = {f \in {m_fileFd'} : f # 0}
  <2>1. CASE FileIsNext
    BY <1>2, <1>4, <2>1
  <2>2. CASE ~FileIsNext
    BY <1>2, <1>4, <2>2
  <2> QED BY <2>1, <2>2
<1>9. FileInv'
  BY <1>1, <1>2, <1>4, <1>5, <1>7, <1>8 DEF FileInv
<1>10. BrokenInv'
  <2>1. Size(n)' = Size(n)
    BY <1>2 DEF Size
  <2> QED BY <1>1, <1>2, <1>3, <1>4, <1>5, <1>6, <2>1 DEF BrokenInv
<1>11. TypeOK'
  <2>1. m_fileFd' \in 0..Len(answers') /\ openFiles' \subseteq 1..Len(answers')
    BY <1>2, <1>4 DEF TypeOK
  <2>2. pc' \in {"idle", "header", "open", "write"} /\ closing' \in BOOLEAN
    BY <1>2
  <2> QED BY <1>2, <1>4, <2>1, <2>2 DEF TypeOK
<1> QED
  BY <1>2, <1>5, <1>9, <1>10, <1>11 DEF WriteInv, OutInv

\* WriteNonBlocking has nothing left to write.
LEMMA EndWriteStep ==
  ASSUME WriteInv, EndWrite
  PROVE  WriteInv'
<1>1. PICK n, h, k, w : n = Len(answers) /\ h = answers[n].head /\ k = answers[n].file /\ w = Written
  OBVIOUS
<1>2. /\ pc \in {"header", "write"} /\ BufferIsEmpty /\ ~FileIsNext
      /\ (IF m_fileFd # 0 THEN m_fileFd' = 0 /\ openFiles' = openFiles \ {m_fileFd}
                          ELSE UNCHANGED <<m_fileFd, openFiles>>)
      /\ out' = FALSE
      /\ (IF m_closeAfterWrite THEN closing' = (closing \/ m_state # "Closed")
                               ELSE UNCHANGED closing)
      /\ pc' = (IF pc = "header" THEN "open" ELSE "idle")
      /\ UNCHANGED <<answers, m_writeBuffer, m_fileOffset, m_fileRemain, m_closeAfterWrite,
                     edge, room, broken, wire, m_state, registered, cut>>
  BY DEF EndWrite, Writing, HandleClose, CloseFile, DisableWrite, Return, socketVars
<1>3. answers # <<>>
  BY <1>2 DEF WriteInv, BufferInv
<1>4. /\ TypeOK /\ WireInv /\ n \in Nat \ {0} /\ h \in Nat /\ k \in Nat /\ w \in Nat
      /\ Size(n) = h + k /\ (BufferIsEmpty <=> w >= h)
      /\ openFiles = {f \in {m_fileFd} : f # 0}
      /\ m_fileFd = 0 /\ ~broken => m_fileRemain = 0
      /\ m_fileFd # 0 =>
           /\ m_fileFd = n /\ k > 0 /\ pc \in {"write", "idle"}
           /\ m_fileOffset = (IF w > h THEN w - h ELSE 0)
           /\ m_fileRemain = k - m_fileOffset
      /\ pc = "header" => k > 0 /\ w <= h
      /\ (m_fileFd = 0 /\ pc = "write" /\ ~broken) => k = 0 \/ w = h + k
  BY <1>1, <1>2, <1>3, WritingFacts
<1>5. WireInv' /\ BufferInv' /\ Written' = w
  BY <1>1, <1>2, <1>3, NothingSent
<1>6. m_fileFd' = 0 /\ openFiles' = {}
  BY <1>2, <1>4
<1>7. m_fileFd # 0 => m_fileRemain = 0 /\ w = h + k
  <2>1. m_fileRemain \in Nat
    BY <1>4 DEF TypeOK
  <2>2. m_fileFd # 0 => m_fileRemain = 0
    BY <1>2, <2>1 DEF FileIsNext
  <2> QED BY <1>2, <1>4, <2>2
<1>8. FileInv'
  <2>1. Size(n)' = h + k
    BY <1>1, <1>2 DEF Size
  <2> QED BY <1>1, <1>2, <1>4, <1>5, <1>6, <1>7, <2>1 DEF FileInv
<1>9. BrokenInv'
  <2>1. Size(n)' = Size(n)
    BY <1>2 DEF Size
  <2> QED BY <1>1, <1>2, <1>5, <2>1 DEF WriteInv, BrokenInv
<1>10. TypeOK'
  <2>1. m_fileFd' \in 0..Len(answers') /\ openFiles' \subseteq 1..Len(answers')
    BY <1>2, <1>4, <1>6 DEF TypeOK
  <2>2. pc' \in {"idle", "header", "open", "write"} /\ out' \in BOOLEAN /\ closing' \in BOOLEAN
    BY <1>2, <1>4 DEF TypeOK
  <2> QED BY <1>2, <1>4, <2>1, <2>2 DEF TypeOK
<1>11. OutInv'
  BY <1>2, <1>6 DEF OutInv, BufferIsEmpty, FileIsNext
<1> QED
  BY <1>5, <1>8, <1>9, <1>10, <1>11 DEF WriteInv

\* EPOLLOUT is reported only to a connection that has a response.
LEMMA WriteStep ==
  ASSUME WriteInv, Write
  PROVE  WriteInv'
<1>1. /\ pc = "idle" /\ registered /\ out /\ pc' \in {"idle", "write"} /\ edge' = FALSE
      /\ UNCHANGED <<answers, m_writeBuffer, m_fileFd, m_fileOffset, m_fileRemain, openFiles,
                     m_closeAfterWrite, out, room, broken, wire, m_state, closing, registered,
                     cut>>
  BY DEF Write, fileVars, socketVars, stateVars
<1>2. answers # <<>>
  <2> SUFFICES ASSUME answers = <<>> PROVE FALSE
    OBVIOUS
  <2>1. m_fileFd = 0
    BY SeqFacts, EmptySeq DEF WriteInv, TypeOK
  <2>2. BufferIsEmpty /\ ~broken
    BY DEF WriteInv, BufferInv, BrokenInv, BufferIsEmpty
  <2> QED BY <1>1, <2>1, <2>2 DEF WriteInv, OutInv, FileIsNext
<1>3. WireInv' /\ BufferInv' /\ Written' = Written
  BY <1>1, <1>2, NothingSent
<1>4. Size(Len(answers))' = Size(Len(answers))
  BY <1>1 DEF Size
<1>5. FileInv'
  BY <1>1, <1>3, <1>4 DEF WriteInv, FileInv
<1>6. BrokenInv'
  BY <1>1, <1>3, <1>4 DEF WriteInv, BrokenInv
<1>7. TypeOK'
  BY <1>1 DEF WriteInv, TypeOK
<1>8. OutInv'
  BY <1>1 DEF WriteInv, OutInv, BufferIsEmpty, FileIsNext
<1> QED
  BY <1>3, <1>5, <1>6, <1>7, <1>8 DEF WriteInv

\* What the client, the timer and the loop do leaves the responses alone.
LEMMA OutsideStep ==
  ASSUME WriteInv, MakeRoom \/ CutOff \/ ReadError \/ DestroyConnection \/ UNCHANGED vars
  PROVE  WriteInv'
<1>1. /\ UNCHANGED <<answers, m_writeBuffer, m_fileFd, m_fileOffset, m_fileRemain, openFiles,
                     m_closeAfterWrite, broken, wire, pc>>
      /\ cut => cut'
      /\ registered' => registered /\ out' = out
  BY DEF MakeRoom, CutOff, ReadError, DestroyConnection, vars, fileVars, epollVars, socketVars,
         stateVars
<1>2. TypeOK'
  <2>1. /\ m_state' \in {"Connected", "Failed", "Closed"}
        /\ out' \in BOOLEAN /\ edge' \in BOOLEAN /\ room' \in BOOLEAN
        /\ closing' \in BOOLEAN /\ registered' \in BOOLEAN /\ cut' \in BOOLEAN
    BY DEF WriteInv, TypeOK, MakeRoom, CutOff, ReadError, DestroyConnection, HandleClose, vars,
           fileVars, epollVars, socketVars, stateVars
  <2> QED BY <1>1, <2>1 DEF WriteInv, TypeOK
<1>3. WireInv' /\ BufferInv' /\ Written' = Written
  BY <1>1, NothingSent DEF WriteInv, BufferInv
<1>4. Size(Len(answers))' = Size(Len(answers))
  BY <1>1 DEF Size
<1>5. FileInv'
  BY <1>1, <1>3, <1>4 DEF WriteInv, FileInv
<1>6. BrokenInv'
  BY <1>1, <1>3, <1>4 DEF WriteInv, BrokenInv
<1>7. OutInv'
  BY <1>1 DEF WriteInv, OutInv, BufferIsEmpty, FileIsNext
<1> QED
  BY <1>2, <1>3, <1>5, <1>6, <1>7 DEF WriteInv

(***************************************************************************)
(* The invariant.                                                           *)
(***************************************************************************)
LEMMA InitWrite == Init => WriteInv
<1> SUFFICES ASSUME Init PROVE WriteInv
  OBVIOUS
<1>1. Len(answers) = 0 /\ Len(wire) = 0 /\ Len(m_writeBuffer) = 0
  BY EmptySeq DEF Init
<1>2. TypeOK
  <2>1. answers \in Seq(Answer) /\ m_writeBuffer \in Seq(Unit) /\ wire \in Seq(Unit)
    BY EmptySeq DEF Init
  <2>2. m_fileFd \in 0..Len(answers) /\ openFiles \subseteq 1..Len(answers)
    BY <1>1 DEF Init
  <2> QED BY <2>1, <2>2 DEF Init, TypeOK, Answer, Unit
<1>3. WireInv
  BY <1>1 DEF Init, WireInv, ResponsesInOrder
<1> QED
  BY <1>1, <1>2, <1>3 DEF Init, WriteInv, BufferInv, FileInv, BrokenInv, OutInv, BufferIsEmpty,
                          FileIsNext

LEMMA NextWrite ==
  ASSUME ~Pipelining, WriteInv, [Next]_vars
  PROVE  WriteInv'
<1>1. CASE \E a \in Responses : HandleRequest(a)
  BY <1>1, RequestStep
<1>2. CASE OpenFile
  BY <1>2, OpenFileStep
<1>3. CASE OpenFails
  BY <1>3, OpenFailsStep
<1>4. CASE Write
  BY <1>4, WriteStep
<1>5. CASE WriteUnit
  BY <1>5, WriteUnitStep
<1>6. CASE SendfileUnit
  BY <1>6, SendfileUnitStep
<1>7. CASE WaitForRoom
  BY <1>7, WaitForRoomStep
<1>8. CASE WriteError
  BY <1>8, WriteErrorStep
<1>9. CASE EndWrite
  BY <1>9, EndWriteStep
<1>10. CASE MakeRoom \/ CutOff \/ ReadError \/ DestroyConnection \/ UNCHANGED vars
  BY <1>10, OutsideStep
<1> QED
  BY <1>1, <1>2, <1>3, <1>4, <1>5, <1>6, <1>7, <1>8, <1>9, <1>10 DEF Next

\* The client receives the responses in the order of its requests, each one
\* whole before the next begins, whatever the sizes of header and file, the short
\* writes, the EAGAINs and the failing opens (HttpConnect.cpp:189-318).
THEOREM ResponsesTheorem ==
  ASSUME ~Pipelining PROVE Spec => []ResponsesInOrder
<1>1. WriteInv => ResponsesInOrder
  BY DEF WriteInv, WireInv
<1> QED BY <1>1, InitWrite, NextWrite, PTL DEF Spec

\* Between two events EPOLLOUT is watched exactly while something waits to be
\* written, and no descriptor but that of the file being sent is open
\* (HttpConnect.cpp:308-321).
THEOREM RoomTheorem ==
  ASSUME ~Pipelining PROVE Spec => []WaitsOnlyForRoom
<1>1. WriteInv => WaitsOnlyForRoom
  <2> SUFFICES ASSUME WriteInv PROVE WaitsOnlyForRoom
    OBVIOUS
  <2>1. TypeOK
    BY DEF WriteInv
  <2> SUFFICES ASSUME pc = "idle", registered, ~cut
               PROVE  /\ out <=> (~BufferIsEmpty \/ FileIsNext)
                      /\ openFiles = {f \in {m_fileFd} : m_fileRemain > 0}
    BY <2>1 DEF WaitsOnlyForRoom
  <2>2. ~broken
    BY DEF WriteInv, BrokenInv
  <2>3. out <=> (~BufferIsEmpty \/ FileIsNext)
    BY <2>2 DEF WriteInv, OutInv
  <2>4. /\ openFiles = {f \in {m_fileFd} : f # 0}
        /\ m_fileFd = 0 => m_fileRemain = 0
        /\ m_fileFd # 0 => m_fileRemain > 0
    BY <2>2 DEF WriteInv, FileInv
  <2>5. openFiles = {f \in {m_fileFd} : m_fileRemain > 0}
    BY <2>4
  <2> QED BY <2>3, <2>5
<1> QED BY <1>1, InitWrite, NextWrite, PTL DEF Spec

(***************************************************************************)
(* The end of the connection.                                               *)
(***************************************************************************)

\* A step that sends nothing and closes only what is to be closed.
LEMMA ClosesKept ==
  ASSUME ClosesByLast, UNCHANGED <<answers, wire, m_closeAfterWrite>>,
         closing => closing', ~registered' => ~registered \/ closing,
         closing' /\ ~cut' => (closing /\ ~cut) \/ (m_closeAfterWrite /\ Complete)
  PROVE  ClosesByLast'
<1>1. Complete' = Complete
  BY DEF Complete, Size
<1> QED BY <1>1 DEF ClosesByLast

\* The request that comes after a complete answer that does not close.
LEMMA ClosesRequest ==
  ASSUME \A r \in Responses : r.close => r.file = 0, ~Pipelining,
         WriteInv, ClosesByLast, NEW a \in Responses, HandleRequest(a)
  PROVE  ClosesByLast'
<1>1. PICK n : n = Len(answers)
  OBVIOUS
<1>2. /\ answers' = Append(answers, a) /\ m_closeAfterWrite' = (m_closeAfterWrite \/ a.close)
      /\ \A r \in 1..n : ~answers[r].close
      /\ UNCHANGED <<closing, registered, cut>>
  BY <1>1 DEF HandleRequest, MayAsk
<1>3. a \in Answer /\ a.head > 0 /\ (a.close => a.file = 0)
  BY ResponsesAssumption DEF Answer
<1>4. answers \in Seq(Answer) /\ n \in Nat
  BY <1>1, LengthFacts DEF WriteInv
<1>5. /\ Len(answers') = n + 1 /\ answers'[n + 1] = a
      /\ \A r \in 1..n : answers'[r] = answers[r]
  BY <1>1, <1>2, <1>3, <1>4, AppendProperties
<1>6. /\ ~m_closeAfterWrite /\ (closing => cut) /\ (~registered => closing)
      /\ \A r \in 1..n : answers[r].head > 0
  BY <1>1, <1>2 DEF ClosesByLast
<1>7. m_closeAfterWrite' <=> \E r \in 1..Len(answers') : answers'[r].close
  <2>1. m_closeAfterWrite' <=> a.close
    BY <1>2, <1>6
  <2>2. (\E r \in 1..(n + 1) : answers'[r].close) <=> a.close
    BY <1>2, <1>4, <1>5
  <2> QED BY <1>5, <2>1, <2>2
<1>8. \A r \in 1..Len(answers') :
        /\ answers'[r].head > 0
        /\ answers'[r].close => r = Len(answers') /\ answers'[r].file = 0
  BY <1>2, <1>3, <1>4, <1>5, <1>6
<1> QED BY <1>2, <1>6, <1>7, <1>8 DEF ClosesByLast

\* The page of HandleError closes the connection that a file did not.
LEMMA ClosesOpenFails ==
  ASSUME WriteInv, ClosesByLast, OpenFails
  PROVE  ClosesByLast'
<1>1. PICK n, h : n = Len(answers) /\ h = answers[n].head
  OBVIOUS
<1>2. /\ pc = "open" /\ m_closeAfterWrite' = TRUE
      /\ answers' = [answers EXCEPT ![n].file = 0, ![n].close = TRUE, ![n].head = @ + 1]
      /\ UNCHANGED <<closing, registered, cut>>
  BY <1>1 DEF OpenFails, stateVars
<1>3. /\ answers # <<>> /\ answers[n].file > 0
  BY <1>1, <1>2 DEF WriteInv, BufferInv, FileInv
<1>4. answers \in Seq(Answer) /\ n \in Nat \ {0} /\ answers[n] \in Answer /\ h \in Nat
  BY <1>1, <1>3, LengthFacts DEF WriteInv
<1>5. /\ \A r \in 1..n : ~answers[r].close /\ answers[r].head > 0
      /\ ~m_closeAfterWrite /\ (closing => cut) /\ (~registered => closing)
  <2>1. \A r \in 1..n : ~answers[r].close
    BY <1>1, <1>3, <1>4 DEF ClosesByLast
  <2> QED BY <1>1, <2>1 DEF ClosesByLast
<1>6. PICK b : b = [answers[n] EXCEPT !.file = 0, !.close = TRUE, !.head = @ + 1]
  OBVIOUS
<1>7. answers' = [answers EXCEPT ![n] = b]
  BY <1>2, <1>6
<1>8. b = [head |-> h + 1, file |-> 0, close |-> TRUE, bad |-> answers[n].bad] /\ b \in Answer
  <2>1. answers[n].bad \in BOOLEAN
    BY <1>4 DEF Answer
  <2>2. b = [head |-> h + 1, file |-> 0, close |-> TRUE, bad |-> answers[n].bad]
    BY <1>1, <1>4, <1>6 DEF Answer
  <2> QED BY <1>4, <2>1, <2>2 DEF Answer
<1>9. /\ Len(answers') = n
      /\ \A r \in 1..n : answers'[r] = IF r = n THEN b ELSE answers[r]
  BY <1>1, <1>4, <1>7, <1>8, ExceptSeq
<1>10. b.head > 0 /\ b.close = TRUE /\ b.file = 0
  BY <1>4, <1>8
<1>11. m_closeAfterWrite' <=> \E r \in 1..Len(answers') : answers'[r].close
  BY <1>2, <1>4, <1>9, <1>10
<1>12. \A r \in 1..Len(answers') :
         /\ answers'[r].head > 0
         /\ answers'[r].close => r = Len(answers') /\ answers'[r].file = 0
  BY <1>5, <1>9, <1>10
<1> QED BY <1>2, <1>5, <1>11, <1>12 DEF ClosesByLast

\* The connection closes with the last unit of its last response.
LEMMA ClosesEndWrite ==
  ASSUME WriteInv, ClosesByLast, EndWrite
  PROVE  ClosesByLast'
<1>1. PICK n, h, k, w : n = Len(answers) /\ h = answers[n].head /\ k = answers[n].file /\ w = Written
  OBVIOUS
<1>2. /\ pc \in {"header", "write"} /\ BufferIsEmpty /\ ~FileIsNext
      /\ (IF m_closeAfterWrite THEN closing' = (closing \/ m_state # "Closed")
                               ELSE UNCHANGED closing)
      /\ UNCHANGED <<answers, m_closeAfterWrite, wire, registered, cut>>
  BY DEF EndWrite, Writing, HandleClose, socketVars
<1>3. answers # <<>>
  BY <1>2 DEF WriteInv, BufferInv
<1>4. /\ TypeOK /\ WireInv /\ n \in Nat \ {0} /\ h \in Nat /\ k \in Nat /\ w \in Nat
      /\ Size(n) = h + k /\ w <= h + k /\ w >= h
      /\ m_fileFd # 0 =>
           /\ m_fileFd = n /\ k > 0
           /\ m_fileOffset = (IF w > h THEN w - h ELSE 0)
           /\ m_fileRemain = k - m_fileOffset
      /\ pc = "header" => k > 0
      /\ (m_fileFd = 0 /\ pc = "write" /\ ~broken) => k = 0 \/ w = h + k
      /\ broken => cut
  BY <1>1, <1>2, <1>3, WritingFacts
<1>5. h > 0 /\ (m_closeAfterWrite => k = 0)
  BY <1>1, <1>4 DEF ClosesByLast
<1>6. m_closeAfterWrite /\ ~cut => Complete
  <2> SUFFICES ASSUME m_closeAfterWrite, ~cut PROVE Complete
    OBVIOUS
  <2>1. w = h + k
    BY <1>4, <1>5
  <2>2. w = Size(n) /\ w > 0
    BY <1>4, <1>5, <2>1
  <2>3. wire # <<>> /\ wire[Len(wire)][1] = Len(answers)
    BY <1>1, <2>2 DEF Written
  <2> QED BY <1>1, <1>3, <1>4, <2>2, <2>3, CompleteIs
<1> QED
  BY <1>2, <1>6, ClosesKept DEF ClosesByLast

LEMMA ClosesUnit ==
  ASSUME WriteInv, ClosesByLast, WriteUnit \/ SendfileUnit
  PROVE  ClosesByLast'
<1>1. PICK n, h, k, w : n = Len(answers) /\ h = answers[n].head /\ k = answers[n].file /\ w = Written
  OBVIOUS
<1>2. /\ pc \in {"header", "write"} /\ (~BufferIsEmpty \/ FileIsNext)
      /\ UNCHANGED <<answers, m_closeAfterWrite, closing, registered, cut>>
  BY DEF WriteUnit, SendfileUnit, Writing, stateVars
<1>3. answers # <<>>
  BY <1>2 DEF WriteInv, BufferInv
<1>4. /\ TypeOK /\ WireInv /\ h \in Nat /\ k \in Nat /\ w \in Nat
      /\ Size(n) = h + k /\ (BufferIsEmpty <=> w >= h)
      /\ m_fileFd # 0 => /\ m_fileOffset = (IF w > h THEN w - h ELSE 0)
                         /\ m_fileRemain = k - m_fileOffset
  BY <1>1, <1>3, WritingFacts
<1>5. w < h + k
  <2>1. CASE FileIsNext
    BY <1>4, <2>1 DEF FileIsNext
  <2>2. CASE ~BufferIsEmpty
    BY <1>4, <2>2
  <2> QED BY <1>2, <2>1, <2>2
<1>6. ~Complete
  BY <1>1, <1>3, <1>4, <1>5, CompleteIs
<1> QED
  BY <1>2, <1>6 DEF ClosesByLast

LEMMA NextCloses ==
  ASSUME \A r \in Responses : r.close => r.file = 0, ~Pipelining,
         WriteInv, ClosesByLast, [Next]_vars
  PROVE  ClosesByLast'
<1>1. CASE \E a \in Responses : HandleRequest(a)
  BY <1>1, ClosesRequest
<1>2. CASE OpenFails
  BY <1>2, ClosesOpenFails
<1>3. CASE EndWrite
  BY <1>3, ClosesEndWrite
<1>4. CASE WriteUnit \/ SendfileUnit
  BY <1>4, ClosesUnit
<1>5. CASE OpenFile \/ Write \/ WaitForRoom \/ MakeRoom \/ UNCHANGED vars
  <2>1. UNCHANGED <<answers, wire, m_closeAfterWrite, closing, registered, cut>>
    BY <1>5 DEF OpenFile, Write, WaitForRoom, MakeRoom, vars, stateVars, socketVars
  <2> QED BY <2>1, ClosesKept
<1>6. CASE WriteError \/ CutOff \/ ReadError
  <2>1. UNCHANGED <<answers, wire, m_closeAfterWrite, registered>> /\ cut' = TRUE
    BY <1>6 DEF WriteError, CutOff, ReadError, socketVars
  <2>2. closing => closing'
    BY <1>6 DEF WriteError, CutOff, ReadError, HandleClose
  <2> QED BY <2>1, <2>2, ClosesKept
<1>7. CASE DestroyConnection
  <2>1. UNCHANGED <<answers, wire, m_closeAfterWrite, closing, cut>> /\ closing
    BY <1>7 DEF DestroyConnection, socketVars
  <2> QED BY <2>1, ClosesKept
<1> QED
  BY <1>1, <1>2, <1>3, <1>4, <1>5, <1>6, <1>7 DEF Next

\* A connection that ends although the client is there and the timer has not
\* expired ends after its last response, as long as no response that closes the
\* connection has a file (HttpConnect.cpp:189-240, 311-321).
THEOREM CloseTheorem ==
  ASSUME \A r \in Responses : r.close => r.file = 0, ~Pipelining
  PROVE  Spec => []CloseAfterWrite
<1>1. Init => WriteInv /\ ClosesByLast
  BY InitWrite, EmptySeq DEF Init, ClosesByLast
<1>2. WriteInv /\ ClosesByLast /\ [Next]_vars => (WriteInv /\ ClosesByLast)'
  BY NextWrite, NextCloses
<1>3. WriteInv /\ ClosesByLast => CloseAfterWrite
  BY DEF ClosesByLast, CloseAfterWrite
<1> QED BY <1>1, <1>2, <1>3, PTL DEF Spec
==============================================================================

--------------------------- MODULE MCAsyncLogging ---------------------------
(* Small instances of AsyncLogging, and the checks of the records its threads *)
(* are handed (LogStream), which TLC evaluates before it starts.              *)
EXTENDS AsyncLogging, Integers, SequencesExt, TLC

CONSTANTS t1, t2

MCLoggers == {t1, t2}

\* An eight-bit type, a buffer of nine characters and room for four of a number.
L == INSTANCE LogStream WITH SIZE <- 9, m_maxNumericSize <- 4, Width <- 8

Value(ds) == FoldLeft(LAMBDA v, d : 10 * v + d, 0, ds)

\* convert writes the decimal numeral of every value, the smallest included: it
\* reads back as the value and has no superfluous zero (LogStream.cpp:26-57).
ASSUME ConvertIsDecimal ==
  \A v \in L!Signed :
    LET s == L!Convert(v)
        digits == IF v < 0 THEN Tail(s) ELSE s
    IN /\ v < 0 => s[1] = L!Minus
       /\ ToSet(digits) \subseteq 0..9
       /\ Value(digits) = IF v < 0 THEN -v ELSE v
       /\ Len(digits) > 1 => digits[1] # 0

SomePieces == {L!Text(<<100>>), L!Text(<<101, 102, 103>>), L!Number(-128), L!Number(7)}
SomeRecords == UNION {[1..n -> SomePieces] : n \in 0..4}

AllChars(ps) == FlattenSeq([i \in DOMAIN ps |-> ps[i].chars])

\* A record never outgrows its buffer; one that fits with room for a number to
\* spare is complete; and a number in it is whole: the record is what remains
\* when some numbers are left out and the text is cut at the end of the buffer
\* (LogStream.h:19, LogStream.cpp:62).
ASSUME RecordsAreWhole ==
  \A ps \in SomeRecords :
    LET r == L!Record(ps) IN
    /\ Len(r) <= 9
    /\ Len(AllChars(ps)) + 4 <= 9 => r = AllChars(ps)
    /\ \E kept \in SUBSET DOMAIN ps :
         LET all == FlattenSeq([i \in DOMAIN ps |-> IF i \in kept THEN ps[i].chars ELSE <<>>])
         IN /\ \A i \in DOMAIN ps \ kept : ps[i].number
            /\ IsPrefix(r, all) /\ (r # all => Len(r) = 9)

\* Every record is output once, before any flush; one that ends the process is
\* flushed first, and no level switches it off (Logging.cpp:85-108).
ASSUME EffectsInOrder ==
  \A level \in ToSet(L!Levels), g \in ToSet(L!Levels) :
    LET e == L!Effects(level) IN
    /\ e[1] = "output"
    /\ "abort" \in ToSet(e) => e = <<"output", "flush", "abort">> /\ L!IsLevelEnabled(level, g)
==============================================================================

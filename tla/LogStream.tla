------------------------------ MODULE LogStream ------------------------------
(***************************************************************************)
(* How a Logger makes its record (log/LogStream.h, log/LogStream.cpp,       *)
(* log/Logging.cpp): pieces appended to a FixBuffer that drops what does    *)
(* not fit, integers converted without snprintf, and what the destructor    *)
(* does with the record.                                                    *)
(***************************************************************************)
EXTENDS Integers, Sequences, SequencesExt

CONSTANTS
  SIZE,             \* of the buffer
  m_maxNumericSize, \* the room an integer must find
  Width             \* the bits of the integer type

Minus == -1  \* the character '-'; a digit is its value, other characters are larger

Signed == -(2 ^ (Width - 1))..(2 ^ (Width - 1) - 1)

\* convert's magnitude, computed in the unsigned type: -(value + 1) is in the
\* range of the signed one for every value.
Magnitude(v) == IF v < 0 THEN (-(v + 1) + 1) % 2 ^ Width ELSE v

\* The do loop of convert: at least one digit, the last one first.
DigitsOf[i \in Nat] == <<i % 10>> \o IF i < 10 THEN <<>> ELSE DigitsOf[i \div 10]

\* convert: the digits, the sign, and all of it reversed.
Convert(v) == Reverse(DigitsOf[Magnitude(v)] \o IF v < 0 THEN <<Minus>> ELSE <<>>)

(***************************************************************************)
(* FixBuffer, as the characters in it, and LogStream's operators <<.        *)
(***************************************************************************)
Available(buf) == SIZE - Len(buf)

\* FixBuffer::Append: what fits.
AppendText(buf, s) ==
  buf \o SubSeq(s, 1, IF Len(s) <= Available(buf) THEN Len(s) ELSE Available(buf))

\* FormatInteger, and appendFormatted for the other numbers: all or nothing.
AppendNumber(buf, s) == IF Available(buf) >= m_maxNumericSize THEN buf \o s ELSE buf

Text(s) == [number |-> FALSE, chars |-> s]
Number(v) == [number |-> TRUE, chars |-> Convert(v)]

AppendPiece(buf, p) ==
  IF p.number THEN AppendNumber(buf, p.chars) ELSE AppendText(buf, p.chars)

(***************************************************************************)
(* Logger: a record is the constructor's pieces (time, level), the caller's *)
(* and those of Finish (file, line, end of line), appended one by one.      *)
(***************************************************************************)
Record(pieces) == FoldLeft(AppendPiece, <<>>, pieces)

Levels == <<"DEBUG", "INFO", "WARN", "ERROR", "FATAL">>
Rank(level) == CHOOSE i \in DOMAIN Levels : Levels[i] = level

\* The macros: LOG_FATAL does not ask.
IsLevelEnabled(level, g_logLevel) == level = "FATAL" \/ Rank(g_logLevel) <= Rank(level)

\* The calls ~Logger makes, in order.
Effects(level) ==
  <<"output">> \o (IF Rank(level) >= Rank("ERROR") THEN <<"flush">> ELSE <<>>)
               \o (IF level = "FATAL" THEN <<"abort">> ELSE <<>>)
==============================================================================

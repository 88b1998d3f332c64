------------------------------ MODULE HttpParser ------------------------------
(***************************************************************************)
(* HttpRequest::Parse (http/HttpRequest.cpp): an automaton that is fed the  *)
(* bytes of the read buffer one by one and remembers its state between two  *)
(* calls.  m_parseStart, the beginning of the token it is in, is a position *)
(* in the bytes of this call, and is set to their beginning by every call.  *)
(*                                                                          *)
(* A byte is a symbol: a delimiter, or a whole word that contains none.     *)
(* What the automaton does inside a word is the same for each of its bytes. *)
(***************************************************************************)
EXTENDS Integers, Sequences, SequencesExt

CONSTANT IntOf   \* std::stoi, on the values it does not throw for

SP == " "
CR == "\r"
LF == "\n"
COLON == ":"

Methods == {"GET", "POST", "HEAD", "PUT", "DELETE", "CONNECT", "OPTIONS", "TRACE", "PATCH"}
Versions == {"HTTP/1.0", "HTTP/1.1"}

\* The HttpRequest that Reset leaves.  curKey is the static variable of
\* ParseHeader, which nothing resets.
NewRequest(curKey) ==
  [parse |-> "REQUEST_LINE", line |-> "METHOD", header |-> "KEY",
   method |-> "INVALID", url |-> <<>>, version |-> "UNKNOWN",
   headers |-> [k \in {} |-> <<>>], body |-> <<>>, contentLength |-> 0,
   keepAlive |-> FALSE, curKey |-> curKey,
   parseStart |-> 1, end |-> 0, failed |-> FALSE]

IsFinish(r) == r.parse = "FINISH"

Error(r) == [r EXCEPT !.parse = "ERROR"]

\* The bytes from m_parseStart to m_curPos.
Token(r, s, i) == SubSeq(s, r.parseStart, i - 1)

OneOf(words, token, other) ==
  IF Len(token) = 1 /\ token[1] \in words THEN token[1] ELSE other

ParseRequestLine(r, s, i) ==
  CASE r.line = "METHOD" ->
         IF s[i] # SP THEN r
         ELSE [r EXCEPT !.method = OneOf(Methods, Token(r, s, i), "INVALID"),
                        !.line = "URL", !.parseStart = i + 1]
    [] r.line = "URL" ->
         IF s[i] # SP THEN r
         ELSE [r EXCEPT !.url = Token(r, s, i), !.line = "VERSION", !.parseStart = i + 1]
    [] r.line = "VERSION" ->
         IF s[i] # CR THEN r
         ELSE LET v == OneOf(Versions, Token(r, s, i), "UNKNOWN")
              IN  [r EXCEPT !.version = v, !.keepAlive = @ \/ v = "HTTP/1.1",
                            !.line = "LINE_END"]
    [] r.line = "LINE_END" ->
         IF s[i] # LF THEN Error(r)
         ELSE [r EXCEPT !.parse = "HEADERS", !.header = "KEY",
                        !.end = i, !.parseStart = i + 1]

\* m_isKeepAlive after a header.
KeepAliveAfter(r, key, value) ==
  IF key # <<"Connection">> THEN r.keepAlive
  ELSE (r.keepAlive /\ value # <<"close">>) \/ value = <<"keep-alive">>

\* The headers with a value for the current key.
HeadersWith(r, value) ==
  [k \in DOMAIN r.headers \cup {r.curKey} |-> IF k = r.curKey THEN value ELSE r.headers[k]]

\* A header is complete.  stoi throws for what is not a number.
EndOfValue(r, value) ==
  LET isLength == r.curKey = <<"Content-Length">> IN
  IF isLength /\ value \notin DOMAIN IntOf THEN [r EXCEPT !.parse = "THROWN"]
  ELSE [r EXCEPT !.headers = HeadersWith(r, value),
                 !.contentLength = IF isLength THEN IntOf[value] ELSE @,
                 !.keepAlive = KeepAliveAfter(r, r.curKey, value),
                 !.header = "CR"]

\* The state after the empty line.
AfterHeaders(r) ==
  IF r.contentLength > 0 THEN "BODY"
  ELSE IF r.method = "POST" /\ <<"Content-Length">> \notin DOMAIN r.headers THEN "ERROR"
  ELSE "FINISH"

ParseHeader(r, s, i) ==
  CASE r.header = "KEY" ->
         IF s[i] = COLON
         THEN [r EXCEPT !.header = "COLON", !.curKey = Token(r, s, i), !.parseStart = i + 1]
         ELSE IF s[i] \in {CR, LF} THEN Error(r) ELSE r
    [] r.header = "COLON" ->
         IF s[i] = SP THEN [r EXCEPT !.header = "SPACE_AFTER_COLON"] ELSE Error(r)
    [] r.header = "SPACE_AFTER_COLON" -> [r EXCEPT !.header = "VALUE", !.parseStart = i]
    [] r.header = "VALUE" -> IF s[i] # CR THEN r ELSE EndOfValue(r, Token(r, s, i))
    [] r.header = "CR" -> IF s[i] = LF THEN [r EXCEPT !.header = "LF"] ELSE Error(r)
    [] r.header = "LF" ->
         IF s[i] = CR THEN [r EXCEPT !.header = "END_CR"]
         ELSE [r EXCEPT !.header = "KEY", !.parseStart = i]
    [] r.header = "END_CR" ->
         [r EXCEPT !.parse = IF s[i] = LF THEN AfterHeaders(r) ELSE "ERROR",
                   !.end = IF s[i] = LF THEN i ELSE @]

\* Mutant: the body's last byte is not enough.
BodyEndsLate(r, n) == n > r.contentLength

BodyEnds(r, n) == n = r.contentLength

ParseBody(r, s, i) ==
  [r EXCEPT !.body = Append(@, s[i]), !.end = i,
            !.parse = IF BodyEnds(r, Len(r.body) + 1) THEN "FINISH" ELSE @]

\* The switch of Parse for one byte; a byte after an error ends the loop.
Feed(r, s, i) ==
  IF r.failed THEN r
  ELSE CASE r.parse = "REQUEST_LINE" -> ParseRequestLine(r, s, i)
         [] r.parse = "HEADERS" -> ParseHeader(r, s, i)
         [] r.parse = "BODY" -> ParseBody(r, s, i)
         [] r.parse = "ERROR" -> [r EXCEPT !.failed = TRUE]
         [] r.parse \in {"FINISH", "THROWN"} -> r

\* What every call of Parse begins with.
Restarted(r) == [r EXCEPT !.parseStart = 1, !.end = 0]

\* The request after Parse(s).  What Parse returns is -1 if it failed, and how
\* many bytes are done with (end) otherwise.  (The sets of one element make TLC
\* feed every byte once.)
Parse(r, s) ==
  LET fed[i \in 0..Len(s)] ==
        IF i = 0 THEN Restarted(r) ELSE CHOOSE q \in {Feed(p, s, i) : p \in {fed[i - 1]}} : TRUE
  IN  fed[Len(s)]
==============================================================================

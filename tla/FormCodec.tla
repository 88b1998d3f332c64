------------------------------ MODULE FormCodec ------------------------------
(***************************************************************************)
(* The text conversions between the pages of the server and the requests    *)
(* the browser makes from them (http/HttpServer.cpp, first part, and        *)
(* http/MultipartParser.cpp).  A text is a sequence of symbols: the         *)
(* characters the conversions tell apart, and words of other ones.          *)
(***************************************************************************)
EXTENDS Integers, Sequences, SequencesExt

CONSTANTS
  Codes,      \* the two hexadecimal digits of each character UrlEncode escapes
  Lowercase,  \* std::tolower, on the words it changes
  Entities    \* what HtmlEscape makes of each character it escapes

HexDigits == {"0", "1", "2", "3", "4", "5", "6", "7", "8", "9",
              "A", "B", "C", "D", "E", "F", "a", "b", "c", "d", "e", "f"}
Blank == {" ", "\t", "\r", "\n"}

\* Each escaped character has digits of its own, and what means something in a
\* URL or a form is escaped; the words HtmlEscape writes differ, and are not
\* what UrlEncode or a path is written with.
ASSUME CodesAssumption ==
  /\ \A c \in DOMAIN Codes : Codes[c] \in Seq(HexDigits) /\ Len(Codes[c]) = 2
  /\ \A c, d \in DOMAIN Codes : Codes[c] = Codes[d] => c = d
  /\ {" ", "%", "&", "+", "=", "?", "/"} \subseteq DOMAIN Codes
ASSUME EntitiesAssumption ==
  /\ \A c, d \in DOMAIN Entities : Entities[c] = Entities[d] => c = d
  /\ \A c \in DOMAIN Entities : Entities[c] \notin HexDigits \cup {"%", "+", "/"}
ASSUME LowercaseAssumption ==
  "Content-Disposition" \in DOMAIN Lowercase
    /\ Lowercase["Content-Disposition"] = "content-disposition"

\* std::string::find: the first position from `from` on, 0 for npos.
Find(text, pattern, from) ==
  LET hits == {i \in from..Len(text) + 1 - Len(pattern) :
                 SubSeq(text, i, i + Len(pattern) - 1) = pattern}
  IN  IF hits = {} THEN 0 ELSE Min(hits)

\* std::string::substr(first): the text from a position on.
From(text, first) == SubSeq(text, first, Len(text))

\* The text before a position found, all of it for npos.
Before(text, pos) == IF pos = 0 THEN text ELSE SubSeq(text, 1, pos - 1)

(***************************************************************************)
(* URLs and forms.                                                          *)
(***************************************************************************)
Escaped(c) == IF c \in DOMAIN Codes THEN <<"%">> \o Codes[c] ELSE <<c>>

UrlEncode(text) == FlattenSeq([i \in 1..Len(text) |-> Escaped(text[i])])

\* The character of two digits; one outside the alphabet is named by them.
CharOf(digits) ==
  IF \E c \in DOMAIN Codes : Codes[c] = digits
  THEN CHOOSE c \in DOMAIN Codes : Codes[c] = digits
  ELSE "\\x" \o digits[1] \o digits[2]

\* Mutant: an escape at the very end is not seen.
EscapedBeforeEnd(text, i) ==
  text[i] = "%" /\ i + 2 < Len(text)
  /\ text[i + 1] \in HexDigits /\ text[i + 2] \in HexDigits

\* A percent sign and what strtol takes for two hexadecimal digits, which may
\* be a sign or a blank and one digit.
EscapedAt(text, i) ==
  /\ text[i] = "%" /\ i + 2 <= Len(text)
  /\ text[i + 1] \in HexDigits \cup Blank \cup {"\\v", "\\f", "+", "-"}
  /\ text[i + 2] \in HexDigits

\* What a text stands for; `plus` is what a plus sign does.
Decoded(text, plus) ==
  LET rest[i \in 1..Len(text) + 3] ==
        IF i > Len(text) THEN <<>>
        ELSE IF EscapedAt(text, i)
        THEN <<CharOf(SubSeq(text, i + 1, i + 2))>> \o rest[i + 3]
        ELSE <<IF text[i] = "+" THEN plus ELSE text[i]>> \o rest[i + 1]
  IN  rest[1]

DecodeUrlPath(url) == Decoded(Before(url, Find(url, <<"?">>, 1)), "+")

UrlDecode(value) == Decoded(value, " ")

NoFields == [k \in {} |-> <<>>]

WithField(fields, name, value) ==
  [k \in DOMAIN fields \cup {name} |-> IF k = name THEN value ELSE fields[k]]

\* Names and values between the ampersands; the last of several fields with one
\* name counts.
ParseFormUrlEncoded(body) ==
  LET fields[pos \in 1..Len(body) + 1] ==
        LET amp == Find(body, <<"&">>, pos)
            end == IF amp = 0 THEN Len(body) + 1 ELSE amp
            eq == Find(body, <<"=">>, pos)
            later == IF amp = 0 THEN NoFields ELSE fields[amp + 1]
            name == UrlDecode(SubSeq(body, pos, eq - 1))
        IN  IF eq # 0 /\ eq < end /\ name \notin DOMAIN later
            THEN WithField(later, name, UrlDecode(SubSeq(body, eq + 1, end - 1)))
            ELSE later
  IN  fields[1]

ParseQueryString(url) ==
  LET q == Find(url, <<"?">>, 1) IN
  IF q = 0 \/ q >= Len(url) THEN NoFields ELSE ParseFormUrlEncoded(From(url, q + 1))

(***************************************************************************)
(* What ContentListPage writes into its links and forms.                    *)
(***************************************************************************)
HtmlEscape(text) ==
  [i \in 1..Len(text) |->
     IF text[i] \in DOMAIN Entities THEN Entities[text[i]] ELSE text[i]]

DirectoryLink(user, dir) ==
  <<"/", "files", "?", "username", "=">> \o UrlEncode(user)
    \o <<"&", "dir", "=">> \o UrlEncode(dir)

FileLink(user, relativePath) ==
  <<"/">> \o HtmlEscape(UrlEncode(user)) \o <<"/">> \o HtmlEscape(relativePath)

\* The hidden inputs of the download and delete forms, and of the upload form.
FileFormFields(user, relativePath) ==
  <<[name |-> <<"username">>, value |-> HtmlEscape(user)],
    [name |-> <<"path">>, value |-> HtmlEscape(relativePath)]>>

UploadFormFields(user, dir) ==
  <<[name |-> <<"username">>, value |-> HtmlEscape(user)],
    [name |-> <<"directory">>, value |-> HtmlEscape(dir)]>>

(***************************************************************************)
(* MultipartParser.                                                         *)
(***************************************************************************)
CRLF == <<"\r", "\n">>
Quote == "\""
Semicolon == ";"
NameMark == "name=\""
FilenameMark == "filename=\""

Trim(text) ==
  LET inked == {i \in 1..Len(text) : text[i] \notin Blank} IN
  IF inked = {} THEN <<>> ELSE SubSeq(text, Min(inked), Max(inked))

Unquoted(text) ==
  IF Len(text) > 2 /\ Head(text) = Quote /\ Last(text) = Quote
  THEN SubSeq(text, 2, Len(text) - 1) ELSE text

\* ExtractBoundary: <<>> where the code returns false.
Boundary(contentType) ==
  LET pos == Find(contentType, <<"boundary=">>, 1)
      rest == From(contentType, pos + 1)
  IN  IF pos = 0 THEN <<>> ELSE Unquoted(Trim(Before(rest, Find(rest, <<Semicolon>>, 1))))

LowerWord(w) == IF w \in DOMAIN Lowercase THEN Lowercase[w] ELSE w

\* ParsePartHeaders: the first of several headers with one name counts.
PartHeaders(text) ==
  LET lines[pos \in 1..Len(text) + 2] ==
        LET found == Find(text, CRLF, pos)
            lineEnd == IF found = 0 THEN Len(text) + 1 ELSE found
            colon == Find(text, <<":">>, pos)
            later == IF lineEnd + 2 > Len(text) THEN NoFields ELSE lines[lineEnd + 2]
            key == [i \in 1..colon - pos |-> LowerWord(text[pos + i - 1])]
        IN  IF colon # 0 /\ colon < lineEnd
            THEN WithField(later, key, SubSeq(text, colon + 1, lineEnd - 1))
            ELSE later
  IN  IF text = <<>> THEN NoFields ELSE lines[1]

\* The symbols that name=" is found in.
NameMarks == {NameMark, FilenameMark}

\* GetDispositionValue; `marks` are the symbols that key=" is found in.
DispositionValue(header, marks) ==
  LET hits == {i \in 1..Len(header) : header[i] \in marks}
      pos == Min(hits)
      end == Find(header, <<Quote>>, pos + 1)
  IN  IF hits = {} THEN <<>> ELSE IF end = 0 THEN <<>> ELSE SubSeq(header, pos + 1, end - 1)

Failed == [ok |-> FALSE, parts |-> <<>>]

\* Where the content of a part ends.
ContentEnd(body, delimiter, from) == Find(body, CRLF \o delimiter, from)

ParseMultipart(contentType, body) ==
  LET delimiter == <<"-", "-">> \o Boundary(contentType)
      rest[pos \in 1..Len(body)] ==
        LET line == Find(body, delimiter, pos) + Len(delimiter)
            headerEnd == Find(body, CRLF \o CRLF, line + 2)
            headers == PartHeaders(SubSeq(body, line + 2, headerEnd - 1))
            disposition == headers[<<"content-disposition">>]
            next == ContentEnd(body, delimiter, headerEnd + 4)
            part == [name |-> DispositionValue(disposition, NameMarks),
                     filename |-> DispositionValue(disposition, {FilenameMark}),
                     content |-> SubSeq(body, headerEnd + 4, next - 1)]
        IN  IF Find(body, delimiter, pos) = 0 THEN Failed
            ELSE IF SubSeq(body, line, line + 1) = <<"-", "-">> THEN [ok |-> TRUE, parts |-> <<>>]
            ELSE IF \/ SubSeq(body, line, line + 1) # CRLF
                    \/ headerEnd = 0
                    \/ <<"content-disposition">> \notin DOMAIN headers
                    \/ part.name = <<>> \/ next = 0
            THEN Failed
            ELSE [rest[next + 2] EXCEPT !.parts = <<part>> \o @]
  IN  IF Boundary(contentType) = <<>> \/ body = <<>> THEN Failed ELSE rest[1]
==============================================================================

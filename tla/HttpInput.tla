------------------------------ MODULE HttpInput ------------------------------
(***************************************************************************)
(* How one HttpConnect takes the client's bytes for requests                *)
(* (http/HttpConnect.cpp:148-187, 242-272): ReadNonBlocking appends what    *)
(* the socket has to the read buffer, chunk by chunk, and HandleRequest     *)
(* feeds the buffer to the parser until nothing more comes of it.  The      *)
(* requests are decoded as HttpServer::OnRequest does.                      *)
(*                                                                          *)
(* The client is a browser on the pages of the server: it follows their     *)
(* links and sends their forms, one request after the other.  Its stream    *)
(* arrives in pieces that end at the positions `cuts`.  The end of the      *)
(* stream and errors of the socket are in HttpLifecycle.                    *)
(***************************************************************************)
EXTENDS Buffer, HttpParser, FormCodec

CONSTANTS
  Conversations,  \* what a client may send, see Conversation
  READ_BUFFER,
  PieceLength,    \* bound, see BodyCuts
  CutAnywhere     \* whether a piece may also end inside of a line

ASSUME ReadAssumption ==
  {READ_BUFFER, PieceLength} \subseteq Nat \ {0} /\ CutAnywhere \in BOOLEAN

VARIABLES
  client,      \* its conversation
  sent, got,   \* how many of its bytes are sent, and read
  edge,        \* epoll has an EPOLLIN to report
  m_request,
  pc,          \* "idle" in the loop; "read", "parse" in HandleRequest;
               \* "closed" when destroyed, "terminated" with the process
  answers,     \* what was handed to OnRequest and HandleError
  received     \* what the buffer has taken

vars == <<bufferVars, client, sent, got, edge, m_request, pc, answers, received>>

NoFile == [name |-> <<>>, content |-> <<>>]

(***************************************************************************)
(* The browser.                                                             *)
(***************************************************************************)
Unescape(text) ==
  [i \in 1..Len(text) |->
     IF \E c \in DOMAIN Entities : Entities[c] = text[i]
     THEN CHOOSE c \in DOMAIN Entities : Entities[c] = text[i] ELSE text[i]]

UrlOf(link) ==
  FlattenSeq([i \in 1..Len(link) |->
                IF link[i] = " " THEN Escaped(" ") ELSE <<link[i]>>])

FormEncode(text) ==
  FlattenSeq([i \in 1..Len(text) |-> IF text[i] = " " THEN <<"+">> ELSE Escaped(text[i])])

UrlEncoded(fields) ==
  FlattenSeq([i \in 1..Len(fields) |->
                (IF i = 1 THEN <<>> ELSE <<"&">>)
                  \o fields[i].name \o <<"=">> \o FormEncode(Unescape(fields[i].value))])

MultipartForm == "multipart/form-data; "
FormData == " form-data; "
Separator == "; "

\* The type of a file, in a line of its own behind the disposition.
FileType == CRLF \o <<"Content-Type", ":", " ", "text/plain">>

Part(headers, content) ==
  <<"-", "-", "XYZ">> \o CRLF
    \o <<"Content-Disposition", ":", FormData>> \o headers
    \o CRLF \o CRLF \o content \o CRLF

Multipart(fields, file) ==
  FlattenSeq([i \in 1..Len(fields) |->
                Part(<<NameMark>> \o fields[i].name \o <<Quote>>, Unescape(fields[i].value))])
    \o Part(<<NameMark, "file", Quote, Separator, FilenameMark>> \o file.name \o <<Quote>>
              \o FileType, file.content)
    \o (<<"-", "-", "XYZ", "-", "-">> \o CRLF)

HeaderLine(key, value) == <<key, ":", " ">> \o value \o CRLF

HeadOf(method, url, headers) ==
  <<method, SP>> \o url \o <<SP, "HTTP/1.1">> \o CRLF
    \o HeaderLine("Host", <<"x">>) \o headers \o CRLF

Message(head, body, meant) == [head |-> head, body |-> body, meant |-> meant]

Get(url, close, meant) ==
  Message(HeadOf("GET", url, IF close THEN HeaderLine("Connection", <<"close">>) ELSE <<>>),
          <<>>, meant)

Post(path, type, body, meant) ==
  Message(HeadOf("POST", <<"/", path>>,
               HeaderLine("Content-Type", type)
                 \o HeaderLine("Content-Length",
                               CHOOSE v \in DOMAIN IntOf : IntOf[v] = Len(body))),
          body, meant)

Meant(method, path, fields, file, keep) ==
  [code |-> 0,
   request |-> [method |-> method, path |-> path, fields |-> fields, file |-> file, keep |-> keep]]

Refused(code) == [code |-> code, request |-> <<>>]

FieldsOf(wish, place) ==
  WithField(WithField(NoFields, <<place>>, wish.path), <<"username">>, wish.user)

\* What the browser sends for a wish of its user, and what it means by it.
Sent(wish) ==
  CASE wish.kind = "open" ->
         Get(UrlOf(Unescape(FileLink(wish.user, wish.path))), wish.close,
             Meant("GET", <<"/">> \o wish.user \o <<"/">> \o wish.path, NoFields, NoFile,
                   ~wish.close))
    [] wish.kind = "list" ->
         Get(DirectoryLink(wish.user, wish.path), wish.close,
             Meant("GET", <<"/", "files">>, FieldsOf(wish, "dir"), NoFile, ~wish.close))
    [] wish.kind \in {"download", "delete"} ->
         Post(wish.kind, <<"application/x-www-form-urlencoded">>,
              UrlEncoded(FileFormFields(wish.user, wish.path)),
              Meant("POST", <<"/", wish.kind>>, FieldsOf(wish, "path"), NoFile, TRUE))
    [] wish.kind = "upload" ->
         Post("upload", <<MultipartForm, "boundary=", "XYZ">>,
              Multipart(UploadFormFields(wish.user, wish.path), wish.file),
              Meant("POST", <<"/", "upload">>, FieldsOf(wish, "directory"), wish.file, TRUE))
    [] wish.kind = "malformed" ->
         Message(HeadOf("GET", <<"/">>, <<"Connection", ":", "close">> \o CRLF), <<>>, Refused(400))
    [] wish.kind = "unlimited" -> Message(HeadOf("POST", <<"/", "login">>, <<>>), <<>>, Refused(400))
    [] wish.kind = "no number" ->
         Message(HeadOf("POST", <<"/", "login">>, HeaderLine("Content-Length", <<"many">>)),
                 <<>>, Refused(-1))

\* A body is sent in pieces of any length; bound: every PieceLength bytes.
BodyCuts(body) == {q \in 1..Len(body) : q % PieceLength = 0 \/ q = Len(body)}

Conversation(wishes) ==
  LET messages == [i \in 1..Len(wishes) |-> Sent(wishes[i])]
      bytes[i \in 0..Len(wishes)] ==
        IF i = 0 THEN <<>> ELSE bytes[i - 1] \o messages[i].head \o messages[i].body
  IN  [stream |-> bytes[Len(wishes)],
       meant |-> [i \in 1..Len(wishes) |-> messages[i].meant],
       cuts |-> IF CutAnywhere THEN 1..Len(bytes[Len(wishes)])
                ELSE UNION {{Len(bytes[i - 1]) + p :
                               p \in {q \in 1..Len(messages[i].head) : messages[i].head[q] = LF}
                                 \cup {Len(messages[i].head) + q : q \in BodyCuts(messages[i].body)}} :
                             i \in 1..Len(wishes)}]

\* A stream consists of bytes, and its last piece ends with it.
ASSUME ConversationsAssumption ==
  \A wishes \in Conversations :
    LET c == Conversation(wishes) IN
    /\ c.stream \in Seq(Bytes)
    /\ c.cuts \subseteq 1..Len(c.stream)
    /\ c.stream # <<>> => Len(c.stream) \in c.cuts

\* A name has no end of a line in it, and none of HtmlEscape's words: what
\* reads like one is spelled with other symbols.
NameBytes == Bytes \ ({CR, LF} \cup {Entities[c] : c \in DOMAIN Entities})

\* The wishes the pages can carry: a link writes the path as it is, so the path
\* has no "?" and no "%" in it; the name of an uploaded file does not end the
\* header early, and its content does not hold the delimiter, which browsers
\* choose for that.
IsWish(wish) ==
  /\ wish.kind \in {"open", "list", "download", "delete", "upload",
                    "malformed", "unlimited", "no number"}
  /\ wish.close \in BOOLEAN
  /\ {wish.user, wish.path} \subseteq Seq(NameBytes)
  /\ wish.kind = "open" => wish.path \in Seq(NameBytes \ {"?", "%"})
  /\ wish.kind = "upload" =>
       /\ wish.file \in [name : Seq(Bytes \ {Quote, CR}) \ {<<>>}, content : Seq(Bytes)]
       /\ LET delimiter == <<"-", "-", "XYZ">>
              content == wish.file.content
          IN  ContentEnd(content \o (CRLF \o delimiter), delimiter, 1) > Len(content)

ASSUME WishesAssumption ==
  \A wishes \in Conversations :
    Len(wishes) \in Nat /\ \A i \in 1..Len(wishes) : IsWish(wishes[i])

\* A number is written on a line, the lengths of the bodies are numbers, and
\* "many" is none.
ASSUME NumbersAssumption ==
  /\ DOMAIN IntOf \subseteq Seq(Bytes \ {CR, LF}) \ {<<>>, <<"many">>}
  /\ \A wishes \in Conversations : \A i \in 1..Len(wishes) :
       \E v \in DOMAIN IntOf : IntOf[v] = Len(Sent(wishes[i]).body)

ClientSends ==
  /\ sent < Len(client.stream)
  /\ sent' = Min({cut \in client.cuts : cut > sent})
  /\ edge' = TRUE
  /\ UNCHANGED <<bufferVars, client, got, m_request, pc, answers, received>>

(***************************************************************************)
(* The server.  What HandlePostRequest and ServeStaticFile decode.          *)
(***************************************************************************)
IsFile(part) == part.filename # <<>>

\* The last part of each name counts.
Uploaded(parts) ==
  LET named(name) == {i \in DOMAIN parts : parts[i].name = name}
      files == {i \in named(<<"file">>) : IsFile(parts[i])}
  IN  [fields |-> [name \in {parts[i].name : i \in DOMAIN parts} \ {<<"file">>} |->
                     parts[Max(named(name))].content],
       file |-> IF files = {} THEN NoFile
                ELSE [name |-> parts[Max(files)].filename, content |-> parts[Max(files)].content]]

Understood(r) ==
  LET path == DecodeUrlPath(r.url)
      isUpload == r.method = "POST" /\ path = <<"/", "upload">>
      upload == Uploaded(ParseMultipart(r.headers[<<"Content-Type">>], r.body).parts)
  IN  [method |-> r.method, path |-> path, keep |-> r.keepAlive,
       fields |-> IF isUpload THEN upload.fields
                  ELSE IF r.method = "POST" THEN ParseFormUrlEncoded(r.body)
                  ELSE ParseQueryString(r.url),
       file |-> IF isUpload THEN upload.file ELSE NoFile]

Init ==
  /\ BufferInit
  /\ client \in {Conversation(wishes) : wishes \in Conversations}
  /\ sent = 0 /\ got = 0 /\ edge = FALSE
  /\ m_request = NewRequest(<<>>)
  /\ pc = "idle"
  /\ answers = <<>> /\ received = <<>>

\* The loop calls HandleRequest for an event.
HandleRequest ==
  /\ pc = "idle" /\ edge
  /\ edge' = FALSE /\ pc' = "read"
  /\ UNCHANGED <<bufferVars, client, sent, got, m_request, answers, received>>

Chunk == SubSeq(client.stream, got + 1, Min({got + READ_BUFFER, sent}))

\* One read of ReadNonBlocking and the Append of what it returned.
ReadChunk ==
  /\ pc = "read" /\ got < sent
  /\ AppendBytes(Chunk)
  /\ received' = received \o Chunk
  /\ got' = got + Len(Chunk)
  /\ UNCHANGED <<client, sent, edge, m_request, pc, answers>>

\* Append throws, and HandleRequest answers 403.
ReadTooMuch ==
  /\ pc = "read" /\ got < sent
  /\ Throws(Len(Chunk))
  /\ RetrieveAll
  /\ got' = got + Len(Chunk)
  /\ m_request' = NewRequest(m_request.curKey)
  /\ answers' = Append(answers, Refused(403))
  /\ pc' = "idle"
  /\ UNCHANGED <<client, sent, edge, received>>

\* EAGAIN.
ReadAll ==
  /\ pc = "read" /\ got = sent
  /\ pc' = "parse"
  /\ UNCHANGED <<bufferVars, client, sent, got, edge, m_request, answers, received>>

\* One turn of the loop of HandleRequest.
ParseOnce ==
  /\ pc = "parse"
  /\ \E r \in {Parse(m_request, PeekString)} :
       \/ /\ r.parse = "THROWN"
          /\ pc' = "terminated"
          /\ answers' = Append(answers, Refused(-1))
          /\ UNCHANGED <<bufferVars, m_request>>
       \/ /\ r.failed
          /\ answers' = Append(answers, Refused(400))
          /\ m_request' = NewRequest(r.curKey)
          /\ RetrieveAll
          /\ pc' = "idle"
       \/ /\ r.parse # "THROWN" /\ ~r.failed /\ r.end = 0
          /\ m_request' = r
          /\ pc' = "idle"
          /\ UNCHANGED <<bufferVars, answers>>
       \/ /\ r.parse # "THROWN" /\ ~r.failed /\ r.end > 0
          /\ IF IsFinish(r)
             THEN /\ answers' = Append(answers, [code |-> 0, request |-> r])
                  /\ m_request' = NewRequest(r.curKey)
             ELSE m_request' = r /\ UNCHANGED answers
          /\ Retrieve(r.end)
          /\ UNCHANGED pc
  /\ UNCHANGED <<client, sent, got, edge, received>>

\* HandleError closes the connection, at some time after the answer.
Close ==
  /\ pc = "idle" /\ \E i \in DOMAIN answers : answers[i].code # 0
  /\ pc' = "closed"
  /\ UNCHANGED <<bufferVars, client, sent, got, edge, m_request, answers, received>>

Server == HandleRequest \/ ReadChunk \/ ReadTooMuch \/ ReadAll \/ ParseOnce

Next == ClientSends \/ Server \/ Close

\* The loop's thread runs, and the client sends all of its requests.
Fairness == WF_vars(Server) /\ WF_vars(ClientSends)

Spec == Init /\ [][Next]_vars /\ Fairness

(***************************************************************************)
(* Properties.                                                              *)
(***************************************************************************)

\* Types; the indices stay in the vector and the vector within its limit
\* (Buffer::EnsureWritableBytes).
TypeOK ==
  /\ BufferTypeOK
  /\ sent \in 0..Len(client.stream) /\ got \in 0..sent
  /\ edge \in BOOLEAN
  /\ pc \in {"idle", "read", "parse", "closed", "terminated"}
  /\ m_request.parse \in {"REQUEST_LINE", "HEADERS", "BODY", "ERROR", "FINISH"}
  /\ {answers[i].code : i \in DOMAIN answers} \subseteq {-1, 0, 400, 403}

UpToError(s) ==
  LET errors == {i \in DOMAIN s : s[i].code # 0} IN
  IF errors = {} THEN s ELSE SubSeq(s, 1, Min(errors))

\* Whatever the pieces in which the bytes arrive, OnRequest sees the requests
\* the user meant, in order, with the names, the directories and the contents
\* of the user's files: the automaton goes on where it stopped, HandleRequest
\* takes exactly a request's bytes out of the buffer, and the decoders of
\* HttpServer.cpp and MultipartParser.cpp undo what its pages and the browser
\* encoded.  An error is answered with its own code, and nothing else is; 403
\* is the subject of RefusedOnlyWhenFull.
DeliveredAsSent ==
  LET given == UpToError(answers)
      meant == UpToError(client.meant)
  IN  \A i \in DOMAIN given :
        \/ given[i].code = 403
        \/ /\ i \in DOMAIN meant /\ given[i].code = meant[i].code
           /\ given[i].code = 0 => Understood(given[i].request) = meant[i].request

\* The read buffer is a queue of bytes through every growth and compaction:
\* what Parse sees is what was read and not yet taken out, and the indices stay
\* in the vector, and it within its limit.
Queue == INSTANCE ByteQueue WITH content <- PeekString
BufferIsQueue == Queue!Spec /\ []TypeOK

\* A client is told that it sends too much (403) only if the unread bytes and
\* two more chunks exceed kMaxSize: bytes that were taken out long ago do not
\* count, although EnsureWritableBytes never compacts and grows at once.
RefusedOnlyWhenFull ==
  [][ReadTooMuch => ReadableBytes + 2 * READ_BUFFER + kPrePendIndex > kMaxSize]_vars

\* Every request of the client is answered, up to the first that gets an error
\* or ends the process (HandleRequest leaves nothing complete in the buffer).
EveryRequestAnswered ==
  <>(\/ Len(UpToError(answers)) = Len(UpToError(client.meant))
     \/ \E i \in DOMAIN answers : answers[i].code = 403)
==============================================================================

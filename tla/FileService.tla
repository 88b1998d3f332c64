----------------------------- MODULE FileService -----------------------------
(***************************************************************************)
(* What HttpServer does for its users (http/HttpServer.cpp:1004-1315): the  *)
(* files in their directories, listed, sent, uploaded and deleted, and      *)
(* their accounts.  Each worker loop handles one request at a time; a step  *)
(* is one call of the file system or of the database, so that what one      *)
(* request has seen can be gone at its next call.                           *)
(*                                                                          *)
(* Requests are what the pages of the server offer, for files which may     *)
(* have gone since, and what a form with an empty path asks for: the         *)
(* directory of the user itself.  A file is an inode, whose data is one of   *)
(* Contents or Empty; the names of a user are in one directory, and Users    *)
(* are names without a separator or "..", which ResolveUserPath refuses.     *)
(***************************************************************************)
EXTENDS Integers, Sequences, FiniteSets

CONSTANTS
  Workers, Users, Files,
  Contents,
  Large,         \* the contents longer than kMaxStaticFileSize
  PoolSize,      \* connections of the MysqlPool
  NamesAreUnique,\* whether the column of `users` is unique; its definition is
                 \* not in the repository
  MaxRequests    \* bound

ASSUME FileServiceAssumption ==
  /\ IsFiniteSet(Workers) /\ IsFiniteSet(Users) /\ IsFiniteSet(Files)
  /\ Large \subseteq Contents /\ PoolSize \in Nat /\ MaxRequests \in Nat
  /\ NamesAreUnique \in BOOLEAN

VARIABLES
  roots,         \* the users who have a directory under m_staticRoot
  entry,         \* the inode of each user's file, 0 for none
  data,          \* the content of each inode
  table,         \* how many rows of `users` have each username
  idle,          \* the connections in the pool
  job,           \* what each worker works on
  pc,            \* and where
  replies,       \* what it has sent for this request
  terminated,    \* the worker whose exception ended the process, if any
  taken,         \* how many requests were taken
  saved,         \* how often each registration was answered "saved"
  held,          \* what the file of this request contained since it began,
                 \* under its name or, once it is open, as it is read
  seen, always,  \* the names that the user's directory had at some time, and
                 \* all the time, since this request began or changed it
  thinned,       \* the workers that list a directory which a name has left since
  dropped        \* the users whose directory was deleted

disk == <<roots, entry, data>>
database == <<table, idle>>
history == <<held, seen, always, thinned, dropped>>
workVars == <<disk, database, job, pc, replies, terminated, saved>>
vars == <<disk, database, job, pc, replies, terminated, taken, saved, history>>

Empty == "empty"
Absent == "absent"
Page == "page"
Directory == "directory"
Itself == "."
Nobody == "nobody"

ASSUME ContentsAssumption ==
  Contents \cap {Empty, Absent, Page, Directory} = {} /\ Itself \notin Files

\* The requests: which file, what to upload, and whether the database query
\* finds the password right.
Requests ==
  [kind : {"get", "head", "download", "delete"}, user : Users, file : Files \cup {Itself}]
    \cup [kind : {"upload"}, user : Users, file : Files, content : Contents]
    \cup [kind : {"list", "login", "register"}, user : Users]
    \cup {[kind |-> "none of these"]}

Paths == Users \X Files
Number == CHOOSE n \in [Paths -> 1..Cardinality(Paths)] : \A p, q \in Paths : n[p] = n[q] => p = q

\* Bound: an inode for each file at first and for each upload.
Inodes == 1..Cardinality(Paths) + MaxRequests

NoJob == [request |-> [kind |-> "none of these"], ticket |-> 0, fd |-> 0, size |-> 0,
          left |-> {}, entries |-> {}, borrowed |-> FALSE]

Size(content) ==
  CASE content \in {Empty, Absent} -> 0
    [] content \in Large -> 2
    [] OTHER -> 1

HasFile(r) == r.kind \in {"get", "head", "download", "delete", "upload"}

\* Opening a directory succeeds, and there is nothing to read from it: 0.
InodeOf(r) == IF r.file = Itself THEN 0 ELSE entry[r.user, r.file]

At(r) ==
  CASE r.file = Itself /\ r.user \in roots -> Directory
    [] InodeOf(r) # 0 -> data[InodeOf(r)]
    [] OTHER -> Absent

Names(r) == {f \in Files : "user" \in DOMAIN r /\ entry[r.user, f] # 0}

Init ==
  /\ roots = Users \/ roots = {}
  /\ \E present \in SUBSET (roots \X Files) :
       /\ entry = [p \in Paths |-> IF p \in present THEN Number[p] ELSE 0]
       /\ \E content \in [present -> Contents] :
            data = [i \in Inodes |-> IF \E p \in present : Number[p] = i
                                    THEN content[CHOOSE p \in present : Number[p] = i]
                                    ELSE Empty]
  /\ table = [u \in Users |-> IF u \in roots THEN 1 ELSE 0]
  /\ idle = PoolSize
  /\ job = [w \in Workers |-> NoJob]
  /\ pc = [w \in Workers |-> "idle"]
  /\ replies = [w \in Workers |-> <<>>]
  /\ terminated = Nobody
  /\ taken = 0
  /\ saved = [u \in Users |-> 0]
  /\ held = [w \in Workers |-> {}]
  /\ seen = [w \in Workers |-> {}] /\ always = [w \in Workers |-> {}]
  /\ thinned = {} /\ dropped = {}

(***************************************************************************)
(* Responses.                                                               *)
(***************************************************************************)

\* Mutant: the Content-Length is that of m_body.
LengthOfBody(status, page, body, size) ==
  [status |-> status, page |-> page, body |-> body, told |-> Size(body), sent |-> Size(body)]

\* HttpResponse::message(size): the Content-Length it tells, and how much of the
\* body it holds.
message(status, page, body, size) ==
  [status |-> status, page |-> page, body |-> body,
   told |-> IF size # 0 THEN size ELSE Size(body), sent |-> Size(body)]

ErrorBody(status) == message(status, "error", Page, 0)
ResultPage(status) == message(status, "result", Page, 0)
ContentListPage == message(200, "list", Page, 0)

Goto(w, label) == pc' = [pc EXCEPT ![w] = label]

\* SendHtmlResponse and the end of the handler, whose destructors come next.
SendHtmlResponse(w, response) ==
  /\ replies' = [replies EXCEPT ![w] = Append(@, response)]
  /\ Goto(w, "return")

Continue(w, label) == Goto(w, label) /\ UNCHANGED replies

Throw(w) == terminated' = w /\ UNCHANGED <<pc, replies>>

(***************************************************************************)
(* OnRequest, and what is answered without a look at files or accounts.     *)
(***************************************************************************)
FirstCall(r) ==
  CASE r.kind \in {"get", "head"} -> "exists"
    [] r.kind \in {"download", "delete", "upload"} -> "resolve"
    [] r.kind = "list" -> "list"
    [] r.kind \in {"login", "register"} -> "borrow"
    [] r.kind = "none of these" -> "refuse"

Take(w) ==
  /\ terminated = Nobody /\ pc[w] = "idle" /\ taken < MaxRequests
  /\ taken' = taken + 1
  /\ \E r \in Requests :
       /\ job' = [job EXCEPT ![w] = [NoJob EXCEPT !.request = r, !.ticket = taken + 1]]
       /\ Continue(w, FirstCall(r))
  /\ UNCHANGED <<disk, database, terminated, saved>>

\* A form without its fields (400); in the same way, an unknown path (404) and a
\* method that is not served (405).
Refuse(w) ==
  /\ pc[w] = "refuse"
  /\ SendHtmlResponse(w, ErrorBody(400))
  /\ UNCHANGED <<disk, database, job, terminated, taken, saved>>

\* ~PoolGuard: the connection of this request, if it borrowed one.
ConnOf(w) == IF job[w].borrowed THEN 1 ELSE 0

\* The end of the handler: the stream of an upload is closed, which writes what
\* is still in it, and the connection goes back to the pool.
Return(w) ==
  /\ pc[w] = "return"
  /\ data' = IF job[w].request.kind = "upload" /\ job[w].fd # 0
             THEN [data EXCEPT ![job[w].fd] = job[w].request.content] ELSE data
  /\ idle' = idle + ConnOf(w)
  /\ job' = [job EXCEPT ![w] = NoJob]
  /\ replies' = [replies EXCEPT ![w] = <<>>]
  /\ Goto(w, "idle")
  /\ UNCHANGED <<roots, entry, table, terminated, taken, saved>>

(***************************************************************************)
(* ServeStaticFile, SendDownloadResponse.                                   *)
(***************************************************************************)
Exists(w) ==
  /\ pc[w] = "exists"
  /\ IF At(job[w].request) = Absent
     THEN SendHtmlResponse(w, ErrorBody(404))
     ELSE Continue(w, "size")
  /\ UNCHANGED <<disk, database, job, terminated, taken, saved>>

\* Mutant: the file need not exist.
ResolvesAnything(r) == r.user \in roots

\* ResolveUserPath: for an upload the directory has to exist, which the pages
\* offer the root of.
ResolveUserPath(r) ==
  r.user \in roots /\ (r.kind # "upload" => At(r) # Absent)

Resolve(w) ==
  /\ pc[w] = "resolve"
  /\ LET r == job[w].request IN
     IF ~ResolveUserPath(r)
     THEN SendHtmlResponse(w, IF r.kind = "upload" THEN ErrorBody(403) ELSE ResultPage(404))
     ELSE Continue(w, CASE r.kind = "download" -> "size"
                        [] r.kind = "delete" -> "remove"
                        [] r.kind = "upload" -> "create")
  /\ UNCHANGED <<disk, database, job, terminated, taken, saved>>

\* What has no size: a name that is gone, and a directory.
Sizeless(content) == content \in {Absent, Directory}

\* file_size with an error code: -1 where it fails, which is then sent as a
\* large file.
PageSize(w) ==
  /\ pc[w] = "size" /\ job[w].request.kind # "download"
  /\ LET content == At(job[w].request) IN
     /\ Continue(w, IF content \in Large \/ Sizeless(content) THEN "sendfile" ELSE "open")
     /\ job' = [job EXCEPT ![w].size = IF Sizeless(content) THEN -1 ELSE Size(content)]
  /\ UNCHANGED <<disk, database, terminated, taken, saved>>

\* file_size without one: it throws.
DownloadSize(w) ==
  /\ pc[w] = "size" /\ job[w].request.kind = "download"
  /\ LET content == At(job[w].request) IN
     IF Sizeless(content)
     THEN Throw(w) /\ UNCHANGED job
     ELSE /\ Continue(w, IF content \in Large THEN "sendfile" ELSE "open")
          /\ job' = [job EXCEPT ![w].size = Size(content)]
          /\ UNCHANGED terminated
  /\ UNCHANGED <<disk, database, taken, saved>>

Open(w) ==
  /\ pc[w] = "open"
  /\ LET r == job[w].request IN
     IF At(r) = Absent
     THEN /\ SendHtmlResponse(w, IF r.kind = "download" THEN ResultPage(403) ELSE ErrorBody(403))
          /\ UNCHANGED job
     ELSE Continue(w, "read") /\ job' = [job EXCEPT ![w].fd = InodeOf(r)]
  /\ UNCHANGED <<disk, database, terminated, taken, saved>>

Read(w) ==
  /\ pc[w] = "read"
  /\ SendHtmlResponse(w, message(200, "file",
                                 IF job[w].request.kind = "head" THEN Empty
                                 ELSE data[job[w].fd], 0))
  /\ UNCHANGED <<disk, database, job, terminated, taken, saved>>

\* HttpConnect::SendFile: the header, then the file, and the page of an error
\* where it cannot be opened.
SendFile(w) ==
  /\ pc[w] = "sendfile"
  /\ LET r == job[w].request
         header == message(200, "file", Empty, job[w].size)
     IN  IF At(r) = Absent
         THEN /\ replies' = [replies EXCEPT ![w] = <<header, ErrorBody(404)>>]
              /\ Goto(w, "return") /\ UNCHANGED job
         ELSE /\ replies' = [replies EXCEPT ![w] = <<header>>]
              /\ Goto(w, "body") /\ job' = [job EXCEPT ![w].fd = InodeOf(r)]
  /\ UNCHANGED <<disk, database, terminated, taken, saved>>

\* What sendfile is called for: a negative rest sends nothing.
Remaining(w) == IF job[w].size < 0 THEN 0 ELSE job[w].size

\* sendfile until m_fileRemain is 0: it returns 0 at the end of a file that has
\* become shorter, and is called again.
SendBody(w) ==
  /\ pc[w] = "body"
  /\ Remaining(w) > 0 => Size(data[job[w].fd]) >= Remaining(w)
  /\ replies' = [replies EXCEPT ![w] =
       <<[Head(@) EXCEPT !.sent = Remaining(w),
                         !.body = IF Remaining(w) = 0 THEN Empty ELSE data[job[w].fd]]>>]
  /\ Goto(w, "return")
  /\ UNCHANGED <<disk, database, job, terminated, taken, saved>>

(***************************************************************************)
(* Changing files, and LoadUserContent.                                     *)
(***************************************************************************)

\* remove finds nothing to remove when somebody else was first: no error.
Remove(w) ==
  /\ pc[w] = "remove" /\ job[w].request.file # Itself
  /\ entry' = [entry EXCEPT ![<<job[w].request.user, job[w].request.file>>] = 0]
  /\ Continue(w, "list")
  /\ UNCHANGED <<roots, data, database, job, terminated, taken, saved>>

\* remove of the user's directory, which fails unless it is empty.  The page that
\* follows is of its parent, "..", of which LoadUserContent lists nothing.
RemoveDirectory(w) ==
  /\ pc[w] = "remove" /\ job[w].request.file = Itself
  /\ LET r == job[w].request IN
     IF Names(r) = {}
     THEN roots' = roots \ {r.user} /\ SendHtmlResponse(w, message(200, "parent", Page, 0))
     ELSE SendHtmlResponse(w, message(500, "parent", Page, 0)) /\ UNCHANGED roots
  /\ UNCHANGED <<entry, data, database, job, terminated, taken, saved>>

\* The ofstream opens with trunc, or fails, as it does without the directory.
Create(w) ==
  /\ pc[w] = "create"
  /\ LET r == job[w].request
         old == entry[r.user, r.file]
         inode == IF old = 0 THEN Cardinality(Paths) + job[w].ticket ELSE old
     IN  \/ /\ r.user \in roots
            /\ entry' = [entry EXCEPT ![<<r.user, r.file>>] = inode]
            /\ data' = [data EXCEPT ![inode] = Empty]
            /\ job' = [job EXCEPT ![w].fd = inode]
            /\ Continue(w, "write")
         \/ /\ SendHtmlResponse(w, ErrorBody(500))
            /\ UNCHANGED <<entry, data, job>>
  /\ UNCHANGED <<roots, database, terminated, taken, saved>>

\* out.write: a long content reaches the file at once, or not (500).  A short
\* one stays in the stream.
Write(w) ==
  /\ pc[w] = "write"
  /\ LET r == job[w].request IN
     \/ /\ data' = IF r.content \in Large THEN [data EXCEPT ![job[w].fd] = r.content] ELSE data
        /\ Continue(w, "list")
        /\ UNCHANGED job
     \/ /\ r.content \in Large
        /\ SendHtmlResponse(w, ErrorBody(500))
        /\ job' = [job EXCEPT ![w].fd = 0]
        /\ UNCHANGED data
  /\ UNCHANGED <<roots, entry, database, terminated, taken, saved>>

\* Mutant: an empty file is left out too.
LeavesOutEmpty(w, f) ==
  LET i == entry[job[w].request.user, f] IN
  IF i # 0 /\ data[i] # Empty THEN job[w].entries \cup {f} ELSE job[w].entries

\* An entry whose file_size fails is left out.
WithEntry(w, f) ==
  IF f \in Names(job[w].request) THEN job[w].entries \cup {f} ELSE job[w].entries

\* So is every entry after it: `continue` keeps the error code, which ends the
\* loop at the next entry.
LeftAfter(w, f) ==
  IF f \in Names(job[w].request) THEN job[w].left \ {f} ELSE {}

\* LoadUserContent: the names, in any order, and then each one's size.
List(w) ==
  /\ pc[w] = "list"
  /\ job' = [job EXCEPT ![w].left = Names(job[w].request)]
  /\ Continue(w, "stat")
  /\ UNCHANGED <<disk, database, terminated, taken, saved>>

Stat(w) ==
  /\ pc[w] = "stat"
  /\ \E f \in job[w].left :
       job' = [job EXCEPT ![w].left = LeftAfter(w, f), ![w].entries = WithEntry(w, f)]
  /\ UNCHANGED <<disk, database, pc, replies, terminated, taken, saved>>

Listed(w) ==
  /\ pc[w] = "stat" /\ job[w].left = {}
  /\ SendHtmlResponse(w, ContentListPage)
  /\ UNCHANGED <<disk, database, job, terminated, taken, saved>>

(***************************************************************************)
(* Accounts.                                                                *)
(***************************************************************************)
Borrow(w) ==
  /\ pc[w] = "borrow" /\ idle > 0
  /\ idle' = idle - 1
  /\ job' = [job EXCEPT ![w].borrowed = TRUE]
  /\ Continue(w, "select")
  /\ UNCHANGED <<disk, table, terminated, taken, saved>>

\* The query of a login, whose password is right or not, or of a registration.
\* It fails with the connection to the database: no rows.
Select(w) ==
  /\ pc[w] = "select"
  /\ \E rows \in {0, table[job[w].request.user]} :
       IF job[w].request.kind = "login"
       THEN IF rows > 0 THEN Continue(w, "list") ELSE SendHtmlResponse(w, ResultPage(200))
       ELSE IF rows > 0 THEN SendHtmlResponse(w, ResultPage(200)) ELSE Continue(w, "insert")
  /\ UNCHANGED <<disk, database, job, terminated, taken, saved>>

\* The table takes a name again only if nothing makes it unique.
Inserts(w) == NamesAreUnique => table[job[w].request.user] = 0

\* Execute: -1 for what the table does not take, and when the query fails, which
\* then has changed nothing.
Insert(w) ==
  /\ pc[w] = "insert"
  /\ \/ /\ Inserts(w)
        /\ table' = [table EXCEPT ![job[w].request.user] = @ + 1]
        /\ Continue(w, "mkdir")
     \/ SendHtmlResponse(w, ResultPage(500)) /\ UNCHANGED table
  /\ UNCHANGED <<disk, idle, job, terminated, taken, saved>>

\* Mutant: the directory is left to the first upload.
NoDirectory(w) == roots

RootsWith(w) == roots \cup {job[w].request.user}

\* create_directory throws where there is no directory and none can be made: the
\* name is too long or a file's, its parent is missing, the disk is full.
CreateDirectory(w) ==
  /\ pc[w] = "mkdir"
  /\ \/ /\ roots' = RootsWith(w)
        /\ saved' = [saved EXCEPT ![job[w].request.user] = @ + 1]
        /\ SendHtmlResponse(w, ResultPage(200))
        /\ UNCHANGED terminated
     \/ /\ job[w].request.user \notin roots
        /\ Throw(w)
        /\ UNCHANGED <<roots, saved>>
  /\ UNCHANGED <<entry, data, database, job, taken>>

(***************************************************************************)
(* The whole.                                                               *)
(***************************************************************************)
Handle(w) ==
  /\ terminated = Nobody
  /\ \/ Refuse(w) \/ Return(w)
     \/ Exists(w) \/ Resolve(w) \/ PageSize(w) \/ DownloadSize(w) \/ Open(w) \/ Read(w)
     \/ SendFile(w) \/ SendBody(w)
     \/ Remove(w) \/ RemoveDirectory(w) \/ Create(w) \/ Write(w) \/ List(w) \/ Stat(w) \/ Listed(w)
     \/ Borrow(w) \/ Select(w) \/ Insert(w) \/ CreateDirectory(w)

\* What the file of the worker's request contains now, and the names in the
\* directory that it works on.
Busy(w) == pc[w] \notin {"idle", "return"}

Contained(w) ==
  IF Busy(w) /\ HasFile(job[w].request)
  THEN {At(job[w].request)} \cup {data[i] : i \in {job[w].fd} \ {0}} ELSE {}

Listing(w) == IF Busy(w) THEN Names(job[w].request) ELSE {}

\* The step begins a request, or changes its directory.
Changes(w) ==
  pc[w] = "idle" \/ (pc[w] \in {"create", "remove"} /\ pc'[w] # pc[w])

\* What each worker could have seen since the points the variables name.
Remember ==
  /\ held' = [w \in Workers |->
       Contained(w)' \cup IF pc[w] = "idle" \/ pc'[w] = "idle" THEN {} ELSE held[w]]
  /\ seen' = [w \in Workers |->
       Listing(w)' \cup IF Changes(w) \/ pc'[w] = "idle" THEN {} ELSE seen[w]]
  /\ always' = [w \in Workers |->
       IF Changes(w) \/ pc'[w] = "idle" THEN Listing(w)'
       ELSE IF Busy(w)' THEN Listing(w)' \cap always[w] ELSE always[w]]
  /\ thinned' = {w \in Workers :
       \/ w \in thinned /\ pc'[w] \in {"stat", "return"}
       \/ pc[w] = "stat" /\ pc'[w] = "stat" /\ ~(Listing(w) \subseteq Listing(w)')}
  /\ dropped' = dropped \cup (roots \ roots')

Next == (\E w \in Workers : Take(w) \/ Handle(w)) /\ Remember

\* Each worker's thread runs.
Fairness == \A w \in Workers : WF_workVars(Handle(w))

Spec == Init /\ [][Next]_vars /\ Fairness

(***************************************************************************)
(* Properties.                                                              *)
(***************************************************************************)

\* Types; the pool never holds more connections than it has.
TypeOK ==
  /\ roots \subseteq Users /\ entry \in [Paths -> 0..Cardinality(Paths) + MaxRequests]
  /\ data \in [Inodes -> Contents \cup {Empty}]
  /\ table \in [Users -> Nat] /\ idle \in 0..PoolSize
  /\ \A w \in Workers : job[w].request \in Requests /\ job[w].entries \subseteq Files
  /\ terminated \in Workers \cup {Nobody} /\ taken \in 0..MaxRequests
  /\ saved \in [Users -> Nat]

Answered(w, page) ==
  pc[w] = "return" /\ \E i \in DOMAIN replies[w] : replies[w][i].page = page

\* Of two registrations of one name, in whatever order their two queries run,
\* one is told that it is saved, as the second INSERT fails in a table whose
\* names are unique; and an account has a directory to upload to, unless its
\* registration is still between the INSERT and create_directory, or ended there
\* with the process, or its user has deleted the directory
\* (HttpServer.cpp:1127-1137, 1179-1201).
AccountsAreWhole ==
  /\ TypeOK
  /\ \A u \in Users :
       /\ NamesAreUnique => saved[u] <= 1
       /\ table[u] > 0 /\ u \notin roots /\ u \notin dropped =>
            \E w \in Workers : pc[w] = "mkdir" /\ job[w].request.user = u

\* A page shows no name that was not there at some time since its request began,
\* or since it uploaded or deleted a file; and every name that was there all that
\* time, unless another one left the directory while it was being listed: what
\* other workers do in between may show or not, and an upload is on its own page
\* and a deleted file is not (LoadUserContent).
PageIsTruthful ==
  \A w \in Workers :
    Answered(w, "list") =>
      /\ job[w].entries \subseteq seen[w]
      /\ w \notin thinned => always[w] \subseteq job[w].entries

\* Not so of the code: a page that leaves out only what came or went
\* (HttpServer.cpp:156-169).
PageIsComplete ==
  \A w \in Workers : Answered(w, "list") => always[w] \subseteq job[w].entries

\* A file is answered with something it contained during the request, the file
\* that has the name or, if that was deleted since, the one that was opened; if it
\* did not change, with what Content-Length tells; and a second response follows
\* only if the file vanished after the first was under way (SendFile).  (A
\* directory is told the length -1, and nothing of it sent.)
FileAsStored ==
  \A w \in Workers :
    Answered(w, "file") /\ job[w].request.file # Itself =>
      LET reply == replies[w][1] IN
      /\ reply.body \in held[w] \cup {Empty}
      /\ Cardinality(held[w]) = 1 => reply.told = reply.sent
      /\ Len(replies[w]) > 1 => Absent \in held[w]

\* sendfile has come to the end of a file that has become shorter.
Shrunk(w) ==
  pc[w] = "body" /\ job[w].fd # 0 /\ Size(data[job[w].fd]) < job[w].size

\* A download that had to be of a directory, or whose file was there and has gone;
\* and a registration whose directory could not be made.
Unsized(w) ==
  /\ pc[w] = "size" /\ job[w].request.kind = "download"
  /\ job[w].request.file = Itself \/ (Absent \in held[w] /\ held[w] # {Absent})
Unmade(w) == pc[w] = "mkdir" /\ job[w].request.user \notin roots

\* Every request ends, with its connection to the database back in the pool, or
\* in one of the ways the code has: the process ends, as file_size throws for a
\* directory or for a file that somebody deletes after ResolveUserPath found it
\* (HttpServer.cpp:772) and create_directory throws where it fails (1198), both
\* out of the loop; and sendfile in a file that an upload has made shorter goes
\* on for ever (HttpConnect.cpp:293-298).
RequestsEnd ==
  \A w \in Workers :
    pc[w] # "idle" ~>
      \/ pc[w] = "idle" \/ []Shrunk(w)
      \/ \E v \in Workers : terminated = v /\ (Unsized(v) \/ Unmade(v))
==============================================================================

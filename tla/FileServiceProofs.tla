-------------------------- MODULE FileServiceProofs --------------------------
(***************************************************************************)
(* Theorems about FileService, for any number of workers, users and files,  *)
(* any contents and any number of requests.                                 *)
(***************************************************************************)
EXTENDS FileService, SequenceTheorems, FiniteSetTheorems, FunctionTheorems, TLAPS

(***************************************************************************)
(* The invariant.                                                           *)
(***************************************************************************)
Top == Cardinality(Paths) + MaxRequests

Job == [request : Requests, ticket : 0..MaxRequests, fd : 0..Top, size : -1..2,
        left : SUBSET Files, entries : SUBSET Files, borrowed : BOOLEAN]

TypeInv ==
  /\ roots \subseteq Users /\ entry \in [Paths -> 0..Top]
  /\ data \in [Inodes -> Contents \cup {Empty}]
  /\ table \in [Users -> Nat] /\ saved \in [Users -> Nat]
  /\ idle \in Nat /\ taken \in 0..MaxRequests
  /\ terminated \in Workers \cup {Nobody}
  /\ job \in [Workers -> Job]
  /\ DOMAIN pc = Workers
  /\ DOMAIN replies = Workers

\* A connection is in the pool or borrowed by one worker.
Borrowers == {w \in Workers : job[w].borrowed}

PoolInv == idle + Cardinality(Borrowers) = PoolSize

OneFile == {"exists", "size", "open", "read", "sendfile", "body"}

\* Where the worker is tells what the request asks for.
KindInv(w) ==
  LET kind == job[w].request.kind IN
  /\ pc[w] = "idle" => job[w] = NoJob
  /\ pc[w] = "borrow" => ~job[w].borrowed
  /\ pc[w] \in OneFile => kind \in {"get", "head", "download"}
  /\ pc[w] \in {"open", "read"} => job[w].request.file # Itself
  /\ pc[w] = "resolve" => kind \in {"download", "delete", "upload"}
  /\ pc[w] \in {"create", "write"} => kind = "upload"
  /\ pc[w] \in {"borrow", "select", "insert", "mkdir"} => kind \in {"login", "register"}

\* What the worker has seen of the file it answers with is in held, and it has
\* seen the file there.
HeldInv(w) ==
  /\ IsFiniteSet(held[w])
  /\ Contained(w) \subseteq held[w]
  /\ pc[w] \in OneFile \ {"exists"} => \E c \in held[w] : c # Absent
  /\ pc[w] \in {"sendfile", "body"} /\ job[w].size < 0 /\ job[w].request.file # Itself =>
       Absent \in held[w]
  /\ pc[w] \in {"read", "body"} /\ job[w].request.file # Itself => job[w].fd # 0

\* There is one answer, except that the header of a file comes first.
ReplyInv(w) ==
  /\ pc[w] \notin {"body", "return"} => replies[w] = <<>>
  /\ pc[w] = "body" => replies[w] = <<message(200, "file", Empty, job[w].size)>>

\* A listing in the making: what it has shows, and what it may still find.
ListInv(w) ==
  /\ Listing(w) \subseteq seen[w]
  /\ Busy(w) => always[w] \subseteq Listing(w)
  /\ pc[w] \notin {"stat", "return"} => job[w].entries = {}
  /\ pc[w] = "stat" =>
       /\ job[w].entries \subseteq seen[w]
       /\ w \notin thinned => /\ always[w] \subseteq job[w].entries \cup job[w].left
                             /\ job[w].left \subseteq Names(job[w].request)

FileAnswer(w) ==
  Answered(w, "file") /\ job[w].request.file # Itself =>
    LET reply == replies[w][1] IN
    /\ reply.body \in held[w] \cup {Empty}
    /\ Cardinality(held[w]) = 1 => reply.told = reply.sent
    /\ Len(replies[w]) > 1 => Absent \in held[w]

PageAnswer(w) ==
  Answered(w, "list") =>
    /\ job[w].entries \subseteq seen[w]
    /\ w \notin thinned => always[w] \subseteq job[w].entries

WorkerInv(w) ==
  KindInv(w) /\ HeldInv(w) /\ ReplyInv(w) /\ ListInv(w) /\ FileAnswer(w) /\ PageAnswer(w)

\* The row of an account comes before its directory and before the answer, and
\* its user may delete the directory later.
AccountInv ==
  /\ \A u \in Users :
       table[u] > 0 /\ u \notin roots /\ u \notin dropped =>
         \E w \in Workers : pc[w] = "mkdir" /\ job[w].request.user = u
  /\ NamesAreUnique =>
       /\ \A u \in Users : table[u] <= 1 /\ saved[u] <= table[u]
       /\ \A w \in Workers :
            pc[w] = "mkdir" => table[job[w].request.user] = 1 /\ saved[job[w].request.user] = 0
       /\ \A v, w \in Workers :
            /\ pc[v] = "mkdir" /\ pc[w] = "mkdir"
            /\ job[v].request.user = job[w].request.user
            => v = w

WorkersInv == \A w \in Workers : WorkerInv(w)

ServiceInv == TypeInv /\ PoolInv /\ AccountInv /\ WorkersInv

(***************************************************************************)
(* Data.                                                                    *)
(***************************************************************************)
LEMMA RequestFacts ==
  ASSUME NEW r \in Requests
  PROVE  /\ r.kind \in {"get", "head", "download", "delete"} /\ r.file # Itself =>
              <<r.user, r.file>> \in Paths
         /\ r.kind = "upload" => <<r.user, r.file>> \in Paths /\ r.content \in Contents
         /\ r.kind \in {"login", "register"} => r.user \in Users
<1>1. CASE r \in [kind : {"get", "head", "download", "delete"}, user : Users,
                  file : Files \cup {Itself}]
  <2>1. /\ r.kind \in {"get", "head", "download", "delete"} /\ r.user \in Users
        /\ r.file \in Files \cup {Itself}
    BY <1>1
  <2> QED BY <2>1 DEF Paths
<1>2. CASE r \in [kind : {"upload"}, user : Users, file : Files, content : Contents]
  <2>1. r.kind = "upload" /\ r.user \in Users /\ r.file \in Files /\ r.content \in Contents
    BY <1>2
  <2> QED BY <2>1 DEF Paths
<1>3. CASE r \in [kind : {"list", "login", "register"}, user : Users]
  <2>1. r.kind \in {"list", "login", "register"} /\ r.user \in Users
    BY <1>3
  <2> QED BY <2>1
<1>4. CASE r = [kind |-> "none of these"]
  BY <1>4
<1> QED BY <1>1, <1>2, <1>3, <1>4 DEF Requests

LEMMA NumberFacts ==
  /\ Number \in [Paths -> 1..Cardinality(Paths)]
  /\ Cardinality(Paths) \in Nat /\ Top \in Nat /\ 0 \in 0..Top
<1>1. IsFiniteSet(Paths)
  BY FS_Product, FileServiceAssumption DEF Paths
<1>2. PICK n : n = Cardinality(Paths)
  OBVIOUS
<1>3. n \in Nat
  BY <1>1, <1>2, FS_CardinalityType
<1>4. IsFiniteSet(1..n) /\ Cardinality(1..n) = n
  BY <1>3, FS_Interval
<1>5. ExistsBijection(Paths, 1..n)
  BY <1>1, <1>2, <1>4, FS_SameCardinalityBij
<1>6. PICK f \in [Paths -> 1..n] : \A p, q \in Paths : f[p] = f[q] => p = q
  BY <1>5 DEF ExistsBijection, Bijection, Injection, IsInjective
<1>7. Number \in [Paths -> 1..n]
  BY <1>2, <1>6 DEF Number
<1>8. Top \in Nat
  BY <1>2, <1>3, FileServiceAssumption DEF Top
<1> QED BY <1>2, <1>3, <1>7, <1>8

LEMMA FiniteSeen ==
  ASSUME NEW a, NEW d, NEW f
  PROVE  IsFiniteSet({a} \cup {d[i] : i \in {f} \ {0}})
<1>1. IsFiniteSet({a}) /\ IsFiniteSet({}) /\ IsFiniteSet({a} \cup {d[f]})
  BY FS_Singleton, FS_EmptySet, FS_AddElement
<1>2. {d[i] : i \in {f} \ {0}} = IF f = 0 THEN {} ELSE {d[f]}
  OBVIOUS
<1>3. {a} \cup {} = {a}
  OBVIOUS
<1> QED BY <1>1, <1>2, <1>3

LEMMA OneElement == \A r : Append(<<>>, r) = <<r>> /\ Len(<<r>>) = 1 /\ <<r>>[1] = r /\ DOMAIN <<r>> = {1}
  OBVIOUS

(***************************************************************************)
(* Updates of a job.                                                        *)
(***************************************************************************)
LEMMA SetFd ==
  ASSUME TypeInv, NEW w \in Workers, NEW x \in 0..Top, job' = [job EXCEPT ![w].fd = x]
  PROVE  /\ job' \in [Workers -> Job] /\ \A v \in Workers \ {w} : job'[v] = job[v]
         /\ job'[w].fd = x /\ job'[w].request = job[w].request /\ job'[w].size = job[w].size
         /\ job'[w].left = job[w].left /\ job'[w].entries = job[w].entries
         /\ job'[w].borrowed = job[w].borrowed
<1>1. PICK j, b : j = job[w] /\ b = [j EXCEPT !.fd = x]
  OBVIOUS
<1>2. j \in Job /\ job \in [Workers -> Job]
  BY <1>1 DEF TypeInv
<1>3. b = [request |-> j.request, ticket |-> j.ticket, fd |-> x, size |-> j.size,
           left |-> j.left, entries |-> j.entries, borrowed |-> j.borrowed]
  BY <1>1, <1>2 DEF Job
<1>4. b \in Job
  BY <1>2, <1>3 DEF Job
<1>5. job' = [job EXCEPT ![w] = b]
  BY <1>1
<1> QED BY <1>1, <1>2, <1>3, <1>4, <1>5

LEMMA SetSize ==
  ASSUME TypeInv, NEW w \in Workers, NEW x \in -1..2, job' = [job EXCEPT ![w].size = x]
  PROVE  /\ job' \in [Workers -> Job] /\ \A v \in Workers \ {w} : job'[v] = job[v]
         /\ job'[w].size = x /\ job'[w].request = job[w].request /\ job'[w].fd = job[w].fd
         /\ job'[w].left = job[w].left /\ job'[w].entries = job[w].entries
         /\ job'[w].borrowed = job[w].borrowed
<1>1. PICK j, b : j = job[w] /\ b = [j EXCEPT !.size = x]
  OBVIOUS
<1>2. j \in Job /\ job \in [Workers -> Job]
  BY <1>1 DEF TypeInv
<1>3. b = [request |-> j.request, ticket |-> j.ticket, fd |-> j.fd, size |-> x,
           left |-> j.left, entries |-> j.entries, borrowed |-> j.borrowed]
  BY <1>1, <1>2 DEF Job
<1>4. b \in Job
  BY <1>2, <1>3 DEF Job
<1>5. job' = [job EXCEPT ![w] = b]
  BY <1>1
<1> QED BY <1>1, <1>2, <1>3, <1>4, <1>5

LEMMA SetBorrowed ==
  ASSUME TypeInv, NEW w \in Workers, job' = [job EXCEPT ![w].borrowed = TRUE]
  PROVE  /\ job' \in [Workers -> Job] /\ \A v \in Workers \ {w} : job'[v] = job[v]
         /\ job'[w].borrowed = TRUE /\ job'[w].request = job[w].request
         /\ job'[w].fd = job[w].fd /\ job'[w].size = job[w].size
         /\ job'[w].left = job[w].left /\ job'[w].entries = job[w].entries
<1>1. PICK j, b : j = job[w] /\ b = [j EXCEPT !.borrowed = TRUE]
  OBVIOUS
<1>2. j \in Job /\ job \in [Workers -> Job]
  BY <1>1 DEF TypeInv
<1>3. b = [request |-> j.request, ticket |-> j.ticket, fd |-> j.fd, size |-> j.size,
           left |-> j.left, entries |-> j.entries, borrowed |-> TRUE]
  BY <1>1, <1>2 DEF Job
<1>4. b \in Job
  BY <1>2, <1>3 DEF Job
<1>5. job' = [job EXCEPT ![w] = b]
  BY <1>1
<1> QED BY <1>1, <1>2, <1>3, <1>4, <1>5

LEMMA SetLeft ==
  ASSUME TypeInv, NEW w \in Workers, NEW x \in SUBSET Files, job' = [job EXCEPT ![w].left = x]
  PROVE  /\ job' \in [Workers -> Job] /\ \A v \in Workers \ {w} : job'[v] = job[v]
         /\ job'[w].left = x /\ job'[w].entries = job[w].entries
         /\ job'[w].borrowed = job[w].borrowed
         /\ job'[w].request = job[w].request
<1>1. PICK j, b : j = job[w] /\ b = [j EXCEPT !.left = x]
  OBVIOUS
<1>2. j \in Job /\ job \in [Workers -> Job]
  BY <1>1 DEF TypeInv
<1>3. b = [request |-> j.request, ticket |-> j.ticket, fd |-> j.fd, size |-> j.size,
           left |-> x, entries |-> j.entries, borrowed |-> j.borrowed]
  BY <1>1, <1>2 DEF Job
<1>4. b \in Job
  BY <1>2, <1>3 DEF Job
<1>5. job' = [job EXCEPT ![w] = b]
  BY <1>1
<1> QED BY <1>1, <1>2, <1>3, <1>4, <1>5

LEMMA SetList ==
  ASSUME TypeInv, NEW w \in Workers, NEW x \in SUBSET Files, NEW y \in SUBSET Files,
         job' = [job EXCEPT ![w].left = x, ![w].entries = y]
  PROVE  /\ job' \in [Workers -> Job] /\ \A v \in Workers \ {w} : job'[v] = job[v]
         /\ job'[w].left = x /\ job'[w].entries = y /\ job'[w].borrowed = job[w].borrowed
         /\ job'[w].request = job[w].request
<1>1. PICK j, b : j = job[w] /\ b = [j EXCEPT !.left = x, !.entries = y]
  OBVIOUS
<1>2. j \in Job /\ job \in [Workers -> Job]
  BY <1>1 DEF TypeInv
<1>3. b = [request |-> j.request, ticket |-> j.ticket, fd |-> j.fd, size |-> j.size,
           left |-> x, entries |-> y, borrowed |-> j.borrowed]
  BY <1>1, <1>2 DEF Job
<1>4. b \in Job
  BY <1>2, <1>3 DEF Job
<1>5. job' = [job EXCEPT ![w] = b]
  BY <1>1
<1> QED BY <1>1, <1>2, <1>3, <1>4, <1>5

(***************************************************************************)
(* What a step of one worker leaves to the others, and to itself.           *)
(***************************************************************************)
Alone(w) ==
  \A v \in Workers \ {w} : pc'[v] = pc[v] /\ job'[v] = job[v] /\ replies'[v] = replies[v]

LEMMA HeldKept ==
  ASSUME Remember, NEW w \in Workers, IsFiniteSet(held[w]), pc[w] # "idle", pc'[w] # "idle"
  PROVE  /\ IsFiniteSet(held'[w]) /\ Contained(w)' \subseteq held'[w] /\ held[w] \subseteq held'[w]
         /\ pc'[w] = "return" => held'[w] = held[w]
<1>1. held'[w] = Contained(w)' \cup held[w]
  BY DEF Remember
<1>2. IsFiniteSet(Contained(w)')
  <2>1. \/ Contained(w)' = {}
        \/ Contained(w)' = {At(job[w].request)'} \cup {data'[i] : i \in {job'[w].fd} \ {0}}
    BY DEF Contained
  <2>2. PICK a, d, f : a = At(job[w].request)' /\ d = data' /\ f = job'[w].fd
    OBVIOUS
  <2>3. IsFiniteSet({a} \cup {d[i] : i \in {f} \ {0}})
    BY FiniteSeen
  <2>4. {a} \cup {d[i] : i \in {f} \ {0}} = {At(job[w].request)'} \cup {data'[i] : i \in {job'[w].fd} \ {0}}
    BY <2>2
  <2> QED BY <2>1, <2>3, <2>4, FS_EmptySet
<1>3. pc'[w] = "return" => Contained(w)' = {}
  BY DEF Contained, Busy
<1> QED BY <1>1, <1>2, <1>3, FS_Union

LEMMA SeenKept ==
  ASSUME Remember, NEW w \in Workers, pc[w] # "idle", pc'[w] # "idle"
  PROVE  /\ Listing(w)' \subseteq seen'[w]
         /\ Busy(w)' => always'[w] \subseteq Listing(w)'
         /\ pc[w] \notin {"create", "remove"} \/ pc'[w] = pc[w] =>
              /\ seen[w] \subseteq seen'[w] /\ always'[w] \subseteq always[w]
              /\ pc'[w] = "return" => seen'[w] = seen[w] /\ always'[w] = always[w]
<1>1. /\ seen'[w] = Listing(w)' \cup IF Changes(w) THEN {} ELSE seen[w]
      /\ always'[w] = IF Changes(w) THEN Listing(w)'
                      ELSE IF Busy(w)' THEN Listing(w)' \cap always[w] ELSE always[w]
  BY DEF Remember
<1>2. pc[w] \notin {"create", "remove"} \/ pc'[w] = pc[w] => ~Changes(w)
  BY DEF Changes
<1>3. pc'[w] = "return" => Listing(w)' = {} /\ ~Busy(w)'
  BY DEF Listing, Busy
<1> QED BY <1>1, <1>2, <1>3

\* A page that is being made, or that is done.
LEMMA ThinnedKept ==
  ASSUME Remember, NEW w \in Workers, w \notin thinned'
  PROVE  /\ pc[w] = "stat" /\ pc'[w] = "stat" => w \notin thinned /\ Listing(w) \subseteq Listing(w)'
         /\ pc'[w] = "return" => w \notin thinned
  BY DEF Remember

\* The disk may change under the other workers.
LEMMA OtherKept ==
  ASSUME Remember, NEW v \in Workers, WorkerInv(v),
         pc'[v] = pc[v], job'[v] = job[v], replies'[v] = replies[v]
  PROVE  WorkerInv(v)'
<1>1. KindInv(v)' /\ ReplyInv(v)'
  BY DEF WorkerInv, KindInv, ReplyInv
<1>2. CASE pc[v] = "idle"
  <2>1. Contained(v)' = {} /\ Listing(v)' = {} /\ ~Busy(v)'
    BY <1>2 DEF Contained, Listing, Busy
  <2>2. held'[v] = {}
    BY <1>2, <2>1 DEF Remember
  <2>3. HeldInv(v)'
    BY <1>2, <2>1, <2>2, FS_EmptySet DEF HeldInv, OneFile
  <2>4. ListInv(v)'
    BY <1>2, <2>1 DEF WorkerInv, ListInv
  <2> QED BY <1>1, <1>2, <2>3, <2>4 DEF WorkerInv, FileAnswer, PageAnswer, Answered
<1>3. CASE pc[v] # "idle"
  <2>1. IsFiniteSet(held[v])
    BY DEF WorkerInv, HeldInv
  <2>2. /\ IsFiniteSet(held'[v]) /\ Contained(v)' \subseteq held'[v] /\ held[v] \subseteq held'[v]
        /\ pc[v] = "return" => held'[v] = held[v]
    BY <1>3, <2>1, HeldKept
  <2>3. /\ Listing(v)' \subseteq seen'[v]
        /\ Busy(v)' => always'[v] \subseteq Listing(v)'
        /\ seen[v] \subseteq seen'[v] /\ always'[v] \subseteq always[v]
        /\ pc[v] = "return" => seen'[v] = seen[v] /\ always'[v] = always[v]
    BY <1>3, SeenKept
  <2>4. HeldInv(v)'
    BY <2>2 DEF WorkerInv, HeldInv
  <2>5. ListInv(v)'
    <3>1. pc[v] = "stat" => Listing(v) = Names(job[v].request) /\ Listing(v)' = Names(job[v].request)'
      BY DEF Listing, Busy
    <3>2. pc[v] = "stat" /\ v \notin thinned' => v \notin thinned /\ Listing(v) \subseteq Listing(v)'
      BY ThinnedKept
    <3>3. pc[v] = "stat" /\ v \notin thinned' =>
            /\ always'[v] \subseteq job[v].entries \cup job[v].left
            /\ job[v].left \subseteq Names(job[v].request)'
      BY <2>3, <3>1, <3>2 DEF WorkerInv, ListInv
    <3> QED BY <2>3, <3>3 DEF WorkerInv, ListInv
  <2>6. FileAnswer(v)'
    BY <2>2 DEF WorkerInv, FileAnswer, Answered
  <2>7. PageAnswer(v)'
    <3>1. pc[v] = "return" /\ v \notin thinned' => v \notin thinned
      BY ThinnedKept
    <3> QED BY <2>3, <3>1 DEF WorkerInv, PageAnswer, Answered
  <2> QED BY <1>1, <2>4, <2>5, <2>6, <2>7 DEF WorkerInv
<1> QED BY <1>2, <1>3

\* An answer that is neither a file nor a page with files.
LEMMA PlainAnswer ==
  ASSUME TypeInv, Remember, NEW w \in Workers, WorkerInv(w), Busy(w), pc[w] # "body",
         NEW r, SendHtmlResponse(w, r), r.page \notin {"file", "list"}
  PROVE  WorkerInv(w)' /\ pc'[w] = "return"
<1>1. pc'[w] = "return" /\ replies'[w] = Append(replies[w], r)
  BY DEF TypeInv, SendHtmlResponse, Goto
<1>2. replies'[w] = <<r>>
  BY <1>1, OneElement DEF WorkerInv, ReplyInv, Busy
<1>3. ~Answered(w, "file")' /\ ~Answered(w, "list")'
  BY <1>2, OneElement DEF Answered
<1>4. IsFiniteSet(held'[w]) /\ Contained(w)' \subseteq held'[w]
  BY <1>1, HeldKept DEF WorkerInv, HeldInv, Busy
<1>5. HeldInv(w)'
  BY <1>1, <1>4 DEF HeldInv, OneFile
<1>6. Listing(w)' = {} /\ ~Busy(w)'
  BY <1>1 DEF Listing, Busy
<1>7. ListInv(w)'
  BY <1>1, <1>6 DEF ListInv
<1> QED
  BY <1>1, <1>3, <1>5, <1>7 DEF WorkerInv, KindInv, ReplyInv, FileAnswer, PageAnswer, OneFile

\* The request goes on to a call other than those that need care.
LEMMA GoesOn ==
  ASSUME TypeInv, Remember, NEW w \in Workers, WorkerInv(w), Busy(w), pc[w] \notin {"body", "stat"},
         NEW label, Continue(w, label), label \notin {"idle", "return", "body", "stat"},
         job'[w].entries = job[w].entries, KindInv(w)',
         label \in OneFile \ {"exists"} => \E c \in held[w] : c # Absent,
         label = "sendfile" /\ job'[w].size < 0 /\ job'[w].request.file # Itself =>
           Absent \in held'[w],
         label = "read" => job'[w].fd # 0
  PROVE  WorkerInv(w)' /\ pc'[w] = label
<1>1. pc'[w] = label /\ replies' = replies
  BY DEF TypeInv, Continue, Goto
<1>2. /\ IsFiniteSet(held'[w]) /\ Contained(w)' \subseteq held'[w] /\ held[w] \subseteq held'[w]
  BY <1>1, HeldKept DEF WorkerInv, HeldInv, Busy
<1>3. HeldInv(w)'
  BY <1>1, <1>2 DEF HeldInv
<1>4. ReplyInv(w)'
  BY <1>1 DEF WorkerInv, ReplyInv, Busy
<1>5. Listing(w)' \subseteq seen'[w] /\ (Busy(w)' => always'[w] \subseteq Listing(w)')
  BY <1>1, SeenKept DEF Busy
<1>6. ListInv(w)'
  BY <1>1, <1>5 DEF WorkerInv, ListInv, Busy
<1> QED BY <1>1, <1>3, <1>4, <1>6 DEF WorkerInv, FileAnswer, PageAnswer, Answered

(***************************************************************************)
(* The steps.  Good is what each of them is shown to do.                    *)
(***************************************************************************)
Good(w) == TypeInv' /\ PoolInv' /\ AccountInv' /\ WorkerInv(w)' /\ Alone(w)

LEMMA AccountKept ==
  ASSUME AccountInv, Remember, NEW w \in Workers, Alone(w), UNCHANGED <<table, saved>>,
         pc[w] # "mkdir", pc'[w] # "mkdir"
  PROVE  AccountInv'
<1>0. dropped \subseteq dropped' /\ roots \ roots' \subseteq dropped'
  BY DEF Remember
<1>1. \A v \in Workers : pc'[v] = "mkdir" <=> pc[v] = "mkdir"
  BY DEF Alone
<1>2. \A v \in Workers : pc[v] = "mkdir" => job'[v] = job[v]
  BY DEF Alone
<1> QED BY <1>0, <1>1, <1>2 DEF AccountInv

LEMMA PoolKept ==
  ASSUME PoolInv, NEW w \in Workers, Alone(w), idle' = idle, job'[w].borrowed = job[w].borrowed
  PROVE  PoolInv'
<1>1. Borrowers' = Borrowers
  BY DEF Borrowers, Alone
<1> QED BY <1>1 DEF PoolInv

\* A step that has to do with neither accounts nor connections.
LEMMA QuietKept ==
  ASSUME ServiceInv, Remember, NEW w \in Workers, Alone(w), UNCHANGED <<table, roots, saved, idle>>,
         job'[w].borrowed = job[w].borrowed, pc[w] # "mkdir", pc'[w] # "mkdir"
  PROVE  PoolInv' /\ AccountInv'
  BY AccountKept, PoolKept DEF ServiceInv

\* The answers that leave the job as it is.
LEMMA RefuseStep ==
  ASSUME ServiceInv, Remember, NEW w \in Workers, Refuse(w)
  PROVE  Good(w)
<1>1. TypeInv /\ WorkerInv(w)
  BY DEF ServiceInv, WorkersInv
<1>2. /\ pc[w] = "refuse" /\ SendHtmlResponse(w, ErrorBody(400))
      /\ UNCHANGED <<roots, entry, data, table, idle, job, terminated, taken, saved>>
  BY DEF Refuse, disk, database
<1>3. ErrorBody(400).page \notin {"file", "list"}
  BY DEF ErrorBody, message
<1>4. WorkerInv(w)' /\ pc'[w] = "return"
  BY <1>1, <1>2, <1>3, PlainAnswer DEF Busy
<1>5. Alone(w) /\ DOMAIN pc' = Workers /\ DOMAIN replies' = Workers
  BY <1>1, <1>2 DEF SendHtmlResponse, Goto, Alone, TypeInv
<1>6. TypeInv'
  BY <1>1, <1>2, <1>5 DEF TypeInv
<1> QED BY <1>2, <1>4, <1>5, <1>6, QuietKept DEF Good

\* ServeStaticFile asks whether the file exists.
LEMMA ExistsStep ==
  ASSUME ServiceInv, Remember, NEW w \in Workers, Exists(w)
  PROVE  Good(w)
<1>1. TypeInv /\ WorkerInv(w)
  BY DEF ServiceInv, WorkersInv
<1>2. /\ pc[w] = "exists"
      /\ UNCHANGED <<roots, entry, data, table, idle, job, terminated, taken, saved>>
  BY DEF Exists, disk, database
<1>3. WorkerInv(w)' /\ pc'[w] \in {"return", "size"}
  <2>1. CASE At(job[w].request) = Absent
    <3>1. SendHtmlResponse(w, ErrorBody(404)) /\ ErrorBody(404).page \notin {"file", "list"}
      BY <2>1 DEF Exists, ErrorBody, message
    <3> QED BY <1>1, <1>2, <3>1, PlainAnswer DEF Busy
  <2>2. CASE At(job[w].request) # Absent
    <3>1. Continue(w, "size")
      BY <2>2 DEF Exists
    <3>2. pc'[w] = "size"
      BY <1>1, <1>2, <3>1 DEF Continue, Goto, TypeInv
    <3>3. job[w].request.kind \in {"get", "head", "download"}
      BY <1>1, <1>2 DEF WorkerInv, KindInv, OneFile
    <3>4. KindInv(w)'
      BY <1>2, <3>2, <3>3 DEF KindInv
    <3>5. \E c \in held[w] : c # Absent
      BY <1>1, <1>2, <2>2, <3>3 DEF WorkerInv, HeldInv, Contained, Busy, HasFile
    <3> QED BY <1>1, <1>2, <3>1, <3>4, <3>5, GoesOn DEF Busy
  <2> QED BY <2>1, <2>2
<1>4. Alone(w) /\ DOMAIN pc' = Workers /\ DOMAIN replies' = Workers
  BY <1>1, <1>2 DEF Exists, SendHtmlResponse, Continue, Goto, Alone, TypeInv
<1>5. TypeInv'
  BY <1>1, <1>2, <1>4 DEF TypeInv
<1> QED BY <1>2, <1>3, <1>4, <1>5, QuietKept DEF Good

LEMMA ResolveStep ==
  ASSUME ServiceInv, Remember, NEW w \in Workers, Resolve(w)
  PROVE  Good(w)
<1>1. TypeInv /\ WorkerInv(w)
  BY DEF ServiceInv, WorkersInv
<1>2. /\ pc[w] = "resolve"
      /\ UNCHANGED <<roots, entry, data, table, idle, job, terminated, taken, saved>>
  BY DEF Resolve, disk, database
<1>3. job[w].request.kind \in {"download", "delete", "upload"}
  BY <1>1, <1>2 DEF WorkerInv, KindInv
<1>4. WorkerInv(w)' /\ pc'[w] \in {"return", "size", "remove", "create"}
  <2>1. CASE ~ResolveUserPath(job[w].request)
    <3>1. PICK r : SendHtmlResponse(w, r) /\ (r = ErrorBody(403) \/ r = ResultPage(404))
      BY <2>1 DEF Resolve
    <3>2. r.page \notin {"file", "list"}
      BY <3>1 DEF ErrorBody, ResultPage, message
    <3> QED BY <1>1, <1>2, <3>1, <3>2, PlainAnswer DEF Busy
  <2>2. CASE ResolveUserPath(job[w].request)
    <3>1. PICK label : /\ Continue(w, label)
                       /\ \/ label = "size" /\ job[w].request.kind = "download"
                          \/ label = "remove" /\ job[w].request.kind = "delete"
                          \/ label = "create" /\ job[w].request.kind = "upload"
      BY <1>3, <2>2 DEF Resolve
    <3>2. pc'[w] = label
      BY <1>1, <1>2, <3>1 DEF Continue, Goto, TypeInv
    <3>3. KindInv(w)'
      BY <1>2, <3>1, <3>2 DEF KindInv, OneFile
    <3>4. label = "size" => \E c \in held[w] : c # Absent
      BY <1>1, <1>2, <2>2, <3>1 DEF WorkerInv, HeldInv, Contained, Busy, HasFile, ResolveUserPath
    <3> QED BY <1>1, <1>2, <3>1, <3>2, <3>3, <3>4, GoesOn DEF Busy, OneFile
  <2> QED BY <2>1, <2>2
<1>5. Alone(w) /\ DOMAIN pc' = Workers /\ DOMAIN replies' = Workers
  BY <1>1, <1>2 DEF Resolve, SendHtmlResponse, Continue, Goto, Alone, TypeInv
<1>6. TypeInv'
  BY <1>1, <1>2, <1>5 DEF TypeInv
<1> QED BY <1>2, <1>4, <1>5, <1>6, QuietKept DEF Good

LEMMA SizeRange == \A content : Size(content) \in 0..2
  BY DEF Size

\* A file contains what is stored, never a directory.
LEMMA DataFacts ==
  ASSUME TypeInv, NEW r, r.file # Itself, r.kind \in {"get", "head", "download"}, r \in Requests
  PROVE  At(r) # Directory
<1>1. PICK d : d = entry[r.user, r.file]
  OBVIOUS
<1>2. At(r) = IF d = 0 THEN Absent ELSE data[d]
  BY <1>1 DEF At, InodeOf
<1>3. <<r.user, r.file>> \in Paths
  BY RequestFacts
<1>4. d \in 0..Top
  BY <1>1, <1>3 DEF TypeInv
<1>5. d # 0 => d \in Inodes
  BY <1>4, NumberFacts DEF Inodes, Top
<1>6. d # 0 => data[d] # Directory
  BY <1>5, ContentsAssumption DEF TypeInv, Empty, Directory
<1> QED BY <1>2, <1>6 DEF Absent, Directory

\* file_size of a page: what has no size is sent as a large file.
LEMMA PageSizeStep ==
  ASSUME ServiceInv, Remember, NEW w \in Workers, PageSize(w)
  PROVE  Good(w)
<1>1. TypeInv /\ WorkerInv(w)
  BY DEF ServiceInv, WorkersInv
<1>2. PICK content, size, label :
        /\ content = At(job[w].request) /\ size = (IF Sizeless(content) THEN -1 ELSE Size(content))
        /\ label = (IF content \in Large \/ Sizeless(content) THEN "sendfile" ELSE "open")
  OBVIOUS
<1>3. /\ pc[w] = "size" /\ Continue(w, label) /\ job' = [job EXCEPT ![w].size = size]
      /\ UNCHANGED <<roots, entry, data, table, idle, terminated, taken, saved>>
  BY <1>2 DEF PageSize, disk, database
<1>4. /\ size \in -1..2 /\ (size < 0 => Sizeless(content)) /\ label \in {"sendfile", "open"}
      /\ label = "open" => ~Sizeless(content)
  BY <1>2, SizeRange
<1>4a. job[w].request.file # Itself /\ Sizeless(content) => content = Absent
  <2>1. job[w].request.kind \in {"get", "head", "download"} /\ job[w].request \in Requests
    BY <1>1, <1>3 DEF WorkerInv, KindInv, OneFile, TypeInv, Job
  <2> QED BY <1>1, <1>2, <2>1, DataFacts DEF Sizeless
<1>4b. job[w].request.file = Itself => Sizeless(content)
  BY <1>2 DEF At, InodeOf, Sizeless
<1>5. /\ job' \in [Workers -> Job] /\ \A v \in Workers \ {w} : job'[v] = job[v]
      /\ job'[w].size = size /\ job'[w].request = job[w].request
      /\ job'[w].entries = job[w].entries /\ job'[w].borrowed = job[w].borrowed
  BY <1>1, <1>3, <1>4, SetSize
<1>6. /\ DOMAIN pc' = Workers /\ DOMAIN replies' = Workers /\ pc'[w] = label
      /\ \A v \in Workers \ {w} : pc'[v] = pc[v] /\ replies'[v] = replies[v]
  BY <1>1, <1>3 DEF Continue, Goto, TypeInv
<1>7. job[w].request.kind \in {"get", "head", "download"}
  BY <1>1, <1>3 DEF WorkerInv, KindInv, OneFile
<1>8. KindInv(w)'
  BY <1>4, <1>4b, <1>5, <1>6, <1>7 DEF KindInv
<1>9. content \in held[w] /\ \E c \in held[w] : c # Absent
  BY <1>1, <1>2, <1>3, <1>7 DEF WorkerInv, HeldInv, Contained, Busy, HasFile, OneFile
<1>10. held[w] \subseteq held'[w]
  BY <1>1, <1>3, <1>4, <1>6, HeldKept DEF WorkerInv, HeldInv
<1>11. WorkerInv(w)'
  BY <1>1, <1>3, <1>4, <1>4a, <1>5, <1>8, <1>9, <1>10, GoesOn DEF Busy
<1>12. Alone(w)
  BY <1>5, <1>6 DEF Alone
<1>13. TypeInv'
  BY <1>1, <1>3, <1>5, <1>6 DEF TypeInv
<1> QED BY <1>3, <1>4, <1>5, <1>6, <1>11, <1>12, <1>13, QuietKept DEF Good

\* file_size of a download throws when there is no size.
LEMMA DownloadSizeStep ==
  ASSUME ServiceInv, Remember, NEW w \in Workers, DownloadSize(w)
  PROVE  Good(w)
<1>1. TypeInv /\ WorkerInv(w)
  BY DEF ServiceInv, WorkersInv
<1>2. PICK content : content = At(job[w].request)
  OBVIOUS
<1>3. pc[w] = "size" /\ UNCHANGED <<roots, entry, data, table, idle, taken, saved>>
  BY DEF DownloadSize, disk, database
<1>4. CASE Sizeless(content)
  <2>1. terminated' = w /\ UNCHANGED <<pc, replies, job>>
    BY <1>2, <1>4 DEF DownloadSize, Throw
  <2>2. WorkerInv(w)'
    BY <1>1, <2>1, OtherKept
  <2>3. Alone(w)
    BY <2>1 DEF Alone
  <2>4. TypeInv'
    BY <1>1, <1>3, <2>1 DEF TypeInv
  <2> QED BY <1>3, <2>1, <2>2, <2>3, <2>4, QuietKept DEF Good
<1>5. CASE ~Sizeless(content)
  <2>1. PICK size, label :
          /\ size = Size(content) /\ label = (IF content \in Large THEN "sendfile" ELSE "open")
    OBVIOUS
  <2>2. Continue(w, label) /\ job' = [job EXCEPT ![w].size = size] /\ terminated' = terminated
    BY <1>2, <1>5, <2>1 DEF DownloadSize
  <2>3. size \in -1..2 /\ ~(size < 0) /\ label \in {"sendfile", "open"}
    BY <2>1, SizeRange
  <2>4. /\ job' \in [Workers -> Job] /\ \A v \in Workers \ {w} : job'[v] = job[v]
        /\ job'[w].size = size /\ job'[w].request = job[w].request
        /\ job'[w].entries = job[w].entries /\ job'[w].borrowed = job[w].borrowed
    BY <1>1, <2>2, <2>3, SetSize
  <2>5. /\ DOMAIN pc' = Workers /\ DOMAIN replies' = Workers /\ pc'[w] = label
        /\ \A v \in Workers \ {w} : pc'[v] = pc[v] /\ replies'[v] = replies[v]
    BY <1>1, <2>2 DEF Continue, Goto, TypeInv
  <2>6. job[w].request.kind \in {"get", "head", "download"}
    BY <1>1, <1>3 DEF WorkerInv, KindInv, OneFile
  <2>6a. job[w].request.file # Itself
    BY <1>2, <1>5 DEF At, InodeOf, Sizeless
  <2>7. KindInv(w)'
    BY <2>3, <2>4, <2>5, <2>6, <2>6a DEF KindInv
  <2>8. \E c \in held[w] : c # Absent
    BY <1>1, <1>3 DEF WorkerInv, HeldInv, OneFile
  <2>9. WorkerInv(w)'
    BY <1>1, <1>3, <2>2, <2>3, <2>4, <2>7, <2>8, GoesOn DEF Busy
  <2>10. Alone(w)
    BY <2>4, <2>5 DEF Alone
  <2>11. TypeInv'
    BY <1>1, <1>3, <2>2, <2>4, <2>5 DEF TypeInv
  <2> QED BY <1>3, <2>3, <2>4, <2>5, <2>9, <2>10, <2>11, QuietKept DEF Good
<1> QED BY <1>4, <1>5

\* A small file is opened.
LEMMA OpenStep ==
  ASSUME ServiceInv, Remember, NEW w \in Workers, Open(w)
  PROVE  Good(w)
<1>1. TypeInv /\ WorkerInv(w)
  BY DEF ServiceInv, WorkersInv
<1>2. PICK r : r = job[w].request
  OBVIOUS
<1>3. pc[w] = "open" /\ UNCHANGED <<roots, entry, data, table, idle, terminated, taken, saved>>
  BY DEF Open, disk, database
<1>4. CASE At(r) = Absent
  <2>1. PICK a : SendHtmlResponse(w, a) /\ (a = ResultPage(403) \/ a = ErrorBody(403)) /\ job' = job
    BY <1>2, <1>4 DEF Open
  <2>2. a.page \notin {"file", "list"}
    BY <2>1 DEF ErrorBody, ResultPage, message
  <2>3. WorkerInv(w)' /\ pc'[w] = "return"
    BY <1>1, <1>3, <2>1, <2>2, PlainAnswer DEF Busy
  <2>4. Alone(w) /\ DOMAIN pc' = Workers /\ DOMAIN replies' = Workers
    BY <1>1, <1>3, <2>1 DEF SendHtmlResponse, Goto, Alone, TypeInv
  <2>5. TypeInv'
    BY <1>1, <1>3, <2>1, <2>4 DEF TypeInv
  <2> QED BY <1>3, <2>1, <2>3, <2>4, <2>5, QuietKept DEF Good
<1>5. CASE At(r) # Absent
  <2>1. PICK fd : fd = InodeOf(r)
    OBVIOUS
  <2>2. Continue(w, "read") /\ job' = [job EXCEPT ![w].fd = fd]
    BY <1>2, <1>5, <2>1 DEF Open
  <2>3. r.kind \in {"get", "head", "download"} /\ r.file # Itself
    BY <1>1, <1>2, <1>3 DEF WorkerInv, KindInv, OneFile
  <2>4. fd \in 0..Top /\ fd # 0
    <3>1. <<r.user, r.file>> \in Paths
      BY <1>1, <1>2, <2>3, RequestFacts DEF TypeInv, Job
    <3>2. fd # 0
      BY <1>5, <2>1, <2>3 DEF At
    <3> QED BY <1>1, <2>1, <2>3, <3>1, <3>2 DEF TypeInv, InodeOf
  <2>5. /\ job' \in [Workers -> Job] /\ \A v \in Workers \ {w} : job'[v] = job[v]
        /\ job'[w].fd = fd /\ job'[w].request = job[w].request
        /\ job'[w].entries = job[w].entries /\ job'[w].borrowed = job[w].borrowed
    BY <1>1, <2>2, <2>4, SetFd
  <2>6. /\ DOMAIN pc' = Workers /\ DOMAIN replies' = Workers /\ pc'[w] = "read"
        /\ \A v \in Workers \ {w} : pc'[v] = pc[v] /\ replies'[v] = replies[v]
    BY <1>1, <2>2 DEF Continue, Goto, TypeInv
  <2>7. KindInv(w)'
    BY <1>2, <2>3, <2>5, <2>6 DEF KindInv
  <2>8. \E c \in held[w] : c # Absent
    BY <1>1, <1>3 DEF WorkerInv, HeldInv, OneFile
  <2>9. WorkerInv(w)'
    BY <1>1, <1>3, <2>2, <2>4, <2>5, <2>7, <2>8, GoesOn DEF Busy
  <2>10. Alone(w)
    BY <2>5, <2>6 DEF Alone
  <2>11. TypeInv'
    BY <1>1, <1>3, <2>5, <2>6 DEF TypeInv
  <2> QED BY <1>3, <2>5, <2>6, <2>9, <2>10, <2>11, QuietKept DEF Good
<1> QED BY <1>4, <1>5

\* A file is answered with what the worker has seen of it.
LEMMA FileSent ==
  ASSUME TypeInv, Remember, NEW w \in Workers, WorkerInv(w), Busy(w), pc'[w] = "return",
         pc[w] \notin {"create", "remove"},
         NEW r, replies'[w][1] = r,
         \A i \in DOMAIN replies'[w] : replies'[w][i].page # "list",
         job'[w] = job[w],
         job[w].request.file # Itself =>
           /\ r.body \in held[w] \cup {Empty}
           /\ Cardinality(held[w]) = 1 => r.told = r.sent
           /\ Len(replies'[w]) > 1 => Absent \in held[w]
  PROVE  WorkerInv(w)'
<1>1. IsFiniteSet(held'[w]) /\ Contained(w)' \subseteq held'[w] /\ held'[w] = held[w]
  BY HeldKept DEF WorkerInv, HeldInv, Busy
<1>2. HeldInv(w)'
  BY <1>1 DEF HeldInv, OneFile
<1>3. ListInv(w)'
  BY DEF ListInv, Listing, Busy
<1>4. FileAnswer(w)'
  BY <1>1 DEF FileAnswer
<1>5. ~Answered(w, "list")'
  BY DEF Answered
<1> QED BY <1>2, <1>3, <1>4, <1>5 DEF WorkerInv, KindInv, ReplyInv, PageAnswer, OneFile

LEMMA ReadStep ==
  ASSUME ServiceInv, Remember, NEW w \in Workers, Read(w)
  PROVE  Good(w)
<1>1. TypeInv /\ WorkerInv(w)
  BY DEF ServiceInv, WorkersInv
<1>2. PICK body, r :
        /\ body = (IF job[w].request.kind = "head" THEN Empty ELSE data[job[w].fd])
        /\ r = message(200, "file", body, 0)
  OBVIOUS
<1>3. /\ pc[w] = "read" /\ SendHtmlResponse(w, r)
      /\ UNCHANGED <<roots, entry, data, table, idle, job, terminated, taken, saved>>
  BY <1>2 DEF Read, disk, database
<1>4. /\ DOMAIN pc' = Workers /\ DOMAIN replies' = Workers /\ pc'[w] = "return"
      /\ replies'[w] = Append(replies[w], r) /\ Alone(w)
  BY <1>1, <1>3 DEF SendHtmlResponse, Goto, TypeInv, Alone
<1>5. replies'[w] = <<r>>
  BY <1>1, <1>3, <1>4, OneElement DEF WorkerInv, ReplyInv
<1>6. job[w].request.kind \in {"get", "head", "download"} /\ job[w].fd # 0
  BY <1>1, <1>3 DEF WorkerInv, KindInv, HeldInv, OneFile
<1>7. body \in held[w] \cup {Empty}
  <2>1. data[job[w].fd] \in Contained(w)
    BY <1>3, <1>6 DEF Contained, Busy, HasFile
  <2> QED BY <1>1, <1>2, <2>1 DEF WorkerInv, HeldInv
<1>8. r.page = "file" /\ r.body = body /\ r.told = r.sent
  BY <1>2 DEF message
<1>9. /\ Len(replies'[w]) = 1 /\ replies'[w][1] = r
      /\ \A i \in DOMAIN replies'[w] : replies'[w][i].page # "list"
  BY <1>5, <1>8, OneElement
<1>10. WorkerInv(w)'
  BY <1>1, <1>3, <1>4, <1>7, <1>8, <1>9, FileSent DEF Busy
<1>11. TypeInv'
  BY <1>1, <1>3, <1>4 DEF TypeInv
<1> QED BY <1>3, <1>4, <1>10, <1>11, QuietKept DEF Good

\* A file can be single in held and there only if it was never gone.
LEMMA SeenThere ==
  ASSUME NEW S, IsFiniteSet(S), Cardinality(S) = 1, \E c \in S : c # Absent
  PROVE  Absent \notin S
<1>1. PICK x : S = {x}
  BY FS_Singleton
<1> QED BY <1>1

LEMMA SendFileStep ==
  ASSUME ServiceInv, Remember, NEW w \in Workers, SendFile(w)
  PROVE  Good(w)
<1>1. TypeInv /\ WorkerInv(w)
  BY DEF ServiceInv, WorkersInv
<1>2. PICK r, header : r = job[w].request /\ header = message(200, "file", Empty, job[w].size)
  OBVIOUS
<1>3. pc[w] = "sendfile" /\ UNCHANGED <<roots, entry, data, table, idle, terminated, taken, saved>>
  BY DEF SendFile, disk, database
<1>4. /\ header.page = "file" /\ header.body = Empty /\ r.kind \in {"get", "head", "download"}
      /\ IsFiniteSet(held[w]) /\ \E c \in held[w] : c # Absent
      /\ At(r) \in held[w]
  <2>1. r.kind \in {"get", "head", "download"}
    BY <1>1, <1>2, <1>3 DEF WorkerInv, KindInv, OneFile
  <2>2. At(r) \in Contained(w)
    BY <1>2, <1>3, <2>1 DEF Contained, Busy, HasFile
  <2> QED BY <1>1, <1>2, <1>3, <2>1, <2>2 DEF WorkerInv, HeldInv, OneFile, message
<1>5. CASE At(r) = Absent
  <2>1. PICK page : page = ErrorBody(404)
    OBVIOUS
  <2>2. replies' = [replies EXCEPT ![w] = <<header, page>>] /\ Goto(w, "return") /\ job' = job
    BY <1>2, <1>5, <2>1 DEF SendFile
  <2>3. /\ DOMAIN pc' = Workers /\ DOMAIN replies' = Workers /\ pc'[w] = "return"
        /\ replies'[w] = <<header, page>> /\ Alone(w)
    BY <1>1, <2>2 DEF Goto, TypeInv, Alone
  <2>4. page.page = "error"
    BY <2>1 DEF ErrorBody, message
  <2>5. \A i \in DOMAIN replies'[w] : replies'[w][i].page # "list"
    BY <1>4, <2>3, <2>4
  <2>6. replies'[w][1] = header
    BY <2>3
  <2>7. Cardinality(held[w]) # 1
    BY <1>4, <1>5, SeenThere
  <2>8. WorkerInv(w)'
    <3>1. job'[w] = job[w] /\ Busy(w)
      BY <1>3, <2>2 DEF Busy
    <3>2. header.body \in held[w] \cup {Empty} /\ Absent \in held[w]
      BY <1>4, <1>5
    <3>3. pc[w] \notin {"create", "remove"}
      BY <1>3
    <3> QED BY <1>1, <2>3, <2>5, <2>6, <2>7, <3>1, <3>2, <3>3, FileSent
  <2>9. TypeInv'
    BY <1>1, <1>3, <2>2, <2>3 DEF TypeInv
  <2> QED BY <1>3, <2>2, <2>3, <2>8, <2>9, QuietKept DEF Good
<1>6. CASE At(r) # Absent
  <2>1. PICK d : d = InodeOf(r)
    OBVIOUS
  <2>2. /\ replies' = [replies EXCEPT ![w] = <<header>>] /\ Goto(w, "body")
        /\ job' = [job EXCEPT ![w].fd = d]
    BY <1>2, <1>6, <2>1 DEF SendFile
  <2>3. d \in 0..Top /\ (r.file # Itself => d # 0)
    <3>1. CASE r.file = Itself
      BY <2>1, <3>1, NumberFacts DEF InodeOf
    <3>2. CASE r.file # Itself
      <4>1. <<r.user, r.file>> \in Paths
        BY <1>1, <1>2, <1>4, <3>2, RequestFacts DEF TypeInv, Job
      <4>2. d # 0
        BY <1>6, <2>1, <3>2 DEF At
      <4> QED BY <1>1, <2>1, <3>2, <4>1, <4>2 DEF TypeInv, InodeOf
    <3> QED BY <3>1, <3>2
  <2>4. /\ job' \in [Workers -> Job] /\ \A v \in Workers \ {w} : job'[v] = job[v]
        /\ job'[w].fd = d /\ job'[w].request = job[w].request /\ job'[w].size = job[w].size
        /\ job'[w].entries = job[w].entries /\ job'[w].borrowed = job[w].borrowed
    BY <1>1, <2>2, <2>3, SetFd
  <2>5. /\ DOMAIN pc' = Workers /\ DOMAIN replies' = Workers /\ pc'[w] = "body"
        /\ replies'[w] = <<header>>
        /\ \A v \in Workers \ {w} : pc'[v] = pc[v] /\ replies'[v] = replies[v]
    BY <1>1, <2>2 DEF Goto, TypeInv
  <2>6. KindInv(w)'
    BY <1>2, <1>4, <2>4, <2>5 DEF KindInv
  <2>7. IsFiniteSet(held'[w]) /\ Contained(w)' \subseteq held'[w] /\ held[w] \subseteq held'[w]
    BY <1>3, <1>4, <2>5, HeldKept
  <2>8. HeldInv(w)'
    BY <1>1, <1>2, <1>3, <1>4, <2>3, <2>4, <2>5, <2>7 DEF WorkerInv, HeldInv
  <2>9. ReplyInv(w)'
    BY <1>2, <2>4, <2>5 DEF ReplyInv
  <2>10. Listing(w)' \subseteq seen'[w] /\ (Busy(w)' => always'[w] \subseteq Listing(w)')
    BY <1>3, <2>5, SeenKept
  <2>11. ListInv(w)'
    BY <1>1, <1>3, <2>4, <2>5, <2>10 DEF WorkerInv, ListInv
  <2>12. WorkerInv(w)'
    BY <2>5, <2>6, <2>8, <2>9, <2>11 DEF WorkerInv, FileAnswer, PageAnswer, Answered
  <2>13. Alone(w)
    BY <2>4, <2>5 DEF Alone
  <2>14. TypeInv'
    BY <1>1, <1>3, <2>4, <2>5 DEF TypeInv
  <2> QED BY <1>3, <2>4, <2>5, <2>12, <2>13, <2>14, QuietKept DEF Good
<1> QED BY <1>5, <1>6

LEMMA SendBodyStep ==
  ASSUME ServiceInv, Remember, NEW w \in Workers, SendBody(w)
  PROVE  Good(w)
<1>1. TypeInv /\ WorkerInv(w)
  BY DEF ServiceInv, WorkersInv
<1>2. PICK size, rest, body, header, r :
        /\ size = job[w].size /\ rest = Remaining(w)
        /\ body = (IF rest = 0 THEN Empty ELSE data[job[w].fd])
        /\ header = message(200, "file", Empty, size)
        /\ r = [header EXCEPT !.sent = rest, !.body = body]
  OBVIOUS
<1>3. /\ pc[w] = "body" /\ Goto(w, "return")
      /\ UNCHANGED <<roots, entry, data, table, idle, job, terminated, taken, saved>>
      /\ replies' = [replies EXCEPT ![w] = <<[Head(replies[w]) EXCEPT !.sent = rest, !.body = body]>>]
  BY <1>2 DEF SendBody, disk, database
<1>4. replies[w] = <<header>>
  BY <1>1, <1>2, <1>3 DEF WorkerInv, ReplyInv
<1>5. Head(replies[w]) = header
  BY <1>4
<1>6. /\ DOMAIN pc' = Workers /\ DOMAIN replies' = Workers /\ pc'[w] = "return"
      /\ replies'[w] = <<r>> /\ Alone(w)
  BY <1>1, <1>2, <1>3, <1>5 DEF Goto, TypeInv, Alone
<1>7. /\ r.page = "file" /\ r.body = body /\ r.sent = rest
      /\ r.told = IF size # 0 THEN size ELSE Size(Empty)
  BY <1>2 DEF message
<1>8. Size(Empty) = 0 /\ size \in -1..2
  <2>1. Size(Empty) = 0
    BY FileServiceAssumption, ContentsAssumption DEF Size
  <2>2. job[w] \in Job
    BY <1>1 DEF TypeInv
  <2> QED BY <1>2, <2>1, <2>2 DEF Job
<1>9. /\ IsFiniteSet(held[w]) /\ \E c \in held[w] : c # Absent
      /\ job[w].request.file # Itself => job[w].fd # 0 /\ (size < 0 => Absent \in held[w])
      /\ job[w].request.kind \in {"get", "head", "download"}
  BY <1>1, <1>2, <1>3 DEF WorkerInv, HeldInv, KindInv, OneFile
<1>10. job[w].request.file # Itself => body \in held[w] \cup {Empty}
  <2> SUFFICES ASSUME job[w].request.file # Itself PROVE body \in held[w] \cup {Empty}
    OBVIOUS
  <2>1. data[job[w].fd] \in Contained(w)
    BY <1>3, <1>9 DEF Contained, Busy, HasFile
  <2> QED BY <1>1, <1>2, <2>1 DEF WorkerInv, HeldInv
<1>11. job[w].request.file # Itself /\ Cardinality(held[w]) = 1 => r.told = r.sent
  <2> SUFFICES ASSUME job[w].request.file # Itself, Cardinality(held[w]) = 1 PROVE r.told = r.sent
    OBVIOUS
  <2>1. ~(size < 0)
    BY <1>9, SeenThere
  <2>2. rest = size
    BY <1>2, <2>1 DEF Remaining
  <2> QED BY <1>7, <1>8, <2>2
<1>12. /\ Len(replies'[w]) = 1 /\ replies'[w][1] = r
       /\ \A i \in DOMAIN replies'[w] : replies'[w][i].page # "list"
  BY <1>6, <1>7, OneElement
<1>13. WorkerInv(w)'
  <2>1. Busy(w) /\ pc[w] \notin {"create", "remove"}
    BY <1>3 DEF Busy
  <2>2. job[w].request.file # Itself => r.body \in held[w] \cup {Empty}
    BY <1>7, <1>10
  <2>3. Len(replies'[w]) > 1 => Absent \in held[w]
    BY <1>12
  <2>4. job'[w] = job[w]
    BY <1>3
  <2> QED BY <1>1, <1>6, <1>11, <1>12, <2>1, <2>2, <2>3, <2>4, FileSent
<1>14. TypeInv'
  BY <1>1, <1>3, <1>6 DEF TypeInv
<1> QED BY <1>3, <1>6, <1>13, <1>14, QuietKept DEF Good

(***************************************************************************)
(* Changing files.                                                          *)
(***************************************************************************)
LEMMA RemoveStep ==
  ASSUME ServiceInv, Remember, NEW w \in Workers, Remove(w)
  PROVE  Good(w)
<1>1. TypeInv /\ WorkerInv(w)
  BY DEF ServiceInv, WorkersInv
<1>2. /\ pc[w] = "remove" /\ Continue(w, "list")
      /\ entry' = [entry EXCEPT ![<<job[w].request.user, job[w].request.file>>] = 0]
      /\ UNCHANGED <<roots, data, table, idle, job, terminated, taken, saved>>
  BY DEF Remove, database
<1>3. /\ DOMAIN pc' = Workers /\ DOMAIN replies' = Workers /\ pc'[w] = "list" /\ Alone(w)
  BY <1>1, <1>2 DEF Continue, Goto, TypeInv, Alone
<1>4. KindInv(w)'
  BY <1>3 DEF KindInv, OneFile
<1>5. WorkerInv(w)'
  BY <1>1, <1>2, <1>4, GoesOn DEF Busy, OneFile
<1>6. entry' \in [Paths -> 0..Top]
  <2>1. entry \in [Paths -> 0..Top] /\ 0 \in 0..Top
    BY <1>1, NumberFacts DEF TypeInv
  <2> QED BY <1>2, <2>1
<1>7. TypeInv'
  BY <1>1, <1>2, <1>3, <1>6 DEF TypeInv
<1> QED BY <1>2, <1>3, <1>5, <1>7, QuietKept DEF Good

\* The directory of a user goes only if it is empty, and the user is then one
\* that dropped it.
LEMMA RemoveDirectoryStep ==
  ASSUME ServiceInv, Remember, NEW w \in Workers, RemoveDirectory(w)
  PROVE  Good(w)
<1>1. TypeInv /\ PoolInv /\ AccountInv /\ WorkerInv(w)
  BY DEF ServiceInv, WorkersInv
<1>2. PICK r : SendHtmlResponse(w, r) /\ (r = message(200, "parent", Page, 0) \/ r = message(500, "parent", Page, 0))
  BY DEF RemoveDirectory
<1>3. /\ pc[w] = "remove" /\ roots' \subseteq roots
      /\ UNCHANGED <<entry, data, table, idle, job, terminated, taken, saved>>
  BY DEF RemoveDirectory, database
<1>4. r.page \notin {"file", "list"}
  BY <1>2 DEF message
<1>5. WorkerInv(w)' /\ pc'[w] = "return"
  BY <1>1, <1>2, <1>3, <1>4, PlainAnswer DEF Busy
<1>6. Alone(w) /\ DOMAIN pc' = Workers /\ DOMAIN replies' = Workers
  BY <1>1, <1>2, <1>3 DEF SendHtmlResponse, Goto, Alone, TypeInv
<1>7. TypeInv'
  BY <1>1, <1>3, <1>6 DEF TypeInv
<1>8. AccountInv' /\ PoolInv'
  BY <1>1, <1>3, <1>5, <1>6, AccountKept, PoolKept
<1> QED BY <1>5, <1>6, <1>7, <1>8 DEF Good

\* An upload opens its file, which is then empty, or cannot.
LEMMA CreateStep ==
  ASSUME ServiceInv, Remember, NEW w \in Workers, Create(w)
  PROVE  Good(w)
<1>1. TypeInv /\ WorkerInv(w)
  BY DEF ServiceInv, WorkersInv
<1>2. PICK r, old, inode :
        /\ r = job[w].request /\ old = entry[r.user, r.file]
        /\ inode = (IF old = 0 THEN Cardinality(Paths) + job[w].ticket ELSE old)
  OBVIOUS
<1>3. pc[w] = "create" /\ UNCHANGED <<roots, table, idle, terminated, taken, saved>>
  BY DEF Create, database
<1>4. CASE SendHtmlResponse(w, ErrorBody(500)) /\ UNCHANGED <<entry, data, job>>
  <2>1. ErrorBody(500).page \notin {"file", "list"}
    BY DEF ErrorBody, message
  <2>2. WorkerInv(w)' /\ pc'[w] = "return"
    BY <1>1, <1>3, <1>4, <2>1, PlainAnswer DEF Busy
  <2>3. Alone(w) /\ DOMAIN pc' = Workers /\ DOMAIN replies' = Workers
    BY <1>1, <1>4 DEF SendHtmlResponse, Goto, Alone, TypeInv
  <2>4. TypeInv'
    BY <1>1, <1>3, <1>4, <2>3 DEF TypeInv
  <2> QED BY <1>3, <1>4, <2>2, <2>3, <2>4, QuietKept DEF Good
<1>5. CASE /\ entry' = [entry EXCEPT ![<<r.user, r.file>>] = inode]
           /\ data' = [data EXCEPT ![inode] = Empty]
           /\ job' = [job EXCEPT ![w].fd = inode]
           /\ Continue(w, "write")
  <2>1. r.kind = "upload" /\ r \in Requests /\ job[w] \in Job
    BY <1>1, <1>2, <1>3 DEF WorkerInv, KindInv, TypeInv, Job
  <2>2. inode \in 0..Top
    <3>1. <<r.user, r.file>> \in Paths
      BY <2>1, RequestFacts
    <3>2. old \in 0..Top
      BY <1>1, <1>2, <3>1 DEF TypeInv
    <3>3. job[w].ticket \in 0..MaxRequests
      BY <2>1 DEF Job
    <3>4. Cardinality(Paths) \in Nat /\ MaxRequests \in Nat
      BY NumberFacts, FileServiceAssumption
    <3>5. Cardinality(Paths) + job[w].ticket \in 0..Top
      BY <3>3, <3>4 DEF Top
    <3> QED BY <1>2, <3>2, <3>5
  <2>3. /\ job' \in [Workers -> Job] /\ \A v \in Workers \ {w} : job'[v] = job[v]
        /\ job'[w].request = job[w].request
        /\ job'[w].entries = job[w].entries /\ job'[w].borrowed = job[w].borrowed
    BY <1>1, <1>5, <2>2, SetFd
  <2>4. /\ DOMAIN pc' = Workers /\ DOMAIN replies' = Workers /\ pc'[w] = "write"
        /\ \A v \in Workers \ {w} : pc'[v] = pc[v] /\ replies'[v] = replies[v]
    BY <1>1, <1>5 DEF Continue, Goto, TypeInv
  <2>5. KindInv(w)'
    BY <1>2, <2>1, <2>3, <2>4 DEF KindInv, OneFile
  <2>6. WorkerInv(w)'
    BY <1>1, <1>3, <1>5, <2>3, <2>5, GoesOn DEF Busy, OneFile
  <2>7. Alone(w)
    BY <2>3, <2>4 DEF Alone
  <2>8. entry' \in [Paths -> 0..Top] /\ data' \in [Inodes -> Contents \cup {Empty}]
    BY <1>1, <1>5, <2>2 DEF TypeInv
  <2>9. TypeInv'
    BY <1>1, <1>3, <2>3, <2>4, <2>8 DEF TypeInv
  <2> QED BY <1>3, <2>3, <2>4, <2>6, <2>7, <2>9, QuietKept DEF Good
<1> QED BY <1>2, <1>4, <1>5 DEF Create

LEMMA UploadTypes ==
  ASSUME TypeInv, NEW w \in Workers, job[w].request.kind = "upload", NEW i
  PROVE  [data EXCEPT ![i] = job[w].request.content] \in [Inodes -> Contents \cup {Empty}]
<1>1. job[w].request.content \in Contents
  BY RequestFacts DEF TypeInv, Job
<1> QED BY <1>1 DEF TypeInv

LEMMA WriteStep ==
  ASSUME ServiceInv, Remember, NEW w \in Workers, Write(w)
  PROVE  Good(w)
<1>1. TypeInv /\ WorkerInv(w)
  BY DEF ServiceInv, WorkersInv
<1>2. pc[w] = "write" /\ UNCHANGED <<roots, entry, table, idle, terminated, taken, saved>>
  BY DEF Write, database
<1>3. job[w].request.kind = "upload"
  BY <1>1, <1>2 DEF WorkerInv, KindInv
<1>4. CASE /\ data' = IF job[w].request.content \in Large
                      THEN [data EXCEPT ![job[w].fd] = job[w].request.content] ELSE data
           /\ Continue(w, "list") /\ UNCHANGED job
  <2>1. data' \in [Inodes -> Contents \cup {Empty}]
    BY <1>1, <1>3, <1>4, UploadTypes DEF TypeInv
  <2>2. /\ DOMAIN pc' = Workers /\ DOMAIN replies' = Workers /\ pc'[w] = "list" /\ Alone(w)
    BY <1>1, <1>4 DEF Continue, Goto, TypeInv, Alone
  <2>3. KindInv(w)'
    BY <2>2 DEF KindInv, OneFile
  <2>4. WorkerInv(w)'
    BY <1>1, <1>2, <1>4, <2>3, GoesOn DEF Busy, OneFile
  <2>5. TypeInv'
    BY <1>1, <1>2, <1>4, <2>1, <2>2 DEF TypeInv
  <2> QED BY <1>2, <1>4, <2>2, <2>4, <2>5, QuietKept DEF Good
<1>5. CASE SendHtmlResponse(w, ErrorBody(500)) /\ job' = [job EXCEPT ![w].fd = 0] /\ UNCHANGED data
  <2>1. ErrorBody(500).page \notin {"file", "list"}
    BY DEF ErrorBody, message
  <2>2. WorkerInv(w)' /\ pc'[w] = "return"
    BY <1>1, <1>2, <1>5, <2>1, PlainAnswer DEF Busy
  <2>3. /\ job' \in [Workers -> Job] /\ \A v \in Workers \ {w} : job'[v] = job[v]
        /\ job'[w].borrowed = job[w].borrowed
    <3>1. 0 \in 0..Top
      BY NumberFacts
    <3> QED BY <1>1, <1>5, <3>1, SetFd
  <2>4. Alone(w) /\ DOMAIN pc' = Workers /\ DOMAIN replies' = Workers
    BY <1>1, <1>5, <2>3 DEF SendHtmlResponse, Goto, Alone, TypeInv
  <2>5. TypeInv'
    BY <1>1, <1>2, <1>5, <2>3, <2>4 DEF TypeInv
  <2> QED BY <1>2, <1>5, <2>2, <2>3, <2>4, <2>5, QuietKept DEF Good
<1> QED BY <1>4, <1>5 DEF Write

(***************************************************************************)
(* LoadUserContent.                                                         *)
(***************************************************************************)

\* The names are read at once, and each is then looked at.
LEMMA ListStep ==
  ASSUME ServiceInv, Remember, NEW w \in Workers, List(w)
  PROVE  Good(w)
<1>1. TypeInv /\ WorkerInv(w)
  BY DEF ServiceInv, WorkersInv
<1>2. PICK names : names = Names(job[w].request)
  OBVIOUS
<1>3. /\ pc[w] = "list" /\ Continue(w, "stat") /\ job' = [job EXCEPT ![w].left = names]
      /\ UNCHANGED <<roots, entry, data, table, idle, terminated, taken, saved>>
  BY <1>2 DEF List, disk, database
<1>4. names \in SUBSET Files /\ job[w].entries \in SUBSET Files
  BY <1>1, <1>2 DEF Names, TypeInv, Job
<1>5. /\ job' \in [Workers -> Job] /\ \A v \in Workers \ {w} : job'[v] = job[v]
      /\ job'[w].left = names /\ job'[w].entries = job[w].entries
      /\ job'[w].borrowed = job[w].borrowed /\ job'[w].request = job[w].request
  BY <1>1, <1>3, <1>4, SetLeft
<1>6. /\ DOMAIN pc' = Workers /\ replies' = replies /\ pc'[w] = "stat"
      /\ \A v \in Workers \ {w} : pc'[v] = pc[v]
  BY <1>1, <1>3 DEF Continue, Goto, TypeInv
<1>7. job[w].entries = {} /\ always[w] \subseteq names
  BY <1>1, <1>2, <1>3 DEF WorkerInv, ListInv, Listing, Busy
<1>8. /\ Listing(w)' \subseteq seen'[w] /\ (Busy(w)' => always'[w] \subseteq Listing(w)')
      /\ always'[w] \subseteq always[w]
  BY <1>3, <1>6, SeenKept
<1>8a. Names(job[w].request)' = names
  BY <1>2, <1>3, <1>5 DEF Names
<1>9. ListInv(w)'
  BY <1>5, <1>6, <1>7, <1>8, <1>8a DEF ListInv
<1>10. IsFiniteSet(held'[w]) /\ Contained(w)' \subseteq held'[w]
  BY <1>1, <1>3, <1>6, HeldKept DEF WorkerInv, HeldInv
<1>11. HeldInv(w)' /\ KindInv(w)'
  BY <1>6, <1>10 DEF HeldInv, KindInv, OneFile
<1>12. ReplyInv(w)'
  BY <1>1, <1>3, <1>6 DEF WorkerInv, ReplyInv
<1>13. WorkerInv(w)'
  BY <1>6, <1>9, <1>11, <1>12 DEF WorkerInv, FileAnswer, PageAnswer, Answered
<1>14. Alone(w)
  BY <1>5, <1>6 DEF Alone
<1>15. TypeInv'
  BY <1>1, <1>3, <1>5, <1>6 DEF TypeInv
<1> QED BY <1>3, <1>5, <1>6, <1>13, <1>14, <1>15, QuietKept DEF Good

\* A name that has gone in the meantime, and that ends the listing, has thinned
\* the directory.
LEMMA StatStep ==
  ASSUME ServiceInv, Remember, NEW w \in Workers, Stat(w)
  PROVE  Good(w)
<1>1. TypeInv /\ WorkerInv(w)
  BY DEF ServiceInv, WorkersInv
<1>2. PICK f \in job[w].left :
        job' = [job EXCEPT ![w].left = LeftAfter(w, f), ![w].entries = WithEntry(w, f)]
  BY DEF Stat
<1>3. PICK x, y : x = LeftAfter(w, f) /\ y = WithEntry(w, f)
  OBVIOUS
<1>4. /\ pc[w] = "stat" /\ job' = [job EXCEPT ![w].left = x, ![w].entries = y]
      /\ UNCHANGED <<roots, entry, data, table, idle, pc, replies, terminated, taken, saved>>
  BY <1>2, <1>3 DEF Stat, disk, database
<1>5. job[w].left \in SUBSET Files /\ job[w].entries \in SUBSET Files
  BY <1>1 DEF TypeInv, Job
<1>6. /\ y = (IF f \in Names(job[w].request) THEN job[w].entries \cup {f} ELSE job[w].entries)
      /\ x = (IF f \in Names(job[w].request) THEN job[w].left \ {f} ELSE {})
  BY <1>3 DEF WithEntry, LeftAfter
<1>7. x \in SUBSET Files /\ y \in SUBSET Files
  BY <1>3, <1>5, <1>6
<1>8. /\ job' \in [Workers -> Job] /\ \A v \in Workers \ {w} : job'[v] = job[v]
      /\ job'[w].left = x /\ job'[w].entries = y /\ job'[w].borrowed = job[w].borrowed
      /\ job'[w].request = job[w].request
  BY <1>1, <1>4, <1>7, SetList
<1>9. /\ Listing(w)' \subseteq seen'[w] /\ (Busy(w)' => always'[w] \subseteq Listing(w)')
      /\ seen[w] \subseteq seen'[w] /\ always'[w] \subseteq always[w]
  BY <1>4, SeenKept
<1>10. /\ Names(job[w].request) \subseteq seen[w] /\ always[w] \subseteq Names(job[w].request)
       /\ job[w].entries \subseteq seen[w]
       /\ w \notin thinned => /\ always[w] \subseteq job[w].entries \cup job[w].left
                             /\ job[w].left \subseteq Names(job[w].request)
  BY <1>1, <1>4 DEF WorkerInv, ListInv, Listing, Busy
<1>11. y \subseteq seen'[w]
  BY <1>6, <1>9, <1>10
<1>11a. Names(job[w].request)' = Names(job[w].request)
  BY <1>4, <1>8 DEF Names
<1>11b. w \notin thinned' => always'[w] \subseteq y \cup x /\ x \subseteq Names(job[w].request)'
  <2> SUFFICES ASSUME w \notin thinned'
               PROVE  always'[w] \subseteq y \cup x /\ x \subseteq Names(job[w].request)'
    OBVIOUS
  <2>1. w \notin thinned
    BY <1>4, ThinnedKept
  <2>2. f \in Names(job[w].request)
    BY <1>2, <1>10, <2>1
  <2> QED BY <1>6, <1>9, <1>10, <1>11a, <2>1, <2>2
<1>12. ListInv(w)'
  BY <1>4, <1>8, <1>9, <1>11, <1>11b DEF ListInv
<1>13. IsFiniteSet(held'[w]) /\ Contained(w)' \subseteq held'[w]
  BY <1>1, <1>4, HeldKept DEF WorkerInv, HeldInv
<1>14. HeldInv(w)' /\ KindInv(w)'
  BY <1>4, <1>13 DEF HeldInv, KindInv, OneFile
<1>15. ReplyInv(w)'
  BY <1>1, <1>4 DEF WorkerInv, ReplyInv
<1>16. WorkerInv(w)'
  BY <1>4, <1>12, <1>14, <1>15 DEF WorkerInv, FileAnswer, PageAnswer, Answered
<1>17. Alone(w)
  BY <1>4, <1>8 DEF Alone
<1>18. TypeInv'
  BY <1>1, <1>4, <1>8 DEF TypeInv
<1> QED BY <1>4, <1>8, <1>16, <1>17, <1>18, QuietKept DEF Good

LEMMA ListedStep ==
  ASSUME ServiceInv, Remember, NEW w \in Workers, Listed(w)
  PROVE  Good(w)
<1>1. TypeInv /\ WorkerInv(w)
  BY DEF ServiceInv, WorkersInv
<1>2. PICK page : page = ContentListPage
  OBVIOUS
<1>3. /\ pc[w] = "stat" /\ job[w].left = {} /\ SendHtmlResponse(w, page)
      /\ UNCHANGED <<roots, entry, data, table, idle, job, terminated, taken, saved>>
  BY <1>2 DEF Listed, disk, database
<1>4. /\ DOMAIN pc' = Workers /\ DOMAIN replies' = Workers /\ pc'[w] = "return"
      /\ replies'[w] = Append(replies[w], page) /\ Alone(w)
  BY <1>1, <1>3 DEF SendHtmlResponse, Goto, TypeInv, Alone
<1>5. replies'[w] = <<page>>
  BY <1>1, <1>3, <1>4, OneElement DEF WorkerInv, ReplyInv
<1>6. page.page = "list"
  BY <1>2 DEF ContentListPage, message
<1>7. ~Answered(w, "file")'
  BY <1>5, <1>6, OneElement DEF Answered
<1>8. seen'[w] = seen[w] /\ always'[w] = always[w] /\ Listing(w)' = {} /\ ~Busy(w)'
  BY <1>3, <1>4, SeenKept DEF Listing, Busy
<1>9. /\ job[w].entries \subseteq seen[w]
      /\ w \notin thinned => always[w] \subseteq job[w].entries
  BY <1>1, <1>3 DEF WorkerInv, ListInv
<1>9a. w \notin thinned' => w \notin thinned
  BY <1>4, ThinnedKept
<1>10. PageAnswer(w)'
  BY <1>3, <1>8, <1>9, <1>9a DEF PageAnswer
<1>11. ListInv(w)'
  BY <1>4, <1>8 DEF ListInv
<1>12. IsFiniteSet(held'[w]) /\ Contained(w)' \subseteq held'[w]
  BY <1>1, <1>3, <1>4, HeldKept DEF WorkerInv, HeldInv
<1>13. WorkerInv(w)'
  BY <1>4, <1>7, <1>10, <1>11, <1>12 DEF WorkerInv, KindInv, HeldInv, ReplyInv, FileAnswer, OneFile
<1>14. TypeInv'
  BY <1>1, <1>3, <1>4 DEF TypeInv
<1> QED BY <1>3, <1>4, <1>13, <1>14, QuietKept DEF Good

(***************************************************************************)
(* Accounts.                                                                *)
(***************************************************************************)
LEMMA FiniteBorrowers == IsFiniteSet(Borrowers) /\ Cardinality(Borrowers) \in Nat
<1>1. Borrowers \in SUBSET Workers
  BY DEF Borrowers
<1> QED BY <1>1, FS_Subset, FS_CardinalityType, FileServiceAssumption

LEMMA BorrowStep ==
  ASSUME ServiceInv, Remember, NEW w \in Workers, Borrow(w)
  PROVE  Good(w)
<1>1. TypeInv /\ PoolInv /\ AccountInv /\ WorkerInv(w)
  BY DEF ServiceInv, WorkersInv
<1>2. /\ pc[w] = "borrow" /\ idle > 0 /\ idle' = idle - 1 /\ Continue(w, "select")
      /\ job' = [job EXCEPT ![w].borrowed = TRUE]
      /\ UNCHANGED <<roots, entry, data, table, terminated, taken, saved>>
  BY DEF Borrow, disk
<1>3. /\ job' \in [Workers -> Job] /\ \A v \in Workers \ {w} : job'[v] = job[v]
      /\ job'[w].borrowed = TRUE /\ job'[w].request = job[w].request
      /\ job'[w].entries = job[w].entries
  BY <1>1, <1>2, SetBorrowed
<1>4. /\ DOMAIN pc' = Workers /\ DOMAIN replies' = Workers /\ pc'[w] = "select"
      /\ \A v \in Workers \ {w} : pc'[v] = pc[v] /\ replies'[v] = replies[v]
  BY <1>1, <1>2 DEF Continue, Goto, TypeInv
<1>5. job[w].request.kind \in {"login", "register"} /\ ~job[w].borrowed
  BY <1>1, <1>2 DEF WorkerInv, KindInv
<1>6. KindInv(w)'
  BY <1>3, <1>4, <1>5 DEF KindInv, OneFile
<1>7. WorkerInv(w)'
  BY <1>1, <1>2, <1>3, <1>6, GoesOn DEF Busy, OneFile
<1>8. Alone(w)
  BY <1>3, <1>4 DEF Alone
<1>9. PoolInv'
  <2>1. Borrowers' = Borrowers \cup {w} /\ w \notin Borrowers
    BY <1>3, <1>5 DEF Borrowers
  <2>2. Cardinality(Borrowers') = Cardinality(Borrowers) + 1
    BY <2>1, FiniteBorrowers, FS_AddElement
  <2>3. idle \in Nat /\ idle + Cardinality(Borrowers) = PoolSize
    BY <1>1 DEF TypeInv, PoolInv
  <2>4. idle - 1 + (Cardinality(Borrowers) + 1) = PoolSize
    BY <2>3, FiniteBorrowers
  <2> QED BY <1>2, <2>2, <2>4 DEF PoolInv
<1>10. TypeInv'
  <2>1. idle' \in Nat
    BY <1>1, <1>2 DEF TypeInv
  <2> QED BY <1>1, <1>2, <1>3, <1>4, <2>1 DEF TypeInv
<1> QED BY <1>1, <1>2, <1>4, <1>7, <1>8, <1>9, <1>10, AccountKept DEF Good

LEMMA SelectStep ==
  ASSUME ServiceInv, Remember, NEW w \in Workers, Select(w)
  PROVE  Good(w)
<1>1. TypeInv /\ WorkerInv(w)
  BY DEF ServiceInv, WorkersInv
<1>2. /\ pc[w] = "select"
      /\ UNCHANGED <<roots, entry, data, table, idle, job, terminated, taken, saved>>
      /\ SendHtmlResponse(w, ResultPage(200)) \/ Continue(w, "list") \/ Continue(w, "insert")
  BY DEF Select, disk, database
<1>3. job[w].request.kind \in {"login", "register"}
  BY <1>1, <1>2 DEF WorkerInv, KindInv
<1>4. WorkerInv(w)' /\ pc'[w] \in {"return", "list", "insert"}
  <2>1. CASE SendHtmlResponse(w, ResultPage(200))
    <3>1. ResultPage(200).page \notin {"file", "list"}
      BY DEF ResultPage, message
    <3> QED BY <1>1, <1>2, <2>1, <3>1, PlainAnswer DEF Busy
  <2>2. ASSUME NEW label \in {"list", "insert"}, Continue(w, label)
        PROVE  WorkerInv(w)' /\ pc'[w] \in {"return", "list", "insert"}
    <3>1. pc'[w] = label
      BY <1>1, <2>2 DEF Continue, Goto, TypeInv
    <3>2. KindInv(w)'
      BY <1>2, <1>3, <3>1 DEF KindInv, OneFile
    <3> QED BY <1>1, <1>2, <2>2, <3>1, <3>2, GoesOn DEF Busy, OneFile
  <2> QED BY <1>2, <2>1, <2>2
<1>5. Alone(w) /\ DOMAIN pc' = Workers /\ DOMAIN replies' = Workers
  BY <1>1, <1>2 DEF SendHtmlResponse, Continue, Goto, Alone, TypeInv
<1>6. TypeInv'
  BY <1>1, <1>2, <1>5 DEF TypeInv
<1> QED BY <1>2, <1>4, <1>5, <1>6, QuietKept DEF Good

\* The row comes before the directory.
LEMMA InsertStep ==
  ASSUME ServiceInv, Remember, NEW w \in Workers, Insert(w)
  PROVE  Good(w)
<1>1. TypeInv /\ PoolInv /\ AccountInv /\ WorkerInv(w)
  BY DEF ServiceInv, WorkersInv
<1>2. PICK u : u = job[w].request.user
  OBVIOUS
<1>3. pc[w] = "insert" /\ UNCHANGED <<roots, entry, data, idle, job, terminated, taken, saved>>
  BY DEF Insert, disk
<1>4. job[w].request.kind \in {"login", "register"} /\ u \in Users
  <2>1. job[w].request.kind \in {"login", "register"} /\ job[w].request \in Requests
    BY <1>1, <1>3 DEF WorkerInv, KindInv, TypeInv, Job
  <2> QED BY <1>2, <2>1, RequestFacts
<1>5. CASE SendHtmlResponse(w, ResultPage(500)) /\ UNCHANGED table
  <2>1. ResultPage(500).page \notin {"file", "list"}
    BY DEF ResultPage, message
  <2>2. WorkerInv(w)' /\ pc'[w] = "return"
    BY <1>1, <1>3, <1>5, <2>1, PlainAnswer DEF Busy
  <2>3. Alone(w) /\ DOMAIN pc' = Workers /\ DOMAIN replies' = Workers
    BY <1>1, <1>5, <1>3 DEF SendHtmlResponse, Goto, Alone, TypeInv
  <2>4. TypeInv'
    BY <1>1, <1>3, <1>5, <2>3 DEF TypeInv
  <2> QED BY <1>3, <1>5, <2>2, <2>3, <2>4, QuietKept DEF Good
<1>6. CASE Inserts(w) /\ table' = [table EXCEPT ![u] = @ + 1] /\ Continue(w, "mkdir")
  <2>1. /\ DOMAIN pc' = Workers /\ DOMAIN replies' = Workers /\ pc'[w] = "mkdir" /\ Alone(w)
        /\ \A v \in Workers \ {w} : pc'[v] = pc[v]
    BY <1>1, <1>3, <1>6 DEF Continue, Goto, TypeInv, Alone
  <2>2. KindInv(w)'
    BY <1>2, <1>3, <1>4, <2>1 DEF KindInv, OneFile
  <2>3. WorkerInv(w)'
    BY <1>1, <1>3, <1>6, <2>2, GoesOn DEF Busy, OneFile
  <2>4. /\ table \in [Users -> Nat] /\ saved \in [Users -> Nat]
        /\ table' \in [Users -> Nat] /\ table'[u] = table[u] + 1
        /\ \A x \in Users \ {u} : table'[x] = table[x]
    BY <1>1, <1>4, <1>6 DEF TypeInv
  <2>5. TypeInv'
    BY <1>1, <1>3, <2>1, <2>4 DEF TypeInv
  <2>5a. dropped \subseteq dropped'
    BY DEF Remember
  <2>6. ASSUME NEW x \in Users, table'[x] > 0, x \notin roots', x \notin dropped'
        PROVE  \E v \in Workers : pc'[v] = "mkdir" /\ job'[v].request.user = x
    <3>1. CASE x = u
      BY <1>2, <1>3, <2>1, <3>1
    <3>2. CASE x # u
      <4>1. PICK v \in Workers : pc[v] = "mkdir" /\ job[v].request.user = x
        BY <1>1, <1>3, <2>4, <2>5a, <2>6, <3>2 DEF AccountInv
      <4> QED BY <1>3, <2>1, <4>1
    <3> QED BY <3>1, <3>2
  <2>7. ASSUME NamesAreUnique
        PROVE  /\ \A x \in Users : table'[x] <= 1 /\ saved'[x] <= table'[x]
               /\ \A v \in Workers :
                    pc'[v] = "mkdir" => table'[job'[v].request.user] = 1 /\ saved'[job'[v].request.user] = 0
               /\ \A v, x \in Workers :
                    /\ pc'[v] = "mkdir" /\ pc'[x] = "mkdir"
                    /\ job'[v].request.user = job'[x].request.user
                    => v = x
    <3>1. table[u] = 0
      BY <1>2, <1>6, <2>7 DEF Inserts
    <3>2. /\ \A x \in Users : table[x] <= 1 /\ saved[x] <= table[x]
          /\ \A v \in Workers :
               pc[v] = "mkdir" => table[job[v].request.user] = 1 /\ saved[job[v].request.user] = 0
          /\ \A v, x \in Workers :
               /\ pc[v] = "mkdir" /\ pc[x] = "mkdir"
               /\ job[v].request.user = job[x].request.user
               => v = x
      BY <1>1, <2>7 DEF AccountInv
    <3>3. saved[u] = 0 /\ table'[u] = 1
      BY <1>4, <2>4, <3>1, <3>2
    <3>4. \A v \in Workers : pc[v] = "mkdir" => job[v].request.user # u
      BY <3>1, <3>2
    <3>5. \A v \in Workers : pc[v] = "mkdir" => job[v].request.user \in Users
      BY <1>1, RequestFacts DEF ServiceInv, WorkersInv, WorkerInv, KindInv, TypeInv, Job
    <3>6. \A x \in Users : table'[x] <= 1 /\ saved'[x] <= table'[x]
      BY <1>3, <2>4, <3>2, <3>3
    <3>7. \A v \in Workers :
            pc'[v] = "mkdir" => table'[job'[v].request.user] = 1 /\ saved'[job'[v].request.user] = 0
      BY <1>2, <1>3, <2>1, <2>4, <3>2, <3>3, <3>4, <3>5
    <3>8. \A v, x \in Workers :
            /\ pc'[v] = "mkdir" /\ pc'[x] = "mkdir"
            /\ job'[v].request.user = job'[x].request.user
            => v = x
      BY <1>2, <1>3, <2>1, <3>2, <3>4
    <3> QED BY <3>6, <3>7, <3>8
  <2>8. AccountInv'
    BY <2>6, <2>7 DEF AccountInv
  <2>9. PoolInv'
    BY <1>1, <1>3, <2>1, PoolKept
  <2> QED BY <2>1, <2>3, <2>5, <2>8, <2>9 DEF Good
<1> QED BY <1>2, <1>5, <1>6 DEF Insert

\* The directory comes, or create_directory ends the process.
LEMMA DirectoryMade ==
  ASSUME ServiceInv, Remember, NEW w \in Workers,
         pc[w] = "mkdir", SendHtmlResponse(w, ResultPage(200)), roots' = RootsWith(w),
         saved' = [saved EXCEPT ![job[w].request.user] = @ + 1],
         UNCHANGED <<entry, data, table, idle, job, terminated, taken>>
  PROVE  Good(w)
<1>1. TypeInv /\ PoolInv /\ AccountInv /\ WorkerInv(w)
  BY DEF ServiceInv, WorkersInv
<1>2. PICK u : u = job[w].request.user
  OBVIOUS
<1>3. /\ pc[w] = "mkdir" /\ SendHtmlResponse(w, ResultPage(200))
      /\ roots' = roots \cup {u} /\ saved' = [saved EXCEPT ![u] = @ + 1]
      /\ UNCHANGED <<entry, data, table, idle, job, terminated, taken>>
  BY <1>2 DEF RootsWith
<1>4. u \in Users
  <2>1. job[w].request.kind \in {"login", "register"} /\ job[w].request \in Requests
    BY <1>1, <1>3 DEF WorkerInv, KindInv, TypeInv, Job
  <2> QED BY <1>2, <2>1, RequestFacts
<1>5. ResultPage(200).page \notin {"file", "list"}
  BY DEF ResultPage, message
<1>6. WorkerInv(w)' /\ pc'[w] = "return"
  BY <1>1, <1>3, <1>5, PlainAnswer DEF Busy
<1>7. /\ Alone(w) /\ DOMAIN pc' = Workers /\ DOMAIN replies' = Workers
      /\ \A v \in Workers \ {w} : pc'[v] = pc[v]
  BY <1>1, <1>3 DEF SendHtmlResponse, Goto, Alone, TypeInv
<1>8. /\ saved \in [Users -> Nat] /\ table \in [Users -> Nat]
      /\ saved' \in [Users -> Nat] /\ saved'[u] = saved[u] + 1
      /\ \A x \in Users \ {u} : saved'[x] = saved[x]
  BY <1>1, <1>3, <1>4 DEF TypeInv
<1>9. TypeInv'
  BY <1>1, <1>3, <1>4, <1>7, <1>8 DEF TypeInv
<1>9a. dropped \subseteq dropped'
  BY DEF Remember
<1>10. ASSUME NEW x \in Users, table'[x] > 0, x \notin roots', x \notin dropped'
       PROVE  \E v \in Workers : pc'[v] = "mkdir" /\ job'[v].request.user = x
  <2>1. x # u /\ table[x] > 0 /\ x \notin roots /\ x \notin dropped
    BY <1>3, <1>9a, <1>10
  <2>2. PICK v \in Workers : pc[v] = "mkdir" /\ job[v].request.user = x
    BY <1>1, <2>1 DEF AccountInv
  <2> QED BY <1>2, <1>3, <1>7, <2>1, <2>2
<1>11. ASSUME NamesAreUnique
       PROVE  /\ \A x \in Users : table'[x] <= 1 /\ saved'[x] <= table'[x]
              /\ \A v \in Workers :
                   pc'[v] = "mkdir" => table'[job'[v].request.user] = 1 /\ saved'[job'[v].request.user] = 0
              /\ \A v, x \in Workers :
                   /\ pc'[v] = "mkdir" /\ pc'[x] = "mkdir"
                   /\ job'[v].request.user = job'[x].request.user
                   => v = x
  <2>1. /\ \A x \in Users : table[x] <= 1 /\ saved[x] <= table[x]
        /\ \A v \in Workers :
             pc[v] = "mkdir" => table[job[v].request.user] = 1 /\ saved[job[v].request.user] = 0
        /\ \A v, x \in Workers :
             /\ pc[v] = "mkdir" /\ pc[x] = "mkdir"
             /\ job[v].request.user = job[x].request.user
             => v = x
    BY <1>1, <1>11 DEF AccountInv
  <2>2. \A v \in Workers : pc[v] = "mkdir" => job[v].request.user \in Users
    BY <1>1, RequestFacts DEF ServiceInv, WorkersInv, WorkerInv, KindInv, TypeInv, Job
  <2>3. table[u] = 1 /\ saved[u] = 0 /\ saved'[u] = 1
    BY <1>2, <1>3, <1>8, <2>1
  <2>4. \A v \in Workers \ {w} : pc[v] = "mkdir" => job[v].request.user # u
    BY <1>2, <1>3, <2>1
  <2>5. \A v \in Workers : pc'[v] = "mkdir" => v # w /\ pc[v] = "mkdir"
    BY <1>6, <1>7
  <2>6. \A x \in Users : table'[x] <= 1 /\ saved'[x] <= table'[x]
    BY <1>3, <1>8, <2>1, <2>3
  <2>7. \A v \in Workers :
          pc'[v] = "mkdir" => table'[job'[v].request.user] = 1 /\ saved'[job'[v].request.user] = 0
    BY <1>3, <1>8, <2>1, <2>2, <2>4, <2>5
  <2>8. \A v, x \in Workers :
          /\ pc'[v] = "mkdir" /\ pc'[x] = "mkdir"
          /\ job'[v].request.user = job'[x].request.user
          => v = x
    BY <1>3, <2>1, <2>5
  <2> QED BY <2>6, <2>7, <2>8
<1>12. AccountInv'
  BY <1>10, <1>11 DEF AccountInv
<1>13. PoolInv'
  BY <1>1, <1>3, <1>7, PoolKept
<1> QED BY <1>6, <1>7, <1>9, <1>12, <1>13 DEF Good

LEMMA CreateDirectoryStep ==
  ASSUME ServiceInv, Remember, NEW w \in Workers, CreateDirectory(w)
  PROVE  Good(w)
<1>1. pc[w] = "mkdir" /\ UNCHANGED <<entry, data, table, idle, job, taken>>
  BY DEF CreateDirectory, database
<1>2. CASE /\ roots' = RootsWith(w) /\ saved' = [saved EXCEPT ![job[w].request.user] = @ + 1]
           /\ SendHtmlResponse(w, ResultPage(200)) /\ UNCHANGED terminated
  BY <1>1, <1>2, DirectoryMade
<1>3. CASE Throw(w) /\ UNCHANGED <<roots, saved>>
  <2>1. terminated' = w /\ UNCHANGED <<pc, replies>>
    BY <1>3 DEF Throw
  <2>2. WorkerInv(w)'
    BY <1>1, <2>1, OtherKept DEF ServiceInv, WorkersInv
  <2>3. Alone(w) /\ dropped \subseteq dropped'
    BY <1>1, <2>1 DEF Alone, Remember
  <2>4. TypeInv'
    BY <1>1, <1>3, <2>1 DEF ServiceInv, TypeInv
  <2>5. AccountInv'
    BY <1>1, <1>3, <2>1, <2>3 DEF ServiceInv, AccountInv
  <2>6. PoolInv'
    BY <1>1, <2>3, PoolKept DEF ServiceInv
  <2> QED BY <2>2, <2>3, <2>4, <2>5, <2>6 DEF Good
<1> QED BY <1>2, <1>3 DEF CreateDirectory

(***************************************************************************)
(* The beginning and the end of a request.                                  *)
(***************************************************************************)
LEMMA FirstCallFacts ==
  ASSUME NEW r \in Requests
  PROVE  /\ FirstCall(r) \in {"exists", "resolve", "list", "borrow", "refuse"}
         /\ FirstCall(r) = "exists" => r.kind \in {"get", "head"}
         /\ FirstCall(r) = "resolve" => r.kind \in {"download", "delete", "upload"}
         /\ FirstCall(r) = "borrow" => r.kind \in {"login", "register"}
<1>1. r.kind \in {"get", "head", "download", "delete", "upload", "list", "login", "register",
                  "none of these"}
  <2>1. CASE r \in [kind : {"get", "head", "download", "delete"}, user : Users,
                    file : Files \cup {Itself}]
    <3>1. r.kind \in {"get", "head", "download", "delete"}
      BY <2>1
    <3> QED BY <3>1
  <2>2. CASE r \in [kind : {"upload"}, user : Users, file : Files, content : Contents]
    BY <2>2
  <2>3. CASE r \in [kind : {"list", "login", "register"}, user : Users]
    <3>1. r.kind \in {"list", "login", "register"}
      BY <2>3
    <3> QED BY <3>1
  <2>4. CASE r = [kind |-> "none of these"]
    BY <2>4
  <2> QED BY <2>1, <2>2, <2>3, <2>4 DEF Requests
<1>2. r.kind \in {"get", "head"} => FirstCall(r) = "exists"
  BY DEF FirstCall
<1>3. r.kind \in {"download", "delete", "upload"} => FirstCall(r) = "resolve"
  BY DEF FirstCall
<1>4. r.kind = "list" => FirstCall(r) = "list"
  BY DEF FirstCall
<1>5. r.kind \in {"login", "register"} => FirstCall(r) = "borrow"
  BY DEF FirstCall
<1>6. r.kind = "none of these" => FirstCall(r) = "refuse"
  BY DEF FirstCall
<1> QED BY <1>1, <1>2, <1>3, <1>4, <1>5, <1>6

LEMMA NoJobFacts ==
  /\ NoJob \in Job /\ ~NoJob.borrowed /\ NoJob.entries = {}
  /\ \A r \in Requests, t \in 0..MaxRequests :
       LET j == [NoJob EXCEPT !.request = r, !.ticket = t] IN
       j \in Job /\ ~j.borrowed /\ j.entries = {} /\ j.request = r
<1>1. 0 \in 0..Top /\ 0 \in 0..MaxRequests
  BY NumberFacts, FileServiceAssumption
<1>2. [kind |-> "none of these"] \in Requests
  BY DEF Requests
<1>3. NoJob \in Job
  <2>1. PICK r0 \in Requests : r0 = [kind |-> "none of these"]
    BY <1>2
  <2>2. NoJob = [request |-> r0, ticket |-> 0, fd |-> 0, size |-> 0, left |-> {}, entries |-> {},
                 borrowed |-> FALSE]
    BY <2>1 DEF NoJob
  <2>3. 0 \in -1..2 /\ {} \in SUBSET Files
    OBVIOUS
  <2> QED BY <1>1, <2>2, <2>3 DEF Job
<1>4. ~NoJob.borrowed /\ NoJob.entries = {}
  BY DEF NoJob
<1>5. ASSUME NEW r \in Requests, NEW t \in 0..MaxRequests,
             NEW j, j = [NoJob EXCEPT !.request = r, !.ticket = t]
      PROVE  j \in Job /\ ~j.borrowed /\ j.entries = {} /\ j.request = r
  <2>1. j = [request |-> r, ticket |-> t, fd |-> 0, size |-> 0, left |-> {}, entries |-> {},
             borrowed |-> FALSE]
    BY <1>5 DEF NoJob
  <2> QED BY <1>1, <2>1 DEF Job
<1> QED BY <1>3, <1>4, <1>5

LEMMA TakeStep ==
  ASSUME ServiceInv, Remember, NEW w \in Workers, Take(w)
  PROVE  Good(w)
<1>1. TypeInv /\ WorkerInv(w)
  BY DEF ServiceInv, WorkersInv
<1>2. PICK r \in Requests : /\ job' = [job EXCEPT ![w] = [NoJob EXCEPT !.request = r, !.ticket = taken + 1]]
                            /\ Continue(w, FirstCall(r))
  BY DEF Take
<1>3. PICK j, label : /\ j = [NoJob EXCEPT !.request = r, !.ticket = taken + 1]
                      /\ label = FirstCall(r)
  OBVIOUS
<1>4. /\ pc[w] = "idle" /\ taken < MaxRequests /\ taken' = taken + 1
      /\ job' = [job EXCEPT ![w] = j] /\ Continue(w, label)
      /\ UNCHANGED <<roots, entry, data, table, idle, terminated, saved>>
  BY <1>2, <1>3 DEF Take, disk, database
<1>5. taken + 1 \in 0..MaxRequests
  BY <1>1, <1>4, FileServiceAssumption DEF TypeInv
<1>6. j \in Job /\ ~j.borrowed /\ j.entries = {} /\ j.request = r
  BY <1>3, <1>5, NoJobFacts
<1>7. /\ job' \in [Workers -> Job] /\ job'[w] = j
      /\ \A v \in Workers \ {w} : job'[v] = job[v]
  BY <1>1, <1>4, <1>6 DEF TypeInv
<1>8. /\ DOMAIN pc' = Workers /\ replies' = replies /\ pc'[w] = label
      /\ \A v \in Workers \ {w} : pc'[v] = pc[v]
  BY <1>1, <1>4 DEF Continue, Goto, TypeInv
<1>9. /\ label \in {"exists", "resolve", "list", "borrow", "refuse"}
      /\ label = "exists" => r.kind \in {"get", "head"}
      /\ label = "resolve" => r.kind \in {"download", "delete", "upload"}
      /\ label = "borrow" => r.kind \in {"login", "register"}
  BY <1>3, FirstCallFacts
<1>10. KindInv(w)'
  BY <1>6, <1>7, <1>8, <1>9 DEF KindInv, OneFile
<1>11. HeldInv(w)'
  <2>1. held'[w] = Contained(w)'
    BY <1>4 DEF Remember
  <2>2. PICK a, d, f : a = At(job[w].request)' /\ d = data' /\ f = job'[w].fd
    OBVIOUS
  <2>3. \/ Contained(w)' = {}
        \/ Contained(w)' = {a} \cup {d[i] : i \in {f} \ {0}}
    BY <2>2 DEF Contained
  <2>4. IsFiniteSet({a} \cup {d[i] : i \in {f} \ {0}})
    BY FiniteSeen
  <2>5. IsFiniteSet(held'[w])
    BY <2>1, <2>3, <2>4, FS_EmptySet
  <2> QED BY <1>8, <1>9, <2>1, <2>5 DEF HeldInv, OneFile
<1>12. ReplyInv(w)'
  BY <1>1, <1>4, <1>8, <1>9 DEF WorkerInv, ReplyInv
<1>13. ListInv(w)'
  <2>1. seen'[w] = Listing(w)' /\ always'[w] = Listing(w)'
    BY <1>4 DEF Remember, Changes
  <2> QED BY <1>6, <1>7, <1>8, <1>9, <2>1 DEF ListInv
<1>14. WorkerInv(w)'
  BY <1>8, <1>9, <1>10, <1>11, <1>12, <1>13 DEF WorkerInv, FileAnswer, PageAnswer, Answered
<1>15. Alone(w)
  BY <1>7, <1>8 DEF Alone
<1>16. TypeInv'
  BY <1>1, <1>4, <1>5, <1>7, <1>8 DEF TypeInv
<1>17. job'[w].borrowed = job[w].borrowed
  <2>1. ~job[w].borrowed /\ job[w].borrowed \in BOOLEAN
    BY <1>1, <1>4, NoJobFacts DEF WorkerInv, KindInv, TypeInv, Job
  <2>2. ~job'[w].borrowed /\ job'[w].borrowed \in BOOLEAN
    BY <1>6, <1>7 DEF Job
  <2> QED BY <2>1, <2>2
<1> QED BY <1>4, <1>8, <1>9, <1>14, <1>15, <1>16, <1>17, QuietKept DEF Good

\* The end of the handler gives the connection back.
LEMMA ReturnStep ==
  ASSUME ServiceInv, Remember, NEW w \in Workers, Return(w)
  PROVE  Good(w)
<1>1. TypeInv /\ PoolInv /\ AccountInv /\ WorkerInv(w)
  BY DEF ServiceInv, WorkersInv
<1>2. /\ pc[w] = "return" /\ Goto(w, "idle") /\ idle' = idle + ConnOf(w)
      /\ job' = [job EXCEPT ![w] = NoJob] /\ replies' = [replies EXCEPT ![w] = <<>>]
      /\ data' = (IF job[w].request.kind = "upload" /\ job[w].fd # 0
                  THEN [data EXCEPT ![job[w].fd] = job[w].request.content] ELSE data)
      /\ UNCHANGED <<roots, entry, table, terminated, taken, saved>>
  BY DEF Return
<1>3. /\ DOMAIN pc' = Workers /\ DOMAIN replies' = Workers /\ pc'[w] = "idle"
      /\ replies'[w] = <<>> /\ job'[w] = NoJob /\ job' \in [Workers -> Job]
      /\ \A v \in Workers \ {w} :
           pc'[v] = pc[v] /\ replies'[v] = replies[v] /\ job'[v] = job[v]
  BY <1>1, <1>2, NoJobFacts DEF Goto, TypeInv
<1>4. Alone(w)
  BY <1>3 DEF Alone
<1>5. Contained(w)' = {} /\ Listing(w)' = {} /\ ~Busy(w)'
  BY <1>3 DEF Contained, Listing, Busy
<1>6. held'[w] = {}
  BY <1>3, <1>5 DEF Remember
<1>7. WorkerInv(w)'
  BY <1>3, <1>5, <1>6, FS_EmptySet, NoJobFacts
     DEF WorkerInv, KindInv, HeldInv, ReplyInv, ListInv, FileAnswer, PageAnswer, Answered, OneFile
<1>8. data' \in [Inodes -> Contents \cup {Empty}]
  BY <1>1, <1>2, UploadTypes DEF TypeInv
<1>9. idle' \in Nat
  BY <1>1, <1>2 DEF TypeInv, ConnOf
<1>10. TypeInv'
  BY <1>1, <1>2, <1>3, <1>8, <1>9 DEF TypeInv
<1>11. PoolInv'
  <2>1. Borrowers' = Borrowers \ {w}
    BY <1>3, NoJobFacts DEF Borrowers
  <2>2. Cardinality(Borrowers') = IF w \in Borrowers THEN Cardinality(Borrowers) - 1
                                                     ELSE Cardinality(Borrowers)
    BY <2>1, FiniteBorrowers, FS_RemoveElement
  <2>3. idle' = IF w \in Borrowers THEN idle + 1 ELSE idle + 0
    BY <1>2 DEF Borrowers, ConnOf
  <2>4. idle \in Nat /\ idle + Cardinality(Borrowers) = PoolSize
    BY <1>1 DEF TypeInv, PoolInv
  <2>5. idle' + Cardinality(Borrowers') = PoolSize
    BY <2>2, <2>3, <2>4, FiniteBorrowers
  <2> QED BY <2>5 DEF PoolInv
<1> QED BY <1>1, <1>2, <1>3, <1>4, <1>7, <1>10, <1>11, AccountKept DEF Good

(***************************************************************************)
(* The invariant.                                                           *)
(***************************************************************************)
LEMMA InitService == Init => ServiceInv
<1> SUFFICES ASSUME Init PROVE ServiceInv
  OBVIOUS
<1>1. PICK present \in SUBSET (roots \X Files) :
        /\ entry = [p \in Paths |-> IF p \in present THEN Number[p] ELSE 0]
        /\ \E content \in [present -> Contents] :
             data = [i \in Inodes |-> IF \E p \in present : Number[p] = i
                                      THEN content[CHOOSE p \in present : Number[p] = i]
                                      ELSE Empty]
  BY DEF Init
<1>2. PICK content \in [present -> Contents] :
        data = [i \in Inodes |-> IF \E p \in present : Number[p] = i
                                 THEN content[CHOOSE p \in present : Number[p] = i]
                                 ELSE Empty]
  BY <1>1
<1>3. /\ roots = Users \/ roots = {}
      /\ table = [u \in Users |-> IF u \in roots THEN 1 ELSE 0] /\ saved = [u \in Users |-> 0]
      /\ idle = PoolSize /\ taken = 0 /\ terminated = Nobody
      /\ job = [w \in Workers |-> NoJob] /\ pc = [w \in Workers |-> "idle"]
      /\ replies = [w \in Workers |-> <<>>]
      /\ held = [w \in Workers |-> {}] /\ seen = [w \in Workers |-> {}]
      /\ always = [w \in Workers |-> {}]
  BY DEF Init
<1>4. entry \in [Paths -> 0..Top]
  <2>1. PICK n : n = Cardinality(Paths)
    OBVIOUS
  <2>2. Number \in [Paths -> 1..n] /\ n \in Nat /\ Top = n + MaxRequests /\ MaxRequests \in Nat
    BY <2>1, NumberFacts, FileServiceAssumption DEF Top
  <2>3. \A p \in Paths : (IF p \in present THEN Number[p] ELSE 0) \in 0..Top
    <3> TAKE p \in Paths
    <3>1. Number[p] \in 1..n
      BY <2>2
    <3> QED BY <2>2, <3>1
  <2> QED BY <1>1, <2>3
<1>5. data \in [Inodes -> Contents \cup {Empty}]
  <2>1. \A i \in Inodes : (IF \E p \in present : Number[p] = i
                           THEN content[CHOOSE p \in present : Number[p] = i]
                           ELSE Empty) \in Contents \cup {Empty}
    OBVIOUS
  <2> QED BY <1>2, <2>1
<1>6. TypeInv
  <2>1. PoolSize \in Nat /\ 0 \in 0..MaxRequests
    BY FileServiceAssumption
  <2>2. job \in [Workers -> Job]
    BY <1>3, NoJobFacts
  <2>3. table \in [Users -> Nat] /\ saved \in [Users -> Nat] /\ roots \subseteq Users
    BY <1>3
  <2> QED BY <1>3, <1>4, <1>5, <2>1, <2>2, <2>3 DEF TypeInv
<1>7. PoolInv
  <2>1. Borrowers = {}
    BY <1>3, NoJobFacts DEF Borrowers
  <2>2. Cardinality(Borrowers) = 0
    BY <2>1, FS_EmptySet
  <2> QED BY <1>3, <2>2, FileServiceAssumption DEF PoolInv
<1>8. AccountInv
  BY <1>3 DEF AccountInv
<1>9. ASSUME NEW w \in Workers PROVE WorkerInv(w)
  <2>1. /\ pc[w] = "idle" /\ job[w] = NoJob /\ replies[w] = <<>>
        /\ held[w] = {} /\ seen[w] = {} /\ always[w] = {}
    BY <1>3
  <2>2. Contained(w) = {} /\ Listing(w) = {} /\ ~Busy(w)
    BY <2>1 DEF Contained, Listing, Busy
  <2> QED BY <2>1, <2>2, FS_EmptySet, NoJobFacts
          DEF WorkerInv, KindInv, HeldInv, ReplyInv, ListInv, FileAnswer, PageAnswer, Answered, OneFile
<1> QED BY <1>6, <1>7, <1>8, <1>9 DEF ServiceInv, WorkersInv

LEMMA NextService ==
  ASSUME ServiceInv, [Next]_vars
  PROVE  ServiceInv'
<1>1. CASE Next
  <2>1. Remember
    BY <1>1 DEF Next
  <2>2. PICK w \in Workers : Take(w) \/ Handle(w)
    BY <1>1 DEF Next
  <2>3. Good(w)
    BY <2>1, <2>2, TakeStep, RefuseStep, ReturnStep, ExistsStep, ResolveStep, PageSizeStep,
       DownloadSizeStep, OpenStep, ReadStep, SendFileStep, SendBodyStep, RemoveStep,
       RemoveDirectoryStep, CreateStep, WriteStep, ListStep, StatStep, ListedStep, BorrowStep, SelectStep, InsertStep,
       CreateDirectoryStep DEF Handle
  <2>4. \A v \in Workers : WorkerInv(v)'
    <3> TAKE v \in Workers
    <3>1. CASE v = w
      BY <2>3, <3>1 DEF Good
    <3>2. CASE v # w
      BY <2>1, <2>3, <3>2, OtherKept DEF Good, Alone, ServiceInv, WorkersInv
    <3> QED BY <3>1, <3>2
  <2> QED BY <2>3, <2>4 DEF Good, ServiceInv, WorkersInv
<1>2. CASE UNCHANGED vars
  <2>1. UNCHANGED <<roots, entry, data, table, idle, job, pc, replies, terminated, taken, saved,
                    held, seen, always, thinned, dropped>>
    BY <1>2 DEF vars, disk, database, history
  <2>2. TypeInv' /\ PoolInv' /\ AccountInv'
    BY <2>1 DEF ServiceInv, TypeInv, PoolInv, Borrowers, AccountInv
  <2>3. ASSUME NEW w \in Workers PROVE WorkerInv(w)'
    <3>1. WorkerInv(w)
      BY DEF ServiceInv, WorkersInv
    <3>2. At(job[w].request)' = At(job[w].request) /\ Names(job[w].request)' = Names(job[w].request)
      BY <2>1 DEF At, InodeOf, Names
    <3>3. Contained(w)' = Contained(w) /\ Listing(w)' = Listing(w) /\ Busy(w)' = Busy(w)
      BY <2>1, <3>2 DEF Contained, Listing, Busy
    <3>4. KindInv(w)' /\ HeldInv(w)' /\ ReplyInv(w)'
      BY <2>1, <3>1, <3>3 DEF WorkerInv, KindInv, HeldInv, ReplyInv
    <3>5. ListInv(w)'
      BY <2>1, <3>1, <3>2, <3>3 DEF WorkerInv, ListInv
    <3>6. FileAnswer(w)' /\ PageAnswer(w)'
      BY <2>1, <3>1 DEF WorkerInv, FileAnswer, PageAnswer, Answered
    <3> QED BY <3>4, <3>5, <3>6 DEF WorkerInv
  <2> QED BY <2>2, <2>3 DEF ServiceInv, WorkersInv
<1> QED BY <1>1, <1>2

LEMMA ServiceTheorem == Spec => []ServiceInv
  BY InitService, NextService, PTL DEF Spec

\* Of two registrations of one name at most one is told that it is saved, in
\* whatever order their queries run, if the column is unique; an account has its
\* directory unless its registration is between the two calls or ended there, or
\* its user has deleted the directory; and the pool's connections are all in it or with the requests that borrowed them
\* (HttpServer.cpp:1127-1202).
THEOREM AccountsTheorem == Spec => []AccountsAreWhole
<1>1. ServiceInv => AccountsAreWhole
  <2> SUFFICES ASSUME ServiceInv PROVE AccountsAreWhole
    OBVIOUS
  <2>1. TypeInv /\ PoolInv /\ AccountInv
    BY DEF ServiceInv
  <2>2. idle \in 0..PoolSize
    BY <2>1, FiniteBorrowers, FileServiceAssumption DEF TypeInv, PoolInv
  <2>3. \A w \in Workers : job[w].request \in Requests /\ job[w].entries \subseteq Files
    BY <2>1 DEF TypeInv, Job
  <2>4. TypeOK
    BY <2>1, <2>2, <2>3 DEF TypeInv, TypeOK, Top
  <2>5. ASSUME NEW u \in Users, NamesAreUnique PROVE saved[u] <= 1
    BY <2>1, <2>5 DEF TypeInv, AccountInv
  <2> QED BY <2>1, <2>4, <2>5 DEF AccountInv, AccountsAreWhole
<1> QED BY <1>1, ServiceTheorem, PTL

\* A page with files shows no name that was not in the directory at any time since
\* its request began or changed the directory, and every name that was there all
\* that time, unless another one left the directory while it was being listed
\* (LoadUserContent, HttpServer.cpp:142-186).
THEOREM PageTheorem == Spec => []PageIsTruthful
<1>1. ServiceInv => PageIsTruthful
  BY DEF ServiceInv, WorkersInv, WorkerInv, PageAnswer, PageIsTruthful
<1> QED BY <1>1, ServiceTheorem, PTL

\* A file is answered with something it contained during the request, with the
\* length it had if it did not change, and with the page of an error after its
\* header only if it vanished (HttpServer.cpp:770-805, 1263-1315 and
\* HttpConnect.cpp:211-240).
THEOREM FileTheorem == Spec => []FileAsStored
<1>1. ServiceInv => FileAsStored
  BY DEF ServiceInv, WorkersInv, WorkerInv, FileAnswer, FileAsStored
<1> QED BY <1>1, ServiceTheorem, PTL
==============================================================================

------------------------- MODULE AdbServicesProofs -------------------------
(***************************************************************************)
(* What is proved of two services of adbd and of the clients that ask for  *)
(* them: copies of files (file_sync_service.c with file_sync_client.c),    *)
(* for any files, lengths and failures, and the listeners of adb.c, for    *)
(* any number of transports, service threads, names, requests and          *)
(* connections.                                                            *)
(***************************************************************************)
EXTENDS FileSyncClient, AdbListeners, FiniteSetTheorems, TLAPS

-----------------------------------------------------------------------------
\* Copies of files (FileSync, FileSyncClient).

CountTo(n) == [i \in 1 .. n |-> i]

FileStates == [v : {"none", "part", "old", "host"}, blocks : Seq(Nat)]
Messages ==
  [id : {"LIST", "SEND", "DATA", "DONE", "RECV", "QUIT", "DENT", "FAIL", "OKAY"},
   f : Files, data : Seq(Nat)]
    \cup [id : {"STAT"}, f : Files, data : Seq(Nat) \cup FileStates]

SvcTypes ==
  svc \in [pc : {"command", "data", "linkData", "linkDone", "recv", "ended"},
           file : Files, opened : BOOLEAN, at : Nat]
\* The service writes from a place in the file on.
PlaceOK == svc.pc = "data" /\ svc.opened => svc.at <= Len(remote[svc.file].blocks)
ClientTypes ==
  client \in [pc : {"start", "mode", "stats", "dents", "next", "file", "status",
                    "first", "data", "quit", "exited"},
              todo : Seq(Files), same : SUBSET Files, at : Nat, code : {-1, 0, 1}]
StreamTypes ==
  /\ toDev \in Seq(Messages) /\ cOut \in Seq(Messages)
  /\ toHost \in Seq(Messages) /\ sOut \in Seq(Messages)
SyncTypes ==
  /\ SvcTypes /\ ClientTypes /\ StreamTypes
  /\ job \in [op : Pushes \cup {"pull", "pulldir"}, files : SUBSET Files, attrs : BOOLEAN]
  /\ remote \in [Files -> FileStates] /\ local \in [Files -> FileStates]
  /\ unread \subseteq Files /\ stuck \subseteq Files /\ PlaceOK
  /\ link \in {"up", "broken"} /\ clientOpen \in BOOLEAN

\* What the service has still to read, and what the client will.
Requested == toDev \o cOut
Heard == IF link = "up" THEN toHost \o sOut ELSE toHost

\* Nothing is on its way.
Rest ==
  /\ cOut = <<>> /\ Heard = <<>>
  /\ link = "up" => toDev = <<>> /\ svc.pc = "command"

\* Each file of the job that is not left to do is whole.
Settled ==
  \A g \in job.files :
    g \in client.same \/ (\A i \in 1 .. Len(client.todo) : client.todo[i] # g) =>
      g \in unread \/ Copied(g)

\* The service changes no file.
AsksOnly(s) == \A i \in 1 .. Len(s) : s[i].id \in {"STAT", "LIST", "RECV", "QUIT"}
Harmless == svc.pc \in {"command", "recv", "ended"} /\ AsksOnly(toDev) /\ AsksOnly(cOut)

\* Each file is asked about, and answered, once and in order.
StatOK ==
  /\ client.at + Len(Heard) <= Len(client.todo)
  /\ \A j \in 1 .. Len(Heard) :
       LET f == client.todo[client.at + j] IN Heard[j].f = f /\ Heard[j].data = remote[f]
  /\ link = "up" =>
       /\ svc.pc = "command"
       /\ client.at + Len(Heard) + Len(Requested) = Len(client.todo)
       /\ \A j \in 1 .. Len(Requested) :
            /\ Requested[j].id = "STAT"
            /\ Requested[j].f = client.todo[client.at + Len(Heard) + j]

DentsOK ==
  /\ \A j \in 1 .. Len(Heard) : j < Len(Heard) => Heard[j].id = "DENT"
  /\ link = "up" =>
       /\ svc.pc = "command"
       /\ \/ Heard = <<>> /\ Len(Requested) = 1 /\ Requested[1].id = "LIST"
          \/ Requested = <<>> /\ Heard # <<>> /\ Heard[Len(Heard)].id # "DENT"

\* What the client has made of the file it sends: SEND, the DATA and DONE.
Pieces == IF Cur \in Links THEN (IF client.at = 0 THEN 0 ELSE 1) ELSE client.at
Made == Pieces + (IF client.pc = "status" THEN 2 ELSE 1)
PieceOf(m, i, f, p) ==
  /\ m.f = f
  /\ i = 1 => m.id = "SEND"
  /\ i \in 2 .. p + 1 =>
       m.id = "DATA" /\ m.data = IF f \in Links THEN CountTo(Size[f]) ELSE <<i - 1>>
  /\ i = p + 2 => m.id = "DONE"
IsPiece(m, i) == PieceOf(m, i, Cur, Pieces)

\* The first n blocks of file f are written, and nothing follows that could be removed.
Begun(f, n) ==
  LET blocks == remote[f].blocks IN
  /\ Len(blocks) >= n /\ \A i \in 1 .. n : blocks[i] = i
  /\ Len(blocks) = n \/ f \in stuck

\* The service has read the first of them, and the file has what was in them.
Got == Made - Len(Requested)
Taken ==
  \/ svc.pc = "command" /\ Got = 0
  \/ /\ svc.pc = "data" /\ Cur \notin Links /\ svc.file = Cur /\ svc.opened
     /\ Got \in 1 .. Pieces + 1 /\ svc.at = Got - 1 /\ Begun(Cur, Got - 1)
  \/ svc.pc = "linkData" /\ Cur \in Links /\ svc.file = Cur /\ Got = 1
  \/ /\ svc.pc = "linkDone" /\ Cur \in Links /\ svc.file = Cur /\ Got = 2 /\ Pieces = 1
     /\ Copied(Cur)
Underway ==
  /\ client.at <= Size[Cur] /\ (Cur \in Links => client.at \in {0, Size[Cur]})
  /\ client.pc = "status" => client.at = Size[Cur] \/ Cur \in unread
  /\ Len(Requested) <= Made
  /\ \A i \in 1 .. Len(Requested) : IsPiece(Requested[i], Got + i)
  /\ Taken /\ Settled

Accepted ==
  /\ client.pc = "status" /\ toDev = <<>> /\ cOut = <<>> /\ Len(Heard) = 1
  /\ svc.pc = "command" \/ (svc.pc = "ended" /\ link = "broken")
  /\ Cur \in unread \/ Copied(Cur)
  /\ Settled

\* A file is on its way and not answered, or what comes first is its answer.
SendingOK ==
  /\ client.todo # <<>> /\ Cur \notin client.same
  /\ Heard # <<>> => /\ Heard[1].f = Cur
                     /\ Heard[1].id = "FAIL" \/ (Heard[1].id = "OKAY" /\ Accepted)
  /\ Heard = <<>> /\ link = "up" => Underway

\* The file that is received: a blocks of it are there, and what comes is what follows.
Had == IF client.pc = "first" THEN 0 ELSE Len(local[Cur].blocks)
Follows(j) ==
  /\ Heard[j].f = Cur
  /\ \/ /\ Heard[j].id = "DATA" /\ Had + j <= Len(remote[Cur].blocks)
        /\ Heard[j].data = <<remote[Cur].blocks[Had + j]>>
     \/ Heard[j].id = "DONE" /\ j = Len(Heard) /\ Had + j = Len(remote[Cur].blocks) + 1
     \/ Heard[j].id = "FAIL" /\ j = Len(Heard)
Sends ==
  \/ /\ svc.pc = "command" /\ Heard = <<>> /\ client.pc = "first"
     /\ Len(Requested) = 1 /\ Requested[1].id = "RECV" /\ Requested[1].f = Cur
  \/ /\ svc.pc = "recv" /\ svc.file = Cur /\ Requested = <<>>
     /\ svc.at = Had + Len(Heard) /\ svc.at <= Len(remote[Cur].blocks)
     /\ \A j \in 1 .. Len(Heard) : Heard[j].id = "DATA"
  \/ /\ svc.pc = "command" /\ Requested = <<>>
     /\ Heard # <<>> /\ Heard[Len(Heard)].id # "DATA"
ReceivingOK ==
  /\ client.todo # <<>> /\ Had <= Len(remote[Cur].blocks)
  /\ \A i \in 1 .. Had : local[Cur].blocks[i] = remote[Cur].blocks[i]
  /\ \A j \in 1 .. Len(Heard) : Follows(j)
  /\ link = "up" => Sends

\* What was received before is whole.
Kept ==
  \A g \in Files :
    local[g] # Absent /\ ~ (client.pc = "data" /\ g = Cur) =>
      local[g].blocks = remote[g].blocks

PartOpen ==
  \A g \in Files :
    remote[g].v = "part" => (svc.pc = "data" /\ svc.opened /\ svc.file = g) \/ g \in stuck

JobOK ==
  /\ clientOpen <=> client.pc # "exited"
  /\ client.code = -1 <=> client.pc # "exited"
  /\ job.op \in Pushes => client.pc \notin {"dents", "first", "data"}
  /\ job.op \notin Pushes => client.pc \notin {"stats", "file", "status"}
  /\ job.op \in Pushes => \A g \in Files : local[g] = Whole(g)

PhaseOK ==
  /\ client.pc = "start" => /\ client.at = 0
                            /\ job.op \in {"push", "pull"} => Len(client.todo) = 1
  /\ client.pc \in {"start", "next"} => Rest
  /\ client.pc = "mode" => client.at = 0 /\ Len(client.todo) = 1
  /\ client.pc \in {"mode", "stats"} => StatOK
  /\ client.pc = "dents" => DentsOK
  /\ client.pc \in {"file", "status"} => SendingOK
  /\ client.pc \in {"first", "data"} => ReceivingOK
  /\ client.pc = "quit" \/ client.code = 0 => client.todo = <<>>
\* The command has not failed yet.
Going == client.pc # "exited" \/ client.code = 0
StateOK ==
  /\ Going /\ client.pc \notin {"file", "status"} => Harmless
  /\ Going /\ client.pc \notin {"file", "status"} /\ job.op \in Pushes => Settled
  /\ Going /\ job.op \notin Pushes => Kept

CopyInv == SyncTypes /\ JobOK /\ PhaseOK /\ StateOK /\ PartOpen

-----------------------------------------------------------------------------
\* Streams.

LEMMA EmptyIs ==
  ASSUME NEW S, NEW s \in Seq(S)
  PROVE  s = <<>> <=> Len(s) = 0
  OBVIOUS

LEMMA JoinedIs ==
  ASSUME NEW S, NEW s \in Seq(S), NEW t \in Seq(S)
  PROVE  /\ s \o t \in Seq(S) /\ Len(s \o t) = Len(s) + Len(t)
         /\ \A i \in 1 .. Len(s) : (s \o t)[i] = s[i]
         /\ \A i \in 1 .. Len(s) + Len(t) : ~ i <= Len(s) => (s \o t)[i] = t[i - Len(s)]
  OBVIOUS

LEMMA SameSequence ==
  ASSUME NEW S, NEW s \in Seq(S), NEW t \in Seq(S), Len(s) = Len(t),
         \A i \in 1 .. Len(s) : s[i] = t[i]
  PROVE  s = t
  OBVIOUS

LEMMA TailIs ==
  ASSUME NEW S, NEW s \in Seq(S), s # <<>>
  PROVE  /\ Len(s) \in Nat /\ Len(s) >= 1 /\ Head(s) = s[1] /\ s[1] \in S
         /\ Tail(s) \in Seq(S) /\ Len(Tail(s)) = Len(s) - 1
         /\ \A i \in 1 .. Len(s) - 1 : Tail(s)[i] = s[i + 1]
  OBVIOUS

LEMMA AppendIs ==
  ASSUME NEW S, NEW s \in Seq(S), NEW m \in S
  PROVE  /\ Append(s, m) \in Seq(S) /\ Len(Append(s, m)) = Len(s) + 1 /\ Append(s, m) # <<>>
         /\ \A i \in 1 .. Len(s) : Append(s, m)[i] = s[i]
         /\ Append(s, m)[Len(s) + 1] = m
  OBVIOUS

LEMMA JoinedEmpty ==
  ASSUME NEW S, NEW s \in Seq(S), NEW t \in Seq(S)
  PROVE  /\ s \o <<>> = s /\ <<>> \o s = s
         /\ s \o t = <<>> <=> s = <<>> /\ t = <<>>
         /\ s # <<>> => (s \o t)[1] = Head(s)
<1>1. /\ Len(s) \in Nat /\ Len(t) \in Nat /\ <<>> \in Seq(S) /\ Len(<<>>) = 0
  OBVIOUS
<1>2. s \o <<>> = s
  <2>1. s \o <<>> \in Seq(S) /\ Len(s \o <<>>) = Len(s)
        /\ \A i \in 1 .. Len(s) : (s \o <<>>)[i] = s[i]
    BY <1>1, JoinedIs
  <2> QED
    BY <2>1, SameSequence
<1>3. <<>> \o s = s
  <2>1. <<>> \o s \in Seq(S) /\ Len(<<>> \o s) = Len(s)
    BY <1>1, JoinedIs
  <2>2. \A i \in 1 .. Len(s) : (<<>> \o s)[i] = s[i]
    BY <1>1
  <2> QED
    BY <2>1, <2>2, SameSequence
<1>4. Len(s \o t) = Len(s) + Len(t) /\ s \o t \in Seq(S)
  BY JoinedIs
<1>5. s \o t = <<>> <=> s = <<>> /\ t = <<>>
  BY <1>1, <1>4, EmptyIs
<1>6. s # <<>> => (s \o t)[1] = Head(s)
  BY <1>1, TailIs, JoinedIs
<1> QED
  BY <1>2, <1>3, <1>5, <1>6

LEMMA JoinedOne ==
  ASSUME NEW S, NEW s \in Seq(S), NEW t \in Seq(S), Len(t) = 1
  PROVE  /\ s \o t \in Seq(S) /\ Len(s \o t) = Len(s) + 1 /\ Len(s) \in Nat
         /\ \A i \in 1 .. Len(s) : (s \o t)[i] = s[i]
         /\ (s \o t)[Len(s) + 1] = t[1]
<1>1. Len(s) \in Nat
  OBVIOUS
<1>2. Len(s) + 1 \in 1 .. Len(s) + 1 /\ ~ Len(s) + 1 <= Len(s) /\ Len(s) + 1 - Len(s) = 1
  BY <1>1
<1> QED
  BY <1>1, <1>2, JoinedIs

LEMMA JoinedTail ==
  ASSUME NEW S, NEW s \in Seq(S), NEW t \in Seq(S), s # <<>>
  PROVE  Tail(s) \o t = Tail(s \o t)
<1> DEFINE r == Tail(s)
           a == r \o t
           j == s \o t
           b == Tail(j)
<1>1. /\ Len(t) \in Nat /\ Len(s) \in Nat /\ Len(s) >= 1
      /\ r \in Seq(S) /\ Len(r) = Len(s) - 1 /\ \A i \in 1 .. Len(s) - 1 : r[i] = s[i + 1]
  BY TailIs
<1>2. /\ j \in Seq(S) /\ Len(j) = Len(s) + Len(t) /\ j # <<>>
      /\ \A i \in 1 .. Len(s) : j[i] = s[i]
      /\ \A i \in 1 .. Len(s) + Len(t) : ~ i <= Len(s) => j[i] = t[i - Len(s)]
  BY JoinedIs, JoinedEmpty
<1>3. /\ b \in Seq(S) /\ Len(b) = Len(j) - 1 /\ \A i \in 1 .. Len(j) - 1 : b[i] = j[i + 1]
  BY <1>2, TailIs
<1> HIDE DEF r, j
<1>4. /\ a \in Seq(S) /\ Len(a) = Len(r) + Len(t)
      /\ \A i \in 1 .. Len(r) : a[i] = r[i]
      /\ \A i \in 1 .. Len(r) + Len(t) : ~ i <= Len(r) => a[i] = t[i - Len(r)]
  BY <1>1, JoinedIs
<1> HIDE DEF a, b
<1>5. ASSUME NEW i \in 1 .. Len(a)
      PROVE  a[i] = b[i]
  <2>1. CASE i <= Len(r)
    BY <1>1, <1>2, <1>3, <1>4, <2>1
  <2>2. CASE ~ i <= Len(r)
    <3>0. Len(a) = Len(s) - 1 + Len(t) /\ Len(r) = Len(s) - 1
      BY <1>1, <1>4
    <3>1. i + 1 \in 1 .. Len(s) + Len(t) /\ ~ i + 1 <= Len(s) /\ i + 1 - Len(s) = i - Len(r)
      BY <1>1, <2>2, <3>0
    <3>2. j[i + 1] = t[i - Len(r)]
      BY <1>2, <3>1
    <3> QED
      BY <1>1, <1>2, <1>3, <1>4, <2>2, <3>2
  <2> QED
    BY <2>1, <2>2
<1>6. Len(a) = Len(b)
  BY <1>1, <1>2, <1>3, <1>4
<1>7. a = b
  BY <1>3, <1>4, <1>5, <1>6, SameSequence
<1> QED
  BY <1>7 DEF a, b, r, j

\* What comes first in the second goes last in the first.
LEMMA JoinedMoves ==
  ASSUME NEW S, NEW q \in Seq(S), NEW s \in Seq(S), s # <<>>
  PROVE  Append(q, Head(s)) \o Tail(s) = q \o s
<1> DEFINE r == Append(q, Head(s))
           t == Tail(s)
           a == q \o s
           b == r \o t
<1>1. /\ Len(q) \in Nat /\ Len(s) \in Nat /\ Len(s) >= 1 /\ Head(s) = s[1] /\ Head(s) \in S
      /\ t \in Seq(S) /\ Len(t) = Len(s) - 1 /\ \A i \in 1 .. Len(s) - 1 : t[i] = s[i + 1]
  BY TailIs
<1>2. /\ r \in Seq(S) /\ Len(r) = Len(q) + 1 /\ \A i \in 1 .. Len(q) : r[i] = q[i]
      /\ r[Len(q) + 1] = s[1]
  BY <1>1, AppendIs
<1> HIDE DEF r, t
<1>3. /\ a \in Seq(S) /\ Len(a) = Len(q) + Len(s)
      /\ \A i \in 1 .. Len(q) : a[i] = q[i]
      /\ \A i \in 1 .. Len(q) + Len(s) : ~ i <= Len(q) => a[i] = s[i - Len(q)]
  BY JoinedIs
<1>4. /\ b \in Seq(S) /\ Len(b) = Len(r) + Len(t)
      /\ \A i \in 1 .. Len(r) : b[i] = r[i]
      /\ \A i \in 1 .. Len(r) + Len(t) : ~ i <= Len(r) => b[i] = t[i - Len(r)]
  BY <1>1, <1>2, JoinedIs, ZenonT(60)
<1> HIDE DEF a, b
<1>5. ASSUME NEW i \in 1 .. Len(a)
      PROVE  a[i] = b[i]
  <2>1. CASE i <= Len(q)
    BY <1>1, <1>2, <1>3, <1>4, <2>1
  <2>2. CASE i = Len(q) + 1
    BY <1>1, <1>2, <1>3, <1>4, <2>2, SMTT(30)
  <2>3. CASE ~ i <= Len(q) + 1
    <3>1. i - Len(r) \in 1 .. Len(s) - 1 /\ (i - Len(r)) + 1 = i - Len(q)
      BY <1>1, <1>2, <1>3, <2>3
    <3>2. b[i] = t[i - Len(r)] /\ a[i] = s[i - Len(q)]
      BY <1>1, <1>2, <1>3, <1>4, <2>3
    <3> QED
      BY <1>1, <3>1, <3>2
  <2> QED
    BY <1>1, <1>3, <2>1, <2>2, <2>3
<1>6. Len(a) = Len(b)
  BY <1>1, <1>2, <1>3, <1>4
<1>7. a = b
  BY <1>3, <1>4, <1>5, <1>6, SameSequence
<1> QED
  BY <1>7 DEF a, b, r, t

LEMMA CutIs ==
  ASSUME NEW S, NEW s \in Seq(S), NEW n \in 0 .. Len(s)
  PROVE  /\ SubSeq(s, 1, n) \in Seq(S) /\ Len(SubSeq(s, 1, n)) = n
         /\ \A i \in 1 .. n : SubSeq(s, 1, n)[i] = s[i]
  OBVIOUS

\* What is heard and requested, when nothing changes but where a message is.
LEMMA StreamsAre ==
  ASSUME SyncTypes
  PROVE  /\ Heard \in Seq(Messages) /\ Requested \in Seq(Messages)
         /\ Len(Heard) \in Nat /\ Len(Requested) \in Nat
         /\ toHost # <<>> => Heard # <<>> /\ Heard[1] = Head(toHost)
         /\ Heard = <<>> => toHost = <<>> /\ (link = "up" => sOut = <<>>)
         /\ Requested = <<>> <=> toDev = <<>> /\ cOut = <<>>
         /\ link = "broken" => Heard = toHost
         /\ toDev = <<>> => Requested = cOut
         /\ cOut = <<>> => Requested = toDev
<1>1. /\ toHost \in Seq(Messages) /\ sOut \in Seq(Messages)
      /\ toDev \in Seq(Messages) /\ cOut \in Seq(Messages) /\ link \in {"up", "broken"}
  BY DEF SyncTypes, StreamTypes
<1>2. CASE link = "up"
  BY <1>1, <1>2, JoinedIs, JoinedEmpty, TailIs, SMTT(30) DEF Heard, Requested
<1>3. CASE link = "broken"
  BY <1>1, <1>3, JoinedIs, JoinedEmpty, TailIs, SMTT(30) DEF Heard, Requested
<1> QED
  BY <1>1, <1>2, <1>3

LEMMA ReadsEffect ==
  ASSUME SyncTypes, NEW id, Reads(id), cOut' = cOut, sOut' \in Seq(Messages)
  PROVE  /\ toDev # <<>> /\ Head(toDev).id = id /\ Head(toDev) \in Messages
         /\ toDev' = Tail(toDev) /\ link' = link
         /\ Requested # <<>> /\ Requested[1] = Head(toDev) /\ Requested' = Tail(Requested)
         /\ link = "up" => Heard = toHost /\ Heard' = Heard \o sOut'
         /\ link = "broken" => Heard' = Heard
<1>1. /\ toHost \in Seq(Messages) /\ sOut = <<>>
      /\ toDev \in Seq(Messages) /\ cOut \in Seq(Messages) /\ link \in {"up", "broken"}
      /\ toDev # <<>> /\ toDev' = Tail(toDev) /\ toHost' = toHost /\ link' = link
      /\ Head(toDev).id = id
  BY DEF SyncTypes, StreamTypes, Reads
<1>2. Requested # <<>> /\ Requested[1] = Head(toDev) /\ Requested' = Tail(Requested)
  BY <1>1, JoinedEmpty, JoinedTail, SMTT(30) DEF Requested
<1>3. /\ link = "up" => Heard = toHost /\ Heard' = Heard \o sOut'
      /\ link = "broken" => Heard' = Heard
  BY <1>1, JoinedEmpty DEF Heard
<1> QED
  BY <1>1, <1>2, <1>3, TailIs

LEMMA ReceivesEffect ==
  ASSUME SyncTypes, NEW pc, Receives(pc)
  PROVE  /\ client.pc = pc /\ cOut = <<>> /\ toHost # <<>> /\ Answered \in Messages
         /\ Heard # <<>> /\ Heard[1] = Answered /\ Heard' = Tail(Heard)
         /\ Requested = toDev /\ (cOut' = <<>> => Requested' = toDev)
         /\ link' = link /\ svc' = svc /\ remote' = remote
         /\ stuck' = stuck /\ job' = job /\ toDev' = toDev
         /\ sOut' = sOut
<1>1. /\ toHost \in Seq(Messages) /\ sOut \in Seq(Messages)
      /\ toDev \in Seq(Messages) /\ link \in {"up", "broken"}
      /\ client.pc = pc /\ cOut = <<>> /\ toHost # <<>> /\ toHost' = Tail(toHost)
      /\ link' = link /\ svc' = svc /\ remote' = remote
      /\ stuck' = stuck /\ job' = job /\ toDev' = toDev
      /\ sOut' = sOut
  BY DEF SyncTypes, StreamTypes, Receives, svcVars
<1>2. Heard # <<>> /\ Heard[1] = Answered /\ Heard' = Tail(Heard)
  <2>1. /\ toHost \o sOut # <<>> /\ (toHost \o sOut)[1] = Head(toHost)
        /\ Tail(toHost) \o sOut = Tail(toHost \o sOut) /\ toHost[1] = Head(toHost)
    BY <1>1, JoinedEmpty, JoinedTail, TailIs
  <2>2. CASE link = "up"
    BY <1>1, <2>1, <2>2 DEF Heard, Answered
  <2>3. CASE link = "broken"
    BY <1>1, <2>1, <2>3 DEF Heard, Answered
  <2> QED
    BY <1>1, <2>2, <2>3
<1>3. Requested = toDev /\ (cOut' = <<>> => Requested' = toDev)
  BY <1>1, JoinedEmpty DEF Requested
<1> QED
  BY <1>1, <1>2, <1>3, TailIs DEF Answered

LEMMA SvcWriteEffect ==
  ASSUME SyncTypes, clientOpen, SvcWrite, cOut' = cOut
  PROVE  /\ Heard' = Heard /\ Requested' = Requested /\ remote' = remote
         /\ stuck' = stuck /\ link' = link
         /\ toDev' = toDev /\ sOut # <<>>
         /\ link = "up" => svc' = svc
         /\ svc'.pc \in {svc.pc, "ended"}
<1>1. /\ toHost \in Seq(Messages) /\ sOut \in Seq(Messages) /\ link \in {"up", "broken"}
      /\ svc \in [pc : {"command", "data", "linkData", "linkDone", "recv", "ended"},
           file : Files, opened : BOOLEAN, at : Nat]
  BY DEF SyncTypes, StreamTypes, SvcTypes
<1>2. /\ remote' = remote /\ stuck' = stuck /\ link' = link /\ toDev' = toDev /\ sOut # <<>>
  BY DEF SvcWrite
<1>3. Requested' = Requested
  BY <1>2 DEF Requested
<1>4. CASE link = "up"
  <2>1. /\ toHost' = Append(toHost, Head(sOut)) /\ sOut' = Tail(sOut) /\ svc' = svc
    BY <1>4 DEF SvcWrite, HostGone
  <2>2. toHost' \o sOut' = toHost \o sOut
    BY <1>1, <1>2, <2>1, JoinedMoves
  <2> QED
    BY <1>1, <1>2, <1>3, <1>4, <2>1, <2>2 DEF Heard
<1>5. CASE link = "broken"
  <2>1. toHost' = toHost /\ svc' \in {svc, Ended}
    BY <1>5 DEF SvcWrite, HostGone
  <2> QED
    BY <1>1, <1>2, <1>3, <1>5, <2>1 DEF Heard, Ended
<1> QED
  BY <1>1, <1>2, <1>3, <1>4, <1>5

LEMMA BreaksEffect ==
  ASSUME SyncTypes, LinkBreaks
  PROVE  /\ link' = "broken" /\ Heard' \in Seq(Messages) /\ Len(Heard') \in 0 .. Len(Heard)
         /\ \A i \in 1 .. Len(Heard') : Heard'[i] = Heard[i]
         /\ toDev' \in Seq(Messages) /\ Len(toDev') \in 0 .. Len(toDev)
         /\ \A i \in 1 .. Len(toDev') : toDev'[i] = toDev[i]
         /\ toHost' \in Seq(Messages)
<1>1. /\ toHost \in Seq(Messages) /\ sOut \in Seq(Messages) /\ toDev \in Seq(Messages)
      /\ link = "up" /\ link' = "broken"
  BY DEF SyncTypes, StreamTypes, LinkBreaks
<1>2. PICK n \in 0 .. Len(toDev) : toDev' = SubSeq(toDev, 1, n)
  BY DEF LinkBreaks
<1>3. PICK m \in 0 .. Len(toHost) : toHost' = SubSeq(toHost, 1, m)
  BY DEF LinkBreaks
<1>4. Heard' = SubSeq(toHost, 1, m) /\ Heard = toHost \o sOut
  BY <1>1, <1>3 DEF Heard
<1>5. /\ Len(toHost) \in Nat /\ Len(sOut) \in Nat /\ Len(toDev) \in Nat
      /\ Len(toHost \o sOut) = Len(toHost) + Len(sOut)
      /\ \A i \in 1 .. Len(toHost) : (toHost \o sOut)[i] = toHost[i]
  BY <1>1, JoinedIs
<1>6. /\ Heard' \in Seq(Messages) /\ Len(Heard') = m
      /\ \A i \in 1 .. m : Heard'[i] = toHost[i]
  BY <1>1, <1>3, <1>4, CutIs
<1>7. /\ toDev' \in Seq(Messages) /\ Len(toDev') = n
      /\ \A i \in 1 .. n : toDev'[i] = toDev[i]
  BY <1>1, <1>2, CutIs
<1> QED
  BY <1>1, <1>3, <1>4, <1>5, <1>6, <1>7

-----------------------------------------------------------------------------
\* Every variable has its type.

LEMMA MessageIs ==
  ASSUME NEW f \in Files
  PROVE  /\ \A id \in {"LIST", "SEND", "DATA", "DONE", "RECV", "QUIT", "DENT", "FAIL", "OKAY"} :
              \A d \in Seq(Nat) : Msg(id, f, d) \in Messages
         /\ \A d \in FileStates \cup Seq(Nat) : Msg("STAT", f, d) \in Messages
         /\ \A id, d : Msg(id, f, d).id = id /\ Msg(id, f, d).f = f /\ Msg(id, f, d).data = d
         /\ \A id \in {"STAT", "LIST", "SEND", "DATA", "DONE", "RECV", "QUIT", "DENT", "FAIL",
                      "OKAY"} : Msg(id, f, <<>>) \in Messages
  BY DEF Msg, Messages

LEMMA DataMessage ==
  ASSUME NEW f \in Files, NEW d \in Seq(Nat)
  PROVE  /\ Msg("DATA", f, d) \in Messages /\ Msg("DATA", f, d).id = "DATA"
         /\ Msg("DATA", f, d).f = f /\ Msg("DATA", f, d).data = d
  BY MessageIs

LEMMA DataIs == ASSUME NEW m \in Messages, m.id = "DATA" PROVE m.data \in Seq(Nat)
  BY DEF Messages

LEMMA AnswerIs ==
  ASSUME NEW f \in Files, NEW ids \in Seq({"FAIL", "OKAY", "DONE"}), Answer(f, ids)
  PROVE  /\ sOut' \in Seq(Messages) /\ Len(sOut') = Len(ids)
         /\ \A i \in 1 .. Len(ids) : sOut'[i].id = ids[i] /\ sOut'[i].f = f
<1>1. /\ sOut' = [i \in 1 .. Len(ids) |-> Msg(ids[i], f, <<>>)] /\ Len(ids) \in Nat
      /\ \A i \in 1 .. Len(ids) : ids[i] \in {"FAIL", "OKAY", "DONE"}
  BY DEF Answer
<1>2. \A i \in 1 .. Len(ids) : Msg(ids[i], f, <<>>) \in Messages
  BY <1>1, MessageIs
<1>3. sOut' \in Seq(Messages) /\ Len(sOut') = Len(ids)
  BY <1>1, <1>2
<1> QED
  BY <1>1, <1>3, MessageIs

\* The answers of one message.
LEMMA OneAnswer ==
  ASSUME NEW f \in Files, NEW id \in {"FAIL", "OKAY", "DONE"}, Answer(f, <<id>>)
  PROVE  sOut' \in Seq(Messages) /\ Len(sOut') = 1 /\ sOut'[1].id = id /\ sOut'[1].f = f
<1> DEFINE ids == <<id>>
<1>1. ids \in Seq({"FAIL", "OKAY", "DONE"}) /\ Len(ids) = 1 /\ ids[1] = id /\ Answer(f, ids)
  OBVIOUS
<1> HIDE DEF ids
<1> QED
  BY <1>1, AnswerIs

LEMMA NoAnswer ==
  ASSUME NEW f, Answer(f, <<>>) PROVE sOut' = <<>>
<1>1. sOut' = [i \in {} |-> Msg(<<>>[i], f, <<>>)]
  BY DEF Answer
<1> QED
  BY <1>1

LEMMA CannotCreateEffect ==
  ASSUME NEW f \in Files, NEW state, CannotCreate(f, state)
  PROVE  /\ remote' = [remote EXCEPT ![f] = Absent] /\ svc' = [state EXCEPT !.opened = FALSE]
         /\ sOut' \in Seq(Messages) /\ Len(sOut') \in {1, 2}
         /\ \A i \in 1 .. Len(sOut') : sOut'[i].id = "FAIL" /\ sOut'[i].f = f
<1>1. PICK n \in {1, 2} : Answer(f, [i \in 1 .. n |-> "FAIL"])
  BY DEF CannotCreate
<1> DEFINE ids == [i \in 1 .. n |-> "FAIL"]
<1>2. /\ ids \in Seq({"FAIL", "OKAY", "DONE"}) /\ Answer(f, ids)
      /\ Len(ids) = n /\ \A i \in 1 .. n : ids[i] = "FAIL"
  BY <1>1
<1> HIDE DEF ids
<1>3. /\ sOut' \in Seq(Messages) /\ Len(sOut') = Len(ids)
      /\ \A i \in 1 .. Len(ids) : sOut'[i].id = ids[i] /\ sOut'[i].f = f
  BY <1>2, AnswerIs
<1> QED
  BY <1>1, <1>2, <1>3 DEF CannotCreate

LEMMA DentsAre ==
  ASSUME SyncTypes, DoList, NEW f \in Files, Head(toDev).f = f
  PROVE  /\ sOut' \in Seq(Messages) /\ sOut' # <<>>
         /\ \A i \in 1 .. Len(sOut') : i < Len(sOut') => sOut'[i].id = "DENT"
         /\ sOut'[Len(sOut')].id = "DONE"
<1> DEFINE present == {g \in Files : remote[g] # Absent}
<1>1. PICK order \in SetToSeqs(present) :
        sOut' = [i \in DOMAIN order |-> Msg("DENT", order[i], <<>>)] \o <<Msg("DONE", f, <<>>)>>
  BY DEF DoList
<1>2. order \in [1 .. Cardinality(present) -> present]
  BY DEF SetToSeqs
<1> DEFINE n == Cardinality(present)
           a == [i \in 1 .. n |-> Msg("DENT", order[i], <<>>)]
           b == <<Msg("DONE", f, <<>>)>>
<1>3. n \in Nat
  <2>1. IsFiniteSet(present)
    BY SyncAssumption, FS_Subset
  <2> QED
    BY <2>1, FS_CardinalityType
<1>4. a \in Seq(Messages) /\ Len(a) = n /\ \A i \in 1 .. n : a[i].id = "DENT"
  <2>1. \A i \in 1 .. n : Msg("DENT", order[i], <<>>) \in Messages
                          /\ Msg("DENT", order[i], <<>>).id = "DENT"
    <3> TAKE i \in 1 .. n
    <3>1. order[i] \in Files
      BY <1>2
    <3> QED
      BY <3>1, MessageIs
  <2> QED
    BY <1>3, <2>1
<1>5. b \in Seq(Messages) /\ Len(b) = 1 /\ b[1].id = "DONE"
  <2>1. Msg("DONE", f, <<>>) \in Messages /\ Msg("DONE", f, <<>>).id = "DONE"
    BY MessageIs
  <2> QED
    BY <2>1
<1>6. sOut' = a \o b
  BY <1>1, <1>2
<1> HIDE DEF a, b, n
<1>7. /\ sOut' \in Seq(Messages) /\ Len(sOut') = n + 1
      /\ \A i \in 1 .. n : sOut'[i] = a[i]
      /\ sOut'[n + 1] = b[1]
  BY <1>4, <1>5, <1>6, JoinedOne
<1>8. \A i \in 1 .. n + 1 : i < n + 1 => i \in 1 .. n
  BY <1>3
<1> QED
  BY <1>3, <1>4, <1>5, <1>7, <1>8

LEMMA FileStatesAre ==
  /\ Absent \in FileStates /\ \A f \in Files : Whole(f) \in FileStates /\ Old(f) \in FileStates
  /\ \A s \in FileStates : s.v \in {"none", "part", "old", "host"} /\ s.blocks \in Seq(Nat)
  /\ \A b \in Seq(Nat) : [v |-> "host", blocks |-> b] \in FileStates
  /\ [v |-> "part", blocks |-> <<>>] \in FileStates
<1>1. \A f \in Files : [i \in 1 .. Size[f] |-> i] \in Seq(Nat)
  BY SyncAssumption
<1>2. \A f \in Files : [i \in 1 .. OldSize[f] |-> Size[f] + i] \in Seq(Nat)
  BY SyncAssumption
<1> QED
  BY <1>1, <1>2 DEF Absent, Whole, Old, FileStates

LEMMA WrittenIs ==
  ASSUME NEW s \in FileStates, NEW a \in Nat, NEW d \in Seq(Nat), a <= Len(s.blocks)
  PROVE  /\ Written(s, a, d) \in FileStates /\ Written(s, a, d).v = "part"
         /\ LET b == Written(s, a, d).blocks IN
            /\ Len(b) = IF a + Len(d) > Len(s.blocks) THEN a + Len(d) ELSE Len(s.blocks)
            /\ \A i \in 1 .. Len(b) :
                 b[i] = IF i \in (a + 1) .. (a + Len(d)) THEN d[i - a] ELSE s.blocks[i]
<1> DEFINE n == a + Len(d)
           m == IF n > Len(s.blocks) THEN n ELSE Len(s.blocks)
           c == [i \in 1 .. m |-> IF i \in (a + 1) .. n THEN d[i - a] ELSE s.blocks[i]]
<1>1. s.blocks \in Seq(Nat) /\ Len(s.blocks) \in Nat /\ Len(d) \in Nat
  BY DEF FileStates
<1>2. n \in Nat /\ m \in Nat
  BY <1>1
<1>3. ASSUME NEW i \in 1 .. m
      PROVE  (IF i \in (a + 1) .. n THEN d[i - a] ELSE s.blocks[i]) \in Nat
  <2>1. CASE i \in (a + 1) .. n
    <3>1. i - a \in 1 .. Len(d)
      BY <1>1, <2>1
    <3> QED
      BY <2>1, <3>1
  <2>2. CASE i \notin (a + 1) .. n
    <3>1. i \in 1 .. Len(s.blocks)
      BY <1>1, <1>2, <1>3, <2>2
    <3> QED
      BY <1>1, <2>2, <3>1
  <2> QED
    BY <2>1, <2>2
<1>4. /\ c \in Seq(Nat) /\ Len(c) = m
      /\ \A i \in 1 .. m : c[i] = IF i \in (a + 1) .. n THEN d[i - a] ELSE s.blocks[i]
  BY <1>2, <1>3
<1>5. Written(s, a, d) = [v |-> "part", blocks |-> c]
  BY DEF Written
<1> HIDE DEF c
<1>6. Written(s, a, d) \in FileStates
  BY <1>4, <1>5 DEF FileStates
<1> QED
  BY <1>4, <1>5, <1>6

\* One block is written.
LEMMA WrittenAt ==
  ASSUME NEW s \in FileStates, NEW a \in Nat, NEW d \in Seq(Nat), Len(d) = 1, a <= Len(s.blocks)
  PROVE  LET b == Written(s, a, d).blocks IN
         /\ Len(b) = IF a + 1 > Len(s.blocks) THEN a + 1 ELSE Len(s.blocks)
         /\ \A i \in 1 .. Len(b) : b[i] = IF i = a + 1 THEN d[1] ELSE s.blocks[i]
<1> DEFINE b == Written(s, a, d).blocks
<1>1. Len(s.blocks) \in Nat /\ Len(d) \in Nat
  BY DEF FileStates
<1>2. /\ Len(b) = IF a + Len(d) > Len(s.blocks) THEN a + Len(d) ELSE Len(s.blocks)
      /\ \A i \in 1 .. Len(b) :
           b[i] = IF i \in (a + 1) .. (a + Len(d)) THEN d[i - a] ELSE s.blocks[i]
  BY WrittenIs
<1> HIDE DEF b
<1>3. Len(b) = (IF a + 1 > Len(s.blocks) THEN a + 1 ELSE Len(s.blocks)) /\ Len(b) \in Nat
  BY <1>1, <1>2
<1>4. ASSUME NEW i \in 1 .. Len(b)
      PROVE  b[i] = IF i = a + 1 THEN d[1] ELSE s.blocks[i]
  <2>1. CASE i = a + 1
    <3>1. i \in (a + 1) .. (a + Len(d)) /\ i - a = 1
      BY <2>1
    <3> QED
      BY <1>2, <2>1, <3>1
  <2>2. CASE i # a + 1
    <3>1. i \notin (a + 1) .. (a + Len(d))
      BY <1>3, <2>2
    <3> QED
      BY <1>2, <2>2, <3>1
  <2> QED
    BY <2>1, <2>2
<1> QED
  BY <1>3, <1>4 DEF b

LEMMA RemoteFiles ==
  ASSUME SyncTypes, NEW f \in Files, NEW s \in FileStates
  PROVE  /\ [remote EXCEPT ![f] = s] \in [Files -> FileStates]
         /\ [local EXCEPT ![f] = s] \in [Files -> FileStates]
  BY DEF SyncTypes

\* What a step of the service may be, seen by the client; its types follow.
LEMMA ServiceTypes ==
  ASSUME SyncTypes, SvcStep, copyVars' = copyVars
  PROVE  SyncTypes'
<1> DEFINE Rest0 == /\ svc' \in [pc : {"command", "data", "linkData", "linkDone", "recv", "ended"},
                                 file : Files, opened : BOOLEAN, at : Nat]
                    /\ remote' \in [Files -> FileStates] /\ toDev' \in Seq(Messages)
                    /\ toHost' \in Seq(Messages) /\ sOut' \in Seq(Messages)
                    /\ link' = link /\ clientOpen' = clientOpen
                    /\ stuck' \subseteq Files /\ PlaceOK'
<1>1. /\ svc \in [pc : {"command", "data", "linkData", "linkDone", "recv", "ended"},
                  file : Files, opened : BOOLEAN, at : Nat]
      /\ remote \in [Files -> FileStates] /\ toDev \in Seq(Messages)
      /\ toHost \in Seq(Messages) /\ sOut \in Seq(Messages) /\ <<>> \in Seq(Messages)
      /\ stuck \subseteq Files /\ PlaceOK
  BY DEF SyncTypes, SvcTypes, StreamTypes
<1>2. /\ Ended \in [pc : {"ended"}, file : {svc.file}, opened : BOOLEAN, at : Nat]
      /\ Ready \in [pc : {"command"}, file : {svc.file}, opened : BOOLEAN, at : Nat]
      /\ svc.file \in Files
  BY <1>1 DEF Ended, Ready
<1>3. ASSUME NEW id, Reads(id)
      PROVE  /\ toDev' \in Seq(Messages) /\ toHost' = toHost /\ link' = link
             /\ clientOpen' = clientOpen /\ Head(toDev) \in Messages /\ Head(toDev).f \in Files
             /\ Head(toDev).id = id
  <2>1. Head(toDev) \in Messages /\ Tail(toDev) \in Seq(Messages)
    BY <1>1, <1>3, TailIs DEF Reads
  <2> QED
    BY <1>1, <1>3, <2>1 DEF Reads, Messages
<1>17. /\ svc'.pc # "data" \/ ~ svc'.opened => PlaceOK'
       /\ svc' = svc /\ remote' = remote => PlaceOK'
  BY <1>1 DEF PlaceOK
<1>18. Ended.pc # "data" /\ Ready.pc # "data"
  BY <1>2
<1>4. ASSUME SvcWrite PROVE Rest0
  <2>1. sOut # <<>> /\ remote' = remote /\ stuck' = stuck /\ toDev' = toDev /\ link' = link
        /\ clientOpen' = clientOpen
    BY <1>4 DEF SvcWrite
  <2>2. Head(sOut) \in Messages /\ Tail(sOut) \in Seq(Messages)
    BY <1>1, <2>1, TailIs
  <2>3. Append(toHost, Head(sOut)) \in Seq(Messages)
    BY <1>1, <2>2, AppendIs
  <2> QED
    BY <1>1, <1>2, <1>4, <1>17, <1>18, <2>1, <2>2, <2>3 DEF SvcWrite
<1>5. ASSUME DoStat PROVE Rest0
  <2> DEFINE f == Head(toDev).f
  <2>1. Reads("STAT") /\ sOut' = <<Msg("STAT", f, remote[f])>> /\ svc' = svc /\ remote' = remote
        /\ stuck' = stuck
    BY <1>5 DEF DoStat
  <2>2. f \in Files /\ remote[f] \in FileStates
    BY <1>1, <1>3, <2>1
  <2>3. Msg("STAT", f, remote[f]) \in Messages
    BY <2>2, MessageIs
  <2> QED
    BY <1>1, <1>3, <1>17, <2>1, <2>3
<1>6. ASSUME DoList PROVE Rest0
  <2>1. Reads("LIST") /\ svc' = svc /\ remote' = remote /\ stuck' = stuck
    BY <1>6 DEF DoList
  <2> QED
    BY <1>1, <1>3, <1>6, <1>17, <2>1, DentsAre
<1>7. ASSUME DoSend PROVE Rest0
  <2> DEFINE f == Head(toDev).f
             state == [svc EXCEPT !.file = f, !.at = 0, !.opened = TRUE, !.pc = "data"]
             linked == [state EXCEPT !.pc = "linkData", !.opened = FALSE]
             closed == [state EXCEPT !.opened = FALSE]
             pcs == {"command", "data", "linkData", "linkDone", "recv", "ended"}
  <2>1. Reads("SEND")
    BY <1>7 DEF DoSend
  <2>2. f \in Files
    BY <1>3, <2>1
  <2> DEFINE begun == [pc : {"data", "linkData"}, file : {f}, opened : BOOLEAN, at : {0}]
  <2>3. state \in begun /\ linked \in begun /\ closed \in begun
    BY <1>1, <2>2
  <2>4. /\ [remote EXCEPT ![f] = Absent] \in [Files -> FileStates]
        /\ [remote EXCEPT ![f] = [v |-> "part", blocks |-> <<>>]] \in [Files -> FileStates]
    BY <2>2, FileStatesAre, RemoteFiles
  <2>5. \/ linked = svc' /\ sOut' = <<>> /\ Unlink(f)
        \/ Created(f, state) \/ CannotCreate(f, state) \/ Reopened(f, state)
    BY <1>7 DEF DoSend
  <2>6. svc' \in {linked, state, closed} /\ sOut' \in Seq(Messages)
    <3>1. Answer(f, <<"FAIL">>) => sOut' \in Seq(Messages)
      BY <2>2, OneAnswer
    <3>2. CannotCreate(f, state) => svc' = closed /\ sOut' \in Seq(Messages)
      BY <2>2, CannotCreateEffect, Zenon
    <3> HIDE DEF state, linked
    <3> QED
      BY <1>1, <2>5, <3>1, <3>2 DEF Created, Reopened
  <2>7. /\ \/ remote' = [remote EXCEPT ![f] = Absent] \/ remote' = remote
           \/ remote' = [remote EXCEPT ![f] = [v |-> "part", blocks |-> <<>>]]
        /\ stuck' = stuck \/ stuck' = stuck \cup {f}
    <3> HIDE DEF state, linked
    <3> QED
      BY <2>5 DEF Created, CannotCreate, Reopened, Unlink, UnlinkFails
  <2>8. remote' \in [Files -> FileStates] /\ stuck' \subseteq Files
    BY <1>1, <2>2, <2>4, <2>7
  <2>9. svc' \in begun
    <3> HIDE DEF linked, state, closed, begun
    <3> QED
      BY <2>3, <2>6
  <2>10. /\ svc' \in [pc : pcs, file : Files, opened : BOOLEAN, at : Nat]
         /\ svc'.file = f /\ svc'.at = 0
    BY <2>2, <2>9
  <2>11. PlaceOK'
    <3>1. Len(remote'[f].blocks) \in Nat
      BY <2>2, <2>8, FileStatesAre
    <3> QED
      BY <2>10, <3>1 DEF PlaceOK
  <2> HIDE DEF linked, state, closed, begun
  <2> QED
    BY <1>1, <1>3, <2>1, <2>6, <2>8, <2>10, <2>11
<1>8. ASSUME SendData PROVE Rest0
  <2> DEFINE f == svc.file
             data == Head(toDev).data
  <2>1. Reads("DATA") /\ svc.pc = "data"
    BY <1>8 DEF SendData
  <2>2. data \in Seq(Nat) /\ remote[f] \in FileStates /\ f \in Files
    BY <1>1, <1>2, <1>3, <2>1, DataIs
  <2>3. [remote EXCEPT ![f] = Absent] \in [Files -> FileStates]
    BY <2>2, FileStatesAre, RemoteFiles
  <2>4. [remote EXCEPT ![f].v = "part"] \in [Files -> FileStates]
    <3>1. [remote[f] EXCEPT !.v = "part"] \in FileStates
      BY <2>2, ZenonT(60) DEF FileStates
    <3> QED
      BY <1>1, <2>2, <3>1
  <2>5. /\ [svc EXCEPT !.opened = FALSE]
             \in [pc : {"command", "data", "linkData", "linkDone", "recv", "ended"},
                  file : Files, opened : BOOLEAN, at : Nat]
        /\ ~ [svc EXCEPT !.opened = FALSE].opened
    BY <1>1
  <2>6. CASE /\ remote' = [remote EXCEPT ![f] = Written(@, svc.at, data)] /\ svc.opened
             /\ stuck' = stuck /\ svc' = [svc EXCEPT !.at = @ + Len(data)] /\ sOut' = <<>>
    <3>1. svc.at <= Len(remote[f].blocks) /\ svc.at \in Nat /\ Len(data) \in Nat
      BY <1>1, <2>1, <2>2, <2>6 DEF PlaceOK
    <3>2. /\ Written(remote[f], svc.at, data) \in FileStates
          /\ Len(Written(remote[f], svc.at, data).blocks)
               = IF svc.at + Len(data) > Len(remote[f].blocks)
                   THEN svc.at + Len(data) ELSE Len(remote[f].blocks)
      <4>1. PICK s \in FileStates : s = remote[f]
        BY <2>2
      <4>2. PICK a \in Nat : a = svc.at
        BY <3>1
      <4>3. PICK d \in Seq(Nat) : d = data
        BY <2>2
      <4>4. a <= Len(s.blocks)
        BY <3>1, <4>1, <4>2
      <4>5. /\ Written(s, a, d) \in FileStates
            /\ Len(Written(s, a, d).blocks)
                 = IF a + Len(d) > Len(s.blocks) THEN a + Len(d) ELSE Len(s.blocks)
        BY <4>4, WrittenIs
      <4> QED
        BY <4>1, <4>2, <4>3, <4>5
    <3>3. remote' = [remote EXCEPT ![f] = Written(remote[f], svc.at, data)]
      BY <2>6
    <3>4. remote' \in [Files -> FileStates] /\ remote'[f] = Written(remote[f], svc.at, data)
      BY <1>1, <2>2, <3>2, <3>3
    <3>5. Len(remote[f].blocks) \in Nat
      BY <2>2, FileStatesAre
    <3>6. svc.at + Len(data) <= Len(remote'[f].blocks)
      BY <3>1, <3>2, <3>4, <3>5
    <3>7. /\ svc' \in [pc : {"command", "data", "linkData", "linkDone", "recv", "ended"},
                       file : Files, opened : BOOLEAN, at : Nat]
          /\ svc'.at = svc.at + Len(data) /\ svc'.file = f
      <4>1. PICK n \in Nat : n = svc.at + Len(data)
        BY <3>1
      <4>2. svc' = [svc EXCEPT !.at = n]
        BY <2>6, <4>1
      <4> QED
        BY <1>1, <4>1, <4>2
    <3>8. PlaceOK'
      BY <3>6, <3>7 DEF PlaceOK
    <3> QED
      BY <1>1, <1>3, <2>1, <2>6, <3>4, <3>7, <3>8
  <2>7. CASE svc' = svc /\ remote' = remote /\ stuck' = stuck /\ sOut' = <<>>
    BY <1>1, <1>3, <1>17, <2>1, <2>7
  <2>8. CASE /\ svc' = [svc EXCEPT !.opened = FALSE] /\ Answer(f, <<"FAIL">>)
             /\ \/ remote' = [remote EXCEPT ![f] = Absent] /\ stuck' = stuck
                \/ remote' = [remote EXCEPT ![f].v = "part"] /\ stuck' = stuck \cup {f}
    <3>1. sOut' \in Seq(Messages)
      BY <2>2, <2>8, OneAnswer
    <3> QED
      BY <1>1, <1>3, <1>17, <2>1, <2>2, <2>3, <2>4, <2>5, <2>8, <3>1
  <2> QED
    BY <1>8, <2>6, <2>7, <2>8 DEF SendData
<1>9. ASSUME SendDone PROVE Rest0
  <2> DEFINE f == svc.file
  <2>1. /\ Reads("DONE") /\ svc' = Ready /\ stuck' = stuck
        /\ remote' = IF svc.opened THEN [remote EXCEPT ![f].v = "host"] ELSE remote
        /\ svc.opened => Answer(f, <<"OKAY">>)
        /\ ~ svc.opened => Answer(f, <<>>)
    BY <1>9, Zenon DEF SendDone
  <2>2. sOut' \in Seq(Messages)
    <3>1. CASE svc.opened
      <4>1. Answer(f, <<"OKAY">>) /\ f \in Files
        BY <1>2, <2>1, <3>1
      <4> QED
        BY <4>1, OneAnswer
    <3>2. CASE ~ svc.opened
      <4>1. sOut' = <<>>
        BY <2>1, <3>2, NoAnswer
      <4> QED
        BY <1>1, <4>1
    <3> QED
      BY <3>1, <3>2
  <2>3. [remote EXCEPT ![f].v = "host"] \in [Files -> FileStates]
    <3>1. [remote[f] EXCEPT !.v = "host"] \in FileStates
      BY <1>1, <1>2, ZenonT(60) DEF FileStates
    <3> QED
      BY <1>1, <1>2, <3>1
  <2> QED
    BY <1>1, <1>2, <1>3, <1>17, <1>18, <2>1, <2>2, <2>3
<1>10. ASSUME LinkData PROVE Rest0
  <2> DEFINE f == svc.file
  <2>1. CASE /\ Reads("DATA") /\ svc' = [svc EXCEPT !.pc = "linkDone"]
             /\ remote' = [remote EXCEPT ![f] = [v |-> "host", blocks |-> Head(toDev).data]]
             /\ sOut' = <<>> /\ stuck' = stuck
    <3>1. [v |-> "host", blocks |-> Head(toDev).data] \in FileStates
      BY <1>3, <2>1, DataIs, FileStatesAre
    <3>2. remote' \in [Files -> FileStates]
      BY <1>2, <2>1, <3>1, RemoteFiles
    <3>3. svc' \in [pc : {"linkDone"}, file : Files, opened : BOOLEAN, at : Nat]
      BY <1>1, <2>1
    <3> QED
      BY <1>1, <1>3, <1>17, <2>1, <3>2, <3>3
  <2>2. CASE /\ Reads("DATA") \/ Reads("DONE")
             /\ svc' = Ended /\ Answer(f, <<"FAIL">>) /\ remote' = remote /\ stuck' = stuck
    BY <1>1, <1>2, <1>3, <1>17, <1>18, <2>2, OneAnswer
  <2> QED
    BY <1>10, <2>1, <2>2 DEF LinkData
<1>11. ASSUME LinkDone PROVE Rest0
  BY <1>1, <1>2, <1>3, <1>11, <1>17, <1>18, OneAnswer DEF LinkDone
<1>12. ASSUME DoRecv PROVE Rest0
  <2> DEFINE f == Head(toDev).f
  <2>1. Reads("RECV") /\ remote' = remote /\ stuck' = stuck
    BY <1>12 DEF DoRecv
  <2>2. f \in Files
    BY <1>3, <2>1
  <2>3. [svc EXCEPT !.pc = "recv", !.file = f, !.at = 0, !.opened = TRUE]
          \in [pc : {"recv"}, file : Files, opened : BOOLEAN, at : Nat]
    BY <1>1, <2>2
  <2>4. CASE /\ svc' = [svc EXCEPT !.pc = "recv", !.file = f, !.at = 0, !.opened = TRUE]
             /\ sOut' = <<>>
    BY <1>1, <1>3, <1>17, <2>1, <2>3, <2>4
  <2>5. CASE svc' = svc /\ Answer(f, <<"FAIL">>)
    BY <1>1, <1>3, <1>17, <2>1, <2>2, <2>5, OneAnswer
  <2> QED
    BY <1>12, <2>4, <2>5 DEF DoRecv
<1>13. ASSUME RecvBlock PROVE Rest0
  <2> DEFINE f == svc.file
             blocks == remote[f].blocks
  <2>1. remote' = remote /\ stuck' = stuck /\ toDev' = toDev /\ toHost' = toHost /\ link' = link
        /\ clientOpen' = clientOpen /\ svc.pc = "recv"
    BY <1>13 DEF RecvBlock
  <2>2. blocks \in Seq(Nat) /\ f \in Files
    BY <1>1, <1>2, FileStatesAre
  <2>3. CASE /\ svc.at < Len(blocks) /\ svc' = [svc EXCEPT !.at = @ + 1]
             /\ sOut' = <<Msg("DATA", f, <<blocks[svc.at + 1]>>)>>
    <3>1. <<blocks[svc.at + 1]>> \in Seq(Nat)
      <4>1. svc.at + 1 \in 1 .. Len(blocks)
        BY <1>1, <2>2, <2>3
      <4>2. blocks[svc.at + 1] \in Nat
        BY <2>2, <4>1
      <4> QED
        BY <4>2
    <3>2. Msg("DATA", f, <<blocks[svc.at + 1]>>) \in Messages
      BY <2>2, <3>1, MessageIs
    <3>3. svc' \in [pc : {"command", "data", "linkData", "linkDone", "recv", "ended"},
                    file : Files, opened : BOOLEAN, at : Nat]
      <4>1. svc' = [svc EXCEPT !.at = svc.at + 1] /\ svc.at + 1 \in Nat
        BY <1>1, <2>3
      <4> QED
        BY <1>1, <4>1
    <3>4. PlaceOK'
      <4>1. svc'.pc = "recv"
        BY <1>1, <2>1, <2>3
      <4> QED
        BY <1>17, <4>1
    <3> QED
      BY <1>1, <2>1, <2>3, <3>2, <3>3, <3>4
  <2>4. CASE svc' = Ready /\ Answer(f, <<"DONE">>)
    BY <1>1, <1>2, <1>17, <1>18, <2>1, <2>4, OneAnswer
  <2>5. CASE svc' = Ready /\ Answer(f, <<"FAIL">>)
    BY <1>1, <1>2, <1>17, <1>18, <2>1, <2>5, OneAnswer
  <2> QED
    BY <1>13, <2>3, <2>4, <2>5 DEF RecvBlock
<1>14. ASSUME Quit PROVE Rest0
  BY <1>1, <1>2, <1>3, <1>14, <1>17, <1>18 DEF Quit
<1>15. ASSUME HangUp PROVE Rest0
  <2>1. [remote EXCEPT ![svc.file] = Absent] \in [Files -> FileStates]
    BY <1>2, FileStatesAre, RemoteFiles
  <2>2. /\ remote' \in {remote, [remote EXCEPT ![svc.file] = Absent]}
        /\ stuck' \in {stuck, stuck \cup {svc.file}}
    BY <1>15 DEF HangUp, Unlink, UnlinkFails
  <2>3. remote' \in [Files -> FileStates] /\ stuck' \subseteq Files
    BY <1>1, <1>2, <2>1, <2>2
  <2> QED
    BY <1>1, <1>2, <1>15, <1>17, <1>18, <2>3 DEF HangUp
<1>16. Rest0
  BY <1>4, <1>5, <1>6, <1>7, <1>8, <1>9, <1>10, <1>11, <1>12, <1>13, <1>14, <1>15 DEF SvcStep
<1> QED
  BY <1>16 DEF SyncTypes, SvcTypes, ClientTypes, StreamTypes, copyVars

LEMMA CutTyped ==
  ASSUME NEW S, NEW s \in Seq(S), NEW a \in 1 .. Len(s) + 1, NEW k \in 0 .. Len(s)
  PROVE  /\ SubSeq(s, a, k) \in Seq(S)
  OBVIOUS

LEMMA RequestsAre ==
  ASSUME SyncTypes, NEW id \in {"STAT", "RECV"}, NEW fs \in Seq(Files)
  PROVE  /\ RequestsOf(id, fs) \in Seq(Messages) /\ Len(RequestsOf(id, fs)) = Len(fs)
         /\ \A i \in 1 .. Len(fs) : RequestsOf(id, fs)[i].id = id /\ RequestsOf(id, fs)[i].f = fs[i]
<1>1. /\ Len(fs) \in Nat /\ \A i \in 1 .. Len(fs) : fs[i] \in Files
      /\ RequestsOf(id, fs) = [i \in 1 .. Len(fs) |-> Msg(id, fs[i], <<>>)]
  BY DEF RequestsOf
<1>2. \A i \in 1 .. Len(fs) : /\ Msg(id, fs[i], <<>>) \in Messages
                               /\ Msg(id, fs[i], <<>>).id = id /\ Msg(id, fs[i], <<>>).f = fs[i]
  BY <1>1, MessageIs
<1> QED
  BY <1>1, <1>2

\* One message of the client.
LEMMA OneMessage ==
  ASSUME NEW m \in Messages PROVE <<m>> \in Seq(Messages) /\ Len(<<m>>) = 1 /\ <<m>>[1] = m
  OBVIOUS

LEMMA ClientTypesKept ==
  ASSUME SyncTypes, PhaseOK, CopyStep
  PROVE  SyncTypes'
<1> DEFINE Types0 ==
             /\ client' \in [pc : {"start", "mode", "stats", "dents", "next", "file", "status",
                                   "first", "data", "quit", "exited"},
                             todo : Seq(Files), same : SUBSET Files, at : Nat,
                             code : {-1, 0, 1}]
             /\ toDev' \in Seq(Messages) /\ toHost' \in Seq(Messages) /\ cOut' \in Seq(Messages)
             /\ local' \in [Files -> FileStates] /\ unread' \subseteq Files
             /\ clientOpen' \in BOOLEAN
             /\ svc' = svc /\ sOut' = sOut /\ remote' = remote
             /\ stuck' = stuck /\ link' = link /\ job' = job
           Pcs == {"start", "mode", "stats", "dents", "next", "file", "status",
                   "first", "data", "quit", "exited"}
<1>1. /\ client \in [pc : {"start", "mode", "stats", "dents", "next", "file", "status",
                           "first", "data", "quit", "exited"},
                     todo : Seq(Files), same : SUBSET Files, at : Nat, code : {-1, 0, 1}]
      /\ toDev \in Seq(Messages) /\ toHost \in Seq(Messages) /\ cOut \in Seq(Messages)
      /\ local \in [Files -> FileStates] /\ unread \subseteq Files /\ clientOpen \in BOOLEAN
      /\ <<>> \in Seq(Messages)
  BY DEF SyncTypes, ClientTypes, StreamTypes
<1>2. ASSUME NEW code \in {0, 1}, Exit(code)
      PROVE  /\ client' \in [pc : {"exited"}, todo : Seq(Files), same : SUBSET Files, at : Nat,
                             code : {-1, 0, 1}]
             /\ cOut' \in Seq(Messages) /\ clientOpen' \in BOOLEAN
  BY <1>1, <1>2 DEF Exit
<1>3. ASSUME NEW pc \in Pcs
      PROVE  Go(pc) \in [pc : Pcs, todo : Seq(Files), same : SUBSET Files, at : Nat,
                         code : {-1, 0, 1}]
  BY <1>1 DEF Go
<1>4. ASSUME Stays
      PROVE  /\ toDev' = toDev /\ toHost' = toHost
             /\ svc' = svc /\ sOut' = sOut /\ remote' = remote
             /\ stuck' = stuck /\ link' = link /\ job' = job
  BY <1>4 DEF Stays, svcVars
<1>5. ASSUME NEW pc, Receives(pc)
      PROVE  /\ toDev' = toDev /\ toHost' \in Seq(Messages) /\ Answered \in Messages
             /\ svc' = svc /\ sOut' = sOut /\ remote' = remote
             /\ stuck' = stuck /\ link' = link /\ job' = job
             /\ Answered.f \in Files
  <2>1. Head(toHost) \in Messages /\ Tail(toHost) \in Seq(Messages)
    BY <1>1, <1>5, TailIs DEF Receives
  <2> QED
    BY <1>5, <2>1 DEF Receives, svcVars, Answered, Messages
<1>6. Anyfile \in Files
  BY SyncAssumption DEF Anyfile
<1>7. ASSUME client.todo # <<>> PROVE Cur \in Files /\ Tail(client.todo) \in Seq(Files)
  BY <1>1, <1>7, TailIs DEF Cur
<1>8. ASSUME NEW state \in [pc : Pcs, todo : Seq(Files), same : SUBSET Files, at : Nat,
                            code : {-1, 0, 1}],
             NEW words \in Seq(Messages), Continue(state, words)
      PROVE  client' \in [pc : Pcs, todo : Seq(Files), same : SUBSET Files, at : Nat,
                          code : {-1, 0, 1}]
             /\ cOut' \in Seq(Messages) /\ clientOpen' \in BOOLEAN
  BY <1>1, <1>8 DEF Continue
<1>9. ASSUME client.todo # <<>>
      PROVE  [Go("next") EXCEPT !.todo = Tail(@)]
               \in [pc : Pcs, todo : Seq(Files), same : SUBSET Files, at : Nat, code : {-1, 0, 1}]
  BY <1>1, <1>7, <1>9 DEF Go
<1>10. ASSUME Start PROVE Types0
  <2>1. Stays /\ local' = local /\ unread' = unread
    BY <1>10 DEF Start
  <2>2. RequestsOf("STAT", client.todo) \in Seq(Messages)
    BY <1>1, RequestsAre
  <2>3. ListRequest \in Seq(Messages)
    BY <1>6, MessageIs DEF ListRequest
  <2>4. CASE Exit(1)
    BY <1>1, <1>2, <1>4, <2>1, <2>4
  <2>5. CASE \/ Continue(Go("mode"), RequestsOf("STAT", client.todo))
             \/ Continue(Go("next"), <<>>)
             \/ Continue(Go("stats"), RequestsOf("STAT", client.todo))
             \/ Continue(Go("dents"), ListRequest)
    <3>1. /\ client' \in [pc : Pcs, todo : Seq(Files), same : SUBSET Files, at : Nat,
                          code : {-1, 0, 1}]
          /\ cOut' \in Seq(Messages) /\ clientOpen' \in BOOLEAN
      BY <1>1, <1>3, <1>8, <2>2, <2>3, <2>5
    <3> QED
      BY <1>1, <1>4, <2>1, <3>1
  <2>6. Exit(1) \/ Continue(Go("mode"), RequestsOf("STAT", client.todo))
        \/ Continue(Go("next"), <<>>) \/ Continue(Go("stats"), RequestsOf("STAT", client.todo))
        \/ Continue(Go("dents"), ListRequest)
    <3>1. job.op \in Pushes \cup {"pull", "pulldir"}
      BY DEF SyncTypes
    <3> QED
      BY <1>10, <3>1 DEF Start, Pushes
  <2> QED
    BY <2>4, <2>5, <2>6
<1>11. ASSUME CWrite PROVE Types0
  <2>1. /\ cOut # <<>> /\ svc' = svc /\ sOut' = sOut /\ remote' = remote
        /\ stuck' = stuck /\ link' = link
        /\ job' = job /\ toHost' = toHost /\ local' = local /\ unread' = unread
    BY <1>11 DEF CWrite, svcVars
  <2>2. Head(cOut) \in Messages /\ Tail(cOut) \in Seq(Messages)
    BY <1>1, <2>1, TailIs
  <2>3. Append(toDev, Head(cOut)) \in Seq(Messages)
    BY <1>1, <2>2, AppendIs
  <2>4. CASE toDev' = Append(toDev, Head(cOut)) /\ cOut' = Tail(cOut) /\ client' = client
             /\ clientOpen' = clientOpen
    BY <1>1, <2>1, <2>2, <2>3, <2>4
  <2>5. CASE (Exit(0) \/ Exit(1)) /\ toDev' = toDev
    BY <1>1, <1>2, <2>1, <2>5
  <2> QED
    BY <1>11, <2>4, <2>5 DEF CWrite
<1>12. ASSUME ReadMode PROVE Types0
  BY <1>1, <1>3, <1>5, <1>8, <1>12 DEF ReadMode
<1>13. ASSUME ReadTime PROVE Types0
  <2>1. Receives("mode") /\ local' = local /\ unread' = unread
        /\ (Exit(1) \/ Continue(Go("next"), <<>>))
    BY <1>13 DEF ReadTime
  <2> QED
    BY <1>1, <1>2, <1>3, <1>5, <1>8, <2>1
<1>14. ASSUME FinishReadtime PROVE Types0
  <2>1. PICK f, same, state :
          /\ f = client.todo[client.at + 1]
          /\ same = IF Answered.data = Whole(f) THEN client.same \cup {f} ELSE client.same
          /\ state = [client EXCEPT !.at = @ + 1, !.same = same]
          /\ Receives("stats") /\ local' = local /\ unread' = unread
          /\ Continue(IF client.at + 1 = Len(client.todo) THEN [state EXCEPT !.pc = "next"]
                      ELSE state, <<>>)
    BY <1>14 DEF FinishReadtime
  <2>2. f \in Files
    <3>1. client.at + Len(Heard) <= Len(client.todo) /\ Heard # <<>>
      BY <2>1, ReceivesEffect DEF PhaseOK, StatOK
    <3>2. Len(Heard) \in Nat /\ Len(Heard) # 0
      BY <3>1, StreamsAre, EmptyIs
    <3>3. client.at + 1 \in 1 .. Len(client.todo)
      BY <1>1, <3>1, <3>2
    <3> QED
      BY <1>1, <2>1, <3>3
  <2>3. /\ state \in [pc : Pcs, todo : Seq(Files), same : SUBSET Files, at : Nat,
                      code : {-1, 0, 1}]
        /\ [state EXCEPT !.pc = "next"]
             \in [pc : Pcs, todo : Seq(Files), same : SUBSET Files, at : Nat,
                  code : {-1, 0, 1}]
    <3>1. same \subseteq Files
      BY <1>1, <2>1, <2>2
    <3>2. state = [client EXCEPT !.at = client.at + 1, !.same = same] /\ client.at + 1 \in Nat
      BY <1>1, <2>1
    <3> QED
      BY <1>1, <3>1, <3>2
  <2>4. /\ client' \in [pc : Pcs, todo : Seq(Files), same : SUBSET Files, at : Nat,
                        code : {-1, 0, 1}]
        /\ cOut' \in Seq(Messages) /\ clientOpen' \in BOOLEAN
    <3>1. CASE client.at + 1 = Len(client.todo)
      <4>1. Continue([state EXCEPT !.pc = "next"], <<>>)
        BY <2>1, <3>1
      <4> QED
        BY <1>1, <1>8, <2>3, <4>1
    <3>2. CASE client.at + 1 # Len(client.todo)
      <4>1. Continue(state, <<>>)
        BY <2>1, <3>2
      <4> QED
        BY <1>1, <1>8, <2>3, <4>1
    <3> QED
      BY <3>1, <3>2
  <2> QED
    BY <1>1, <1>5, <2>1, <2>4
<1>15. ASSUME ReadDent PROVE Types0
  <2>1. Receives("dents") /\ local' = local /\ unread' = unread
    BY <1>15 DEF ReadDent
  <2>2. <<Answered.f>> \o client.todo \in Seq(Files)
    <3>1. <<Answered.f>> \in Seq(Files)
      BY <1>5, <2>1
    <3> QED
      BY <1>1, <3>1, JoinedIs
  <2>3. [client EXCEPT !.todo = <<Answered.f>> \o @]
          \in [pc : Pcs, todo : Seq(Files), same : SUBSET Files, at : Nat, code : {-1, 0, 1}]
    BY <1>1, <2>2
  <2>4. CASE Answered.id = "DENT"
    BY <1>1, <1>5, <1>8, <1>15, <2>1, <2>3, <2>4 DEF ReadDent
  <2>5. CASE Answered.id # "DENT"
    BY <1>1, <1>3, <1>5, <1>8, <1>15, <2>1, <2>5 DEF ReadDent
  <2> QED
    BY <2>4, <2>5
<1>16. ASSUME NextFile PROVE Types0
  <2>1. Stays /\ local' = local /\ unread' = unread
    BY <1>16 DEF NextFile
  <2>2. CASE client.todo = <<>> /\ Continue(Quitting, <<Msg("QUIT", Anyfile, <<>>)>>)
    <3>1. Msg("QUIT", Anyfile, <<>>) \in Messages /\ Quitting = Go("quit")
      BY <1>6, MessageIs DEF Quitting
    <3> QED
      BY <1>1, <1>3, <1>4, <1>8, <2>1, <2>2, <3>1, OneMessage
  <2>3. CASE client.todo # <<>> /\ Continue([client EXCEPT !.todo = Tail(@)], <<>>)
    <3>1. [client EXCEPT !.todo = Tail(@)]
            \in [pc : Pcs, todo : Seq(Files), same : SUBSET Files, at : Nat, code : {-1, 0, 1}]
      BY <1>1, <1>7, <2>3
    <3> QED
      BY <1>1, <1>4, <1>8, <2>1, <2>3, <3>1
  <2>4. CASE /\ client.todo # <<>>
             /\ \/ Continue([Go("file") EXCEPT !.at = 0], <<Msg("SEND", Cur, <<>>)>>)
                \/ Continue(Go("first"), <<Msg("RECV", Cur, <<>>)>>)
    <3>1. Msg("SEND", Cur, <<>>) \in Messages /\ Msg("RECV", Cur, <<>>) \in Messages
      BY <1>7, <2>4, MessageIs
    <3>2. [Go("file") EXCEPT !.at = 0]
            \in [pc : Pcs, todo : Seq(Files), same : SUBSET Files, at : Nat, code : {-1, 0, 1}]
      BY <1>3
    <3>3. /\ client' \in [pc : Pcs, todo : Seq(Files), same : SUBSET Files, at : Nat,
                          code : {-1, 0, 1}]
          /\ cOut' \in Seq(Messages) /\ clientOpen' \in BOOLEAN
      BY <1>3, <1>8, <2>4, <3>1, <3>2, OneMessage
    <3> QED
      BY <1>1, <1>4, <2>1, <3>3
  <2> QED
    BY <1>16, <2>2, <2>3, <2>4 DEF NextFile
<1>17. ASSUME WriteFile PROVE Types0
  <2> DEFINE blocks == local[Cur].blocks
             k == IF Cur \in Links THEN Len(blocks) ELSE client.at + 1
  <2>1. Stays /\ local' = local /\ client.todo # <<>>
    BY <1>17 DEF WriteFile, PhaseOK, SendingOK
  <2>2. /\ blocks \in Seq(Nat) /\ Len(blocks) \in Nat /\ k \in Nat /\ client.at \in Nat
        /\ Cur \in Files
    BY <1>1, <1>7, <2>1, FileStatesAre
  <2>3. CASE /\ client.at < Len(blocks) /\ unread' = unread
             /\ Continue([client EXCEPT !.at = k],
                         <<Msg("DATA", Cur, SubSeq(blocks, client.at + 1, k))>>)
    <3>1. client.at + 1 \in 1 .. Len(blocks) + 1 /\ k \in 0 .. Len(blocks)
      BY <2>2, <2>3
    <3>2. SubSeq(blocks, client.at + 1, k) \in Seq(Nat)
      BY <2>2, <3>1, CutTyped
    <3>3. Msg("DATA", Cur, SubSeq(blocks, client.at + 1, k)) \in Messages
      BY <2>2, <3>2, DataMessage
    <3>4. [client EXCEPT !.at = k]
            \in [pc : Pcs, todo : Seq(Files), same : SUBSET Files, at : Nat, code : {-1, 0, 1}]
      BY <1>1, <2>2
    <3> QED
      BY <1>1, <1>4, <1>8, <2>1, <2>3, <3>3, <3>4, OneMessage
  <2>4. CASE /\ Continue(Go("status"), <<Msg("DONE", Cur, <<>>)>>)
             /\ unread' \in {unread, unread \cup {Cur}}
    <3>1. Msg("DONE", Cur, <<>>) \in Messages
      BY <2>2, MessageIs
    <3> QED
      BY <1>1, <1>3, <1>4, <1>8, <2>1, <2>2, <2>4, <3>1, OneMessage
  <2> QED
    BY <1>17, <2>3, <2>4 DEF WriteFile
<1>18. ASSUME ReadStatus PROVE Types0
  <2>1. Receives("status") /\ local' = local /\ unread' = unread
        /\ (Exit(1) \/ Continue([Go("next") EXCEPT !.todo = Tail(@)], <<>>))
    BY <1>18 DEF ReadStatus
  <2>2. client.todo # <<>>
    BY <2>1, ReceivesEffect DEF PhaseOK, SendingOK
  <2> QED
    BY <1>1, <1>2, <1>5, <1>8, <1>9, <2>1, <2>2
<1>19. ASSUME ReadData PROVE Types0
  <2> DEFINE before == IF client.pc = "first" THEN <<>> ELSE local[Cur].blocks
  <2>1. PICK pc \in {"first", "data"} : Receives(pc)
    BY <1>19 DEF ReadData
  <2>2. client.todo # <<>> /\ Cur \in Files
    BY <1>7, <2>1, ReceivesEffect DEF PhaseOK, ReceivingOK
  <2>3. before \in Seq(Nat)
    BY <1>1, <2>2, FileStatesAre
  <2>4. ASSUME Answered.id = "DATA"
        PROVE  [v |-> "host", blocks |-> before \o Answered.data] \in FileStates
    <3>1. Answered.data \in Seq(Nat)
      BY <1>5, <2>1, <2>4, DataIs
    <3> QED
      BY <2>3, <3>1, JoinedIs, FileStatesAre
  <2>5. [v |-> "host", blocks |-> before] \in FileStates /\ Absent \in FileStates
    BY <2>3, FileStatesAre
  <2> HIDE DEF before
  <2>6. local' \in [Files -> FileStates]
    <3>1. \/ /\ Answered.id = "DATA"
             /\ local' = [local EXCEPT ![Cur] = [v |-> "host", blocks |-> before \o Answered.data]]
          \/ local' = [local EXCEPT ![Cur] = [v |-> "host", blocks |-> before]]
          \/ local' = [local EXCEPT ![Cur] = Absent]
      BY <1>19 DEF ReadData, CannotCreateHere, before
    <3> QED
      BY <2>2, <2>4, <2>5, <3>1, RemoteFiles, ZenonT(60)
  <2>7. /\ unread' = unread
        /\ \/ Exit(1) \/ Continue(Go("data"), <<>>)
           \/ Continue([Go("next") EXCEPT !.todo = Tail(@)], <<>>)
    BY <1>19 DEF ReadData, CannotCreateHere, Received
  <2>8. /\ client' \in [pc : Pcs, todo : Seq(Files), same : SUBSET Files, at : Nat,
                        code : {-1, 0, 1}]
        /\ cOut' \in Seq(Messages) /\ clientOpen' \in BOOLEAN
    BY <1>1, <1>2, <1>3, <1>8, <1>9, <2>2, <2>7
  <2> QED
    BY <1>1, <1>5, <2>1, <2>6, <2>7, <2>8
<1>20. ASSUME Leave \/ Eof PROVE Types0
  <2>1. Stays /\ local' = local /\ unread' = unread /\ (Exit(0) \/ Exit(1))
    BY <1>20 DEF Leave, Eof
  <2> QED
    BY <1>1, <1>2, <1>4, <2>1
<1>21. Types0
  BY <1>10, <1>11, <1>12, <1>13, <1>14, <1>15, <1>16, <1>17, <1>18, <1>19, <1>20 DEF CopyStep
<1>22. PlaceOK'
  BY <1>21 DEF SyncTypes, PlaceOK
<1> QED
  BY <1>21, <1>22 DEF SyncTypes, SvcTypes, ClientTypes, StreamTypes

LEMMA BreakTypes ==
  ASSUME SyncTypes, LinkBreaks, copyVars' = copyVars
  PROVE  SyncTypes'
<1>1. toDev' \in Seq(Messages) /\ toHost' \in Seq(Messages) /\ link' = "broken"
  BY BreaksEffect
<1>2. svc' = svc /\ sOut' = sOut /\ remote' = remote /\ stuck' = stuck /\ clientOpen' = clientOpen
  BY DEF LinkBreaks, svcVars
<1>3. PlaceOK'
  BY <1>2 DEF SyncTypes, PlaceOK
<1> QED
  BY <1>1, <1>2, <1>3 DEF SyncTypes, SvcTypes, ClientTypes, StreamTypes, copyVars

-----------------------------------------------------------------------------
\* A file in part is the one that is being written.

LEMMA PartKept ==
  ASSUME SyncTypes, PartOpen, SvcStep
  PROVE  PartOpen'
<1>1. /\ svc \in [pc : {"command", "data", "linkData", "linkDone", "recv", "ended"},
                  file : Files, opened : BOOLEAN, at : Nat]
      /\ remote \in [Files -> FileStates] /\ toDev \in Seq(Messages)
  BY DEF SyncTypes, SvcTypes, StreamTypes
<1>2. /\ Ended = [svc EXCEPT !.pc = "ended", !.opened = FALSE]
      /\ Ready = [svc EXCEPT !.pc = "command", !.opened = FALSE]
  BY DEF Ended, Ready
<1>3. Absent.v = "none"
  BY DEF Absent
<1>4. ASSUME NEW id, Reads(id) PROVE Head(toDev).f \in Files /\ Head(toDev) \in Messages
  <2>1. Head(toDev) \in Messages
    BY <1>1, <1>4, TailIs DEF Reads
  <2> QED
    BY <2>1 DEF Messages
<1>5. CASE remote' = remote /\ stuck' = stuck /\ (svc' = svc \/ ~ (svc.pc = "data" /\ svc.opened))
  BY <1>1, <1>5 DEF PartOpen
<1>6. CASE SvcWrite
  <2>1. remote' = remote /\ stuck' = stuck /\ (svc' = svc \/ ~ (svc.pc = "data" /\ svc.opened))
    BY <1>6 DEF SvcWrite
  <2> QED
    BY <1>5, <2>1
<1>7. CASE DoStat \/ DoList \/ DoRecv \/ RecvBlock \/ Quit \/ LinkDone
  <2>1. remote' = remote /\ stuck' = stuck /\ svc.pc # "data"
    BY <1>7 DEF DoStat, DoList, DoRecv, RecvBlock, Quit, LinkDone
  <2> QED
    BY <1>5, <2>1
<1>8. CASE DoSend
  <2> DEFINE f == Head(toDev).f
             state == [svc EXCEPT !.file = f, !.at = 0, !.opened = TRUE, !.pc = "data"]
  <2>1. svc.pc = "command" /\ f \in Files
    BY <1>4, <1>8 DEF DoSend
  <2>2. \A g \in Files : remote[g].v = "part" => g \in stuck
    BY <2>1 DEF PartOpen
  <2>3. \/ remote' = [remote EXCEPT ![f] = Absent] /\ stuck' = stuck
        \/ remote' = remote /\ stuck' = stuck \cup {f}
        \/ /\ remote' = [remote EXCEPT ![f] = [v |-> "part", blocks |-> <<>>]] /\ svc' = state
           /\ stuck' = stuck
    <3> HIDE DEF state
    <3> QED
      BY <1>8 DEF DoSend, Created, CannotCreate, Reopened, Unlink, UnlinkFails, state
  <2>4. CASE remote' = [remote EXCEPT ![f] = Absent] /\ stuck' = stuck
    BY <1>1, <1>3, <2>1, <2>2, <2>4 DEF PartOpen
  <2>5. CASE remote' = remote /\ stuck' = stuck \cup {f}
    BY <2>2, <2>5 DEF PartOpen
  <2>6. CASE /\ remote' = [remote EXCEPT ![f] = [v |-> "part", blocks |-> <<>>]]
             /\ svc' = state /\ stuck' = stuck
    <3>1. svc'.pc = "data" /\ svc'.opened /\ svc'.file = f
      BY <1>1, <2>1, <2>6
    <3>2. \A g \in Files : g # f => remote'[g] = remote[g]
      BY <1>1, <2>6
    <3> QED
      BY <2>2, <2>6, <3>1, <3>2 DEF PartOpen
  <2> QED
    BY <2>3, <2>4, <2>5, <2>6
<1>9. CASE SendData
  <2> DEFINE f == svc.file
  <2>1. svc.pc = "data" /\ f \in Files
    BY <1>1, <1>9 DEF SendData
  <2>2. \A g \in Files : g # f => (remote[g].v = "part" => g \in stuck)
    BY <2>1 DEF PartOpen
  <2>3. CASE remote' = remote /\ stuck' = stuck /\ svc' = svc
    BY <1>5, <2>3
  <2>4. CASE /\ svc.opened /\ svc' = [svc EXCEPT !.at = @ + Len(Head(toDev).data)]
             /\ remote' = [remote EXCEPT ![f] = Written(@, svc.at, Head(toDev).data)]
             /\ stuck' = stuck
    <3>1. \A g \in Files : g # f => remote'[g] = remote[g]
      BY <1>1, <2>4
    <3>2. svc'.pc = "data" /\ svc'.opened /\ svc'.file = f
      BY <1>1, <2>1, <2>4
    <3> QED
      BY <2>2, <2>4, <3>1, <3>2 DEF PartOpen
  <2>5. CASE remote' = [remote EXCEPT ![f] = Absent] /\ stuck' = stuck
    BY <1>1, <1>3, <2>1, <2>2, <2>5 DEF PartOpen
  <2>6. CASE remote' = [remote EXCEPT ![f].v = "part"] /\ stuck' = stuck \cup {f}
    <3>1. \A g \in Files : g # f => remote'[g] = remote[g]
      BY <1>1, <2>6
    <3> QED
      BY <2>2, <2>6, <3>1 DEF PartOpen
  <2> QED
    BY <1>9, <2>3, <2>4, <2>5, <2>6 DEF SendData
<1>10. CASE SendDone
  <2> DEFINE f == svc.file
  <2>1. svc.pc = "data" /\ f \in Files
    BY <1>1, <1>10 DEF SendDone
  <2>2. \A g \in Files : g # f => (remote[g].v = "part" => g \in stuck)
    BY <2>1 DEF PartOpen
  <2>3. /\ remote' = IF svc.opened THEN [remote EXCEPT ![f].v = "host"] ELSE remote
        /\ stuck' = stuck
    BY <1>10, Zenon DEF SendDone
  <2>4. CASE svc.opened
    <3>1. remote' = [remote EXCEPT ![f] = [remote[f] EXCEPT !.v = "host"]]
      BY <2>3, <2>4
    <3>2. [remote[f] EXCEPT !.v = "host"].v = "host"
      BY <1>1, <2>1 DEF FileStates
    <3>3. \A g \in Files : remote'[g].v = "part" => g \in stuck
      BY <1>1, <2>1, <2>2, <3>1, <3>2
    <3> QED
      BY <2>3, <3>3 DEF PartOpen
  <2>5. CASE ~ svc.opened
    BY <1>5, <2>3, <2>5
  <2> QED
    BY <2>4, <2>5
<1>11. CASE LinkData
  <2> DEFINE f == svc.file
  <2>1. svc.pc = "linkData" /\ f \in Files
    BY <1>1, <1>11 DEF LinkData
  <2>2. \A g \in Files : remote[g].v = "part" => g \in stuck
    BY <2>1 DEF PartOpen
  <2>3. CASE remote' = remote /\ stuck' = stuck
    BY <2>2, <2>3 DEF PartOpen
  <2>4. CASE /\ remote' = [remote EXCEPT ![f] = [v |-> "host", blocks |-> Head(toDev).data]]
             /\ stuck' = stuck
    BY <1>1, <2>1, <2>2, <2>4 DEF PartOpen
  <2> QED
    BY <1>11, <2>3, <2>4 DEF LinkData
<1>12. CASE HangUp
  <2>1. CASE svc.pc = "data"
    <3>1. svc.file \in Files
      BY <1>1
    <3>2. \A g \in Files : g # svc.file => (remote[g].v = "part" => g \in stuck)
      BY <2>1 DEF PartOpen
    <3>3. \/ remote' = [remote EXCEPT ![svc.file] = Absent] /\ stuck' = stuck
          \/ remote' = remote /\ stuck' = stuck \cup {svc.file}
      BY <1>12, <2>1 DEF HangUp, Unlink, UnlinkFails
    <3> QED
      BY <1>1, <1>3, <3>1, <3>2, <3>3 DEF PartOpen
  <2>2. CASE svc.pc # "data"
    BY <1>5, <1>12, <2>2 DEF HangUp
  <2> QED
    BY <2>1, <2>2
<1> QED
  BY <1>6, <1>7, <1>8, <1>9, <1>10, <1>11, <1>12 DEF SvcStep

-----------------------------------------------------------------------------
\* Steps of the service.

LEMMA ServiceReads ==
  /\ DoStat => svc.pc = "command" /\ Reads("STAT")
  /\ DoList => svc.pc = "command" /\ Reads("LIST")
  /\ DoSend => svc.pc = "command" /\ Reads("SEND")
  /\ SendData => svc.pc = "data" /\ Reads("DATA")
  /\ SendDone => svc.pc = "data" /\ Reads("DONE")
  /\ LinkData => svc.pc = "linkData" /\ (Reads("DATA") \/ Reads("DONE"))
  /\ LinkDone => svc.pc = "linkDone" /\ Reads("DONE")
  /\ DoRecv => svc.pc = "command" /\ Reads("RECV")
  /\ RecvBlock => svc.pc = "recv" /\ sOut = <<>>
  /\ Quit => svc.pc = "command" /\ Reads("QUIT")
  /\ clientOpen /\ HangUp => link = "broken"
  BY DEF DoStat, DoList, DoSend, SendData, SendDone, LinkData, LinkDone, DoRecv, RecvBlock, Quit,
     HangUp, NothingComes, HostGone

LEMMA StuckGrows == SvcStep => stuck \subseteq stuck'
  BY DEF SvcStep, SvcWrite, DoStat, DoList, DoSend, Created, CannotCreate, Reopened, Unlink,
         UnlinkFails, SendData, SendDone, LinkData, LinkDone, DoRecv, RecvBlock, Quit, HangUp

LEMMA AsksOnlyIs ==
  ASSUME NEW s \in Seq(Messages), s # <<>>, AsksOnly(s)
  PROVE  AsksOnly(Tail(s)) /\ Head(s).id \in {"STAT", "LIST", "RECV", "QUIT"}
<1>1. /\ Len(s) \in Nat /\ Len(s) >= 1 /\ Head(s) = s[1]
      /\ Tail(s) \in Seq(Messages) /\ Len(Tail(s)) = Len(s) - 1
      /\ \A i \in 1 .. Len(s) - 1 : Tail(s)[i] = s[i + 1]
  BY TailIs
<1> QED
  BY <1>1 DEF AsksOnly

LEMMA HarmlessService ==
  ASSUME SyncTypes, Harmless, SvcStep, cOut' = cOut
  PROVE  Harmless' /\ remote' = remote /\ stuck' = stuck
<1>1. /\ svc \in [pc : {"command", "data", "linkData", "linkDone", "recv", "ended"},
                  file : Files, opened : BOOLEAN, at : Nat]
      /\ toDev \in Seq(Messages) /\ svc.pc \in {"command", "recv", "ended"}
      /\ AsksOnly(toDev) /\ AsksOnly(cOut)
  BY DEF SyncTypes, SvcTypes, StreamTypes, Harmless
<1>2. /\ Ended = [svc EXCEPT !.pc = "ended", !.opened = FALSE]
      /\ Ready = [svc EXCEPT !.pc = "command", !.opened = FALSE]
  BY DEF Ended, Ready
<1>3. ASSUME NEW id, Reads(id)
      PROVE  /\ toDev' = Tail(toDev) /\ id \in {"STAT", "LIST", "RECV", "QUIT"}
             /\ AsksOnly(Tail(toDev))
  BY <1>1, <1>3, AsksOnlyIs DEF Reads
<1>4. CASE DoStat \/ DoList \/ DoRecv \/ Quit
  <2>1. PICK id : Reads(id)
    BY <1>4, ServiceReads
  <2>2. remote' = remote /\ stuck' = stuck /\ svc'.pc \in {"command", "recv", "ended"}
    BY <1>1, <1>2, <1>4 DEF DoStat, DoList, DoRecv, Quit
  <2> QED
    BY <1>1, <1>3, <2>1, <2>2 DEF Harmless, AsksOnly
<1>5. CASE SvcWrite \/ RecvBlock \/ HangUp
  <2>1. toDev' = toDev
    BY <1>5 DEF SvcWrite, RecvBlock, HangUp
  <2>2. remote' = remote /\ stuck' = stuck /\ svc'.pc \in {"command", "recv", "ended"}
    BY <1>1, <1>2, <1>5 DEF SvcWrite, RecvBlock, HangUp
  <2> QED
    BY <1>1, <2>1, <2>2 DEF Harmless, AsksOnly
<1>6. ~ DoSend /\ ~ SendData /\ ~ SendDone /\ ~ LinkData /\ ~ LinkDone
  BY <1>1, <1>3, ServiceReads
<1> QED
  BY <1>4, <1>5, <1>6 DEF SvcStep

LEMMA BrokenService ==
  ASSUME SyncTypes, link = "broken", SvcStep
  PROVE  Heard' = Heard /\ link' = "broken" /\ (toDev = <<>> => toDev' = <<>>)
<1>1. CASE SvcWrite
  BY <1>1 DEF SvcWrite, HostGone, Heard
<1>2. ASSUME NEW id, Reads(id) PROVE toHost' = toHost /\ link' = link /\ toDev # <<>>
  BY <1>2 DEF Reads
<1>3. CASE RecvBlock \/ HangUp
  <2>1. toHost' = toHost /\ link' = link /\ toDev' = toDev
    BY <1>3 DEF RecvBlock, HangUp
  <2> QED
    BY <2>1 DEF Heard
<1>4. CASE DoStat \/ DoList \/ DoRecv \/ Quit \/ DoSend \/ SendData \/ SendDone \/ LinkData
           \/ LinkDone
  <2>1. PICK id : Reads(id)
    BY <1>4, ServiceReads
  <2> QED
    BY <1>2, <2>1 DEF Heard
<1> QED
  BY <1>1, <1>3, <1>4 DEF SvcStep

LEMMA RestService ==
  ASSUME SyncTypes, clientOpen, Rest, SvcStep, copyVars' = copyVars
  PROVE  Rest'
<1>0. cOut' = cOut
  BY DEF copyVars
<1>1. CASE link = "broken"
  BY <1>0, <1>1, BrokenService DEF Rest
<1>2. CASE link = "up"
  <2>1. toDev = <<>> /\ svc.pc = "command" /\ sOut = <<>>
    BY <1>2, StreamsAre DEF Rest
  <2>2. ~ SvcWrite
    BY <2>1 DEF SvcWrite
  <2>3. \A id : ~ Reads(id)
    BY <2>1 DEF Reads
  <2> QED
    BY <1>2, <2>1, <2>2, <2>3, ServiceReads DEF SvcStep
<1> QED
  BY <1>1, <1>2 DEF SyncTypes

LEMMA Counted ==
  ASSUME NEW a \in Nat, NEW n \in Nat, NEW r \in Nat, NEW h, NEW q, NEW t, h = n + 1, q = r - 1,
         a + n + r = t, r >= 1
  PROVE  /\ a + h + q = t /\ a + h <= t
         /\ \A j \in 1 .. q : a + n + (j + 1) = a + h + j
  OBVIOUS

LEMMA StatService ==
  ASSUME SyncTypes, clientOpen, StatOK, Harmless, SvcStep, copyVars' = copyVars
  PROVE  StatOK'
<1>0. /\ cOut' = cOut /\ client' = client /\ remote' = remote /\ stuck' = stuck /\ SyncTypes'
      /\ sOut' \in Seq(Messages) /\ client.at \in Nat /\ client.todo \in Seq(Files)
  <2>1. cOut' = cOut /\ client' = client
    BY DEF copyVars
  <2>2. SyncTypes'
    BY ServiceTypes
  <2> QED
    BY <2>1, <2>2, HarmlessService DEF SyncTypes, StreamTypes, ClientTypes
<1>1. CASE link = "broken"
  <2>1. Heard' = Heard /\ link' = "broken"
    BY <1>1, BrokenService
  <2> QED
    BY <1>0, <2>1 DEF StatOK
<1>2. CASE link = "up"
  <2>1. /\ svc.pc = "command" /\ client.at + Len(Heard) + Len(Requested) = Len(client.todo)
        /\ \A j \in 1 .. Len(Requested) :
            /\ Requested[j].id = "STAT"
            /\ Requested[j].f = client.todo[client.at + Len(Heard) + j]
        /\ \A j \in 1 .. Len(Heard) :
             Heard[j].f = client.todo[client.at + j]
             /\ Heard[j].data = remote[client.todo[client.at + j]]
    BY <1>2 DEF StatOK
  <2>2. /\ Heard \in Seq(Messages) /\ Requested \in Seq(Messages)
        /\ Len(Heard) \in Nat /\ Len(Requested) \in Nat
    BY StreamsAre
  <2>3. CASE SvcWrite
    <3>1. Heard' = Heard /\ Requested' = Requested /\ link' = link /\ svc' = svc
      BY <1>0, <1>2, <2>3, SvcWriteEffect
    <3> QED
      BY <1>0, <1>2, <2>1, <3>1 DEF StatOK
  <2>4. ASSUME NEW id, Reads(id)
        PROVE  /\ id = "STAT" /\ Requested # <<>> /\ Requested[1] = Head(toDev) /\ link' = "up"
               /\ Requested' = Tail(Requested) /\ Heard' = Heard \o sOut'
    <3>1. /\ Requested # <<>> /\ Requested[1] = Head(toDev) /\ Head(toDev).id = id
          /\ link' = link /\ Requested' = Tail(Requested) /\ Heard' = Heard \o sOut'
      BY <1>0, <1>2, <2>4, ReadsEffect
    <3>2. 1 \in 1 .. Len(Requested)
      BY <2>2, <3>1, EmptyIs
    <3> QED
      BY <1>2, <2>1, <3>1, <3>2
  <2>5. CASE DoStat
    <3> DEFINE f == Head(toDev).f
               n == Len(Heard)
    <3>1. /\ sOut' = <<Msg("STAT", f, remote[f])>> /\ svc' = svc
          /\ Requested # <<>> /\ Requested[1] = Head(toDev) /\ link' = "up"
          /\ Requested' = Tail(Requested) /\ Heard' = Heard \o sOut'
      BY <2>4, <2>5, ServiceReads DEF DoStat
    <3>2. /\ Len(sOut') = 1 /\ sOut'[1].f = f /\ sOut'[1].data = remote[f]
      BY <3>1 DEF Msg
    <3>3. /\ Heard' \in Seq(Messages) /\ Len(Heard') = n + 1
          /\ \A j \in 1 .. n : Heard'[j] = Heard[j]
          /\ Heard'[n + 1] = sOut'[1]
      BY <1>0, <2>2, <3>1, <3>2, JoinedOne
    <3>4. /\ Len(Requested) >= 1 /\ Len(Requested') = Len(Requested) - 1
          /\ \A j \in 1 .. Len(Requested) - 1 : Requested'[j] = Requested[j + 1]
      BY <2>2, <3>1, TailIs
    <3>5. f = client.todo[client.at + n + 1]
      BY <2>1, <2>2, <3>1, <3>4
    <3>9. n \in Nat /\ client.at \in Nat /\ Len(Requested) \in Nat
      BY <1>0, <2>2
    <3>10. /\ Len(Heard) = n /\ Len(Heard') = n + 1 /\ Len(Requested') = Len(Requested) - 1
           /\ client.at + n + Len(Requested) = Len(client.todo) /\ Len(Requested) >= 1
      BY <2>1, <3>3, <3>4
    <3> HIDE DEF f, n
    <3>11. /\ client.at + Len(Heard') + Len(Requested') = Len(client.todo)
           /\ client.at + Len(Heard') <= Len(client.todo)
           /\ \A j \in 1 .. Len(Requested') :
                client.at + n + (j + 1) = client.at + Len(Heard') + j
      <4>1. PICK a, r, h, q, t :
              /\ a \in Nat /\ r \in Nat /\ n \in Nat
              /\ a = client.at /\ r = Len(Requested) /\ t = Len(client.todo)
              /\ h = Len(Heard') /\ q = Len(Requested')
        BY <3>9
      <4>2. h = n + 1 /\ q = r - 1 /\ a + n + r = t /\ r >= 1
        BY <3>10, <4>1
      <4>3. a \in Nat /\ r \in Nat /\ n \in Nat
        BY <4>1
      <4>4. /\ a + h + q = t /\ a + h <= t
            /\ \A j \in 1 .. q : a + n + (j + 1) = a + h + j
        BY <4>2, <4>3, Counted
      <4> QED
        BY <4>1, <4>4
    <3>6. \A j \in 1 .. Len(Heard') :
            Heard'[j].f = client.todo[client.at + j]
            /\ Heard'[j].data = remote[client.todo[client.at + j]]
      <4> TAKE j \in 1 .. Len(Heard')
      <4>1. CASE j \in 1 .. n
        BY <2>1, <3>3, <4>1 DEF n
      <4>2. CASE j = n + 1
        <5>1. client.at + j = client.at + n + 1
          BY <3>9, <4>2
        <5> QED
          BY <3>2, <3>3, <3>5, <4>2, <5>1
      <4> QED
        BY <2>2, <3>3, <4>1, <4>2 DEF n
    <3>7. \A j \in 1 .. Len(Requested') :
            /\ Requested'[j].id = "STAT"
            /\ Requested'[j].f = client.todo[client.at + Len(Heard') + j]
      <4> TAKE j \in 1 .. Len(Requested')
      <4>1. j + 1 \in 1 .. Len(Requested) /\ j \in 1 .. Len(Requested) - 1
        BY <2>2, <3>4
      <4>2. client.at + Len(Heard) + (j + 1) = client.at + Len(Heard') + j
        BY <3>11, <3>10
      <4> QED
        BY <2>1, <3>4, <4>1, <4>2
    <3>8. client.at + Len(Heard') + Len(Requested') = Len(client.todo)
          /\ client.at + Len(Heard') <= Len(client.todo)
      BY <3>11
    <3> QED
      BY <1>0, <2>1, <3>1, <3>6, <3>7, <3>8 DEF StatOK
  <2> QED
    BY <1>2, <2>1, <2>3, <2>4, <2>5, ServiceReads DEF SvcStep
<1> QED
  BY <1>1, <1>2 DEF SyncTypes

LEMMA DentsService ==
  ASSUME SyncTypes, clientOpen, DentsOK, SvcStep, copyVars' = copyVars
  PROVE  DentsOK'
<1>0. cOut' = cOut /\ SyncTypes' /\ sOut' \in Seq(Messages)
  <2>1. SyncTypes'
    BY ServiceTypes
  <2> QED
    BY <2>1 DEF copyVars, SyncTypes, StreamTypes
<1>1. CASE link = "broken"
  <2>1. Heard' = Heard /\ link' = "broken"
    BY <1>1, BrokenService
  <2> QED
    BY <2>1 DEF DentsOK
<1>2. CASE link = "up"
  <2>1. /\ svc.pc = "command"
        /\ \/ Heard = <<>> /\ Len(Requested) = 1 /\ Requested[1].id = "LIST"
           \/ Requested = <<>> /\ Heard # <<>> /\ Heard[Len(Heard)].id # "DENT"
    BY <1>2 DEF DentsOK
  <2>2. Heard \in Seq(Messages) /\ Requested \in Seq(Messages)
    BY StreamsAre
  <2>3. CASE SvcWrite
    <3>1. Heard' = Heard /\ Requested' = Requested /\ link' = link /\ svc' = svc
      BY <1>0, <1>2, <2>3, SvcWriteEffect
    <3> QED
      BY <1>0, <1>2, <2>1, <3>1 DEF DentsOK
  <2>4. ASSUME NEW id, Reads(id)
        PROVE  /\ id = "LIST" /\ Heard = <<>> /\ Len(Requested) = 1 /\ Requested # <<>>
               /\ link' = "up" /\ Head(toDev) \in Messages
               /\ Requested' = Tail(Requested) /\ Heard' = Heard \o sOut'
    BY <1>0, <1>2, <2>1, <2>4, ReadsEffect
  <2>5. CASE DoList
    <3>1. /\ svc' = svc /\ Heard = <<>> /\ Len(Requested) = 1 /\ Requested # <<>>
          /\ link' = "up" /\ Head(toDev) \in Messages
          /\ Requested' = Tail(Requested) /\ Heard' = Heard \o sOut'
      BY <2>4, <2>5, ServiceReads DEF DoList
    <3>2. Heard' = sOut' /\ Requested' = <<>>
      <4>1. Requested' \in Seq(Messages) /\ Len(Requested') = 0
        BY <2>2, <3>1, TailIs
      <4> QED
        BY <1>0, <2>2, <3>1, <4>1, JoinedEmpty, EmptyIs
    <3>3. Head(toDev).f \in Files
      BY <3>1 DEF Messages
    <3>4. /\ sOut' # <<>>
          /\ \A i \in 1 .. Len(sOut') : i < Len(sOut') => sOut'[i].id = "DENT"
          /\ sOut'[Len(sOut')].id = "DONE"
      BY <2>5, <3>3, DentsAre
    <3> QED
      BY <2>1, <3>1, <3>2, <3>4 DEF DentsOK
  <2> QED
    BY <1>2, <2>1, <2>3, <2>4, <2>5, ServiceReads DEF SvcStep
<1> QED
  BY <1>1, <1>2 DEF SyncTypes

LEMMA RecvEffect ==
  ASSUME SyncTypes, clientOpen, RecvBlock, cOut' = cOut
  PROVE  /\ Requested' = Requested /\ remote' = remote /\ stuck' = stuck /\ link' = link
         /\ link = "up" => Heard' = Heard \o sOut'
<1>1. /\ sOut = <<>> /\ toDev' = toDev /\ toHost' = toHost /\ link' = link /\ remote' = remote
      /\ stuck' = stuck
      /\ toHost \in Seq(Messages)
  BY DEF RecvBlock, SyncTypes, StreamTypes
<1>2. link = "up" => Heard' = Heard \o sOut'
  BY <1>1, JoinedEmpty DEF Heard
<1> QED
  BY <1>1, <1>2 DEF Requested

\* What is first on its way to the client stays first.
LEMMA HeardFirst ==
  ASSUME SyncTypes, clientOpen, SvcStep, copyVars' = copyVars, Heard # <<>>
  PROVE  Heard' # <<>> /\ Heard'[1] = Heard[1]
<1>0. cOut' = cOut /\ SyncTypes' /\ sOut' \in Seq(Messages) /\ Heard \in Seq(Messages)
  <2>1. SyncTypes'
    BY ServiceTypes
  <2> QED
    BY <2>1, StreamsAre DEF copyVars, SyncTypes, StreamTypes
<1>1. CASE link = "broken"
  BY <1>1, BrokenService
<1>2. CASE link = "up"
  <2>1. CASE SvcWrite
    BY <1>0, <2>1, SvcWriteEffect
  <2>2. ASSUME Heard' = Heard \o sOut' PROVE Heard' # <<>> /\ Heard'[1] = Heard[1]
    <3>1. Heard \o sOut' # <<>> /\ (Heard \o sOut')[1] = Head(Heard) /\ Head(Heard) = Heard[1]
      BY <1>0, JoinedEmpty, TailIs
    <3> QED
      BY <2>2, <3>1
  <2>3. CASE RecvBlock
    BY <1>0, <1>2, <2>2, <2>3, RecvEffect
  <2>4. ASSUME NEW id, Reads(id) PROVE Heard' # <<>> /\ Heard'[1] = Heard[1]
    BY <1>0, <1>2, <2>2, <2>4, ReadsEffect
  <2> QED
    BY <1>2, <2>1, <2>3, <2>4, ServiceReads DEF SvcStep
<1> QED
  BY <1>1, <1>2 DEF SyncTypes

-----------------------------------------------------------------------------
\* The blocks of a file.

LEMMA CountIs ==
  ASSUME NEW n \in Nat
  PROVE  /\ CountTo(n) \in Seq(Nat) /\ Len(CountTo(n)) = n
         /\ \A i \in 1 .. n : CountTo(n)[i] = i
  BY DEF CountTo

LEMMA CountNext ==
  ASSUME NEW n \in Nat
  PROVE  CountTo(n) \o <<n + 1>> = CountTo(n + 1) /\ CountTo(0) = <<>>
<1> DEFINE s == CountTo(n)
           t == <<n + 1>>
           u == CountTo(n + 1)
           a == s \o t
<1>1. s \in Seq(Nat) /\ Len(s) = n /\ \A i \in 1 .. n : s[i] = i
  BY CountIs
<1>2. u \in Seq(Nat) /\ Len(u) = n + 1 /\ \A i \in 1 .. n + 1 : u[i] = i
  BY CountIs
<1>3. t \in Seq(Nat) /\ Len(t) = 1 /\ t[1] = n + 1
  OBVIOUS
<1> HIDE DEF s, t, u
<1>4. /\ a \in Seq(Nat) /\ Len(a) = n + 1 /\ a[n + 1] = n + 1
      /\ \A i \in 1 .. n : a[i] = i
  BY <1>1, <1>3, JoinedOne
<1> HIDE DEF a
<1>5. \A i \in 1 .. n + 1 : a[i] = u[i]
  BY <1>2, <1>4
<1>6. a = u
  BY <1>2, <1>4, <1>5, SameSequence
<1>7. CountTo(0) = <<>>
  <2>1. CountTo(0) \in Seq(Nat) /\ Len(CountTo(0)) = 0
    BY CountIs
  <2> QED
    BY <2>1, EmptyIs
<1> QED
  BY <1>6, <1>7 DEF a, s, t, u

LEMMA CountPart ==
  ASSUME NEW n \in Nat
  PROVE  /\ \A i \in 1 .. n : SubSeq(CountTo(n), i, i) = <<i>>
         /\ SubSeq(CountTo(n), 1, n) = CountTo(n)
<1> DEFINE s == CountTo(n)
<1>1. s \in Seq(Nat) /\ Len(s) = n /\ \A i \in 1 .. n : s[i] = i
  BY CountIs
<1> HIDE DEF s
<1>2. ASSUME NEW i \in 1 .. n
      PROVE  SubSeq(s, i, i) = <<i>>
  <2>1. /\ SubSeq(s, i, i) \in Seq(Nat) /\ Len(SubSeq(s, i, i)) = 1
        /\ SubSeq(s, i, i)[1] = s[i]
    BY <1>1
  <2>2. <<i>> \in Seq(Nat) /\ Len(<<i>>) = 1 /\ <<i>>[1] = i
    OBVIOUS
  <2>3. \A j \in 1 .. 1 : j = 1
    OBVIOUS
  <2> QED
    BY <1>1, <2>1, <2>2, <2>3, SameSequence
<1>3. /\ SubSeq(s, 1, n) \in Seq(Nat) /\ Len(SubSeq(s, 1, n)) = n
      /\ \A i \in 1 .. n : SubSeq(s, 1, n)[i] = s[i]
  BY <1>1, CutIs
<1>4. SubSeq(s, 1, n) = s
  BY <1>1, <1>3, SameSequence
<1> QED
  BY <1>2, <1>4 DEF s

LEMMA WholeIs ==
  ASSUME NEW f \in Files
  PROVE  Size[f] \in Nat /\ Whole(f) = [v |-> "host", blocks |-> CountTo(Size[f])]
  BY SyncAssumption DEF Whole, CountTo

LEMMA WholeCopied ==
  ASSUME NEW f \in Files, NEW file, file = Whole(f)
  PROVE  /\ file.v = "host" /\ Len(file.blocks) = Size[f] /\ Size[f] \in Nat
         /\ \A i \in 1 .. Size[f] : file.blocks[i] = i
<1>1. Size[f] \in Nat /\ file = [v |-> "host", blocks |-> CountTo(Size[f])]
  BY WholeIs
<1>2. file.v = "host" /\ file.blocks = CountTo(Size[f])
  BY <1>1
<1>3. /\ Len(CountTo(Size[f])) = Size[f]
      /\ \A i \in 1 .. Size[f] : CountTo(Size[f])[i] = i
  BY <1>1, CountIs
<1> QED
  BY <1>1, <1>2, <1>3

LEMMA PiecesAre ==
  ASSUME ClientTypes
  PROVE  /\ Pieces \in Nat /\ Made \in Nat /\ Made >= 1 /\ client.at \in Nat
         /\ client.pc = "status" => Made = Pieces + 2
         /\ client.pc # "status" => Made = Pieces + 1
  BY DEF ClientTypes, Pieces, Made

\* The service reads the next of what the client made of the file.
LEMMA ReadsPiece ==
  ASSUME SyncTypes, clientOpen, link = "up", Heard = <<>>, Underway, client.todo # <<>>,
         copyVars' = copyVars, NEW id, Reads(id), sOut' \in Seq(Messages)
  PROVE  /\ Cur' = Cur /\ Pieces' = Pieces /\ Made' = Made /\ Got' = Got + 1
         /\ Requested' \in Seq(Messages) /\ Len(Requested') <= Made
         /\ \A i \in 1 .. Len(Requested') : IsPiece(Requested[i], Got + i)'
         /\ Head(toDev).f = Cur /\ Got \in Nat /\ Got < Made /\ Head(toDev).id = id
         /\ Head(toDev) \in Messages
         /\ Got = 0 => id = "SEND"
         /\ Got \in 1 .. Pieces =>
              /\ id = "DATA"
              /\ Head(toDev).data = IF Cur \in Links THEN CountTo(Size[Cur]) ELSE <<Got>>
         /\ Got = Pieces + 1 => id = "DONE" /\ client.pc = "status" /\ Requested' = <<>>
         /\ Heard' = sOut' /\ link' = "up"
<1>1. /\ client' = client /\ cOut' = cOut /\ Cur' = Cur /\ Pieces' = Pieces /\ Made' = Made
  BY DEF copyVars, Cur, Pieces, Made
<1>2. /\ Requested # <<>> /\ Requested[1] = Head(toDev) /\ Requested' = Tail(Requested)
      /\ Heard' = Heard \o sOut' /\ link' = "up" /\ Head(toDev).id = id /\ Head(toDev) \in Messages
  BY <1>1, ReadsEffect
<1>3. Heard' = sOut'
  BY <1>2, JoinedEmpty
<1>4. Requested \in Seq(Messages) /\ Len(Requested) \in Nat
  BY StreamsAre
<1>5. /\ Len(Requested) >= 1 /\ Requested' \in Seq(Messages)
      /\ Len(Requested') = Len(Requested) - 1
      /\ \A i \in 1 .. Len(Requested) - 1 : Requested'[i] = Requested[i + 1]
  BY <1>2, <1>4, TailIs
<1>6. /\ Pieces \in Nat /\ Made \in Nat /\ Made >= 1
      /\ client.pc = "status" => Made = Pieces + 2
      /\ client.pc # "status" => Made = Pieces + 1
  BY PiecesAre DEF SyncTypes
<1>7. Len(Requested) <= Made /\ \A i \in 1 .. Len(Requested) : IsPiece(Requested[i], Got + i)
  BY DEF Underway
<1> DEFINE n == Len(Requested)
           q == Len(Requested')
<1>8. /\ n \in Nat /\ n >= 1 /\ q = n - 1 /\ n <= Made /\ Got = Made - n /\ Got' = Made - q
  BY <1>1, <1>4, <1>5, <1>7 DEF Got
<1> HIDE DEF n, q
<1>9. Got \in Nat /\ Got < Made /\ Got' = Got + 1 /\ q <= Made
  BY <1>6, <1>8
<1>10. ASSUME NEW i \in 1 .. q
       PROVE  IsPiece(Requested[i], Got + i)'
  <2>1. i + 1 \in 1 .. n /\ i \in 1 .. n - 1 /\ Got + (i + 1) = Got' + i
    BY <1>8, <1>9
  <2>2. IsPiece(Requested[i + 1], Got + (i + 1)) /\ Requested'[i] = Requested[i + 1]
    BY <1>5, <1>7, <2>1 DEF n
  <2>3. IsPiece(Requested[i + 1], Got' + i)
    BY <2>1, <2>2, Zenon
  <2> QED
    BY <1>1, <2>2, <2>3 DEF IsPiece
<1>11. IsPiece(Head(toDev), Got + 1)
  <2>1. 1 \in 1 .. n
    BY <1>8
  <2> QED
    BY <1>2, <1>7, <2>1 DEF n
<1>12. Got = Pieces + 1 => client.pc = "status" /\ Requested' = <<>>
  <2>1. Got = Pieces + 1 => client.pc = "status" /\ q = 0
    BY <1>6, <1>8, <1>9
  <2> QED
    BY <1>5, <2>1, EmptyIs DEF q
<1>13. Head(toDev).f = Cur
  BY <1>11 DEF IsPiece, PieceOf
<1>14. Got = 0 => id = "SEND"
  BY <1>2, <1>11 DEF IsPiece, PieceOf
<1>15. Got = Pieces + 1 => id = "DONE"
  <2>1. Got = Pieces + 1 => Got + 1 = Pieces + 2
    BY <1>6, <1>9
  <2> QED
    BY <1>2, <1>11, <2>1 DEF IsPiece, PieceOf
<1>16. Got \in 1 .. Pieces =>
         id = "DATA" /\ Head(toDev).data = IF Cur \in Links THEN CountTo(Size[Cur]) ELSE <<Got>>
  <2>1. Got \in 1 .. Pieces => Got + 1 \in 2 .. Pieces + 1 /\ (Got + 1) - 1 = Got
    BY <1>6, <1>9
  <2> QED
    BY <1>2, <1>11, <2>1 DEF IsPiece, PieceOf
<1>17. q <= Made /\ \A i \in 1 .. q : IsPiece(Requested[i], Got + i)'
  BY <1>9, <1>10
<1> QED
  BY <1>1, <1>2, <1>3, <1>5, <1>9, <1>12, <1>13, <1>14, <1>15, <1>16, <1>17 DEF q

\* The file that is being sent is not among those that are settled.
LEMMA SettledKept ==
  ASSUME SyncTypes, Settled, client.todo # <<>>, Cur \notin client.same, copyVars' = copyVars,
         \A g \in Files : g # Cur => remote'[g] = remote[g],
         stuck \subseteq stuck'
  PROVE  Settled'
<1>1. client' = client /\ job' = job /\ unread' = unread /\ job.files \subseteq Files
  BY DEF copyVars, SyncTypes
<1>2. 1 \in 1 .. Len(client.todo) /\ client.todo[1] = Cur
  BY TailIs DEF Cur, SyncTypes, ClientTypes
<1>3. ASSUME NEW g \in job.files,
             g \in client.same \/ (\A i \in 1 .. Len(client.todo) : client.todo[i] # g)
      PROVE  g \in unread \/ Copied(g)'
  <2>1. g # Cur
    BY <1>2, <1>3
  <2> QED
    BY <1>1, <1>3, <2>1 DEF Settled, Copied
<1> QED
  BY <1>1, <1>3 DEF Settled

\* A file on its way is put on, or answered.
LEMMA UnderwayService ==
  ASSUME SyncTypes, clientOpen, link = "up", Heard = <<>>, Underway, client.todo # <<>>,
         Cur \notin client.same, client.pc \in {"file", "status"},
         SvcStep, copyVars' = copyVars
  PROVE  SendingOK'
<1>1. /\ client' = client /\ cOut' = cOut /\ Cur' = Cur /\ unread' = unread
      /\ SyncTypes' /\ sOut' \in Seq(Messages)
      /\ svc' \in [pc : {"command", "data", "linkData", "linkDone", "recv", "ended"},
                   file : Files, opened : BOOLEAN, at : Nat]
  <2>1. SyncTypes'
    BY ServiceTypes
  <2> QED
    BY <2>1 DEF copyVars, Cur, SyncTypes, StreamTypes, SvcTypes
<1>2. /\ svc \in [pc : {"command", "data", "linkData", "linkDone", "recv", "ended"},
                  file : Files, opened : BOOLEAN, at : Nat]
      /\ remote \in [Files -> FileStates] /\ client.todo \in Seq(Files) /\ client.at \in Nat
      /\ Cur \in Files
  <2>1. client.todo \in Seq(Files)
    BY DEF SyncTypes, ClientTypes
  <2> QED
    BY <2>1, TailIs DEF SyncTypes, SvcTypes, ClientTypes, Cur
<1>3. /\ Ended = [svc EXCEPT !.pc = "ended", !.opened = FALSE]
      /\ Ready = [svc EXCEPT !.pc = "command", !.opened = FALSE]
  BY DEF Ended, Ready
<1>21. stuck \subseteq stuck'
  BY StuckGrows
<1>4. sOut = <<>> /\ toHost = <<>>
  BY StreamsAre
<1>5. /\ client.at <= Size[Cur] /\ (Cur \in Links => client.at \in {0, Size[Cur]})
      /\ client.pc = "status" => client.at = Size[Cur] \/ Cur \in unread
      /\ Taken /\ Settled
  BY DEF Underway
<1>6. /\ Pieces \in Nat /\ Made \in Nat
      /\ Cur \in Links => Pieces \in {0, 1}
      /\ Cur \notin Links => Pieces = client.at
  BY PiecesAre DEF SyncTypes, Pieces
<1>7. ASSUME \A g \in Files : g # Cur => remote'[g] = remote[g]
      PROVE  Settled'
  BY <1>5, <1>7, <1>21, SettledKept
<1>8. ASSUME sOut' # <<>>, sOut'[1].f = Cur, sOut'[1].id = "FAIL", Heard' = sOut'
      PROVE  SendingOK'
  BY <1>1, <1>8 DEF SendingOK
<1>20. Len(sOut') = 1 => sOut' # <<>>
  BY <1>1, EmptyIs
<1>9. ASSUME NEW id, Reads(id)
      PROVE  /\ Cur' = Cur /\ Pieces' = Pieces /\ Made' = Made /\ Got' = Got + 1
             /\ Requested' \in Seq(Messages) /\ Len(Requested') <= Made
             /\ \A i \in 1 .. Len(Requested') : IsPiece(Requested[i], Got + i)'
             /\ Head(toDev).f = Cur /\ Got \in Nat /\ Got < Made /\ Head(toDev).id = id
             /\ Got = 0 => id = "SEND"
             /\ Got \in 1 .. Pieces =>
                  /\ id = "DATA"
                  /\ Head(toDev).data = IF Cur \in Links THEN CountTo(Size[Cur]) ELSE <<Got>>
             /\ Got = Pieces + 1 => id = "DONE" /\ client.pc = "status" /\ Requested' = <<>>
             /\ Heard' = sOut' /\ link' = "up"
  BY <1>1, <1>9, ReadsPiece
<1>10. ASSUME NEW id, Reads(id), Taken', \A g \in Files : g # Cur => remote'[g] = remote[g]
       PROVE  Underway'
  <2>1. Settled'
    BY <1>7, <1>10
  <2>2. Size' = Size /\ Links' = Links
    OBVIOUS
  <2> QED
    BY <1>1, <1>5, <1>9, <1>10, <2>1 DEF Underway
<1>11. ASSUME NEW id, Reads(id), Taken', \A g \in Files : g # Cur => remote'[g] = remote[g],
              sOut' = <<>>
       PROVE  SendingOK'
  <2>1. Underway' /\ Heard' = <<>>
    BY <1>9, <1>10, <1>11
  <2> QED
    BY <1>1, <2>1 DEF SendingOK
<1>12. ASSUME NEW id, Reads(id), Got = Pieces + 1, svc' = Ready,
              \A g \in Files : g # Cur => remote'[g] = remote[g],
              Cur \in unread \/ Copied(Cur)',
              Len(sOut') = 1, sOut'[1].f = Cur, sOut'[1].id = "OKAY"
       PROVE  SendingOK'
  <2>1. client.pc = "status" /\ Requested' = <<>> /\ Heard' = sOut' /\ link' = "up"
    BY <1>9, <1>12
  <2>2. toDev' = <<>> /\ cOut' = <<>>
    <3>1. (Requested = <<>> <=> toDev = <<>> /\ cOut = <<>>)'
      BY <1>1, StreamsAre, PTL
    <3> QED
      BY <2>1, <3>1
  <2>3. svc'.pc = "command"
    BY <1>2, <1>3, <1>12
  <2>4. Settled'
    BY <1>7, <1>12
  <2>5. Accepted'
    BY <1>1, <1>12, <2>1, <2>2, <2>3, <2>4 DEF Accepted, Whole, Copied
  <2> QED
    BY <1>1, <1>12, <1>20, <2>1, <2>5 DEF SendingOK
<1>13. CASE DoSend
  <2> DEFINE f == Head(toDev).f
             state == [svc EXCEPT !.file = f, !.at = 0, !.opened = TRUE, !.pc = "data"]
             linked == [state EXCEPT !.pc = "linkData", !.opened = FALSE]
  <2>1. svc.pc = "command" /\ Reads("SEND")
    BY <1>13, ServiceReads
  <2>2. Got = 0 /\ f = Cur /\ Got' = 1 /\ Pieces' = Pieces
    BY <1>5, <1>9, <2>1 DEF Taken
  <2>3. \/ f \in Links /\ svc' = linked /\ sOut' = <<>>
        \/ f \notin Links /\ svc' = state /\ sOut' = <<>>
        \/ CannotCreate(f, state)
        \/ Answer(f, <<"FAIL">>)
    <3> HIDE DEF state, linked
    <3> QED
      BY <1>13 DEF DoSend, Created, Reopened, state, linked
  <2>4. /\ \/ remote' = [remote EXCEPT ![f] = Absent] \/ remote' = remote
           \/ remote' = [remote EXCEPT ![f] = [v |-> "part", blocks |-> <<>>]]
        /\ remote'[f].blocks = <<>> \/ f \in stuck'
    <3>1. \/ remote' = [remote EXCEPT ![f] = Absent]
          \/ remote' = remote /\ stuck' = stuck \cup {f}
          \/ remote' = [remote EXCEPT ![f] = [v |-> "part", blocks |-> <<>>]]
      <4> HIDE DEF state, linked
      <4> QED
        BY <1>13 DEF DoSend, Created, CannotCreate, Reopened, Unlink, UnlinkFails, state, linked
    <3> QED
      BY <1>2, <2>2, <3>1 DEF Absent
  <2>5. \A g \in Files : g # Cur => remote'[g] = remote[g]
    BY <1>2, <2>2, <2>4
  <2>6. CASE f \in Links /\ svc' = linked /\ sOut' = <<>>
    <3>1. svc'.pc = "linkData" /\ svc'.file = Cur
      BY <1>2, <2>2, <2>6
    <3>2. Taken'
      BY <1>1, <2>2, <2>6, <3>1 DEF Taken
    <3> QED
      BY <1>11, <2>1, <2>5, <2>6, <3>2
  <2>7. CASE CannotCreate(f, state)
    <3>1. sOut' # <<>> /\ sOut'[1].id = "FAIL" /\ sOut'[1].f = f
      <4>1. /\ Len(sOut') \in {1, 2}
            /\ \A i \in 1 .. Len(sOut') : sOut'[i].id = "FAIL" /\ sOut'[i].f = f
        BY <1>2, <2>2, <2>7, CannotCreateEffect, Zenon
      <4>2. 1 \in 1 .. Len(sOut') /\ Len(sOut') # 0
        BY <4>1
      <4> QED
        BY <1>1, <4>1, <4>2, EmptyIs
    <3> QED
      BY <1>8, <1>9, <2>1, <2>2, <3>1
  <2>8. CASE f \notin Links /\ svc' = state /\ sOut' = <<>>
    <3>1. svc'.pc = "data" /\ svc'.file = Cur /\ svc'.opened /\ svc'.at = 0
      BY <1>2, <2>2, <2>8
    <3>2. Begun(Cur, 0)'
      <4>1. remote'[Cur].blocks \in Seq(Nat)
        BY <1>1, <1>2, FileStatesAre DEF SyncTypes
      <4>2. /\ Len(remote'[Cur].blocks) \in Nat
            /\ remote'[Cur].blocks = <<>> => Len(remote'[Cur].blocks) = 0
        BY <4>1, EmptyIs
      <4> QED
        BY <1>1, <2>2, <2>4, <4>2 DEF Begun
    <3>3. Got' \in 1 .. Pieces' + 1 /\ Got' - 1 = 0
      BY <1>6, <2>2
    <3>4. Taken'
      BY <1>1, <2>2, <2>8, <3>1, <3>2, <3>3 DEF Taken
    <3> QED
      BY <1>11, <2>1, <2>5, <2>8, <3>4
  <2>9. CASE Answer(f, <<"FAIL">>)
    <3>1. Len(sOut') = 1 /\ sOut'[1].id = "FAIL" /\ sOut'[1].f = f
      BY <1>2, <2>2, <2>9, OneAnswer
    <3> QED
      BY <1>1, <1>8, <1>9, <2>1, <2>2, <1>20, <3>1
  <2> QED
    BY <2>3, <2>6, <2>7, <2>8, <2>9
<1>14. CASE SendData
  <2> DEFINE data == Head(toDev).data
  <2>1. svc.pc = "data" /\ Reads("DATA") /\ svc.file = Cur
    BY <1>5, <1>14, ServiceReads DEF Taken
  <2>2. /\ Cur \notin Links /\ svc.opened /\ Got \in 1 .. Pieces + 1
        /\ svc.at = Got - 1 /\ Begun(Cur, Got - 1)
    BY <1>5, <2>1 DEF Taken
  <2>3. Got \in 1 .. Pieces /\ data = <<Got>> /\ Got \in Nat /\ Got' = Got + 1
        /\ Pieces' = Pieces
    BY <1>6, <1>9, <2>1, <2>2
  <2> HIDE DEF data
  <2>4. CASE /\ remote' = [remote EXCEPT ![Cur] = Written(@, svc.at, data)] /\ stuck' = stuck
             /\ sOut' = <<>> /\ svc' = [svc EXCEPT !.at = @ + Len(data)]
    <3>1. PICK n \in Nat : n = svc.at
      BY <1>2
    <3>2. n + 1 = Got /\ n + 1 \in Nat /\ (n + 1) - 1 = n
      BY <2>2, <2>3, <3>1
    <3>3. Len(data) = 1 /\ data[1] = n + 1 /\ data \in Seq(Nat)
      <4>1. data = <<n + 1>>
        BY <2>3, <3>2
      <4> QED
        BY <4>1
    <3>4. /\ Len(remote[Cur].blocks) \in Nat /\ Len(remote[Cur].blocks) >= n
          /\ \A i \in 1 .. n : remote[Cur].blocks[i] = i
          /\ Len(remote[Cur].blocks) = n \/ Cur \in stuck
      <4>1. Begun(Cur, n) /\ remote[Cur] \in FileStates
        BY <1>2, <2>2, <3>1
      <4> QED
        BY <4>1, FileStatesAre DEF Begun
    <3> DEFINE b == Written(remote[Cur], n, data).blocks
    <3>5. remote'[Cur].blocks = b
      BY <1>2, <2>4, <3>1
    <3>6. /\ Len(b) = IF n + 1 > Len(remote[Cur].blocks) THEN n + 1 ELSE Len(remote[Cur].blocks)
          /\ \A i \in 1 .. Len(b) : b[i] = IF i = n + 1 THEN n + 1 ELSE remote[Cur].blocks[i]
      <4>1. PICK file \in FileStates : file = remote[Cur]
        BY <1>2
      <4>2. n <= Len(file.blocks)
        BY <3>4, <4>1
      <4>3. LET c == Written(file, n, data).blocks IN
            /\ Len(c) = IF n + 1 > Len(file.blocks) THEN n + 1 ELSE Len(file.blocks)
            /\ \A i \in 1 .. Len(c) : c[i] = IF i = n + 1 THEN data[1] ELSE file.blocks[i]
        BY <3>3, <4>2, WrittenAt
      <4> QED
        BY <3>3, <4>1, <4>3
    <3> HIDE DEF b
    <3>7. Len(b) >= n + 1 /\ (Len(b) = n + 1 \/ Cur \in stuck) /\ Len(b) \in Nat
      BY <3>4, <3>6
    <3>8. ASSUME NEW i \in 1 .. n + 1 PROVE b[i] = i
      <4>1. i \in 1 .. Len(b) /\ (i = n + 1 \/ i \in 1 .. n)
        BY <3>7
      <4> QED
        BY <3>4, <3>6, <4>1
    <3>9. Begun(Cur, n + 1)'
      BY <1>1, <2>4, <3>5, <3>7, <3>8 DEF Begun
    <3>10. Got' \in 1 .. Pieces' + 1 /\ Got' - 1 = n + 1
      BY <1>6, <2>3, <3>2
    <3>11. svc'.pc = "data" /\ svc'.opened /\ svc'.file = Cur /\ svc'.at = n + 1
      <4>1. svc' = [svc EXCEPT !.at = n + 1]
        BY <2>4, <3>1, <3>3
      <4> QED
        BY <1>2, <2>1, <2>2, <4>1
    <3>13. Taken'
      BY <1>1, <2>2, <3>9, <3>10, <3>11 DEF Taken
    <3>12. \A g \in Files : g # Cur => remote'[g] = remote[g]
      BY <1>2, <2>4
    <3> QED
      BY <1>11, <2>1, <2>4, <3>12, <3>13
  <2>5. CASE Answer(Cur, <<"FAIL">>)
    <3>1. Len(sOut') = 1 /\ sOut'[1].id = "FAIL" /\ sOut'[1].f = Cur
      BY <1>2, <2>5, OneAnswer
    <3> QED
      BY <1>1, <1>8, <1>9, <1>20, <2>1, <3>1
  <2> QED
    BY <1>14, <2>1, <2>2, <2>4, <2>5 DEF SendData, data
<1>15. CASE SendDone
  <2>1. svc.pc = "data" /\ Reads("DONE") /\ svc.file = Cur
    BY <1>5, <1>15, ServiceReads DEF Taken
  <2>2. /\ Cur \notin Links /\ svc.opened /\ Got \in 1 .. Pieces + 1
        /\ Begun(Cur, Got - 1)
    BY <1>5, <2>1 DEF Taken
  <2>3. Got = Pieces + 1 /\ Got - 1 = client.at
    BY <1>6, <1>9, <2>1, <2>2
  <2>4. /\ svc' = Ready /\ remote' = [remote EXCEPT ![Cur].v = "host"] /\ stuck' = stuck
        /\ Answer(Cur, <<"OKAY">>)
    BY <1>15, <2>1, <2>2 DEF SendDone
  <2>5. Len(sOut') = 1 /\ sOut'[1].id = "OKAY" /\ sOut'[1].f = Cur
    BY <1>2, <2>4, OneAnswer
  <2>6. remote'[Cur].v = "host" /\ remote'[Cur].blocks = remote[Cur].blocks
    <3>1. remote'[Cur] = [remote[Cur] EXCEPT !.v = "host"] /\ remote[Cur] \in FileStates
      BY <1>2, <2>4
    <3> QED
      BY <3>1 DEF FileStates
  <2>7. client.pc = "status"
    BY <1>9, <2>1, <2>3
  <2>8. Cur \in unread \/ Copied(Cur)'
    <3>1. Begun(Cur, client.at) /\ (Cur \in unread \/ client.at = Size[Cur])
      BY <1>5, <2>2, <2>3, <2>7
    <3> QED
      BY <1>1, <2>4, <2>6, <3>1 DEF Begun, Copied
  <2>9. \A g \in Files : g # Cur => remote'[g] = remote[g]
    BY <1>2, <2>4
  <2> QED
    BY <1>12, <2>1, <2>3, <2>4, <2>5, <2>8, <2>9
<1>16. CASE LinkData
  <2>1. svc.pc = "linkData" /\ svc.file = Cur /\ Cur \in Links /\ Got = 1
    BY <1>5, <1>16, ServiceReads DEF Taken
  <2>2. CASE /\ Reads("DATA") /\ svc' = [svc EXCEPT !.pc = "linkDone"]
             /\ remote' = [remote EXCEPT ![Cur] = [v |-> "host", blocks |-> Head(toDev).data]]
             /\ sOut' = <<>>
    <3>1. Pieces = 1 /\ Got' = 2 /\ Pieces' = 1 /\ Head(toDev).data = CountTo(Size[Cur])
      BY <1>6, <1>9, <2>1, <2>2
    <3>2. Copied(Cur)'
      <4>1. remote'[Cur] = Whole(Cur)
        BY <1>2, <2>2, <3>1, WholeIs
      <4> QED
        <5>1. /\ remote'[Cur].v = "host" /\ Len(remote'[Cur].blocks) = Size[Cur]
              /\ Size[Cur] \in Nat /\ \A i \in 1 .. Size[Cur] : remote'[Cur].blocks[i] = i
          BY <1>2, <4>1, WholeCopied
        <5> QED
          BY <1>1, <5>1 DEF Copied
    <3>3. svc'.pc = "linkDone" /\ svc'.file = Cur
      BY <1>2, <2>1, <2>2
    <3>4. Taken'
      BY <1>1, <2>1, <3>1, <3>2, <3>3 DEF Taken, Whole, Copied
    <3>5. \A g \in Files : g # Cur => remote'[g] = remote[g]
      BY <1>2, <2>2
    <3> QED
      BY <1>11, <2>2, <3>4, <3>5
  <2>3. CASE Answer(Cur, <<"FAIL">>)
    <3>1. Len(sOut') = 1 /\ sOut'[1].id = "FAIL" /\ sOut'[1].f = Cur
      BY <1>2, <2>3, OneAnswer
    <3>2. PICK id : Reads(id)
      BY <1>16, ServiceReads
    <3> QED
      BY <1>1, <1>8, <1>9, <1>20, <3>1, <3>2
  <2> QED
    BY <1>16, <2>1, <2>2, <2>3 DEF LinkData
<1>17. CASE LinkDone
  <2>1. /\ svc.pc = "linkDone" /\ Reads("DONE") /\ svc.file = Cur /\ Got = 2 /\ Pieces = 1
        /\ Copied(Cur)
    BY <1>5, <1>17, ServiceReads DEF Taken
  <2>2. svc' = Ready /\ remote' = remote /\ stuck' = stuck /\ Answer(Cur, <<"OKAY">>)
    BY <1>17, <2>1 DEF LinkDone
  <2>3. Len(sOut') = 1 /\ sOut'[1].id = "OKAY" /\ sOut'[1].f = Cur
    BY <1>2, <2>2, OneAnswer
  <2>4. Copied(Cur)'
    BY <1>1, <2>1, <2>2 DEF Copied
  <2> QED
    BY <1>12, <2>1, <2>2, <2>3, <2>4
<1>18. ~ SvcWrite /\ ~ HangUp /\ ~ RecvBlock
  BY <1>4, <1>5, ServiceReads DEF SvcWrite, Taken
<1>19. ~ DoStat /\ ~ DoList /\ ~ DoRecv /\ ~ Quit
  <2>1. svc.pc = "command" => Got = 0
    BY <1>5 DEF Taken
  <2> QED
    BY <1>9, <2>1, ServiceReads
<1> QED
  BY <1>13, <1>14, <1>15, <1>16, <1>17, <1>18, <1>19 DEF SvcStep

\* What was accepted stays so.
LEMMA AcceptedService ==
  ASSUME SyncTypes, clientOpen, Accepted, SvcStep, copyVars' = copyVars
  PROVE  Accepted'
<1>1. /\ client' = client /\ cOut' = cOut /\ Cur' = Cur /\ unread' = unread /\ job' = job
      /\ link \in {"up", "broken"}
      /\ svc \in [pc : {"command", "data", "linkData", "linkDone", "recv", "ended"},
                  file : Files, opened : BOOLEAN, at : Nat]
  BY DEF copyVars, Cur, SyncTypes, SvcTypes
<1>2. /\ client.pc = "status" /\ toDev = <<>> /\ cOut = <<>> /\ Len(Heard) = 1
      /\ svc.pc = "command" \/ (svc.pc = "ended" /\ link = "broken")
      /\ Cur \in unread \/ Copied(Cur)
      /\ Settled
  BY DEF Accepted
<1>3. Ended = [svc EXCEPT !.pc = "ended", !.opened = FALSE]
  BY DEF Ended
<1>4. SvcWrite \/ (HangUp /\ link = "broken")
  <2>1. \A id : ~ Reads(id)
    BY <1>2 DEF Reads
  <2>2. ~ RecvBlock
    BY <1>2, ServiceReads
  <2> QED
    BY <2>1, <2>2, ServiceReads DEF SvcStep
<1>5. /\ toDev' = <<>> /\ remote' = remote /\ stuck' = stuck /\ link' = link /\ Len(Heard') = 1
      /\ svc'.pc = "command" \/ (svc'.pc = "ended" /\ link = "broken")
  <2>1. CASE SvcWrite
    <3>1. /\ Heard' = Heard /\ remote' = remote /\ stuck' = stuck /\ link' = link /\ toDev' = toDev
          /\ link = "up" => svc' = svc
          /\ svc'.pc \in {svc.pc, "ended"}
      BY <1>1, <2>1, SvcWriteEffect
    <3> QED
      BY <1>1, <1>2, <3>1
  <2>2. CASE HangUp /\ link = "broken"
    <3>1. toDev' = toDev /\ link' = link /\ toHost' = toHost /\ svc' = Ended
          /\ (svc.pc # "data" => remote' = remote /\ stuck' = stuck)
      BY <2>2 DEF HangUp
    <3>2. Heard' = Heard
      BY <2>2, <3>1 DEF Heard
    <3>3. svc'.pc = "ended"
      BY <1>1, <1>3, <3>1
    <3> QED
      BY <1>1, <1>2, <2>2, <3>1, <3>2, <3>3
  <2> QED
    BY <1>4, <2>1, <2>2
<1>6. Settled'
  BY <1>1, <1>2, <1>5 DEF Settled, Whole, Copied
<1> QED
  BY <1>1, <1>2, <1>5, <1>6 DEF Accepted, Whole, Copied

LEMMA SendingService ==
  ASSUME SyncTypes, clientOpen, SendingOK, client.pc \in {"file", "status"}, SvcStep,
         copyVars' = copyVars
  PROVE  SendingOK'
<1>1. client' = client /\ Cur' = Cur /\ cOut' = cOut /\ link \in {"up", "broken"}
  BY DEF copyVars, Cur, SyncTypes
<1>2. client.todo # <<>> /\ Cur \notin client.same
  BY DEF SendingOK
<1>3. CASE Heard # <<>>
  <2>1. Heard' # <<>> /\ Heard'[1] = Heard[1]
    BY <1>3, HeardFirst
  <2>2. Heard[1].f = Cur /\ (Heard[1].id = "FAIL" \/ (Heard[1].id = "OKAY" /\ Accepted))
    BY <1>3 DEF SendingOK
  <2>3. Accepted => Accepted'
    BY AcceptedService
  <2> QED
    BY <1>1, <1>2, <2>1, <2>2, <2>3 DEF SendingOK
<1>4. CASE Heard = <<>> /\ link = "up"
  <2>1. Underway
    BY <1>4 DEF SendingOK
  <2> QED
    BY <1>2, <1>4, <2>1, UnderwayService
<1>5. CASE Heard = <<>> /\ link = "broken"
  <2>1. Heard' = Heard /\ link' = "broken"
    BY <1>5, BrokenService
  <2> QED
    BY <1>1, <1>2, <1>5, <2>1 DEF SendingOK
<1> QED
  BY <1>1, <1>3, <1>4, <1>5

LEMMA ReceivingService ==
  ASSUME SyncTypes, clientOpen, ReceivingOK, Harmless, client.pc \in {"first", "data"}, SvcStep,
         copyVars' = copyVars
  PROVE  ReceivingOK'
<1>1. /\ client' = client /\ Cur' = Cur /\ cOut' = cOut /\ local' = local /\ Had' = Had
      /\ link \in {"up", "broken"} /\ remote' = remote /\ stuck' = stuck
      /\ SyncTypes' /\ sOut' \in Seq(Messages)
  <2>1. SyncTypes'
    BY ServiceTypes
  <2>2. cOut' = cOut
    BY DEF copyVars
  <2> QED
    BY <2>1, <2>2, HarmlessService DEF copyVars, Cur, SyncTypes, StreamTypes, Had
<1>2. /\ client.todo # <<>> /\ Had <= Len(remote[Cur].blocks)
      /\ \A i \in 1 .. Had : local[Cur].blocks[i] = remote[Cur].blocks[i]
      /\ \A j \in 1 .. Len(Heard) : Follows(j)
  BY DEF ReceivingOK
<1>3. /\ svc \in [pc : {"command", "data", "linkData", "linkDone", "recv", "ended"},
                  file : Files, opened : BOOLEAN, at : Nat]
      /\ remote \in [Files -> FileStates] /\ Cur \in Files /\ Had \in Nat
      /\ remote[Cur].blocks \in Seq(Nat) /\ Len(remote[Cur].blocks) \in Nat
      /\ Heard \in Seq(Messages) /\ Requested \in Seq(Messages) /\ Len(Heard) \in Nat
  <2>1. client.todo \in Seq(Files) /\ local \in [Files -> FileStates]
        /\ remote \in [Files -> FileStates]
    BY DEF SyncTypes, ClientTypes
  <2>2. Cur \in Files
    BY <1>2, <2>1, TailIs DEF Cur
  <2>3. local[Cur].blocks \in Seq(Nat) /\ remote[Cur].blocks \in Seq(Nat)
    BY <2>1, <2>2, FileStatesAre
  <2>4. Had \in Nat
    BY <2>3 DEF Had
  <2> QED
    BY <2>1, <2>2, <2>3, <2>4, StreamsAre DEF SyncTypes, SvcTypes
<1>4. ASSUME Heard' = Heard, link' = "broken" \/ Sends'
      PROVE  ReceivingOK'
  <2>1. \A j \in 1 .. Len(Heard') : Follows(j)'
    BY <1>1, <1>2, <1>4 DEF Follows
  <2> QED
    BY <1>1, <1>2, <1>4, <2>1 DEF ReceivingOK
<1>5. CASE link = "broken"
  BY <1>4, <1>5, BrokenService
<1>6. CASE link = "up"
  <2>1. Sends
    BY <1>6 DEF ReceivingOK
  <2>2. CASE SvcWrite
    <3>1. Heard' = Heard /\ Requested' = Requested /\ svc' = svc
      BY <1>1, <1>6, <2>2, SvcWriteEffect
    <3>2. Sends'
      BY <1>1, <2>1, <3>1 DEF Sends
    <3> QED
      BY <1>4, <3>1, <3>2
  <2>3. ASSUME NEW id, Reads(id)
        PROVE  /\ svc.pc = "command" /\ Heard = <<>> /\ client.pc = "first"
               /\ id = "RECV" /\ Head(toDev).f = Cur
               /\ Requested' = <<>> /\ Heard' = sOut'
    <3>1. /\ Requested # <<>> /\ Requested[1] = Head(toDev) /\ Head(toDev).id = id
          /\ Requested' = Tail(Requested) /\ Heard' = Heard \o sOut'
      BY <1>1, <1>6, <2>3, ReadsEffect
    <3>2. /\ svc.pc = "command" /\ Heard = <<>> /\ client.pc = "first"
          /\ Len(Requested) = 1 /\ Requested[1].id = "RECV" /\ Requested[1].f = Cur
      BY <2>1, <3>1 DEF Sends
    <3>3. Requested' \in Seq(Messages) /\ Len(Requested') = 0
      BY <1>3, <3>1, <3>2, TailIs
    <3>4. Requested' = <<>> /\ Heard' = sOut'
      BY <1>1, <3>1, <3>2, <3>3, JoinedEmpty, EmptyIs
    <3> QED
      BY <3>1, <3>2, <3>4
  <2>4. CASE DoRecv
    <3>1. /\ svc.pc = "command" /\ Heard = <<>> /\ client.pc = "first" /\ Head(toDev).f = Cur
          /\ Requested' = <<>> /\ Heard' = sOut'
      BY <2>3, <2>4, ServiceReads
    <3>2. Had = 0
      BY <3>1 DEF Had
    <3>3. CASE /\ svc' = [svc EXCEPT !.pc = "recv", !.file = Cur, !.at = 0, !.opened = TRUE]
               /\ sOut' = <<>>
      <4>1. svc'.pc = "recv" /\ svc'.file = Cur /\ svc'.at = 0
        BY <1>3, <3>3
      <4>2. Heard' = Heard /\ Len(Heard') = 0 /\ 0 = Had' + 0 /\ \A j \in 1 .. 0 : FALSE
        BY <1>1, <3>1, <3>2, <3>3
      <4>3. Sends'
        BY <1>1, <1>2, <3>1, <3>2, <4>1, <4>2 DEF Sends
      <4> QED
        BY <1>4, <4>2, <4>3
    <3>4. CASE svc' = svc /\ Answer(Cur, <<"FAIL">>)
      <4>1. Len(sOut') = 1 /\ sOut'[1].id = "FAIL" /\ sOut'[1].f = Cur
        BY <1>3, <3>4, OneAnswer
      <4>2. sOut' # <<>>
        <5>1. sOut' \in Seq(Messages)
          BY <1>1
        <5>2. sOut' = <<>> <=> Len(sOut') = 0
          BY <5>1, EmptyIs
        <5>3. Len(sOut') # 0
          BY <4>1
        <5> QED
          BY <5>2, <5>3
      <4>6. \A j \in 1 .. 1 : j = 1
        OBVIOUS
      <4>3. Sends'
        BY <1>1, <3>1, <3>4, <4>1, <4>2 DEF Sends
      <4>4. \A j \in 1 .. Len(Heard') : Follows(j)'
        BY <1>1, <3>1, <4>1, <4>2, <4>6 DEF Follows
      <4> QED
        BY <1>1, <1>2, <4>3, <4>4 DEF ReceivingOK
    <3> QED
      BY <2>4, <3>1, <3>3, <3>4 DEF DoRecv
  <2>5. CASE RecvBlock
    <3> DEFINE blocks == remote[Cur].blocks
    <3>0. PICK n \in Nat : n = Len(Heard)
      BY <1>3
    <3>1. /\ svc.pc = "recv" /\ svc.file = Cur /\ Requested = <<>>
          /\ svc.at = Had + n /\ svc.at <= Len(blocks)
          /\ \A j \in 1 .. n : Heard[j].id = "DATA"
      BY <2>1, <2>5, <3>0, ServiceReads DEF Sends
    <3>2. Requested' = <<>> /\ Heard' = Heard \o sOut' /\ link' = link
      BY <1>1, <1>6, <2>5, <3>1, RecvEffect
    <3>3. ASSUME Len(sOut') = 1
          PROVE  /\ Heard' # <<>> /\ Len(Heard') = n + 1 /\ Heard'[n + 1] = sOut'[1]
                 /\ \A j \in 1 .. n : Heard'[j] = Heard[j]
                 /\ \A j \in 1 .. n : Follows(j)'
                 /\ \A j \in 1 .. n + 1 : j \in 1 .. n \/ j = n + 1
      <4>1. /\ Heard' \in Seq(Messages) /\ Len(Heard') = n + 1 /\ Heard'[n + 1] = sOut'[1]
            /\ \A j \in 1 .. n : Heard'[j] = Heard[j]
        BY <1>1, <1>3, <3>0, <3>2, <3>3, JoinedOne
      <4>2. Heard' # <<>> /\ \A j \in 1 .. n + 1 : j \in 1 .. n \/ j = n + 1
        BY <3>0, <4>1, EmptyIs
      <4>3. ASSUME NEW j \in 1 .. n PROVE Follows(j)'
        <5>1. Follows(j) /\ Heard[j].id = "DATA" /\ Heard'[j] = Heard[j]
          BY <1>2, <3>0, <3>1, <4>1
        <5>2. /\ Heard'[j].f = Cur' /\ Heard'[j].id = "DATA"
              /\ Had' + j <= Len(remote'[Cur'].blocks)
              /\ Heard'[j].data = <<remote'[Cur'].blocks[Had' + j]>>
          BY <1>1, <5>1 DEF Follows
        <5> QED
          BY <5>2 DEF Follows
      <4> QED
        BY <4>1, <4>2, <4>3
    <3>4. ASSUME Len(sOut') = 1, Follows(n + 1)', Sends'
          PROVE  ReceivingOK'
      <4>1. \A j \in 1 .. Len(Heard') : Follows(j)'
        BY <3>3, <3>4
      <4> QED
        BY <1>1, <1>2, <3>4, <4>1 DEF ReceivingOK
    <3>5. CASE /\ svc.at < Len(blocks) /\ svc' = [svc EXCEPT !.at = @ + 1]
               /\ sOut' = <<Msg("DATA", Cur, <<blocks[svc.at + 1]>>)>>
      <4>1. /\ Len(sOut') = 1 /\ sOut'[1].f = Cur /\ sOut'[1].id = "DATA"
            /\ sOut'[1].data = <<blocks[svc.at + 1]>>
        BY <3>5 DEF Msg
      <4>2. svc.at + 1 = Had + (n + 1) /\ Had + (n + 1) <= Len(blocks)
        BY <1>3, <3>0, <3>1, <3>5
      <4>3. Heard'[n + 1] = sOut'[1] /\ Len(Heard') = n + 1
        BY <3>3, <4>1
      <4>4. Follows(n + 1)'
        <5>1. /\ Heard'[n + 1].f = Cur' /\ Heard'[n + 1].id = "DATA"
              /\ Had' + (n + 1) <= Len(remote'[Cur'].blocks)
              /\ Heard'[n + 1].data = <<remote'[Cur'].blocks[Had' + (n + 1)]>>
          BY <1>1, <4>1, <4>2, <4>3
        <5> QED
          BY <5>1 DEF Follows
      <4>5. Sends'
        <5>1. svc'.pc = "recv" /\ svc'.file = Cur /\ svc'.at = svc.at + 1
          BY <1>3, <3>1, <3>5
        <5>2. svc'.at = Had' + Len(Heard') /\ svc'.at <= Len(remote'[Cur'].blocks)
          BY <1>1, <4>2, <4>3, <5>1
        <5>3. \A j \in 1 .. Len(Heard') : Heard'[j].id = "DATA"
          BY <3>1, <3>3, <4>1, <4>3
        <5> QED
          BY <1>1, <3>2, <5>1, <5>2, <5>3 DEF Sends
      <4> QED
        BY <3>4, <4>1, <4>4, <4>5
    <3>6. CASE /\ svc' = Ready
               /\ \/ svc.at = Len(blocks) /\ Answer(Cur, <<"DONE">>)
                  \/ Answer(Cur, <<"FAIL">>)
      <4>1. /\ Len(sOut') = 1 /\ sOut'[1].f = Cur
            /\ \/ sOut'[1].id = "DONE" /\ svc.at = Len(blocks)
               \/ sOut'[1].id = "FAIL"
        BY <1>3, <3>6, OneAnswer
      <4>2. svc.at + 1 = Had + (n + 1)
        BY <1>3, <3>0, <3>1
      <4>3. Heard'[n + 1] = sOut'[1] /\ Len(Heard') = n + 1 /\ Heard' # <<>>
        BY <3>3, <4>1
      <4>4. Follows(n + 1)'
        <5>1. /\ Heard'[n + 1].f = Cur' /\ n + 1 = Len(Heard')
              /\ \/ /\ Heard'[n + 1].id = "DONE"
                    /\ Had' + (n + 1) = Len(remote'[Cur'].blocks) + 1
                 \/ Heard'[n + 1].id = "FAIL"
          BY <1>1, <4>1, <4>2, <4>3
        <5> QED
          BY <5>1 DEF Follows
      <4>5. Sends'
        <5>1. svc'.pc = "command"
          BY <1>3, <3>6 DEF Ready
        <5>2. Heard'[Len(Heard')].id # "DATA"
          BY <4>1, <4>3
        <5> QED
          BY <3>2, <4>3, <5>1, <5>2 DEF Sends
      <4> QED
        BY <3>4, <4>1, <4>4, <4>5
    <3> QED
      BY <2>5, <3>1, <3>5, <3>6 DEF RecvBlock
  <2>6. ~ DoStat /\ ~ DoList /\ ~ DoSend /\ ~ SendData /\ ~ SendDone /\ ~ LinkData /\ ~ LinkDone
        /\ ~ Quit /\ ~ HangUp
    BY <1>6, <2>3, ServiceReads
  <2> QED
    BY <2>2, <2>4, <2>5, <2>6 DEF SvcStep
<1> QED
  BY <1>1, <1>5, <1>6

-----------------------------------------------------------------------------
\* Every step of the service.

LEMMA ServiceKeeps ==
  ASSUME CopyInv, SvcStep, copyVars' = copyVars
  PROVE  CopyInv'
<1>1. SyncTypes /\ JobOK /\ PhaseOK /\ StateOK /\ PartOpen
  BY DEF CopyInv
<1>2. SyncTypes' /\ PartOpen'
  BY <1>1, ServiceTypes, PartKept
<1>3. /\ client' = client /\ job' = job /\ local' = local /\ unread' = unread /\ Cur' = Cur
      /\ cOut' = cOut
  BY DEF copyVars, Cur
<1>4. clientOpen' = clientOpen
  BY DEF SvcStep, SvcWrite, DoStat, DoList, DoSend, SendData, SendDone, LinkData, LinkDone, DoRecv,
         RecvBlock, Quit, HangUp, Reads
<1>5. JobOK'
  BY <1>1, <1>3, <1>4 DEF JobOK, Whole
<1>6. CASE client.pc = "exited"
  <2>1. client.pc = "exited" => /\ client.pc \notin {"start", "next", "mode", "stats", "dents"}
                                /\ client.pc \notin {"file", "status", "first", "data", "quit"}
    BY <1>6
  <2>2. PhaseOK'
    BY <1>1, <1>3, <1>6, <2>1 DEF PhaseOK
  <2>3. StateOK'
    <3>1. ASSUME Going, Harmless PROVE Harmless' /\ remote' = remote /\ stuck' = stuck
      BY <1>1, <1>3, <3>1, HarmlessService
    <3>2. Going' <=> Going
      BY <1>3 DEF Going
    <3>3. CASE ~ Going
      BY <3>2, <3>3 DEF StateOK
    <3>4. CASE Going
      <4>1. Harmless' /\ remote' = remote /\ stuck' = stuck
        BY <1>1, <1>6, <3>1, <3>4 DEF StateOK
      <4> QED
        BY <1>1, <1>3, <1>6, <3>4, <4>1 DEF StateOK, Settled, Kept, Whole, Copied
    <3> QED
      BY <3>3, <3>4
  <2> QED
    BY <1>2, <1>5, <2>2, <2>3 DEF CopyInv
<1>7. CASE client.pc # "exited"
  <2>1. clientOpen /\ Going /\ Going'
    BY <1>1, <1>3, <1>7 DEF JobOK, Going
  <2>2. client.pc \notin {"file", "status"} =>
           Harmless /\ Harmless' /\ remote' = remote /\ stuck' = stuck
    <3>1. ASSUME Harmless PROVE Harmless' /\ remote' = remote /\ stuck' = stuck
      BY <1>1, <1>3, <3>1, HarmlessService
    <3> QED
      BY <1>1, <2>1, <3>1 DEF StateOK
  <2>3. StateOK'
    <3>1. CASE client.pc \notin {"file", "status"}
      BY <1>1, <1>3, <2>1, <2>2, <3>1 DEF StateOK, Settled, Kept, Whole, Copied
    <3>2. CASE client.pc \in {"file", "status"}
      <4>1. job.op \in Pushes
        BY <1>1, <3>2 DEF JobOK
      <4> QED
        BY <1>3, <3>2, <4>1 DEF StateOK
    <3> QED
      BY <3>1, <3>2
  <2>4. client.pc \in {"start", "next"} => Rest'
    <3>1. ASSUME client.pc \in {"start", "next"} PROVE Rest'
      <4>1. Rest
        BY <1>1, <3>1 DEF PhaseOK
      <4> QED
        BY <1>1, <2>1, <4>1, RestService
    <3> QED
      BY <3>1
  <2>5. client.pc \in {"mode", "stats"} => StatOK'
    <3>1. ASSUME client.pc \in {"mode", "stats"} PROVE StatOK'
      <4>1. StatOK /\ Harmless
        BY <1>1, <2>2, <3>1 DEF PhaseOK
      <4> QED
        BY <1>1, <2>1, <4>1, StatService
    <3> QED
      BY <3>1
  <2>6. client.pc = "dents" => DentsOK'
    <3>1. ASSUME client.pc = "dents" PROVE DentsOK'
      <4>1. DentsOK
        BY <1>1, <3>1 DEF PhaseOK
      <4> QED
        BY <1>1, <2>1, <4>1, DentsService
    <3> QED
      BY <3>1
  <2>7. client.pc \in {"file", "status"} => SendingOK'
    <3>1. ASSUME client.pc \in {"file", "status"} PROVE SendingOK'
      <4>1. SendingOK
        BY <1>1, <3>1 DEF PhaseOK
      <4> QED
        BY <1>1, <2>1, <3>1, <4>1, SendingService
    <3> QED
      BY <3>1
  <2>8. client.pc \in {"first", "data"} => ReceivingOK'
    <3>1. ASSUME client.pc \in {"first", "data"} PROVE ReceivingOK'
      <4>1. ReceivingOK /\ Harmless
        BY <1>1, <2>2, <3>1 DEF PhaseOK
      <4> QED
        BY <1>1, <2>1, <3>1, <4>1, ReceivingService
    <3> QED
      BY <3>1
  <2>9. PhaseOK'
    BY <1>1, <1>3, <2>4, <2>5, <2>6, <2>7, <2>8 DEF PhaseOK
  <2> QED
    BY <1>2, <1>5, <2>3, <2>9 DEF CopyInv
<1> QED
  BY <1>6, <1>7

-----------------------------------------------------------------------------
\* Steps of the client.

LEMMA ClientLeaves ==
  ASSUME CopyStep
  PROVE  svc' = svc /\ sOut' = sOut /\ remote' = remote
       /\ stuck' = stuck /\ link' = link /\ job' = job
  BY DEF CopyStep, Start, CWrite, ReadMode, ReadTime, FinishReadtime, ReadDent, NextFile,
         WriteFile, ReadStatus, ReadData, Leave, Eof, Stays, Receives, svcVars

\* A command that fails leaves nothing to keep but what the service keeps.
LEMMA ExitFails ==
  ASSUME SyncTypes, SyncTypes', PartOpen, JobOK, job' = job, svc' = svc, remote' = remote,
         stuck' = stuck, Exit(1),
         job.op \in Pushes => local' = local
  PROVE  CopyInv'
<1>1. client'.pc = "exited" /\ client'.code = 1 /\ clientOpen' = FALSE
  BY DEF Exit, SyncTypes, ClientTypes
<1>2. JobOK'
  BY <1>1 DEF JobOK, Whole
<1>3. PhaseOK'
  BY <1>1 DEF PhaseOK
<1>4. StateOK'
  BY <1>1 DEF StateOK, Going
<1>5. PartOpen'
  BY DEF PartOpen
<1> QED
  BY <1>2, <1>3, <1>4, <1>5 DEF CopyInv

\* It ends with 0 only when nothing is left to do.
LEMMA ExitEnds ==
  ASSUME CopyInv, SyncTypes', client.pc = "quit", job' = job, svc' = svc, remote' = remote,
         stuck' = stuck,
         Exit(0), local' = local, unread' = unread, toDev' = toDev
  PROVE  CopyInv'
<1>0. SyncTypes /\ JobOK /\ PhaseOK /\ StateOK /\ PartOpen
  BY DEF CopyInv
<1>1. /\ client'.pc = "exited" /\ client'.code = 0 /\ clientOpen' = FALSE /\ cOut' = <<>>
      /\ client'.todo = client.todo /\ client'.same = client.same /\ client.todo = <<>>
  BY <1>0 DEF Exit, SyncTypes, ClientTypes, PhaseOK
<1>2. JobOK'
  BY <1>0, <1>1 DEF JobOK, Whole
<1>3. PhaseOK'
  BY <1>1 DEF PhaseOK
<1>4. StateOK'
  <2>1. Going /\ Harmless /\ (job.op \in Pushes => Settled) /\ (job.op \notin Pushes => Kept)
    BY <1>0 DEF StateOK, Going
  <2>2. Harmless'
    BY <1>1, <2>1 DEF Harmless, AsksOnly
  <2>3. Settled => Settled'
    BY <1>1 DEF Settled, Whole, Copied
  <2>4. Kept => Kept'
    BY <1>1 DEF Kept, Absent
  <2> QED
    BY <1>1, <2>1, <2>2, <2>3, <2>4 DEF StateOK, Going
<1>5. PartOpen'
  BY <1>0 DEF PartOpen
<1> QED
  BY <1>2, <1>3, <1>4, <1>5 DEF CopyInv

\* Otherwise it goes on to a state of its own.
LEMMA GoesOn ==
  ASSUME SyncTypes, SyncTypes', JobOK, PartOpen, svc' = svc, remote' = remote, stuck' = stuck,
         job' = job,
         clientOpen' = clientOpen, clientOpen, client'.code = client.code, client'.pc # "exited",
         job.op \in Pushes => local' = local,
         job.op \in Pushes => client'.pc \notin {"dents", "first", "data"},
         job.op \notin Pushes => client'.pc \notin {"stats", "file", "status"},
         PhaseOK', client'.pc \notin {"file", "status"} => Harmless',
         client'.pc \notin {"file", "status"} /\ job.op \in Pushes => Settled',
         job.op \notin Pushes => Kept'
  PROVE  CopyInv'
<1>1. JobOK'
  BY DEF JobOK, Whole
<1>2. StateOK'
  BY DEF StateOK
<1>3. PartOpen'
  BY DEF PartOpen
<1> QED
  BY <1>1, <1>2, <1>3 DEF CopyInv

\* The same files are settled, and kept.
LEMMA SameFiles ==
  ASSUME remote' = remote, stuck' = stuck, job' = job, client'.todo = client.todo,
         client'.same = client.same,
         local' = local, unread \subseteq unread', client'.pc = "data" <=> client.pc = "data"
  PROVE  /\ Settled => Settled'
         /\ Kept => Kept'
<1>1. Settled => Settled'
  BY DEF Settled, Whole, Copied
<1>2. Kept => Kept'
  BY DEF Kept, Absent, Cur
<1> QED
  BY <1>1, <1>2

LEMMA StartKeeps ==
  ASSUME CopyInv, SyncTypes', Start
  PROVE  CopyInv'
<1>0. SyncTypes /\ JobOK /\ PhaseOK /\ StateOK /\ PartOpen
  BY DEF CopyInv
<1>1. /\ svc' = svc /\ remote' = remote
      /\ stuck' = stuck /\ job' = job /\ local' = local /\ unread' = unread
      /\ toDev' = toDev /\ toHost' = toHost /\ sOut' = sOut /\ link' = link
      /\ client.pc = "start" /\ link \in {"up", "broken"}
  BY <1>0 DEF Start, Stays, svcVars, SyncTypes
<1>2. CASE Exit(1)
  BY <1>0, <1>1, <1>2, ExitFails
<1>3. /\ Rest /\ client.at = 0 /\ (job.op \in {"push", "pull"} => Len(client.todo) = 1)
      /\ Harmless /\ (job.op \in Pushes => Settled) /\ (job.op \notin Pushes => Kept) /\ clientOpen
      /\ client.todo \in Seq(Files) /\ Len(client.todo) \in Nat
  BY <1>0, <1>1 DEF PhaseOK, StateOK, Going, JobOK, SyncTypes, ClientTypes
<1>4. /\ Heard = <<>> /\ Heard' = <<>> /\ cOut = <<>> /\ Len(<<>>) = 0
      /\ link = "up" => toDev = <<>> /\ svc.pc = "command"
  BY <1>1, <1>3 DEF Rest, Heard
<1>5. ASSUME NEW pc \in {"mode", "next", "stats", "dents"}, NEW words \in Seq(Messages),
             Continue(Go(pc), words), AsksOnly(words), PhaseOK',
             job.op \in Pushes => pc # "dents", job.op \notin Pushes => pc # "stats"
      PROVE  CopyInv'
  <2>1. /\ client'.pc = pc /\ client'.todo = client.todo /\ client'.same = client.same
        /\ client'.code = client.code /\ cOut' = words /\ clientOpen' = clientOpen
    BY <1>0, <1>5 DEF Continue, Go, SyncTypes, ClientTypes
  <2>2. (Settled => Settled') /\ (Kept => Kept')
    BY <1>1, <2>1, SameFiles
  <2>3. Harmless'
    BY <1>1, <1>3, <1>5, <2>1 DEF Harmless, AsksOnly
  <2> QED
    BY <1>0, <1>1, <1>3, <1>5, <2>1, <2>2, <2>3, GoesOn
<1>6. ASSUME NEW pc, Continue(Go(pc), RequestsOf("STAT", client.todo)),
             (pc = "mode" /\ job.op \in {"push", "pull"}) \/ (pc = "stats" /\ job.op = "sync")
      PROVE  CopyInv'
  <2> DEFINE words == RequestsOf("STAT", client.todo)
  <2>1. /\ words \in Seq(Messages) /\ Len(words) = Len(client.todo)
        /\ \A i \in 1 .. Len(client.todo) : words[i].id = "STAT" /\ words[i].f = client.todo[i]
    BY <1>0, <1>3, RequestsAre
  <2>2. cOut' = words /\ client'.pc = pc /\ client'.todo = client.todo /\ client'.at = 0
        /\ client'.code = client.code
    BY <1>0, <1>3, <1>6 DEF Continue, Go, SyncTypes, ClientTypes
  <2> HIDE DEF words
  <2>3. link = "up" => Requested' = words
    BY <1>1, <1>4, <2>1, <2>2, JoinedEmpty DEF Requested
  <2>4. StatOK'
    <3>1. client'.at + Len(Heard') <= Len(client'.todo)
      BY <1>3, <1>4, <2>2
    <3>2. \A j \in 1 .. Len(Heard') : FALSE
      BY <1>4
    <3>3. ASSUME link = "up"
          PROVE  /\ client'.at + Len(Heard') + Len(Requested') = Len(client'.todo)
                 /\ \A j \in 1 .. Len(Requested') :
                      /\ Requested'[j].id = "STAT"
                      /\ Requested'[j].f = client'.todo[client'.at + Len(Heard') + j]
      <4>1. Len(Requested') = Len(client.todo) /\ Requested' = words
        BY <2>1, <2>3, <3>3
      <4>2. \A j \in 1 .. Len(client.todo) : client'.at + Len(Heard') + j = j
        BY <1>4, <2>2
      <4> QED
        BY <1>3, <1>4, <2>1, <2>2, <4>1, <4>2
    <3> QED
      BY <1>1, <1>4, <3>1, <3>2, <3>3 DEF StatOK
  <2>5. PhaseOK'
    BY <1>0, <1>3, <1>6, <2>2, <2>4 DEF PhaseOK, JobOK
  <2>6. AsksOnly(words)
    BY <2>1 DEF AsksOnly
  <2> QED
    BY <1>5, <1>6, <2>1, <2>5, <2>6 DEF words, Pushes
<1>7. CASE job.op = "pushdir" /\ Continue(Go("next"), <<>>)
  <2>1. /\ client'.pc = "next" /\ cOut' = <<>> /\ client'.code = client.code
    BY <1>0, <1>7 DEF Continue, Go, SyncTypes, ClientTypes
  <2>2. Rest'
    BY <1>1, <1>4, <2>1 DEF Rest
  <2>3. PhaseOK'
    BY <1>0, <1>1, <2>1, <2>2 DEF PhaseOK, JobOK
  <2>4. AsksOnly(<<>>) /\ <<>> \in Seq(Messages)
    BY DEF AsksOnly
  <2> QED
    BY <1>5, <1>7, <2>3, <2>4 DEF Pushes
<1>8. CASE job.op = "pulldir" /\ Continue(Go("dents"), ListRequest)
  <2>1. /\ client'.pc = "dents" /\ cOut' = ListRequest /\ client'.code = client.code
    BY <1>0, <1>8 DEF Continue, Go, SyncTypes, ClientTypes
  <2>2. /\ ListRequest \in Seq(Messages) /\ Len(ListRequest) = 1 /\ ListRequest[1].id = "LIST"
    <3>1. Anyfile \in Files
      BY SyncAssumption DEF Anyfile
    <3>2. Msg("LIST", Anyfile, <<>>) \in Messages /\ Msg("LIST", Anyfile, <<>>).id = "LIST"
      BY <3>1, MessageIs
    <3> QED
      BY <3>2, OneMessage DEF ListRequest
  <2>3. link = "up" => Requested' = ListRequest
    BY <1>1, <1>4, <2>1, <2>2, JoinedEmpty DEF Requested
  <2>4. DentsOK'
    BY <1>1, <1>4, <2>2, <2>3 DEF DentsOK
  <2>5. PhaseOK'
    BY <1>0, <1>1, <2>1, <2>4 DEF PhaseOK, JobOK
  <2>6. AsksOnly(ListRequest)
    BY <2>2 DEF AsksOnly
  <2> QED
    BY <1>5, <1>8, <2>2, <2>5, <2>6 DEF Pushes
<1>9. \/ Exit(1)
      \/ Continue(Go("mode"), RequestsOf("STAT", client.todo)) /\ job.op \in {"push", "pull"}
      \/ Continue(Go("stats"), RequestsOf("STAT", client.todo)) /\ job.op = "sync"
      \/ job.op = "pushdir" /\ Continue(Go("next"), <<>>)
      \/ job.op = "pulldir" /\ Continue(Go("dents"), ListRequest)
  <2>1. job.op \in Pushes \cup {"pull", "pulldir"}
    BY <1>0 DEF SyncTypes
  <2> QED
    BY <2>1 DEF Start, Pushes
<1> QED
  BY <1>2, <1>6, <1>7, <1>8, <1>9

LEMMA WriteMoves ==
  ASSUME SyncTypes, cOut # <<>>, toDev' = Append(toDev, Head(cOut)), cOut' = Tail(cOut),
         toHost' = toHost, sOut' = sOut, link' = link
  PROVE  /\ Requested' = Requested /\ Heard' = Heard
         /\ AsksOnly(toDev) /\ AsksOnly(cOut) => (AsksOnly(toDev) /\ AsksOnly(cOut))'
<1>1. toDev \in Seq(Messages) /\ cOut \in Seq(Messages) /\ Len(toDev) \in Nat
  BY DEF SyncTypes, StreamTypes
<1>2. /\ Requested' = Requested /\ Heard' = Heard
  BY <1>1, JoinedMoves DEF Requested, Heard
<1>3. ASSUME AsksOnly(toDev), AsksOnly(cOut)
      PROVE  (AsksOnly(toDev) /\ AsksOnly(cOut))'
  <2>1. AsksOnly(Tail(cOut)) /\ Head(cOut).id \in {"STAT", "LIST", "RECV", "QUIT"}
    BY <1>1, <1>3, AsksOnlyIs
  <2>2. Head(cOut) \in Messages
    BY <1>1, TailIs
  <2>3. /\ Len(toDev') = Len(toDev) + 1
        /\ \A i \in 1 .. Len(toDev) : toDev'[i] = toDev[i]
        /\ toDev'[Len(toDev) + 1] = Head(cOut)
    BY <1>1, <2>2, AppendIs
  <2>4. \A i \in 1 .. Len(toDev) + 1 : i \in 1 .. Len(toDev) \/ i = Len(toDev) + 1
    BY <1>1
  <2>5. AsksOnly(toDev)'
    BY <1>3, <2>1, <2>3, <2>4 DEF AsksOnly
  <2>6. AsksOnly(cOut)'
    BY <2>1 DEF AsksOnly
  <2> QED
    BY <2>5, <2>6
<1> QED
  BY <1>2, <1>3

LEMMA CWriteKeeps ==
  ASSUME CopyInv, SyncTypes', CWrite
  PROVE  CopyInv'
<1>0. SyncTypes /\ JobOK /\ PhaseOK /\ StateOK /\ PartOpen
  BY DEF CopyInv
<1>1. /\ svc' = svc /\ sOut' = sOut /\ remote' = remote
      /\ stuck' = stuck /\ job' = job /\ local' = local
      /\ unread' = unread /\ toHost' = toHost /\ link' = link /\ cOut # <<>>
  BY DEF CWrite, svcVars
<1>2. CASE client.pc = "quit" /\ Exit(0) /\ toDev' = toDev
  BY <1>1, <1>2, ExitEnds
<1>3. CASE Exit(1)
  BY <1>0, <1>1, <1>3, ExitFails
<1>4. CASE /\ toDev' = Append(toDev, Head(cOut)) /\ cOut' = Tail(cOut) /\ client' = client
           /\ clientOpen' = clientOpen
  <2>1. /\ Requested' = Requested /\ Heard' = Heard
        /\ AsksOnly(toDev) /\ AsksOnly(cOut) => (AsksOnly(toDev) /\ AsksOnly(cOut))'
    BY <1>0, <1>1, <1>4, WriteMoves
  <2>2. Cur' = Cur /\ Pieces' = Pieces /\ Made' = Made /\ Got' = Got /\ Had' = Had
    BY <1>1, <1>4, <2>1 DEF Cur, Pieces, Made, Got, Had
  <2>3. client.pc \notin {"start", "next"}
    BY <1>0, <1>1 DEF PhaseOK, Rest
  <2>4. StatOK => StatOK'
    BY <1>1, <1>4, <2>1 DEF StatOK
  <2>5. DentsOK => DentsOK'
    BY <1>1, <1>4, <2>1 DEF DentsOK
  <2>6. SendingOK => SendingOK'
    <3>1. Settled => Settled'
      BY <1>1, <1>4 DEF Settled, Whole, Copied
    <3>2. Taken => Taken'
      BY <1>1, <2>2 DEF Taken, Begun, Copied
    <3>3. ASSUME NEW i \in 1 .. Len(Requested), IsPiece(Requested[i], Got + i)
          PROVE  IsPiece(Requested[i], Got + i)'
      BY <2>1, <2>2, <3>3 DEF IsPiece
    <3>4. Underway => Underway'
      BY <1>1, <1>4, <2>1, <2>2, <3>1, <3>2, <3>3 DEF Underway
    <3>5. ~ Accepted
      BY <1>1 DEF Accepted
    <3> QED
      BY <1>1, <1>4, <2>1, <2>2, <3>4, <3>5 DEF SendingOK
  <2>7. ReceivingOK => ReceivingOK'
    <3>1. ASSUME NEW j \in 1 .. Len(Heard), Follows(j)
          PROVE  Follows(j)'
      BY <1>1, <2>1, <2>2, <3>1 DEF Follows
    <3>2. Sends => Sends'
      BY <1>1, <1>4, <2>1, <2>2 DEF Sends
    <3> QED
      BY <1>1, <1>4, <2>1, <2>2, <3>1, <3>2 DEF ReceivingOK
  <2>8. PhaseOK'
    BY <1>0, <1>4, <2>3, <2>4, <2>5, <2>6, <2>7 DEF PhaseOK
  <2>9. (Settled => Settled') /\ (Kept => Kept')
    BY <1>1, <1>4, SameFiles
  <2>10. Harmless => Harmless'
    BY <1>1, <2>1 DEF Harmless
  <2>11. StateOK'
    BY <1>0, <1>1, <1>4, <2>9, <2>10 DEF StateOK, Going
  <2>12. JobOK'
    BY <1>0, <1>1, <1>4 DEF JobOK, Whole
  <2>13. PartOpen'
    BY <1>0, <1>1 DEF PartOpen
  <2> QED
    BY <2>8, <2>11, <2>12, <2>13 DEF CopyInv
<1> QED
  BY <1>2, <1>3, <1>4 DEF CWrite

\* The answer of the file asked about alone, or of all the files.
LEMMA StatLast ==
  ASSUME SyncTypes, StatOK, Harmless, Heard # <<>>, cOut = <<>>, client.at + 1 = Len(client.todo),
         Heard' = Tail(Heard), Requested = toDev, toDev' = toDev, cOut' = <<>>, svc' = svc,
         link' = link
  PROVE  Rest'
<1>1. /\ Heard \in Seq(Messages) /\ Requested \in Seq(Messages) /\ Len(Heard) \in Nat
      /\ Len(Requested) \in Nat /\ client.at \in Nat /\ Len(client.todo) \in Nat
      /\ Len(Heard) >= 1 /\ Tail(Heard) \in Seq(Messages) /\ Len(Tail(Heard)) = Len(Heard) - 1
      /\ client.at + Len(Heard) <= Len(client.todo)
      /\ link = "up" => client.at + Len(Heard) + Len(Requested) = Len(client.todo)
                        /\ svc.pc = "command"
  BY StreamsAre, TailIs DEF SyncTypes, ClientTypes, StatOK
<1>2. Len(Heard) = 1 /\ (link = "up" => Len(Requested) = 0)
  BY <1>1
<1>3. Heard' = <<>>
  <2>1. Heard' \in Seq(Messages) /\ Len(Heard') = 0
    BY <1>1, <1>2
  <2> QED
    BY <2>1, EmptyIs
<1>4. link = "up" => toDev = <<>>
  <2>1. Requested = <<>> <=> Len(Requested) = 0
    BY <1>1, EmptyIs
  <2> QED
    BY <1>2, <2>1
<1> QED
  BY <1>1, <1>3, <1>4 DEF Rest

\* The client goes to the next file.
LEMMA ToNext ==
  ASSUME CopyInv, SyncTypes', CopyStep, Rest', client.pc # "exited", client'.pc = "next",
         client'.code = client.code, clientOpen' = clientOpen, cOut' = <<>>,
         toDev' = toDev, svc.pc \in {"command", "recv", "ended"}, AsksOnly(toDev),
         job.op \in Pushes => local' = local /\ Settled', job.op \notin Pushes => Kept'
  PROVE  CopyInv'
<1>0. SyncTypes /\ JobOK /\ PhaseOK /\ StateOK /\ PartOpen
  BY DEF CopyInv
<1>1. svc' = svc /\ sOut' = sOut /\ remote' = remote /\ stuck' = stuck /\ link' = link /\ job' = job
  BY ClientLeaves
<1>2. clientOpen /\ client.code = -1
  BY <1>0 DEF JobOK
<1>3. Harmless'
  BY <1>1 DEF Harmless, AsksOnly
<1>4. PhaseOK'
  BY <1>2 DEF PhaseOK
<1> QED
  BY <1>0, <1>1, <1>2, <1>3, <1>4, GoesOn

LEMMA ReadModeKeeps ==
  ASSUME CopyInv, SyncTypes', ReadMode \/ ReadTime
  PROVE  CopyInv'
<1>0. SyncTypes /\ JobOK /\ PhaseOK /\ StateOK /\ PartOpen /\ CopyStep
  BY DEF CopyInv, CopyStep
<1>1. /\ client.pc = "mode" /\ Receives("mode") /\ local' = local /\ unread' = unread
      /\ (Exit(1) \/ Continue(Go("next"), <<>>))
  BY DEF ReadMode, ReadTime, Receives
<1>2. svc' = svc /\ sOut' = sOut /\ remote' = remote /\ stuck' = stuck /\ link' = link /\ job' = job
  BY <1>0, ClientLeaves
<1>3. CASE Exit(1)
  BY <1>0, <1>1, <1>2, <1>3, ExitFails
<1>4. CASE Continue(Go("next"), <<>>)
  <2>1. /\ client'.pc = "next" /\ client'.todo = client.todo /\ client'.same = client.same
        /\ client'.code = client.code /\ cOut' = <<>> /\ clientOpen' = clientOpen
    BY <1>0, <1>4 DEF Continue, Go, SyncTypes, ClientTypes
  <2>2. /\ Heard # <<>> /\ Heard' = Tail(Heard) /\ Requested = toDev /\ toDev' = toDev
        /\ cOut = <<>>
    BY <1>0, <1>1, ReceivesEffect
  <2>3. /\ StatOK /\ Harmless /\ client.at + 1 = Len(client.todo)
        /\ (job.op \in Pushes => Settled) /\ (job.op \notin Pushes => Kept)
    <3>1. client.at = 0 /\ Len(client.todo) = 1 /\ StatOK
      BY <1>0, <1>1 DEF PhaseOK
    <3>2. Harmless /\ (job.op \in Pushes => Settled) /\ (job.op \notin Pushes => Kept)
      BY <1>0, <1>1 DEF StateOK, Going
    <3> QED
      BY <3>1, <3>2
  <2>4. Rest'
    BY <1>0, <1>2, <2>1, <2>2, <2>3, StatLast
  <2>5. (Settled => Settled') /\ (Kept => Kept')
    BY <1>1, <1>2, <2>1, SameFiles
  <2> QED
    BY <1>0, <1>1, <1>2, <2>1, <2>2, <2>3, <2>4, <2>5, ToNext DEF Harmless
<1> QED
  BY <1>1, <1>3, <1>4

LEMMA CountedBack ==
  ASSUME NEW a \in Nat, NEW n \in Nat, NEW h, NEW b, h = n - 1, b = a + 1, n >= 1
  PROVE  /\ b + h = a + n
         /\ \A j \in 1 .. h : j + 1 \in 1 .. n /\ j \in 1 .. n - 1 /\ b + j = a + (j + 1)
  OBVIOUS

LEMMA FinishReadtimeKeeps ==
  ASSUME CopyInv, SyncTypes', FinishReadtime
  PROVE  CopyInv'
<1>0. SyncTypes /\ JobOK /\ PhaseOK /\ StateOK /\ PartOpen /\ CopyStep
  BY DEF CopyInv, CopyStep
<1>1. PICK f, same, state :
        /\ f = client.todo[client.at + 1]
        /\ same = IF Answered.data = Whole(f) THEN client.same \cup {f} ELSE client.same
        /\ state = [client EXCEPT !.at = client.at + 1, !.same = same]
        /\ Receives("stats") /\ local' = local /\ unread' = unread
        /\ Continue(IF client.at + 1 = Len(client.todo) THEN [state EXCEPT !.pc = "next"]
                    ELSE state, <<>>)
  BY DEF FinishReadtime
<1>2. svc' = svc /\ sOut' = sOut /\ remote' = remote /\ stuck' = stuck /\ link' = link /\ job' = job
  BY <1>0, ClientLeaves
<1>3. /\ client.pc = "stats" /\ Heard # <<>> /\ Heard[1] = Answered /\ Heard' = Tail(Heard)
      /\ Requested = toDev /\ toDev' = toDev /\ cOut = <<>>
  BY <1>0, <1>1, ReceivesEffect
<1>4. /\ client'.todo = client.todo /\ client'.same = same /\ client'.at = client.at + 1
      /\ client'.code = client.code /\ cOut' = <<>> /\ clientOpen' = clientOpen
      /\ client.at + 1 = Len(client.todo) => client'.pc = "next"
      /\ client.at + 1 # Len(client.todo) => client'.pc = "stats"
  <2>1. /\ state.todo = client.todo /\ state.same = same /\ state.at = client.at + 1
        /\ state.code = client.code /\ state.pc = "stats"
        /\ [state EXCEPT !.pc = "next"].pc = "next"
        /\ [state EXCEPT !.pc = "next"].todo = client.todo
        /\ [state EXCEPT !.pc = "next"].same = same
        /\ [state EXCEPT !.pc = "next"].at = client.at + 1
        /\ [state EXCEPT !.pc = "next"].code = client.code
    BY <1>0, <1>1, <1>3 DEF SyncTypes, ClientTypes
  <2>2. CASE client.at + 1 = Len(client.todo)
    <3>1. Continue([state EXCEPT !.pc = "next"], <<>>)
      BY <1>1, <2>2, Zenon
    <3> QED
      BY <2>1, <2>2, <3>1 DEF Continue
  <2>3. CASE client.at + 1 # Len(client.todo)
    <3>1. Continue(state, <<>>)
      BY <1>1, <2>3, Zenon
    <3> QED
      BY <2>1, <2>3, <3>1 DEF Continue
  <2> QED
    BY <2>2, <2>3
<1>5. StatOK /\ Harmless /\ Settled /\ job.op \in Pushes /\ clientOpen /\ client.code = -1
  BY <1>0, <1>3 DEF PhaseOK, StateOK, Going, JobOK
<1>6. /\ Heard \in Seq(Messages) /\ Requested \in Seq(Messages) /\ client.at \in Nat
      /\ Len(client.todo) \in Nat /\ Len(Heard) >= 1 /\ Tail(Heard) \in Seq(Messages)
      /\ Len(Heard) \in Nat /\ Len(Heard') = Len(Heard) - 1
      /\ \A i \in 1 .. Len(Heard) - 1 : Heard'[i] = Heard[i + 1]
      /\ Requested' = Requested
  BY <1>0, <1>3, <1>4, StreamsAre, TailIs, ReceivesEffect, <1>1 DEF SyncTypes, ClientTypes
<1>7. /\ client.at + Len(Heard) <= Len(client.todo)
      /\ \A j \in 1 .. Len(Heard) : Heard[j].f = client.todo[client.at + j]
                                    /\ Heard[j].data = remote[client.todo[client.at + j]]
      /\ link = "up" =>
           /\ svc.pc = "command"
           /\ client.at + Len(Heard) + Len(Requested) = Len(client.todo)
           /\ \A j \in 1 .. Len(Requested) :
                /\ Requested[j].id = "STAT"
                /\ Requested[j].f = client.todo[client.at + Len(Heard) + j]
  BY <1>5 DEF StatOK
<1>8. Settled'
  <2>1. Answered.data = remote[f]
    <3>1. 1 \in 1 .. Len(Heard)
      BY <1>6
    <3> QED
      BY <1>1, <1>3, <1>7, <3>1
  <2>2. ASSUME NEW g \in job.files,
               g \in same \/ (\A i \in 1 .. Len(client.todo) : client.todo[i] # g)
        PROVE  g \in unread \/ Copied(g)
    <3>1. CASE g \in client.same \/ (\A i \in 1 .. Len(client.todo) : client.todo[i] # g)
      BY <1>5, <3>1 DEF Settled
    <3>2. CASE g \in same /\ g \notin client.same
      <4>1. g = f /\ remote[f] = Whole(f)
        BY <1>1, <2>1, <3>2
      <4>2. f \in Files
        <5>1. job.files \subseteq Files
          BY <1>0 DEF CopyInv, SyncTypes
        <5> QED
          BY <2>2, <4>1, <5>1
      <4> QED
        BY <4>1, <4>2, WholeCopied DEF Copied
    <3> QED
      BY <2>2, <3>1, <3>2
  <2> QED
    BY <1>1, <1>2, <1>4, <2>2 DEF Settled, Whole, Copied
<1>9. CASE client.at + 1 = Len(client.todo)
  <2>1. Rest'
    BY <1>0, <1>2, <1>3, <1>4, <1>5, <1>9, StatLast
  <2> QED
    BY <1>0, <1>1, <1>2, <1>3, <1>4, <1>5, <1>8, <1>9, <2>1, ToNext DEF Harmless
<1>10. CASE client.at + 1 # Len(client.todo)
  <2> DEFINE h == Len(Heard')
  <2>1. /\ client'.at + h = client.at + Len(Heard)
        /\ \A j \in 1 .. h : /\ j + 1 \in 1 .. Len(Heard) /\ j \in 1 .. Len(Heard) - 1
                             /\ client'.at + j = client.at + (j + 1)
    <3>1. h = Len(Heard) - 1 /\ client'.at = client.at + 1 /\ Len(Heard) >= 1
          /\ Len(Heard) \in Nat /\ client.at \in Nat
      BY <1>4, <1>6
    <3> HIDE DEF h
    <3> QED
      BY <3>1, CountedBack
  <2>2. \A j \in 1 .. h : Heard'[j].f = client'.todo[client'.at + j]
                          /\ Heard'[j].data = remote'[client'.todo[client'.at + j]]
    <3> TAKE j \in 1 .. h
    <3>1. j + 1 \in 1 .. Len(Heard) /\ Heard'[j] = Heard[j + 1]
          /\ client'.at + j = client.at + (j + 1)
      BY <1>6, <2>1
    <3> QED
      BY <1>2, <1>4, <1>7, <3>1
  <2>3. StatOK'
    BY <1>2, <1>4, <1>6, <1>7, <2>1, <2>2 DEF StatOK
  <2>4. PhaseOK'
    BY <1>4, <1>5, <1>10, <2>3 DEF PhaseOK
  <2>5. Harmless'
    BY <1>2, <1>3, <1>4, <1>5 DEF Harmless, AsksOnly
  <2> QED
    BY <1>0, <1>1, <1>2, <1>4, <1>5, <1>8, <1>10, <2>4, <2>5, GoesOn DEF Pushes
<1> QED
  BY <1>9, <1>10

LEMMA ReadDentKeeps ==
  ASSUME CopyInv, SyncTypes', ReadDent
  PROVE  CopyInv'
<1>0. SyncTypes /\ JobOK /\ PhaseOK /\ StateOK /\ PartOpen /\ CopyStep
  BY DEF CopyInv, CopyStep
<1>1. Receives("dents") /\ local' = local /\ unread' = unread
  BY DEF ReadDent
<1>2. svc' = svc /\ sOut' = sOut /\ remote' = remote /\ stuck' = stuck /\ link' = link /\ job' = job
  BY <1>0, ClientLeaves
<1>3. /\ client.pc = "dents" /\ Heard # <<>> /\ Heard[1] = Answered /\ Heard' = Tail(Heard)
      /\ Requested = toDev /\ toDev' = toDev /\ cOut = <<>>
  BY <1>0, <1>1, ReceivesEffect
<1>4. DentsOK /\ Harmless /\ Kept /\ job.op \notin Pushes /\ clientOpen /\ client.code = -1
  BY <1>0, <1>3 DEF PhaseOK, StateOK, Going, JobOK
<1>5. /\ Heard \in Seq(Messages) /\ Len(Heard) >= 1 /\ Tail(Heard) \in Seq(Messages)
      /\ Len(Heard) \in Nat /\ Len(Heard') = Len(Heard) - 1
      /\ \A i \in 1 .. Len(Heard) - 1 : Heard'[i] = Heard[i + 1]
      /\ Heard' \in Seq(Messages)
  BY <1>0, <1>3, StreamsAre, TailIs
<1>6. /\ \A j \in 1 .. Len(Heard) : j < Len(Heard) => Heard[j].id = "DENT"
      /\ link = "up" =>
           svc.pc = "command" /\ Requested = <<>> /\ Heard[Len(Heard)].id # "DENT"
  BY <1>3, <1>4 DEF DentsOK
<1>7. CASE Answered.id = "DENT"
  <2>1. Continue([client EXCEPT !.todo = <<Answered.f>> \o @], <<>>)
    BY <1>7, Zenon DEF ReadDent
  <2>2. /\ client'.pc = "dents" /\ client'.code = client.code /\ cOut' = <<>>
        /\ clientOpen' = clientOpen
    BY <1>0, <1>3, <2>1 DEF Continue, SyncTypes, ClientTypes
  <2>3. Requested' = Requested
    BY <1>0, <1>1, <1>3, <2>2, ReceivesEffect
  <2>4. DentsOK'
    <3>1. ASSUME NEW j \in 1 .. Len(Heard'), j < Len(Heard') PROVE Heard'[j].id = "DENT"
      <4>1. j + 1 \in 1 .. Len(Heard) /\ j + 1 < Len(Heard) /\ j \in 1 .. Len(Heard) - 1
        BY <1>5, <3>1
      <4> QED
        BY <1>5, <1>6, <4>1
    <3>2. ASSUME link = "up"
          PROVE  svc.pc = "command" /\ Requested' = <<>> /\ Heard' # <<>>
                 /\ Heard'[Len(Heard')].id # "DENT"
      <4>1. Len(Heard) # 1
        BY <1>3, <1>6, <1>7, <3>2
      <4>2. Len(Heard') \in 1 .. Len(Heard) - 1 /\ Len(Heard') + 1 = Len(Heard)
            /\ Len(Heard') # 0
        BY <1>5, <4>1
      <4>3. Heard'[Len(Heard')] = Heard[Len(Heard)]
        BY <1>5, <4>2
      <4> QED
        BY <1>5, <1>6, <2>3, <3>2, <4>2, <4>3, EmptyIs
    <3> QED
      BY <1>2, <3>1, <3>2 DEF DentsOK
  <2>5. PhaseOK'
    BY <1>4, <2>2, <2>4 DEF PhaseOK
  <2>6. Harmless'
    BY <1>2, <1>3, <1>4, <2>2 DEF Harmless, AsksOnly
  <2>7. Kept'
    BY <1>1, <1>2, <1>3, <1>4, <2>2 DEF Kept, Absent
  <2> QED
    BY <1>0, <1>1, <1>2, <1>4, <2>2, <2>5, <2>6, <2>7, GoesOn
<1>8. CASE Answered.id # "DENT"
  <2>1. Continue(Go("next"), <<>>)
    BY <1>8, Zenon DEF ReadDent
  <2>2. /\ client'.pc = "next" /\ client'.code = client.code /\ cOut' = <<>>
        /\ clientOpen' = clientOpen
    BY <1>0, <2>1 DEF Continue, Go, SyncTypes, ClientTypes
  <2>3. Heard' = <<>>
    <3>1. 1 \in 1 .. Len(Heard) /\ ~ 1 < Len(Heard)
      BY <1>3, <1>5, <1>6, <1>8
    <3>2. Len(Heard') = 0
      BY <1>5, <3>1
    <3> QED
      BY <1>5, <3>2, EmptyIs
  <2>4. Rest'
    BY <1>2, <1>3, <1>6, <2>2, <2>3 DEF Rest
  <2>5. Kept'
    BY <1>1, <1>2, <1>3, <1>4, <2>2 DEF Kept, Absent
  <2> QED
    BY <1>0, <1>1, <1>3, <1>4, <2>2, <2>4, <2>5, ToNext DEF Harmless
<1> QED
  BY <1>7, <1>8

LEMMA NextFileKeeps ==
  ASSUME CopyInv, SyncTypes', NextFile
  PROVE  CopyInv'
<1>0. SyncTypes /\ JobOK /\ PhaseOK /\ StateOK /\ PartOpen /\ CopyStep
  BY DEF CopyInv, CopyStep
<1>1. /\ client.pc = "next" /\ local' = local /\ unread' = unread /\ toDev' = toDev
      /\ toHost' = toHost
  BY DEF NextFile, Stays
<1>2. svc' = svc /\ sOut' = sOut /\ remote' = remote /\ stuck' = stuck /\ link' = link /\ job' = job
  BY <1>0, ClientLeaves
<1>3. /\ Rest /\ Harmless /\ (job.op \in Pushes => Settled) /\ (job.op \notin Pushes => Kept)
      /\ clientOpen /\ client.code = -1
  BY <1>0, <1>1 DEF PhaseOK, StateOK, Going, JobOK
<1>4. /\ Heard = <<>> /\ Heard' = <<>> /\ cOut = <<>> /\ Len(<<>>) = 0
      /\ link = "up" => toDev = <<>> /\ svc.pc = "command"
      /\ link \in {"up", "broken"} /\ client.todo \in Seq(Files)
  BY <1>0, <1>1, <1>2, <1>3 DEF Rest, Heard, SyncTypes, ClientTypes
<1>5. ASSUME NEW m \in Messages, cOut' = <<m>>
      PROVE  /\ link = "up" => Requested' = <<m>>
             /\ m.id \in {"STAT", "LIST", "RECV", "QUIT"} => Harmless'
  <2>1. <<m>> \in Seq(Messages) /\ Len(<<m>>) = 1 /\ <<m>>[1] = m
    BY OneMessage
  <2>2. link = "up" => Requested' = <<m>>
    BY <1>1, <1>4, <1>5, <2>1, JoinedEmpty DEF Requested
  <2>3. m.id \in {"STAT", "LIST", "RECV", "QUIT"} => Harmless'
    BY <1>1, <1>2, <1>3, <1>5, <2>1 DEF Harmless, AsksOnly
  <2> QED
    BY <2>2, <2>3
<1>6. CASE client.todo = <<>> /\ Continue(Quitting, <<Msg("QUIT", Anyfile, <<>>)>>)
  <2> DEFINE m == Msg("QUIT", Anyfile, <<>>)
  <2>1. /\ client'.pc = "quit" /\ client'.todo = client.todo /\ client'.same = client.same
        /\ client'.code = client.code /\ cOut' = <<m>> /\ clientOpen' = clientOpen
    BY <1>0, <1>6 DEF Continue, Quitting, Go, SyncTypes, ClientTypes
  <2>2. m \in Messages /\ m.id = "QUIT"
    <3>1. Anyfile \in Files
      BY SyncAssumption DEF Anyfile
    <3> QED
      BY <3>1, MessageIs
  <2> HIDE DEF m
  <2>3. Harmless'
    BY <1>5, <2>1, <2>2
  <2>4. PhaseOK'
    BY <1>6, <2>1 DEF PhaseOK
  <2>5. (Settled => Settled') /\ (Kept => Kept')
    BY <1>1, <1>2, <2>1, SameFiles
  <2> QED
    BY <1>0, <1>1, <1>2, <1>3, <2>1, <2>3, <2>4, <2>5, GoesOn
<1>7. CASE /\ client.todo # <<>> /\ Cur \in client.same
           /\ Continue([client EXCEPT !.todo = Tail(@)], <<>>)
  <2>1. /\ client'.pc = "next" /\ client'.todo = Tail(client.todo) /\ client'.same = client.same
        /\ client'.code = client.code /\ cOut' = <<>> /\ clientOpen' = clientOpen
    BY <1>0, <1>1, <1>7 DEF Continue, SyncTypes, ClientTypes
  <2>2. Rest'
    BY <1>1, <1>2, <1>4, <2>1 DEF Rest
  <2>3. ASSUME Settled PROVE Settled'
    <3>1. /\ Len(client.todo) \in Nat /\ client.todo[1] = Cur
          /\ Len(Tail(client.todo)) = Len(client.todo) - 1
          /\ \A i \in 1 .. Len(client.todo) - 1 : Tail(client.todo)[i] = client.todo[i + 1]
      BY <1>4, <1>7, TailIs DEF Cur
    <3>2. ASSUME NEW g \in job.files, g \notin client.same,
                 \A i \in 1 .. Len(client'.todo) : client'.todo[i] # g,
                 NEW i \in 1 .. Len(client.todo)
          PROVE  client.todo[i] # g
      <4>1. CASE i = 1
        BY <1>7, <3>1, <3>2, <4>1
      <4>2. CASE i # 1
        <5>1. i - 1 \in 1 .. Len(client.todo) - 1 /\ (i - 1) + 1 = i
          BY <3>1, <4>2
        <5> QED
          BY <2>1, <3>1, <3>2, <5>1
      <4> QED
        BY <4>1, <4>2
    <3> QED
      BY <1>1, <1>2, <2>1, <2>3, <3>2 DEF Settled, Whole, Copied
  <2>4. Kept => Kept'
    BY <1>1, <1>2, <2>1 DEF Kept, Absent
  <2> QED
    BY <1>0, <1>1, <1>3, <2>1, <2>2, <2>3, <2>4, ToNext DEF Harmless
<1>8. CASE /\ client.todo # <<>> /\ Cur \notin client.same /\ job.op \in Pushes
           /\ Continue([Go("file") EXCEPT !.at = 0], <<Msg("SEND", Cur, <<>>)>>)
  <2> DEFINE m == Msg("SEND", Cur, <<>>)
  <2>1. /\ client'.pc = "file" /\ client'.todo = client.todo /\ client'.same = client.same
        /\ client'.code = client.code /\ cOut' = <<m>> /\ clientOpen' = clientOpen
        /\ client'.at = 0 /\ Cur' = Cur
    BY <1>0, <1>8 DEF Continue, Go, SyncTypes, ClientTypes, Cur
  <2>2. Cur \in Files
    BY <1>4, <1>8, TailIs DEF Cur
  <2>3. m \in Messages /\ m.id = "SEND" /\ m.f = Cur
    BY <2>2, MessageIs
  <2> HIDE DEF m
  <2>4. link = "up" => Requested' = <<m>>
    BY <1>5, <2>1, <2>3
  <2>5. SendingOK'
    <3>1. ASSUME link = "up" PROVE Underway'
      <4>1. Requested' = <<m>> /\ Len(<<m>>) = 1 /\ <<m>>[1] = m
        BY <2>4, <3>1
      <4>2. Pieces' = 0 /\ Made' = 1 /\ Got' = 0
        <5>1. Pieces' = 0
          BY <2>1 DEF Pieces
        <5>2. Made' = 1
          BY <2>1, <5>1 DEF Made
        <5> QED
          BY <4>1, <5>1, <5>2 DEF Got
      <4>3. \A i \in 1 .. Len(Requested') : IsPiece(Requested[i], Got + i)'
        <5> TAKE i \in 1 .. Len(Requested')
        <5>1. i = 1 /\ Requested'[i] = m
          BY <4>1
        <5>2. Got' + i = 1 /\ Pieces' + 1 = 1 /\ Pieces' + 2 = 2
          BY <4>2, <5>1
        <5>3. 1 \notin 2 .. 1 /\ 1 # 2
          OBVIOUS
        <5> QED
          BY <2>1, <2>3, <5>1, <5>2, <5>3 DEF IsPiece, PieceOf
      <4>4. Taken'
        BY <1>2, <1>4, <3>1, <4>2 DEF Taken
      <4>5. Settled'
        BY <1>1, <1>2, <1>3, <1>8, <2>1, SameFiles
      <4>6. 0 <= Size[Cur] /\ 1 <= 1
        BY <2>2, SyncAssumption
      <4> QED
        BY <2>1, <4>1, <4>2, <4>3, <4>4, <4>5, <4>6 DEF Underway
    <3> QED
      BY <1>2, <1>4, <1>8, <2>1, <3>1 DEF SendingOK
  <2>6. PhaseOK'
    BY <1>3, <2>1, <2>5 DEF PhaseOK
  <2> QED
    BY <1>0, <1>1, <1>2, <1>3, <1>8, <2>1, <2>6, GoesOn
<1>9. CASE /\ client.todo # <<>> /\ job.op \notin Pushes
           /\ Continue(Go("first"), <<Msg("RECV", Cur, <<>>)>>)
  <2> DEFINE m == Msg("RECV", Cur, <<>>)
  <2>1. /\ client'.pc = "first" /\ client'.todo = client.todo /\ client'.same = client.same
        /\ client'.code = client.code /\ cOut' = <<m>> /\ clientOpen' = clientOpen
        /\ Cur' = Cur
    BY <1>0, <1>9 DEF Continue, Go, SyncTypes, ClientTypes, Cur
  <2>2. Cur \in Files
    BY <1>4, <1>9, TailIs DEF Cur
  <2>3. m \in Messages /\ m.id = "RECV" /\ m.f = Cur
    BY <2>2, MessageIs
  <2> HIDE DEF m
  <2>4. (link = "up" => Requested' = <<m>>) /\ Harmless'
    BY <1>5, <2>1, <2>3
  <2>5. ReceivingOK'
    <3>1. Had' = 0
      BY <2>1 DEF Had
    <3>2. remote'[Cur'].blocks \in Seq(Nat)
      BY <1>0, <1>2, <2>1, <2>2, FileStatesAre DEF SyncTypes
    <3>3. 0 <= Len(remote'[Cur'].blocks) /\ \A i \in 1 .. 0 : FALSE
      BY <3>2
    <3>4. ASSUME link = "up" PROVE Sends'
      <4>1. Requested' = <<m>> /\ Len(<<m>>) = 1 /\ <<m>>[1] = m
        BY <2>4, <3>4
      <4> QED
        BY <1>2, <1>4, <2>1, <2>3, <3>4, <4>1 DEF Sends
    <3> QED
      BY <1>2, <1>4, <1>9, <2>1, <3>1, <3>3, <3>4 DEF ReceivingOK
  <2>6. PhaseOK'
    BY <1>3, <2>1, <2>5 DEF PhaseOK
  <2>7. Kept => Kept'
    BY <1>1, <1>2, <2>1, SameFiles
  <2> QED
    BY <1>0, <1>1, <1>2, <1>3, <1>9, <2>1, <2>4, <2>6, <2>7, GoesOn
<1> QED
  BY <1>6, <1>7, <1>8, <1>9 DEF NextFile

\* The client makes one more message of the file.
LEMMA MakesPiece ==
  ASSUME SyncTypes, SyncTypes', Underway, client.pc = "file", cOut = <<>>, toDev' = toDev,
         NEW m \in Messages, cOut' = <<m>>, svc' = svc, remote' = remote, stuck' = stuck,
         job' = job,
         unread \subseteq unread', client'.todo = client.todo, client'.same = client.same,
         client'.at <= Size[Cur], Cur \in Links => client'.at \in {0, Size[Cur]},
         client'.pc = "status" => client'.at = Size[Cur] \/ Cur \in unread',
         client'.pc \in {"file", "status"},
         NEW prior \in Nat, prior = Made, Made' = prior + 1,
         Pieces' = Pieces \/ Pieces' = Pieces + 1,
         Cur \in Links /\ Pieces = 1 => Pieces' = 1,
         m.f = Cur, prior + 1 = Pieces' + 2 => m.id = "DONE",
         prior + 1 \in 2 .. Pieces' + 1 =>
           m.id = "DATA" /\ m.data = IF Cur \in Links THEN CountTo(Size[Cur]) ELSE <<prior>>
  PROVE  Underway'
<1>1. /\ Pieces \in Nat /\ Pieces' \in Nat /\ prior = Pieces + 1 /\ prior >= 1 /\ Cur' = Cur
  BY PiecesAre DEF SyncTypes, Cur
<1>2. PICK n \in Nat : n = Len(Requested)
  BY StreamsAre
<1>3. /\ Requested = toDev /\ Requested' = toDev \o <<m>> /\ toDev \in Seq(Messages)
  BY JoinedEmpty DEF Requested, SyncTypes, StreamTypes
<1>4. /\ Len(Requested') = n + 1 /\ Requested'[n + 1] = m
      /\ \A i \in 1 .. n : Requested'[i] = Requested[i]
  <2>1. <<m>> \in Seq(Messages) /\ Len(<<m>>) = 1 /\ <<m>>[1] = m
    BY OneMessage
  <2> QED
    BY <1>2, <1>3, <2>1, JoinedOne
<1>5. /\ n <= prior /\ Settled /\ Taken
      /\ \A i \in 1 .. n : IsPiece(Requested[i], Got + i)
  BY <1>2 DEF Underway
<1>6. PICK got \in Nat : got = prior - n
  <2>1. n <= prior
    BY <1>5
  <2>2. prior - n \in Nat
    BY <1>2, <2>1
  <2> QED
    BY <2>2
<1>7. Got = got /\ Got' = got
  <2>1. Got = got
    BY <1>2, <1>6 DEF Got
  <2>2. Got' = (prior + 1) - (n + 1)
    BY <1>4 DEF Got
  <2> QED
    BY <1>2, <1>6, <2>1, <2>2
<1>14. PICK p \in Nat, q \in Nat : p = Pieces /\ q = Pieces'
  BY <1>1
<1>15. prior = p + 1 /\ (q = p \/ q = p + 1)
  BY <1>1, <1>14
<1>8. ASSUME NEW i \in 1 .. n PROVE IsPiece(Requested[i], Got + i)'
  <2>1. PICK j \in 1 .. prior : j = got + i
    <3>1. prior \in Nat /\ n \in Nat /\ got \in Nat /\ got = prior - n /\ i \in 1 .. n
      BY <1>2, <1>6
    <3>2. got + i \in 1 .. prior
      BY <3>1
    <3> QED
      BY <3>2
  <2>2. PieceOf(Requested[i], j, Cur, p)
    BY <1>5, <1>7, <1>14, <2>1 DEF IsPiece
  <2>3. Requested'[i] = Requested[i] /\ Got' + i = j
    BY <1>4, <1>7, <2>1
  <2>4. (j \in 2 .. q + 1 => j \in 2 .. p + 1) /\ (j = q + 2 => j = p + 2)
    BY <1>15
  <2>5. PieceOf(Requested[i], j, Cur, q)
    BY <2>2, <2>4, Zenon DEF PieceOf
  <2> QED
    BY <1>1, <1>14, <2>3, <2>5, Zenon DEF IsPiece
<1>9. IsPiece(Requested[n + 1], Got + (n + 1))'
  <2>1. PICK j \in Nat : j = prior + 1
    OBVIOUS
  <2>2. Got' + (n + 1) = j /\ j # 1 /\ j - 1 = prior
    BY <1>1, <1>2, <1>6, <1>7, <2>1
  <2>3. PieceOf(m, j, Cur, q)
    BY <1>14, <2>1, <2>2, Zenon DEF PieceOf
  <2> QED
    BY <1>1, <1>4, <1>14, <2>2, <2>3, Zenon DEF IsPiece
<1>10. \A i \in 1 .. Len(Requested') : IsPiece(Requested[i], Got + i)'
  <2>1. \A i \in 1 .. n + 1 : i \in 1 .. n \/ i = n + 1
    BY <1>2
  <2> QED
    BY <1>4, <1>8, <1>9, <2>1
<1>11. Taken'
  <2>1. CASE svc.pc = "command" /\ Got = 0
    BY <1>7, <2>1 DEF Taken
  <2>2. CASE /\ svc.pc = "data" /\ Cur \notin Links /\ svc.file = Cur /\ svc.opened
             /\ Got \in 1 .. Pieces + 1 /\ svc.at = Got - 1 /\ Begun(Cur, Got - 1)
    <3>1. Got' \in 1 .. Pieces' + 1
      <4>1. got \in 1 .. p + 1
        BY <1>7, <1>14, <2>2
      <4>2. got \in 1 .. q + 1
        BY <1>15, <4>1
      <4> QED
        BY <1>7, <1>14, <4>2
    <3>2. Begun(Cur, Got - 1)'
      BY <1>1, <1>7, <2>2 DEF Begun
    <3> QED
      BY <1>1, <1>7, <2>2, <3>1, <3>2 DEF Taken
  <2>3. CASE svc.pc = "linkData" /\ Cur \in Links /\ svc.file = Cur /\ Got = 1
    BY <1>1, <1>7, <2>3 DEF Taken
  <2>4. CASE /\ svc.pc = "linkDone" /\ Cur \in Links /\ svc.file = Cur /\ Got = 2 /\ Pieces = 1
             /\ Copied(Cur)
    BY <1>1, <1>7, <2>4 DEF Taken, Whole, Copied
  <2> QED
    BY <1>5, <2>1, <2>2, <2>3, <2>4 DEF Taken
<1>12. Settled'
  BY <1>5 DEF Settled, Whole, Copied
<1>13. Len(Requested') <= Made'
  BY <1>2, <1>4, <1>5
<1> QED
  BY <1>1, <1>10, <1>11, <1>12, <1>13 DEF Underway

LEMMA WriteFileKeeps ==
  ASSUME CopyInv, SyncTypes', WriteFile
  PROVE  CopyInv'
<1>0. SyncTypes /\ JobOK /\ PhaseOK /\ StateOK /\ PartOpen /\ CopyStep
  BY DEF CopyInv, CopyStep
<1>1. /\ client.pc = "file" /\ cOut = <<>> /\ local' = local /\ toDev' = toDev /\ toHost' = toHost
  BY DEF WriteFile, Stays
<1>2. svc' = svc /\ sOut' = sOut /\ remote' = remote /\ stuck' = stuck /\ link' = link /\ job' = job
  BY <1>0, ClientLeaves
<1>3. /\ SendingOK /\ job.op \in Pushes /\ clientOpen /\ client.code = -1
      /\ \A g \in Files : local[g] = Whole(g)
  BY <1>0, <1>1 DEF PhaseOK, JobOK
<1>4. /\ client.todo # <<>> /\ Cur \notin client.same /\ Cur \in Files /\ client.todo \in Seq(Files)
      /\ client.at \in Nat /\ Heard' = Heard /\ link \in {"up", "broken"}
      /\ Heard # <<>> => Heard[1].f = Cur /\ Heard[1].id = "FAIL"
      /\ Heard = <<>> /\ link = "up" => Underway
  <2>1. client.todo # <<>> /\ client.todo \in Seq(Files)
    BY <1>0, <1>3 DEF SendingOK, SyncTypes, ClientTypes
  <2>2. Cur \in Files
    BY <2>1, TailIs DEF Cur
  <2>3. ~ Accepted
    BY <1>1 DEF Accepted
  <2> QED
    BY <1>0, <1>1, <1>2, <1>3, <2>1, <2>2, <2>3 DEF SendingOK, Heard, SyncTypes, ClientTypes
<1> DEFINE blocks == local[Cur].blocks
           n == Size[Cur]
<1>5. /\ blocks = CountTo(n) /\ n \in Nat /\ Len(blocks) = n /\ blocks \in Seq(Nat)
      /\ Pieces \in Nat /\ Made = Pieces + 1
  <2>1. n \in Nat /\ blocks = CountTo(n)
    BY <1>3, <1>4, WholeIs
  <2>2. Len(CountTo(n)) = n /\ CountTo(n) \in Seq(Nat)
    BY <2>1, CountIs
  <2> QED
    BY <1>0, <1>1, <2>1, <2>2, PiecesAre DEF SyncTypes
<1>6. PICK prior \in Nat : prior = Made /\ prior = Pieces + 1
  BY <1>5
<1> HIDE DEF blocks, n
<1>7. ASSUME NEW m \in Messages, cOut' = <<m>>, m.f = Cur, unread \subseteq unread',
             client'.todo = client.todo, client'.same = client.same,
             client'.code = client.code, clientOpen' = clientOpen,
             client'.pc \in {"file", "status"},
             Heard = <<>> /\ link = "up" =>
               /\ client'.at <= n /\ (Cur \in Links => client'.at \in {0, n})
               /\ client'.pc = "status" => client'.at = n \/ Cur \in unread'
               /\ Made' = prior + 1 /\ (Pieces' = Pieces \/ Pieces' = Pieces + 1)
               /\ Cur \in Links /\ Pieces = 1 => Pieces' = 1
               /\ prior + 1 = Pieces' + 2 => m.id = "DONE"
               /\ prior + 1 \in 2 .. Pieces' + 1 =>
                    m.id = "DATA" /\ m.data = IF Cur \in Links THEN CountTo(n) ELSE <<prior>>
      PROVE  CopyInv'
  <2>1. Heard = <<>> /\ link = "up" => Underway'
    <3>1. ASSUME Heard = <<>>, link = "up" PROVE Underway'
      <4>1. Underway
        BY <1>4, <3>1
      <4> QED
        BY <1>0, <1>1, <1>2, <1>6, <1>7, <3>1, <4>1, MakesPiece DEF n
    <3> QED
      BY <3>1
  <2>2. Cur' = Cur
    BY <1>7 DEF Cur
  <2>3. SendingOK'
    BY <1>2, <1>4, <1>7, <2>1, <2>2 DEF SendingOK
  <2>4. PhaseOK'
    BY <1>3, <1>7, <2>3 DEF PhaseOK
  <2> QED
    BY <1>0, <1>1, <1>2, <1>3, <1>7, <2>4, GoesOn
<1>8. Underway => /\ client.at <= n /\ (Cur \in Links => client.at \in {0, n})
                  /\ Pieces = IF Cur \in Links THEN (IF client.at = 0 THEN 0 ELSE 1)
                              ELSE client.at
  BY DEF Underway, n, Pieces
<1>9. CASE /\ client.at < n
           /\ Continue([client EXCEPT !.at = IF Cur \in Links THEN Len(blocks) ELSE client.at + 1],
                       <<Msg("DATA", Cur, SubSeq(blocks, client.at + 1,
                               IF Cur \in Links THEN Len(blocks) ELSE client.at + 1))>>)
           /\ unread' = unread
  <2> DEFINE k == IF Cur \in Links THEN n ELSE client.at + 1
             d == SubSeq(CountTo(n), client.at + 1, k)
             m == Msg("DATA", Cur, d)
  <2>1. Continue([client EXCEPT !.at = k], <<m>>)
    BY <1>5, <1>9, Zenon
  <2>2. k \in 1 .. n /\ client.at + 1 \in 1 .. n
    BY <1>4, <1>5, <1>9
  <2>3. d \in Seq(Nat)
    <3>1. CountTo(n) \in Seq(Nat) /\ Len(CountTo(n)) = n
      BY <1>5
    <3>2. client.at + 1 \in 1 .. Len(CountTo(n)) + 1 /\ k \in 0 .. Len(CountTo(n))
      BY <1>5, <2>2, <3>1
    <3> QED
      BY <3>1, <3>2, CutTyped
  <2>4. /\ client'.at = k /\ client'.todo = client.todo /\ client'.same = client.same
        /\ client'.code = client.code /\ clientOpen' = clientOpen /\ client'.pc = "file"
        /\ cOut' = <<m>>
    <3>1. k \in Nat
      BY <2>2
    <3> HIDE DEF k, m
    <3> QED
      BY <1>0, <1>1, <2>1, <3>1 DEF Continue, SyncTypes, ClientTypes
  <2>5. m \in Messages /\ m.id = "DATA" /\ m.f = Cur /\ m.data = d
    <3> HIDE DEF d
    <3> QED
      BY <1>4, <2>3, DataMessage
  <2>6. Cur' = Cur
    BY <2>4 DEF Cur
  <2>7. ASSUME Underway
        PROVE  /\ k <= n /\ (Cur \in Links => k \in {0, n})
               /\ Made' = prior + 1 /\ Pieces' = Pieces + 1
               /\ ~ (Cur \in Links /\ Pieces = 1)
               /\ d = IF Cur \in Links THEN CountTo(n) ELSE <<prior>>
    <3>1. CASE Cur \in Links
      <4>1. client.at = 0 /\ Pieces = 0
        BY <1>4, <1>8, <1>9, <2>7, <3>1
      <4>2. k = n /\ n # 0
        BY <1>5, <1>9, <3>1, <4>1
      <4>3. Pieces' = 1
        BY <2>4, <2>6, <3>1, <4>2 DEF Pieces
      <4>4. Made' = 2
        BY <2>4, <4>3 DEF Made
      <4>5. d = CountTo(n)
        <5>2. client.at + 1 = 1 /\ k = n
          BY <4>1, <4>2
        <5>1. d = SubSeq(CountTo(n), 1, n)
          BY <5>2, Zenon
        <5> QED
          BY <1>5, <5>1, CountPart, Zenon
      <4> QED
        BY <1>5, <1>6, <3>1, <4>1, <4>2, <4>3, <4>4, <4>5
    <3>2. CASE Cur \notin Links
      <4>1. Pieces = client.at /\ k = client.at + 1 /\ prior = k
        BY <1>6, <1>8, <2>7, <3>2
      <4>2. Pieces' = k
        BY <2>4, <2>6, <3>2 DEF Pieces
      <4>3. Made' = k + 1
        BY <2>4, <4>2 DEF Made
      <4>4. d = <<prior>>
        <5>1. prior \in 1 .. n /\ d = SubSeq(CountTo(n), prior, prior)
          BY <2>2, <4>1
        <5> HIDE DEF d
        <5> QED
          BY <1>5, <5>1, CountPart, Zenon
      <4> HIDE DEF d
      <4> QED
        BY <2>2, <3>2, <4>1, <4>2, <4>3, <4>4
    <3> QED
      BY <3>1, <3>2
  <2> HIDE DEF m, d, k
  <2>8. prior + 1 # Pieces' + 2 \/ ~ Underway
    BY <1>5, <1>6, <2>7
  <2> QED
    BY <1>4, <1>7, <1>9, <2>4, <2>5, <2>7, <2>8
<1>10. CASE /\ Continue(Go("status"), <<Msg("DONE", Cur, <<>>)>>)
            /\ \/ client.at = n /\ unread' = unread
               \/ unread' = unread \cup {Cur}
  <2> DEFINE m == Msg("DONE", Cur, <<>>)
  <2>1. m \in Messages /\ m.id = "DONE" /\ m.f = Cur
    BY <1>4, MessageIs
  <2>2. /\ client'.at = client.at /\ client'.todo = client.todo /\ client'.same = client.same
        /\ client'.code = client.code /\ clientOpen' = clientOpen /\ client'.pc = "status"
        /\ cOut' = <<m>> /\ Cur' = Cur
    BY <1>0, <1>10 DEF Continue, Go, SyncTypes, ClientTypes, Cur
  <2>3. Pieces' = Pieces
    BY <2>2 DEF Pieces
  <2>4. Made' = prior + 1
    <3>1. Made' = Pieces + 2
      BY <2>2, <2>3 DEF Made
    <3> QED
      BY <1>5, <1>6, <3>1
  <2>5. prior + 1 \notin 2 .. Pieces' + 1
    BY <1>5, <1>6, <2>3
  <2>6. client.at = n \/ Cur \in unread'
    BY <1>10
  <2>7. unread \subseteq unread'
    BY <1>10
  <2> HIDE DEF m
  <2> QED
    BY <1>4, <1>7, <1>8, <2>1, <2>2, <2>3, <2>4, <2>5, <2>6, <2>7
<1> QED
  <2>1. \/ /\ client.at < Len(blocks)
           /\ Continue([client EXCEPT !.at = IF Cur \in Links THEN Len(blocks) ELSE client.at + 1],
                       <<Msg("DATA", Cur, SubSeq(blocks, client.at + 1,
                               IF Cur \in Links THEN Len(blocks) ELSE client.at + 1))>>)
           /\ unread' = unread
        \/ /\ client.at = Len(blocks) /\ Continue(Go("status"), <<Msg("DONE", Cur, <<>>)>>)
           /\ unread' = unread
        \/ /\ Continue(Go("status"), <<Msg("DONE", Cur, <<>>)>>)
           /\ unread' = unread \cup {Cur}
    BY Zenon DEF WriteFile, blocks
  <2> QED
    BY <1>5, <1>9, <1>10, <2>1

\* Going on to what is left after the first file.
LEMMA SettledTail ==
  ASSUME SyncTypes, Settled, client.todo # <<>>, Cur \in unread \/ Copied(Cur),
         remote' = remote, stuck' = stuck, job' = job, unread' = unread, client'.same = client.same,
         client'.todo = Tail(client.todo)
  PROVE  Settled'
<1>1. client.todo \in Seq(Files)
  BY DEF SyncTypes, ClientTypes
<1>2. /\ Len(client.todo) \in Nat /\ client.todo[1] = Cur
      /\ Len(Tail(client.todo)) = Len(client.todo) - 1
      /\ \A i \in 1 .. Len(client.todo) - 1 : Tail(client.todo)[i] = client.todo[i + 1]
  BY <1>1, TailIs DEF Cur
<1>3. ASSUME NEW g \in job.files, g # Cur, \A i \in 1 .. Len(client'.todo) : client'.todo[i] # g,
             NEW i \in 1 .. Len(client.todo)
      PROVE  client.todo[i] # g
  <2>1. CASE i = 1
    BY <1>2, <1>3, <2>1
  <2>2. CASE i # 1
    <3>1. i - 1 \in 1 .. Len(client.todo) - 1 /\ (i - 1) + 1 = i
      BY <1>2, <2>2
    <3> QED
      BY <1>2, <1>3, <3>1
  <2> QED
    BY <2>1, <2>2
<1> QED
  BY <1>3 DEF Settled, Whole, Copied

LEMMA ReadStatusKeeps ==
  ASSUME CopyInv, SyncTypes', ReadStatus
  PROVE  CopyInv'
<1>0. SyncTypes /\ JobOK /\ PhaseOK /\ StateOK /\ PartOpen /\ CopyStep
  BY DEF CopyInv, CopyStep
<1>1. Receives("status") /\ local' = local /\ unread' = unread
  BY DEF ReadStatus
<1>2. svc' = svc /\ sOut' = sOut /\ remote' = remote /\ stuck' = stuck /\ link' = link /\ job' = job
  BY <1>0, ClientLeaves
<1>3. /\ client.pc = "status" /\ Heard # <<>> /\ Heard[1] = Answered /\ Heard' = Tail(Heard)
      /\ toDev' = toDev /\ cOut = <<>>
  BY <1>0, <1>1, ReceivesEffect
<1>4. SendingOK /\ job.op \in Pushes
  BY <1>0, <1>3 DEF PhaseOK, JobOK
<1>5. CASE Exit(1)
  BY <1>0, <1>1, <1>2, <1>5, ExitFails
<1>6. CASE /\ Answered.id = "OKAY"
           /\ Continue([Go("next") EXCEPT !.todo = Tail(@)], <<>>)
  <2>1. /\ client'.pc = "next" /\ client'.todo = Tail(client.todo) /\ client'.same = client.same
        /\ client'.code = client.code /\ cOut' = <<>> /\ clientOpen' = clientOpen
    BY <1>0, <1>6 DEF Continue, Go, SyncTypes, ClientTypes
  <2>2. Accepted /\ client.todo # <<>>
    BY <1>3, <1>4, <1>6 DEF SendingOK
  <2>3. /\ toDev = <<>> /\ Len(Heard) = 1 /\ Settled
        /\ svc.pc = "command" \/ (svc.pc = "ended" /\ link = "broken")
        /\ Cur \in unread \/ Copied(Cur)
    BY <2>2 DEF Accepted
  <2>4. Heard' = <<>>
    <3>1. Heard \in Seq(Messages)
      BY <1>0, StreamsAre
    <3>2. Heard' \in Seq(Messages) /\ Len(Heard') = 0
      BY <1>3, <2>3, <3>1, TailIs
    <3> QED
      BY <3>2, EmptyIs
  <2>5. Rest'
    BY <1>2, <1>3, <2>1, <2>3, <2>4 DEF Rest
  <2>6. Settled'
    BY <1>0, <1>1, <1>2, <2>1, <2>2, <2>3, SettledTail
  <2>7. AsksOnly(toDev)
    BY <2>3 DEF AsksOnly
  <2> QED
    BY <1>0, <1>1, <1>3, <1>4, <2>1, <2>3, <2>5, <2>6, <2>7, ToNext
<1> QED
  BY <1>5, <1>6 DEF ReadStatus

LEMMA ReadDataKeeps ==
  ASSUME CopyInv, SyncTypes', ReadData
  PROVE  CopyInv'
<1>0. SyncTypes /\ JobOK /\ PhaseOK /\ StateOK /\ PartOpen /\ CopyStep
  BY DEF CopyInv, CopyStep
<1>1. PICK pc \in {"first", "data"} : Receives(pc)
  BY DEF ReadData
<1>2. svc' = svc /\ sOut' = sOut /\ remote' = remote /\ stuck' = stuck /\ link' = link /\ job' = job
  BY <1>0, ClientLeaves
<1>3. /\ client.pc \in {"first", "data"} /\ Heard # <<>> /\ Heard[1] = Answered
      /\ Heard' = Tail(Heard) /\ toDev' = toDev /\ cOut = <<>> /\ unread' = unread
      /\ Requested = toDev
  BY <1>0, <1>1, ReceivesEffect DEF ReadData
<1>4. ReceivingOK /\ Harmless /\ Kept /\ job.op \notin Pushes /\ clientOpen /\ client.code = -1
  BY <1>0, <1>3 DEF PhaseOK, JobOK, StateOK, Going
<1> DEFINE before == IF client.pc = "first" THEN <<>> ELSE local[Cur].blocks
           blocks == remote[Cur].blocks
<1>5. /\ client.todo # <<>> /\ Cur \in Files /\ client.todo \in Seq(Files)
      /\ local \in [Files -> FileStates] /\ blocks \in Seq(Nat) /\ Len(blocks) \in Nat
      /\ before \in Seq(Nat) /\ Len(before) = Had /\ Had \in Nat /\ Had <= Len(blocks)
      /\ link \in {"up", "broken"}
  <2>1. client.todo # <<>> /\ client.todo \in Seq(Files) /\ local \in [Files -> FileStates]
        /\ remote \in [Files -> FileStates] /\ Had <= Len(blocks) /\ link \in {"up", "broken"}
    BY <1>0, <1>4 DEF ReceivingOK, SyncTypes, ClientTypes
  <2>2. Cur \in Files
    BY <2>1, TailIs DEF Cur
  <2>3. local[Cur].blocks \in Seq(Nat) /\ blocks \in Seq(Nat)
    BY <2>1, <2>2, FileStatesAre
  <2>4. before \in Seq(Nat) /\ Len(before) = Had /\ Had \in Nat
    <3>1. CASE client.pc = "first"
      BY <3>1 DEF Had
    <3>2. CASE client.pc # "first"
      BY <2>3, <3>2 DEF Had
    <3> QED
      BY <3>1, <3>2
  <2> QED
    BY <2>1, <2>2, <2>3, <2>4
<1>6. /\ \A i \in 1 .. Had : before[i] = blocks[i]
      /\ \A j \in 1 .. Len(Heard) : Follows(j)
      /\ link = "up" => Sends
  <2>1. /\ \A i \in 1 .. Had : local[Cur].blocks[i] = blocks[i]
        /\ \A j \in 1 .. Len(Heard) : Follows(j)
        /\ link = "up" => Sends
    BY <1>4 DEF ReceivingOK
  <2>2. CASE client.pc = "first"
    <3>1. Had = 0
      BY <2>2 DEF Had
    <3> QED
      BY <2>1, <3>1
  <2>3. CASE client.pc # "first"
    BY <2>1, <2>3
  <2> QED
    BY <2>1, <2>2, <2>3
<1>7. /\ Heard \in Seq(Messages) /\ Len(Heard) \in Nat /\ Len(Heard) >= 1
      /\ Heard' \in Seq(Messages) /\ Len(Heard') = Len(Heard) - 1
      /\ \A i \in 1 .. Len(Heard) - 1 : Heard'[i] = Heard[i + 1]
      /\ 1 \in 1 .. Len(Heard)
  <2>1. Heard \in Seq(Messages)
    BY <1>0, StreamsAre
  <2>2. /\ Len(Heard) \in Nat /\ Len(Heard) >= 1
        /\ Heard' \in Seq(Messages) /\ Len(Heard') = Len(Heard) - 1
        /\ \A i \in 1 .. Len(Heard) - 1 : Heard'[i] = Heard[i + 1]
    BY <1>3, <2>1, TailIs
  <2> QED
    BY <2>1, <2>2
<1> HIDE DEF before, blocks
<1>8. Follows(1)
  BY <1>6, <1>7
\* What was received is kept, save the file that is being received.
<1>9. ASSUME NEW new \in FileStates, local' = [local EXCEPT ![Cur] = new],
             (client'.pc = "data" /\ Cur' = Cur) \/ new = Absent \/ new.blocks = blocks
      PROVE  Kept'
  <2>1. ASSUME NEW g \in Files, local'[g] # Absent, ~ (client'.pc = "data" /\ g = Cur')
        PROVE  local'[g].blocks = remote'[g].blocks
    <3>1. CASE g = Cur
      BY <1>2, <1>5, <1>9, <2>1, <3>1 DEF blocks
    <3>2. CASE g # Cur
      BY <1>2, <1>4, <1>5, <1>9, <2>1, <3>2 DEF Kept
    <3> QED
      BY <3>1, <3>2
  <2> QED
    BY <2>1 DEF Kept, Absent
<1>10. CASE Exit(1)
  BY <1>0, <1>2, <1>4, <1>10, ExitFails
<1>11. CASE /\ Continue([Go("next") EXCEPT !.todo = Tail(@)], <<>>)
            /\ Heard' = <<>> /\ (link = "up" => svc.pc = "command" /\ Requested = <<>>)
            /\ Kept'
  <2>1. /\ client'.pc = "next" /\ client'.code = client.code /\ cOut' = <<>>
        /\ clientOpen' = clientOpen
    BY <1>0, <1>11 DEF Continue, Go, SyncTypes, ClientTypes
  <2>2. Rest'
    BY <1>2, <1>3, <1>11, <2>1 DEF Rest
  <2> QED
    BY <1>0, <1>3, <1>4, <1>11, <2>1, <2>2, ToNext DEF Harmless
<1>12. Answered.id # "DATA" =>
         /\ Heard' = <<>> /\ (link = "up" => svc.pc = "command" /\ Requested = <<>>)
  <2>1. ASSUME Answered.id # "DATA" PROVE Len(Heard) = 1
    BY <1>3, <1>8, <2>1 DEF Follows
  <2>2. Len(Heard) = 1 => Heard' = <<>>
    BY <1>7, EmptyIs
  <2>3. ASSUME Answered.id # "DATA", Sends PROVE svc.pc = "command" /\ Requested = <<>>
    BY <1>3, <1>7, <2>3 DEF Sends
  <2> QED
    BY <1>6, <2>1, <2>2, <2>3
<1>13. CASE /\ Answered.id = "DATA"
            /\ local' = [local EXCEPT ![Cur] =
                          [v |-> "host", blocks |-> before \o Answered.data]]
            /\ Continue(Go("data"), <<>>)
  <2>1. /\ client'.pc = "data" /\ client'.todo = client.todo /\ client'.code = client.code
        /\ cOut' = <<>> /\ clientOpen' = clientOpen /\ Cur' = Cur
    BY <1>0, <1>13 DEF Continue, Go, SyncTypes, ClientTypes, Cur
  <2>2. /\ Had + 1 <= Len(blocks) /\ Answered.data = <<blocks[Had + 1]>>
    BY <1>3, <1>8, <1>13 DEF Follows, blocks
  <2>3. PICK had \in Nat : had = Had
    BY <1>5
  <2> DEFINE t == <<blocks[had + 1]>>
             s == before \o t
  <2>4. t \in Seq(Nat) /\ Len(t) = 1 /\ t[1] = blocks[had + 1]
    <3>1. had + 1 \in 1 .. Len(blocks)
      BY <1>5, <2>2, <2>3
    <3>2. blocks[had + 1] \in Nat
      BY <1>5, <3>1
    <3> QED
      BY <3>2
  <2> HIDE DEF t
  <2>5. /\ s \in Seq(Nat) /\ Len(s) = had + 1 /\ s[had + 1] = blocks[had + 1]
        /\ \A i \in 1 .. had : s[i] = before[i]
    <3>1. before \in Seq(Nat) /\ Len(before) = had
      BY <1>5, <2>3
    <3>2. /\ s \in Seq(Nat) /\ Len(s) = Len(before) + 1
          /\ \A i \in 1 .. Len(before) : s[i] = before[i]
          /\ s[Len(before) + 1] = t[1]
      BY <2>4, <3>1, JoinedOne
    <3> QED
      BY <2>4, <3>1, <3>2
  <2>6. local' = [local EXCEPT ![Cur] = [v |-> "host", blocks |-> s]]
    BY <1>13, <2>2, <2>3 DEF t
  <2> HIDE DEF s
  <2>7. local'[Cur].blocks = s
    BY <1>5, <2>6
  <2>8. Had' = had + 1
    BY <2>1, <2>5, <2>7 DEF Had
  <2>9. \A i \in 1 .. Had' : local'[Cur'].blocks[i] = remote'[Cur'].blocks[i]
    <3>1. \A i \in 1 .. had + 1 : i \in 1 .. had \/ i = had + 1
      OBVIOUS
    <3>2. \A i \in 1 .. had + 1 : s[i] = blocks[i]
      BY <1>6, <2>3, <2>5, <3>1
    <3> QED
      BY <1>2, <2>1, <2>7, <2>8, <3>2 DEF blocks
  <2>10. PICK n \in Nat : n = Len(Heard)
    BY <1>7
  <2>11. ASSUME NEW j \in 1 .. Len(Heard') PROVE Follows(j)'
    <3>1. j + 1 \in 1 .. n /\ Heard'[j] = Heard[j + 1] /\ had + (j + 1) = had + 1 + j
          /\ (j + 1 = n => j = Len(Heard'))
      BY <1>7, <2>10
    <3>2. Follows(j + 1)
      BY <1>6, <2>10, <3>1
    <3>3. /\ Heard'[j].f = Cur
          /\ \/ /\ Heard'[j].id = "DATA" /\ had + 1 + j <= Len(blocks)
                /\ Heard'[j].data = <<blocks[had + 1 + j]>>
             \/ Heard'[j].id = "DONE" /\ j = Len(Heard') /\ had + 1 + j = Len(blocks) + 1
             \/ Heard'[j].id = "FAIL" /\ j = Len(Heard')
      BY <2>3, <2>10, <3>1, <3>2 DEF Follows, blocks
    <3> QED
      BY <1>2, <2>1, <2>8, <3>3 DEF Follows, blocks
  <2>12. ASSUME link = "up" PROVE Sends'
    <3>1. Requested' = Requested
      BY <1>0, <1>1, <1>3, <2>1, ReceivesEffect
    <3>2. \/ /\ svc.pc = "recv" /\ svc.file = Cur /\ Requested = <<>>
             /\ svc.at = Had + Len(Heard) /\ svc.at <= Len(blocks)
             /\ \A j \in 1 .. Len(Heard) : Heard[j].id = "DATA"
          \/ /\ svc.pc = "command" /\ Requested = <<>>
             /\ Heard[Len(Heard)].id # "DATA"
      BY <1>3, <1>6, <2>12 DEF Sends, blocks
    <3>3. CASE /\ svc.pc = "recv" /\ svc.file = Cur /\ Requested = <<>>
               /\ svc.at = Had + Len(Heard) /\ svc.at <= Len(blocks)
               /\ \A j \in 1 .. Len(Heard) : Heard[j].id = "DATA"
      <4>1. svc'.at = Had' + Len(Heard') /\ svc'.at <= Len(remote'[Cur'].blocks)
        <5>1. had + n = had + 1 + (n - 1)
          OBVIOUS
        <5> QED
          BY <1>2, <1>7, <2>1, <2>3, <2>8, <2>10, <3>3, <5>1 DEF blocks
      <4>2. \A j \in 1 .. Len(Heard') : Heard'[j].id = "DATA"
        <5> TAKE j \in 1 .. Len(Heard')
        <5>1. j + 1 \in 1 .. Len(Heard) /\ Heard'[j] = Heard[j + 1]
          BY <1>7
        <5> QED
          BY <3>3, <5>1
      <4> QED
        BY <1>2, <2>1, <3>1, <3>3, <4>1, <4>2 DEF Sends
    <3>4. CASE svc.pc = "command" /\ Requested = <<>> /\ Heard[Len(Heard)].id # "DATA"
      <4>1. n # 1
        BY <1>3, <1>13, <2>10, <3>4
      <4>2. Len(Heard') = n - 1 /\ n - 1 \in 1 .. n - 1 /\ (n - 1) + 1 = n /\ n - 1 # 0
        BY <1>7, <2>10, <4>1
      <4>3. Heard'[n - 1] = Heard[n] /\ Heard' # <<>>
        BY <1>7, <2>10, <4>2, EmptyIs
      <4> QED
        BY <1>2, <2>1, <2>10, <3>1, <3>4, <4>2, <4>3 DEF Sends
    <3> QED
      BY <3>2, <3>3, <3>4
  <2>13. ReceivingOK'
    <3>1. Had' <= Len(remote'[Cur'].blocks)
      BY <1>2, <2>1, <2>2, <2>3, <2>8 DEF blocks
    <3> QED
      BY <1>2, <1>5, <2>1, <2>9, <2>11, <2>12, <3>1 DEF ReceivingOK
  <2>14. PhaseOK'
    BY <1>4, <2>1, <2>13 DEF PhaseOK
  <2>15. Kept'
    <3>1. [v |-> "host", blocks |-> s] \in FileStates
      BY <2>5, FileStatesAre
    <3> QED
      BY <1>9, <2>1, <2>6, <3>1
  <2>16. Harmless'
    BY <1>2, <1>3, <1>4, <2>1 DEF Harmless, AsksOnly
  <2> QED
    BY <1>0, <1>2, <1>4, <2>1, <2>14, <2>15, <2>16, GoesOn
<1>14. CASE /\ Answered.id = "DONE"
            /\ local' = [local EXCEPT ![Cur] = [v |-> "host", blocks |-> before]]
            /\ Received(TRUE)
  <2>1. before = blocks
    <3>1. Had = Len(blocks)
      <4>1. Had + 1 = Len(blocks) + 1
        BY <1>3, <1>8, <1>14 DEF Follows, blocks
      <4> QED
        BY <1>5, <4>1
    <3> QED
      BY <1>5, <1>6, <3>1, SameSequence
  <2>2. [v |-> "host", blocks |-> before] \in FileStates
    BY <1>5, FileStatesAre
  <2>3. Kept'
    BY <1>9, <1>14, <2>1, <2>2
  <2>4. Exit(1) \/ Continue([Go("next") EXCEPT !.todo = Tail(@)], <<>>)
    BY <1>14 DEF Received
  <2> QED
    BY <1>10, <1>11, <1>12, <1>14, <2>3, <2>4
<1>15. CASE /\ Answered.id = "FAIL"
            /\ local' = [local EXCEPT ![Cur] = Absent]
            /\ Received(FALSE)
  <2>1. Kept'
    BY <1>9, <1>15, FileStatesAre
  <2>2. Exit(1) \/ Continue([Go("next") EXCEPT !.todo = Tail(@)], <<>>)
    BY <1>15 DEF Received
  <2> QED
    BY <1>10, <1>11, <1>12, <1>15, <2>1, <2>2
<1> QED
  BY <1>10, <1>13, <1>14, <1>15, Zenon DEF ReadData, CannotCreateHere, before

LEMMA LeaveKeeps ==
  ASSUME CopyInv, SyncTypes', Leave \/ Eof
  PROVE  CopyInv'
<1>0. SyncTypes /\ JobOK /\ PhaseOK /\ StateOK /\ PartOpen /\ CopyStep
  BY DEF CopyInv, CopyStep
<1>1. svc' = svc /\ remote' = remote /\ stuck' = stuck /\ job' = job
  BY <1>0, ClientLeaves
<1>2. local' = local /\ unread' = unread /\ toDev' = toDev
  BY DEF Leave, Eof, Stays
<1>3. CASE Leave
  BY <1>1, <1>2, <1>3, ExitEnds DEF Leave
<1>4. CASE Eof
  BY <1>0, <1>1, <1>2, <1>4, ExitFails DEF Eof
<1> QED
  BY <1>3, <1>4

LEMMA ClientKeeps ==
  ASSUME CopyInv, CopyStep
  PROVE  CopyInv'
<1>1. SyncTypes'
  BY ClientTypesKept DEF CopyInv
<1> QED
  BY <1>1, StartKeeps, CWriteKeeps, ReadModeKeeps, FinishReadtimeKeeps, ReadDentKeeps,
     NextFileKeeps, WriteFileKeeps, ReadStatusKeeps, ReadDataKeeps, LeaveKeeps DEF CopyStep

-----------------------------------------------------------------------------
\* The connection breaks.

LEMMA BreakKeeps ==
  ASSUME CopyInv, LinkBreaks, copyVars' = copyVars
  PROVE  CopyInv'
<1>0. SyncTypes /\ JobOK /\ PhaseOK /\ StateOK /\ PartOpen
  BY DEF CopyInv
<1>1. SyncTypes'
  BY <1>0, BreakTypes
<1>2. /\ svc' = svc /\ remote' = remote
      /\ stuck' = stuck /\ job' = job /\ client' = client /\ local' = local
      /\ unread' = unread /\ cOut' = cOut /\ Cur' = Cur /\ clientOpen' = clientOpen
      /\ Had' = Had
  BY DEF LinkBreaks, copyVars, svcVars, Cur, Had
<1>3. /\ link' = "broken" /\ Heard' \in Seq(Messages) /\ Len(Heard') \in 0 .. Len(Heard)
      /\ \A i \in 1 .. Len(Heard') : Heard'[i] = Heard[i]
      /\ toDev' \in Seq(Messages) /\ Len(toDev') \in 0 .. Len(toDev)
      /\ \A i \in 1 .. Len(toDev') : toDev'[i] = toDev[i]
  BY <1>0, BreaksEffect
<1>4. /\ Heard \in Seq(Messages) /\ Len(Heard) \in Nat /\ toDev \in Seq(Messages)
      /\ Len(toDev) \in Nat /\ client.at \in Nat /\ Len(client.todo) \in Nat
  BY <1>0, StreamsAre, SMTT(30) DEF SyncTypes, StreamTypes, ClientTypes
<1>5. (Heard = <<>> => Heard' = <<>>) /\ (toDev = <<>> => toDev' = <<>>)
  <2>1. (Heard = <<>> => Len(Heard') = 0) /\ (toDev = <<>> => Len(toDev') = 0)
    BY <1>3
  <2> QED
    BY <1>3, <2>1, EmptyIs
<1>6. Rest => Rest'
  BY <1>2, <1>3, <1>5 DEF Rest
<1>7. StatOK => StatOK'
  <2>1. ASSUME StatOK PROVE client'.at + Len(Heard') <= Len(client'.todo)
    <3>1. client.at + Len(Heard) <= Len(client.todo)
      BY <2>1 DEF StatOK
    <3> QED
      BY <1>2, <1>3, <1>4, <3>1
  <2>2. \A j \in 1 .. Len(Heard') : j \in 1 .. Len(Heard)
    BY <1>3, <1>4
  <2> QED
    BY <1>2, <1>3, <2>1, <2>2 DEF StatOK
<1>8. DentsOK => DentsOK'
  <2>1. \A j \in 1 .. Len(Heard') : j \in 1 .. Len(Heard) /\ (j < Len(Heard') => j < Len(Heard))
    BY <1>3, <1>4
  <2> QED
    BY <1>3, <2>1 DEF DentsOK
<1>9. SendingOK => SendingOK'
  <2>1. ASSUME SendingOK, Heard' # <<>>
        PROVE  /\ Heard'[1].f = Cur
               /\ Heard'[1].id = "FAIL" \/ (Heard'[1].id = "OKAY" /\ Accepted')
    <3>1. Heard # <<>> /\ Len(Heard') # 0
      BY <1>3, <1>5, <2>1, EmptyIs
    <3>2. Heard'[1] = Heard[1]
      BY <1>3, <1>4, <3>1
    <3>3. ASSUME Accepted PROVE Accepted'
      <4>1. Settled => Settled'
        BY <1>2 DEF Settled, Whole, Copied
      <4>2. Len(Heard') = 1
        BY <1>3, <3>1, <3>3 DEF Accepted
      <4>3. svc.pc = "command" \/ svc.pc = "ended"
        BY <3>3 DEF Accepted
      <4> QED
        BY <1>2, <1>3, <1>5, <3>3, <4>1, <4>2, <4>3 DEF Accepted, Whole, Copied
    <3> QED
      BY <2>1, <3>1, <3>2, <3>3 DEF SendingOK
  <2> QED
    BY <1>2, <1>3, <2>1 DEF SendingOK
<1>10. ReceivingOK => ReceivingOK'
  <2>1. ASSUME ReceivingOK, NEW j \in 1 .. Len(Heard') PROVE Follows(j)'
    <3>1. j \in 1 .. Len(Heard) /\ (j = Len(Heard) => j = Len(Heard'))
      BY <1>3, <1>4
    <3>2. Follows(j) /\ Heard'[j] = Heard[j]
      BY <1>3, <2>1, <3>1 DEF ReceivingOK
    <3> QED
      BY <1>2, <3>1, <3>2 DEF Follows
  <2> QED
    BY <1>2, <1>3, <2>1 DEF ReceivingOK
<1>11. PhaseOK'
  BY <1>0, <1>2, <1>6, <1>7, <1>8, <1>9, <1>10 DEF PhaseOK
<1>12. Harmless => Harmless'
  <2>1. AsksOnly(toDev) => AsksOnly(toDev)'
    <3>1. \A i \in 1 .. Len(toDev') : i \in 1 .. Len(toDev)
      BY <1>3, <1>4
    <3> QED
      BY <1>3, <3>1 DEF AsksOnly
  <2> QED
    BY <1>2, <2>1 DEF Harmless, AsksOnly
<1>13. StateOK'
  <2>1. (Settled => Settled') /\ (Kept => Kept')
    BY <1>2, SameFiles
  <2> QED
    BY <1>0, <1>2, <1>12, <2>1 DEF StateOK, Going
<1>14. JobOK' /\ PartOpen'
  BY <1>0, <1>2 DEF JobOK, PartOpen, Whole
<1> QED
  BY <1>1, <1>11, <1>13, <1>14 DEF CopyInv

-----------------------------------------------------------------------------
\* The initial states.

LEMMA ListsAre ==
  ASSUME NEW fs \in SUBSET Files, NEW names \in SetToSeqs(fs)
  PROVE  /\ names \in Seq(Files) /\ \A g \in fs : \E i \in 1 .. Len(names) : names[i] = g
         /\ Len(names) = Cardinality(fs)
<1>1. /\ names \in [1 .. Cardinality(fs) -> fs]
      /\ \A i, j \in 1 .. Cardinality(fs) : i # j => names[i] # names[j]
  BY DEF SetToSeqs
<1>2. IsFiniteSet(fs) /\ Cardinality(fs) \in Nat
  BY SyncAssumption, FS_Subset, FS_CardinalityType
<1>3. PICK n \in Nat : n = Cardinality(fs)
  BY <1>2
<1>4. names \in Seq(Files) /\ Len(names) = n
  BY <1>1, <1>3
<1>5. names \in Injection(1 .. n, fs)
  BY <1>1, <1>3 DEF Injection, IsInjective
<1>6. Cardinality(1 .. n) = n
  BY <1>3, FS_Interval
<1>7. names \in Surjection(1 .. n, fs)
  BY <1>2, <1>3, <1>5, <1>6, FS_Injection
<1>8. \A g \in fs : \E i \in 1 .. n : names[i] = g
  BY <1>7 DEF Surjection
<1> QED
  BY <1>3, <1>4, <1>8

LEMMA CopyBegins ==
  ASSUME SyncInit
  PROVE  CopyInv
<1>1. /\ svc = [pc |-> "command", file |-> CHOOSE f \in Files : TRUE, opened |-> FALSE, at |-> 0]
      /\ sOut = <<>> /\ toDev = <<>> /\ toHost = <<>> /\ link = "up" /\ clientOpen = TRUE
      /\ cOut = <<>> /\ unread = {} /\ stuck = {}
      /\ local = [f \in Files |-> IF job.op \in Pushes THEN Whole(f) ELSE Absent]
  BY DEF SyncInit, SvcInit
<1>2. /\ job.op \in Pushes \cup {"pull", "pulldir"} /\ job.files \in SUBSET Files
      /\ job.op \in {"push", "pull"} => \E f \in Files : job.files = {f}
      /\ job \in [op : Pushes \cup {"pull", "pulldir"}, files : SUBSET Files, attrs : BOOLEAN]
  BY DEF SyncInit, Pushes
<1>3. PICK names \in IF job.op = "pulldir" THEN {<<>>} ELSE LocalLists :
        client = [pc |-> "start", todo |-> names, same |-> {}, at |-> 0, code |-> -1]
  BY DEF SyncInit
<1>4. /\ names \in Seq(Files)
      /\ job.op # "pulldir" => /\ Len(names) = Cardinality(job.files)
                               /\ \A g \in job.files : \E i \in 1 .. Len(names) : names[i] = g
  <2>1. CASE job.op = "pulldir"
    BY <1>3, <2>1
  <2>2. CASE job.op # "pulldir"
    <3>1. names \in SetToSeqs(job.files)
      BY <1>3, <2>2 DEF LocalLists
    <3> QED
      BY <1>2, <3>1, ListsAre
  <2> QED
    BY <2>1, <2>2
<1>5. SyncTypes
  <2>1. SvcTypes
    BY <1>1, SyncAssumption DEF SvcTypes
  <2>2. ClientTypes
    BY <1>3, <1>4 DEF ClientTypes
  <2>3. StreamTypes
    BY <1>1 DEF StreamTypes
  <2>4. local \in [Files -> FileStates]
    BY <1>1, FileStatesAre
  <2>5. remote \in [Files -> FileStates]
    <3>1. /\ remote \in [Files -> UNION {{Absent, Old(f), Whole(f)} : f \in Files}]
          /\ \A f \in Files : remote[f] \in {Absent, Old(f), Whole(f)}
      BY DEF SyncInit
    <3> QED
      BY <3>1, FileStatesAre
  <2> QED
    BY <1>1, <1>2, <2>1, <2>2, <2>3, <2>4, <2>5 DEF SyncTypes, PlaceOK
<1>6. JobOK
  BY <1>1, <1>3 DEF JobOK
<1>7. Rest
  <2>1. <<>> \o <<>> = <<>>
    BY <1>1, JoinedEmpty DEF StreamTypes
  <2> QED
    BY <1>1, <2>1 DEF Rest, Heard
<1>8. PhaseOK
  <2>1. job.op \in {"push", "pull"} => Len(client.todo) = 1
    <3>1. ASSUME job.op \in {"push", "pull"} PROVE Cardinality(job.files) = 1
      BY <1>2, <3>1, FS_Singleton
    <3> QED
      BY <1>3, <1>4, <3>1
  <2> QED
    BY <1>3, <1>7, <2>1 DEF PhaseOK
<1>9. Harmless
  BY <1>1 DEF Harmless, AsksOnly
<1>10. job.op \in Pushes => Settled
  BY <1>3, <1>4 DEF Settled, Pushes
<1>11. job.op \notin Pushes => Kept
  BY <1>1 DEF Kept
<1>12. PartOpen
  <2>1. \A f \in Files : remote[f] \in {Absent, Old(f), Whole(f)}
    BY DEF SyncInit
  <2> QED
    BY <2>1 DEF PartOpen, Absent, Old, Whole
<1> QED
  BY <1>5, <1>6, <1>8, <1>9, <1>10, <1>11, <1>12 DEF CopyInv, StateOK

-----------------------------------------------------------------------------
\* What the invariant says.

LEMMA CopiesAre ==
  ASSUME CopyInv
  PROVE  PushIsWhole /\ NoPartialFile /\ PullIsWhole /\ AnswersMatch
<1>0. SyncTypes /\ JobOK /\ PhaseOK /\ StateOK /\ PartOpen
  BY DEF CopyInv
<1>1. client.code = 0 => client.pc = "exited" /\ client.todo = <<>> /\ Going
  BY <1>0 DEF JobOK, PhaseOK, Going
<1>2. PushIsWhole
  <2>1. ASSUME client.code = 0, job.op \in Pushes, NEW f \in job.files \ unread
        PROVE  Copied(f)
    <3>1. Settled
      BY <1>0, <1>1, <2>1 DEF StateOK
    <3>2. \A i \in 1 .. Len(client.todo) : client.todo[i] # f
      BY <1>1, <2>1
    <3> QED
      BY <2>1, <3>1, <3>2 DEF Settled
  <2> QED
    BY <2>1 DEF PushIsWhole
<1>3. NoPartialFile
  BY <1>0 DEF PartOpen, NoPartialFile
<1>4. PullIsWhole
  <2>1. ASSUME client.code = 0, job.op \notin Pushes PROVE Kept /\ client.pc # "data"
    BY <1>0, <1>1, <2>1 DEF StateOK
  <2> QED
    BY <2>1 DEF PullIsWhole, Kept
<1>5. AnswersMatch
  <2>1. ASSUME cOut = <<>>, toHost # <<>>
        PROVE  /\ Heard # <<>> /\ Heard[1] = Answered /\ 1 \in 1 .. Len(Heard)
    <3>1. Heard # <<>> /\ Heard[1] = Head(toHost) /\ Heard \in Seq(Messages)
      BY <1>0, <2>1, StreamsAre
    <3>2. Len(Heard) >= 1 /\ Len(Heard) \in Nat
      BY <3>1, TailIs
    <3> QED
      BY <3>1, <3>2 DEF Answered
  <2>2. ASSUME cOut = <<>>, toHost # <<>>, client.pc \in {"mode", "stats"}
        PROVE  Answered.f = client.todo[client.at + 1]
    BY <1>0, <2>1, <2>2 DEF PhaseOK, StatOK
  <2>3. ASSUME cOut = <<>>, toHost # <<>>, client.pc = "mode"
        PROVE  Answered.f = Cur
    <3>1. client.at = 0 /\ Len(client.todo) = 1 /\ client.todo \in Seq(Files)
      BY <1>0, <2>3 DEF PhaseOK, SyncTypes, ClientTypes
    <3>2. client.todo # <<>>
      <4>1. client.todo = <<>> <=> Len(client.todo) = 0
        BY <3>1, EmptyIs
      <4> QED
        BY <3>1, <4>1
    <3>3. Cur = client.todo[1] /\ client.at + 1 = 1
      BY <3>1, <3>2, TailIs DEF Cur
    <3> QED
      BY <2>2, <2>3, <3>3
  <2>4. ASSUME cOut = <<>>, toHost # <<>>, client.pc = "status"
        PROVE  Answered.f = Cur
    BY <1>0, <2>1, <2>4 DEF PhaseOK, SendingOK
  <2>5. ASSUME cOut = <<>>, toHost # <<>>, client.pc \in {"first", "data"}
        PROVE  Answered.f = Cur
    BY <1>0, <2>1, <2>5 DEF PhaseOK, ReceivingOK, Follows
  <2> QED
    BY <2>2, <2>3, <2>4, <2>5 DEF AnswersMatch
<1> QED
  BY <1>2, <1>3, <1>4, <1>5

\* Copies of files, in one direction or the other and over a link that may break: a push that
\* exits with 0 put every file it could read, whole, and behind it nothing but what an older one
\* that could not be removed had more; a file is in part only while it is written or where it
\* could not be removed; what a pull that exits with 0 left is whole; and each answer is read
\* for the request it is of (file_sync_service.c, file_sync_client.c).
THEOREM CopiesHold ==
  SyncInit /\ [][SyncNext]_syncVars
    => [](PushIsWhole /\ NoPartialFile /\ PullIsWhole /\ AnswersMatch)
<1>1. SyncInit => CopyInv
  BY CopyBegins
<1>2. CopyInv /\ [SyncNext]_syncVars => CopyInv'
  <2> SUFFICES ASSUME CopyInv, [SyncNext]_syncVars PROVE CopyInv'
    OBVIOUS
  <2>1. CASE SvcStep /\ UNCHANGED copyVars
    BY <2>1, ServiceKeeps
  <2>2. CASE CopyStep
    BY <2>2, ClientKeeps
  <2>3. CASE LinkBreaks /\ UNCHANGED copyVars
    BY <2>3, BreakKeeps
  <2>4. CASE UNCHANGED syncVars
    <3>1. /\ svc' = svc /\ sOut' = sOut /\ remote' = remote /\ stuck' = stuck /\ toDev' = toDev
          /\ toHost' = toHost /\ link' = link /\ clientOpen' = clientOpen /\ job' = job
          /\ client' = client /\ cOut' = cOut /\ local' = local /\ unread' = unread
      BY <2>4 DEF syncVars, svcVars, copyVars
    <3>2. /\ Cur' = Cur /\ Pieces' = Pieces /\ Made' = Made /\ Had' = Had /\ Heard' = Heard
          /\ Requested' = Requested /\ Got' = Got
      BY <3>1 DEF Cur, Pieces, Made, Had, Heard, Requested, Got
    <3>3. SyncTypes' /\ JobOK' /\ PartOpen'
      BY <3>1 DEF CopyInv, SyncTypes, SvcTypes, ClientTypes, StreamTypes, PlaceOK, JobOK,
                  PartOpen, Whole
    <3>4. (Settled => Settled') /\ (Kept => Kept') /\ (Harmless => Harmless')
      BY <3>1 DEF Settled, Kept, Harmless, AsksOnly, Whole, Copied, Absent, Cur
    <3>5. (Rest => Rest') /\ (StatOK => StatOK') /\ (DentsOK => DentsOK')
      BY <3>1, <3>2 DEF Rest, StatOK, DentsOK
    <3>6. (Taken => Taken') /\ (Accepted => Accepted')
      BY <3>1, <3>2, <3>4 DEF Taken, Accepted, Begun, Copied
    <3>7. Underway => Underway'
      BY <3>1, <3>2, <3>4, <3>6 DEF Underway, IsPiece
    <3>8. SendingOK => SendingOK'
      BY <3>1, <3>2, <3>6, <3>7 DEF SendingOK
    <3>9. ReceivingOK => ReceivingOK'
      BY <3>1, <3>2 DEF ReceivingOK, Sends, Follows
    <3>10. PhaseOK'
      BY <3>1, <3>5, <3>8, <3>9 DEF CopyInv, PhaseOK
    <3>11. StateOK'
      BY <3>1, <3>4 DEF CopyInv, StateOK, Going
    <3> QED
      BY <3>3, <3>10, <3>11 DEF CopyInv
  <2> QED
    BY <2>1, <2>2, <2>3, <2>4 DEF SyncNext
<1> QED
  BY <1>1, <1>2, CopiesAre, PTL

-----------------------------------------------------------------------------
\* The listeners.

\* No two listeners have one id, and none has an id that is yet to be given.
IdsGiven ==
  /\ made \in 0..MaxInstall
  /\ \A l \in listeners : l.id <= made
  /\ \A l, m \in listeners : l.id = m.id => l = m

\* A thread that is about to bind a name still has its request and the transport it acquired.
UnboundAsks ==
  \A k \in unbound : thread[k].kind \in {"forward", "norebind"} /\ picked[k] # None

\* A transport is gone only after close_all_sockets; what is connected over it since is tardy.
EndedFirst ==
  /\ \A t \in Transports : Gone(t) => t \in ended
  /\ \A c \in conns : c.on \in ended => c.tardy

\* The inductive invariant.
Inv ==
  /\ TypeOK /\ DisconnectsMatch /\ NamesUnique /\ GoneTakesAll
  /\ IdsGiven /\ UnboundAsks /\ EndedFirst

USE ListenersAssumption

\* Freeing a set of listeners leaves the rest in the disconnects of their transports.
LEMMA FreedMatch ==
  ASSUME Inv, NEW ids, FreeListeners(ids)
  PROVE  /\ listeners' \subseteq listeners
         /\ disc' \in [Transports -> SUBSET (1..MaxInstall)]
         /\ DisconnectsMatch' /\ NamesUnique'
         /\ \A l, m \in listeners' : l.id = m.id => l = m
  BY DEF Inv, TypeOK, FreeListeners, DisconnectsMatch, NamesUnique, IdsGiven, IdsOf

\* The end of a transport's disconnects: none of its listeners is left, nor a connection that
\* the host has answered.
LEMMA RunMatch ==
  ASSUME Inv, NEW t \in Transports, RunDisconnects(t)
  PROVE  /\ \A l \in listeners' : l \in listeners /\ l.on # t
         /\ \A l \in listeners : l.on # t => l \in listeners'
         /\ \A c \in conns' : c \in conns /\ (c.on = t => ~ c.ready)
<1>1. \A l \in listeners : l.id \in disc[t] <=> l.on = t
  BY DEF Inv, DisconnectsMatch, IdsGiven, IdsOf
<1> QED
  BY <1>1 DEF RunDisconnects, FreeListeners

LEMMA InitInv == Init => Inv
  BY DEF Init, Inv, TypeOK, DisconnectsMatch, NamesUnique, GoneTakesAll, IdsGiven, UnboundAsks,
         EndedFirst, Gone, IdsOf, Requests, Idle

-----------------------------------------------------------------------------
(* Every step keeps the invariant.                                         *)

LEMMA OnlineKeeps == ASSUME Inv, NEW t \in Transports, Online(t) PROVE Inv'
  BY DEF Online, threadVars, Inv, TypeOK, DisconnectsMatch, NamesUnique, GoneTakesAll, IdsGiven,
         UnboundAsks, EndedFirst, Gone, IdsOf

LEMMA OfflineKeeps == ASSUME Inv, NEW t \in Transports, Offline(t) PROVE Inv'
<1>1. RunDisconnects(t)
  BY DEF Offline
<1>2. FreeListeners(disc[t])
  BY <1>1 DEF RunDisconnects
<1>3. DisconnectsMatch' /\ NamesUnique' /\ IdsGiven'
  BY <1>2, FreedMatch DEF Offline, Inv, IdsGiven
<1>4. TypeOK'
  BY <1>1, <1>2, FreedMatch DEF Offline, RunDisconnects, threadVars, Inv, TypeOK
<1>5. GoneTakesAll' /\ EndedFirst'
  BY <1>1, RunMatch DEF Offline, threadVars, Inv, TypeOK, GoneTakesAll, EndedFirst, Gone
<1>6. UnboundAsks'
  BY DEF Offline, threadVars, Inv, UnboundAsks
<1> QED
  BY <1>3, <1>4, <1>5, <1>6 DEF Inv

LEMMA InputThreadKeeps == ASSUME Inv, NEW t \in Transports, InputThreadEnds(t) PROVE Inv'
  BY DEF InputThreadEnds, threadVars, Inv, TypeOK, DisconnectsMatch, NamesUnique, GoneTakesAll,
         IdsGiven, UnboundAsks, EndedFirst, Gone, IdsOf

LEMMA UnregisterKeeps == ASSUME Inv, NEW t \in Transports, Unregister(t) PROVE Inv'
<1>1. RunDisconnects(t)
  BY DEF Unregister
<1>2. FreeListeners(disc[t])
  BY <1>1 DEF RunDisconnects
<1>3. DisconnectsMatch' /\ NamesUnique' /\ IdsGiven'
  BY <1>2, FreedMatch DEF Unregister, Inv, IdsGiven
<1>4. TypeOK'
  BY <1>1, <1>2, FreedMatch DEF Unregister, RunDisconnects, threadVars, Inv, TypeOK
<1>5. GoneTakesAll' /\ EndedFirst'
  BY <1>1, RunMatch DEF Unregister, threadVars, Inv, TypeOK, GoneTakesAll, EndedFirst, Gone
<1>6. UnboundAsks'
  BY DEF Unregister, threadVars, Inv, UnboundAsks
<1> QED
  BY <1>3, <1>4, <1>5, <1>6 DEF Inv

LEMMA ListenerEventKeeps == ASSUME Inv, NEW l \in listeners, ListenerEvent(l) PROVE Inv'
<1>1. ConnectToRemote(l) \in [via : 1..MaxInstall, on : Transports, to : Remotes,
                              ready : BOOLEAN, tardy : BOOLEAN]
  BY DEF ConnectToRemote, Inv, TypeOK
<1>2. ConnectToRemote(l).tardy = (l.on \in ended) /\ ConnectToRemote(l).on = l.on
  BY DEF ConnectToRemote
<1> QED
  BY <1>1, <1>2 DEF ListenerEvent, threadVars, Inv, TypeOK, DisconnectsMatch, NamesUnique,
         GoneTakesAll, IdsGiven, UnboundAsks, EndedFirst, Gone, IdsOf

LEMMA ConnectionKeeps ==
  ASSUME Inv, NEW c \in conns, ConnectionReady(c) \/ ConnectionCloses(c) PROVE Inv'
<1>1. UNCHANGED <<transport, listeners, disc, made, asked, ended, thread, picked, unbound, late>>
  BY DEF ConnectionReady, ConnectionCloses, threadVars
<1>2. /\ conns' \subseteq [via : 1..MaxInstall, on : Transports, to : Remotes,
                            ready : BOOLEAN, tardy : BOOLEAN]
      /\ \A d \in conns' : transport[d.on] = "gone" => d.tardy /\ ~ d.ready
      /\ \A d \in conns' : d.on \in ended => d.tardy
  <2>1. CASE ConnectionReady(c)
    <3>1. c \in [via : 1..MaxInstall, on : Transports, to : Remotes, ready : BOOLEAN,
                 tardy : BOOLEAN]
      BY DEF Inv, TypeOK
    <3>2. /\ [c EXCEPT !.ready = TRUE] \in [via : 1..MaxInstall, on : Transports, to : Remotes,
                                            ready : BOOLEAN, tardy : BOOLEAN]
          /\ [c EXCEPT !.ready = TRUE].on = c.on /\ [c EXCEPT !.ready = TRUE].tardy = c.tardy
      BY <3>1
    <3> QED
      BY <2>1, <3>2 DEF ConnectionReady, Inv, TypeOK, GoneTakesAll, EndedFirst, Gone
  <2>2. CASE ConnectionCloses(c)
    BY <2>2 DEF ConnectionCloses, Inv, TypeOK, GoneTakesAll, EndedFirst, Gone
  <2> QED
    BY <2>1, <2>2
<1>3. TypeOK' /\ GoneTakesAll' /\ EndedFirst'
  <2>1. TypeOK'
    BY <1>1, <1>2 DEF Inv, TypeOK
  <2>2. transport' = transport /\ listeners' = listeners /\ ended' = ended /\ late' = late
    BY <1>1
  <2>3. GoneTakesAll'
    BY <1>2, <2>2 DEF Inv, GoneTakesAll, Gone
  <2>4. EndedFirst'
    BY <1>2, <2>2 DEF Inv, EndedFirst, Gone
  <2> QED
    BY <2>1, <2>3, <2>4
<1>4. DisconnectsMatch' /\ NamesUnique' /\ IdsGiven' /\ UnboundAsks'
  BY <1>1 DEF Inv, DisconnectsMatch, NamesUnique, IdsGiven, UnboundAsks, IdsOf
<1> QED
  BY <1>3, <1>4 DEF Inv

LEMMA AskKeeps == ASSUME Inv, NEW k \in Threads, NEW r \in Requests, Ask(k, r) PROVE Inv'
<1>1. k \notin unbound
  BY DEF Ask, Idle, Inv, UnboundAsks
<1> QED
  BY <1>1 DEF Ask, Inv, TypeOK, DisconnectsMatch, NamesUnique, GoneTakesAll, IdsGiven,
         UnboundAsks, EndedFirst, Gone, IdsOf

\* A thread that has answered asks nothing more.
LEMMA AnswerIsLast ==
  ASSUME Inv, NEW k \in Threads, Replies(k)
  PROVE  /\ thread' \in [Threads -> Requests \cup {Idle}]
         /\ picked' \in [Threads -> Transports \cup {None}]
         /\ unbound' \subseteq Threads
         /\ UnboundAsks'
  BY DEF Replies, Inv, TypeOK, UnboundAsks

LEMMA KillsKeep == ASSUME Inv, NEW k \in Threads, KillAll(k) \/ Kill(k) PROVE Inv'
<1>1. PICK ids : FreeListeners(ids)
  BY DEF KillAll, Kill
<1>2. Replies(k) /\ UNCHANGED <<transport, made, asked, ended, conns, late>>
  BY DEF KillAll, Kill
<1>3. DisconnectsMatch' /\ NamesUnique' /\ IdsGiven' /\ listeners' \subseteq listeners
  BY <1>1, <1>2, FreedMatch DEF Inv, IdsGiven
<1>4. TypeOK'
  BY <1>1, <1>2, <1>3, FreedMatch, AnswerIsLast DEF Inv, TypeOK
<1>5. GoneTakesAll' /\ EndedFirst'
  BY <1>2, <1>3 DEF Inv, GoneTakesAll, EndedFirst, Gone
<1> QED
  BY <1>2, <1>3, <1>4, <1>5, AnswerIsLast DEF Inv

LEMMA AcquireKeeps == ASSUME Inv, NEW k \in Threads, Acquire(k) PROVE Inv'
<1>1. UNCHANGED <<transport, listeners, disc, made, asked, ended, conns, late>>
  BY DEF Acquire
<1>2. k \notin unbound
  BY DEF Acquire, Inv, UnboundAsks
<1>3. /\ thread' \in [Threads -> Requests \cup {Idle}]
      /\ picked' \in [Threads -> Transports \cup {None}]
      /\ unbound' \subseteq Threads
      /\ UnboundAsks'
  <2>1. CASE \E t \in Transports : Listed = {t} /\ transport[t] = "online"
    <3>1. (CHOOSE t \in Transports : Listed = {t}) \in Transports
      BY <2>1
    <3> QED
      BY <1>2, <2>1, <3>1 DEF Acquire, Inv, TypeOK, UnboundAsks
  <2>2. CASE ~ \E t \in Transports : Listed = {t} /\ transport[t] = "online"
    BY <2>2, AnswerIsLast DEF Acquire
  <2> QED
    BY <2>1, <2>2
<1> QED
  BY <1>1, <1>3 DEF Inv, TypeOK, DisconnectsMatch, NamesUnique, GoneTakesAll, IdsGiven,
         EndedFirst, Gone, IdsOf

\* What Install and Bind tie to a transport that is gone is late.
LEMMA RebindKeeps ==
  ASSUME Inv, NEW k \in Threads, thread[k].kind \in {"forward", "norebind"}, picked[k] # None,
         NEW l \in Named(thread[k].name), Rebind(k, l), Replies(k),
         UNCHANGED <<transport, made, asked, ended, conns>>
  PROVE  Inv'
<1> DEFINE t == picked[k]
           new == [l EXCEPT !.to = thread[k].to, !.on = t]
<1>1. l \in listeners /\ l \in [id : 1..MaxInstall, name : Names, to : Remotes, on : Transports]
  BY DEF Named, Inv, TypeOK
<1>2. t \in Transports /\ thread[k].to \in Remotes
  BY DEF Inv, TypeOK, Requests, Idle
<1>3. /\ new \in [id : 1..MaxInstall, name : Names, to : Remotes, on : Transports]
      /\ new.id = l.id /\ new.name = l.name /\ new.on = t
  BY <1>1, <1>2
<1>4. /\ listeners' = (listeners \ {l}) \cup {new}
      /\ IF l.on = t THEN UNCHANGED <<disc, late>>
         ELSE /\ disc' = [disc EXCEPT ![l.on] = @ \ {l.id}, ![t] = @ \cup {l.id}]
              /\ late' = IF Gone(t) THEN late \cup {l.id} ELSE late \ {l.id}
  BY DEF Rebind, Tied
<1>5. l.name = thread[k].name /\ \A m \in listeners : m # l => m.id # l.id /\ m.name # l.name
  BY <1>1 DEF Named, Inv, NamesUnique, IdsGiven
<1> HIDE DEF new, t
<1>6. /\ disc' \in [Transports -> SUBSET (1..MaxInstall)]
      /\ late' \subseteq 1..MaxInstall
  <2>1. l.id \in 1..MaxInstall /\ l.on \in Transports
    BY <1>1
  <2>2. disc \in [Transports -> SUBSET (1..MaxInstall)] /\ late \subseteq 1..MaxInstall
    BY DEF Inv, TypeOK
  <2>3. CASE l.on = t
    BY <1>4, <2>2, <2>3
  <2>4. CASE l.on # t
    <3>1. /\ disc' = [disc EXCEPT ![l.on] = @ \ {l.id}, ![t] = @ \cup {l.id}]
          /\ late' = IF Gone(t) THEN late \cup {l.id} ELSE late \ {l.id}
      BY <1>4, <2>4
    <3>2. {l.id} \subseteq 1..MaxInstall
      BY <2>1
    <3>3. late' \subseteq 1..MaxInstall
      BY <2>2, <3>1, <3>2
    <3>4. disc' \in [Transports -> SUBSET (1..MaxInstall)]
      BY <1>2, <2>1, <2>2, <3>1, <3>2
    <3> QED
      BY <3>3, <3>4
  <2> QED
    BY <2>3, <2>4
<1>7. ASSUME NEW u \in Transports
      PROVE  disc'[u] = IdsOf({m \in listeners' : m.on = u})
  <2>1. disc[u] = IdsOf({m \in listeners : m.on = u})
    BY DEF Inv, DisconnectsMatch
  <2>2. disc'[u] = IF u = t THEN disc[u] \cup {l.id} ELSE disc[u] \ {l.id}
    <3>1. l.id \in disc[l.on] /\ (l.on # u => l.id \notin disc[u])
      BY <1>1, <1>5, <2>1 DEF Inv, DisconnectsMatch, IdsOf
    <3>2. disc \in [Transports -> SUBSET (1..MaxInstall)] /\ l.on \in Transports
      BY <1>1 DEF Inv, TypeOK
    <3>3. CASE l.on = t
      BY <1>4, <3>1, <3>3
    <3>4. CASE l.on # t
      BY <1>2, <1>4, <3>1, <3>2, <3>4
    <3> QED
      BY <3>3, <3>4
  <2>3. \A m : m \in listeners' <=> (m \in listeners /\ m # l) \/ m = new
    BY <1>4
  <2>4. ASSUME NEW id
        PROVE  id \in disc'[u] <=> \E m \in listeners' : m.on = u /\ m.id = id
    BY <1>1, <1>3, <1>5, <2>1, <2>2, <2>3 DEF IdsOf
  <2> QED
    BY <2>4 DEF IdsOf
<1>8. NamesUnique' /\ IdsGiven'
  <2>1. NamesUnique'
    BY <1>3, <1>4, <1>5 DEF Inv, NamesUnique
  <2>2. IdsGiven'
    BY <1>1, <1>3, <1>4, <1>5 DEF Inv, IdsGiven
  <2> QED
    BY <2>1, <2>2
<1>9. GoneTakesAll' /\ EndedFirst'
  <2>1. ASSUME NEW m \in listeners', Gone(m.on)
        PROVE  m.id \in late'
    <3>1. CASE m = new
      BY <1>1, <1>3, <1>4, <2>1, <3>1 DEF Inv, GoneTakesAll
    <3>2. CASE m # new
      <4>1. m \in listeners /\ m.id # l.id
        BY <1>4, <1>5, <3>2
      <4> QED
        BY <1>4, <2>1, <4>1 DEF Inv, GoneTakesAll
    <3> QED
      BY <3>1, <3>2
  <2> QED
    BY <2>1 DEF Inv, GoneTakesAll, EndedFirst, Gone
<1>10. TypeOK'
  BY <1>3, <1>4, <1>6, AnswerIsLast DEF Inv, TypeOK
<1> QED
  BY <1>6, <1>7, <1>8, <1>9, <1>10, AnswerIsLast DEF Inv, DisconnectsMatch

LEMMA InstallKeeps == ASSUME Inv, NEW k \in Threads, Install(k) PROVE Inv'
<1>1. CASE Named(thread[k].name) = {}
  <2>1. /\ UNCHANGED <<transport, listeners, disc, made, asked, thread, picked, conns, ended, late>>
        /\ unbound' = unbound \cup {k}
        /\ thread[k].kind \in {"forward", "norebind"} /\ picked[k] # None
    BY <1>1 DEF Install
  <2>2. UnboundAsks' /\ TypeOK'
    BY <2>1 DEF Inv, UnboundAsks, TypeOK
  <2>3. DisconnectsMatch' /\ NamesUnique' /\ GoneTakesAll' /\ IdsGiven' /\ EndedFirst'
    BY <2>1 DEF Inv, DisconnectsMatch, NamesUnique, GoneTakesAll, IdsGiven, EndedFirst, Gone, IdsOf
  <2> QED
    BY <2>2, <2>3 DEF Inv
<1>2. CASE Named(thread[k].name) # {} /\ thread[k].kind = "norebind"
  <2>1. Replies(k) /\ UNCHANGED <<transport, listeners, disc, made, asked, ended, conns, late>>
    BY <1>2 DEF Install
  <2> QED
    BY <2>1, AnswerIsLast DEF Inv, TypeOK, DisconnectsMatch, NamesUnique, GoneTakesAll, IdsGiven,
           EndedFirst, Gone, IdsOf
<1>3. CASE Named(thread[k].name) # {} /\ thread[k].kind # "norebind"
  <2>1. PICK l \in Named(thread[k].name) : Rebind(k, l)
    BY <1>3 DEF Install
  <2> QED
    BY <1>3, <2>1, RebindKeeps DEF Install
<1> QED
  BY <1>1, <1>2, <1>3

LEMMA BindKeeps == ASSUME Inv, NEW k \in Threads, Bind(k) PROVE Inv'
<1>1. Replies(k) /\ UNCHANGED <<transport, asked, ended, conns>>
  BY DEF Bind
<1>2. CASE UNCHANGED <<listeners, disc, made, late>>
  BY <1>1, <1>2, AnswerIsLast DEF Inv, TypeOK, DisconnectsMatch, NamesUnique, GoneTakesAll,
         IdsGiven, EndedFirst, Gone, IdsOf
<1>3. CASE ~ UNCHANGED <<listeners, disc, made, late>>
  <2> DEFINE t == picked[k]
             new == [id |-> made + 1, name |-> thread[k].name, to |-> thread[k].to, on |-> t]
  <2>1. /\ made < MaxInstall /\ made' = made + 1 /\ CanListen(thread[k].name)
        /\ listeners' = listeners \cup {new}
        /\ disc' = [disc EXCEPT ![t] = @ \cup {made + 1}]
        /\ Tied(made + 1, t)
    BY <1>3 DEF Bind
  <2>2. thread[k].kind \in {"forward", "norebind"} /\ t \in Transports
    BY DEF Bind, Inv, TypeOK, UnboundAsks
  <2>3. thread[k].name \in Names /\ thread[k].to \in Remotes
    BY <2>2 DEF Inv, TypeOK, Requests, Idle
  <2>4. made \in Nat /\ made + 1 \in 1..MaxInstall
    BY <2>1 DEF Inv, IdsGiven
  <2>5. /\ new \in [id : 1..MaxInstall, name : Names, to : Remotes, on : Transports]
        /\ new.id = made + 1 /\ new.name = thread[k].name /\ new.on = t
    BY <2>2, <2>3, <2>4
  <2> HIDE DEF new, t
  <2>6. \A l \in listeners : l.id # new.id /\ l.name # new.name
    BY <2>1, <2>4, <2>5 DEF Inv, TypeOK, IdsGiven, CanListen, Named
  <2>7. DisconnectsMatch'
    BY <2>1, <2>2, <2>5, <2>6 DEF Inv, TypeOK, DisconnectsMatch, IdsOf
  <2>8. NamesUnique' /\ IdsGiven'
    BY <2>1, <2>4, <2>5, <2>6 DEF Inv, TypeOK, NamesUnique, IdsGiven
  <2>9. TypeOK'
    BY <1>1, <2>1, <2>2, <2>4, <2>5, AnswerIsLast DEF Tied, Inv, TypeOK
  <2>10. GoneTakesAll' /\ EndedFirst'
    BY <1>1, <2>1, <2>5, <2>6 DEF Tied, Gone, Inv, GoneTakesAll, EndedFirst
  <2> QED
    BY <1>1, <2>7, <2>8, <2>9, <2>10, AnswerIsLast DEF Inv
<1> QED
  BY <1>2, <1>3

LEMMA NextInv == Inv /\ [Next]_vars => Inv'
<1> SUFFICES ASSUME Inv, [Next]_vars PROVE Inv'
  OBVIOUS
<1>1. CASE UNCHANGED vars
  BY <1>1 DEF vars, threadVars, Inv, TypeOK, DisconnectsMatch, NamesUnique, GoneTakesAll, IdsGiven,
         UnboundAsks, EndedFirst, Gone, IdsOf
<1>2. CASE Next
  BY <1>2, OnlineKeeps, OfflineKeeps, InputThreadKeeps, UnregisterKeeps, ListenerEventKeeps,
     ConnectionKeeps, AskKeeps, KillsKeep, AcquireKeeps, InstallKeeps, BindKeeps DEF Next
<1> QED
  BY <1>1, <1>2

LEMMA InvHolds == Spec => []Inv
<1> QED
  BY InitInv, NextInv, PTL DEF Spec

\* The listeners are one for each name, in the disconnects of their transport and of no other,
\* and none outlives its transport but one tied to it too late (install_listener,
\* free_listener, run_transport_disconnects), for any number of threads and transports.
THEOREM ListenersHold == Spec => []ListenersCorrect
<1>1. Inv => ListenersCorrect
  BY DEF Inv, ListenersCorrect
<1> QED
  BY <1>1, InvHolds, PTL

-----------------------------------------------------------------------------
(* What a step may do to a listener and to a connection.                   *)

LEMMA StepKeepsUnlessAsked == Inv /\ Next => KeptUnlessAsked
<1> SUFFICES ASSUME Inv, Next, NEW l \in listeners
             PROVE  \/ l \in listeners'
                    \/ transport[l.on] # transport'[l.on]
                    \/ \E k \in Threads :
                         /\ thread[k] # Idle /\ thread'[k] = Idle
                         /\ \/ thread[k].kind = "kill_all"
                            \/ thread[k].kind \in {"kill", "forward"} /\ thread[k].name = l.name
  BY DEF KeptUnlessAsked
<1>1. CASE \E t \in Transports : Offline(t) \/ Unregister(t)
  <2>1. PICK t \in Transports : Offline(t) \/ Unregister(t)
    BY <1>1
  <2>2. l.on # t => l \in listeners'
    BY <2>1, RunMatch DEF Offline, Unregister
  <2>3. transport[t] # transport'[t]
    BY <2>1 DEF Offline, Unregister, Inv, TypeOK
  <2> QED
    BY <2>2, <2>3
<1>2. CASE \E k \in Threads : KillAll(k) \/ Kill(k) \/ Install(k) \/ Bind(k)
  <2>1. PICK k \in Threads : KillAll(k) \/ Kill(k) \/ Install(k) \/ Bind(k)
    BY <1>2
  <2>2. Replies(k) => thread'[k] = Idle
    BY DEF Replies, Inv, TypeOK
  <2>3. CASE KillAll(k)
    BY <2>2, <2>3 DEF KillAll, Idle
  <2>4. CASE Kill(k)
    <3>1. thread[k] # Idle /\ thread[k].kind = "kill" /\ Replies(k)
      BY <2>4 DEF Kill, Idle
    <3>2. l.name # thread[k].name => l \in listeners'
      BY <2>4 DEF Kill, FreeListeners, Named, IdsOf, Inv, IdsGiven
    <3> QED
      BY <2>2, <3>1, <3>2
  <2>5. CASE Install(k)
    <3>1. CASE UNCHANGED listeners
      BY <3>1
    <3>2. CASE ~ UNCHANGED listeners
      <4>1. thread[k].kind = "forward" /\ Replies(k)
            /\ \E m \in Named(thread[k].name) : Rebind(k, m)
        BY <2>5, <3>2 DEF Install
      <4>2. l.name # thread[k].name => l \in listeners'
        BY <4>1 DEF Rebind, Named
      <4> QED
        BY <2>2, <4>1, <4>2 DEF Idle
    <3> QED
      BY <3>1, <3>2
  <2>6. CASE Bind(k)
    BY <2>6 DEF Bind
  <2> QED
    BY <2>1, <2>3, <2>4, <2>5, <2>6
<1>3. CASE UNCHANGED listeners
  BY <1>3
<1> QED
  BY <1>1, <1>2, <1>3 DEF Next, Online, InputThreadEnds, ListenerEvent, ConnectionReady,
     ConnectionCloses, Ask, Acquire

LEMMA StepFollows == Inv /\ Next => ConnsFollow
<1> SUFFICES ASSUME Inv, Next, NEW c \in conns' \ conns, ~ c.ready
             PROVE  \E l \in listeners : c.via = l.id /\ c.on = l.on /\ c.to = l.to
  BY DEF ConnsFollow
<1>1. CASE \E l \in listeners : ListenerEvent(l)
  BY <1>1 DEF ListenerEvent, ConnectToRemote
<1>2. CASE \E d \in conns : ConnectionReady(d) \/ ConnectionCloses(d)
  <2>1. PICK d \in conns : ConnectionReady(d) \/ ConnectionCloses(d)
    BY <1>2
  <2>2. d \in [via : 1..MaxInstall, on : Transports, to : Remotes, ready : BOOLEAN,
               tardy : BOOLEAN]
    BY DEF Inv, TypeOK
  <2> QED
    BY <2>1, <2>2 DEF ConnectionReady, ConnectionCloses
<1>3. CASE conns' \subseteq conns
  BY <1>3
<1> QED
  BY <1>1, <1>2, <1>3 DEF Next, Online, Offline, InputThreadEnds, Unregister, RunDisconnects, Ask,
     Acquire, KillAll, Kill, Install, Bind

\* A listener goes, or leads elsewhere, only by a request that names it or all, or with its
\* transport, and a connection goes where the listener leads that accepted it (install_listener,
\* remove_listener, listener_event_func).
THEOREM ListenersChangeAsAsked == Spec => ListenersChange
<1>1. Inv /\ [Next]_vars => [KeptUnlessAsked /\ ConnsFollow]_vars
  BY StepKeepsUnlessAsked, StepFollows
<1> QED
  BY <1>1, InvHolds, PTL DEF Spec, ListenersChange
=============================================================================

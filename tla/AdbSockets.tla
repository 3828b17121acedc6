----------------------------- MODULE AdbSockets -----------------------------
(***************************************************************************)
(* The streams of one connection: the local sockets of sockets.c, their    *)
(* remote peers and the stream part of handle_packet in adb.c, driven by   *)
(* the event loop of fdevent.c (module FdEvent).  One callback is one step:*)
(* all of this is run by main.  The transport is the pair of queues that   *)
(* AdbTransport studies; here packets arrive in order until the link       *)
(* breaks.  The host follows protocol.txt; the services at the other end   *)
(* of each local socket write, read, stop writing and close as they like.  *)
(*                                                                         *)
(* A stream is named by the number of its local descriptor.  Data is a     *)
(* sequence of numbered chunks.  dev is what main works on:                *)
(*   loop   the fdevents                                                   *)
(*   sock   the local socket: none, open, closing (on the closing list) or *)
(*          gone                                                           *)
(*   peer   whether it has its remote socket                               *)
(*   queue  what is left of the packets in pkt_first..pkt_last             *)
(*   up     written by the service and not read by main                    *)
(*   down   written by main and not read by the service                    *)
(*   out    the packets sent to the host                                   *)
(*   taken  all data queued or written for the service (history)           *)
(*   closes how many CLOSE were sent for the stream (history)              *)
(***************************************************************************)
EXTENDS FdEvent, Sequences, FiniteSetsExt

CONSTANTS
  Streams,      \* the streams the host opens
  TransportFd,  \* main's end of the transport's socket pair
  Kinds,        \* the kinds of service a stream may get, see Service below
  Payload,      \* bound: chunks in one packet (MAX_PAYLOAD)
  BufCap,       \* bound: chunks the kernel buffers in each direction
  MaxUp,        \* bound: chunks the service writes on a stream
  MaxDown,      \* bound: chunks the host writes on a stream
  MayBreak      \* whether the link may break

ASSUME SocketsAssumption ==
  /\ Streams \subseteq Nat /\ IsFiniteSet(Streams) /\ TransportFd \in Nat \ Streams
  /\ Kinds \subseteq {"thread", "tcp", "shell", "exec"}
  /\ Payload \in Nat \ {0} /\ BufCap \in Nat \ {0} /\ MaxUp \in Nat /\ MaxDown \in Nat
  /\ MayBreak \in BOOLEAN

VARIABLES
  dev,       \* main's data, see above
  inbox,     \* packets of the host not handled yet
  link,      \* up, or broken
  svc,       \* the service: none, open, half (stopped writing) or closed
  host,      \* the host's end: none, opening, open, closed, refused
  credit,    \* the host may send a WRITE
  owed,      \* the host has to answer a WRITE with a READY
  kind,      \* the kind of the stream's service, none before it has one
  exits,     \* subprocesses whose exit was not announced yet
  wrote,     \* chunks written by the service (history)
  sent,      \* chunks sent by the host (history)
  gotUp,     \* chunks the host received (history)
  gotDown    \* chunks the service read (history)

hostVars == <<host, credit, owed, sent, gotUp>>
svcVars  == <<svc, kind, exits, wrote, gotDown>>
vars == <<dev, inbox, link, hostVars, svcVars>>

\* The services: a thread on a socket pair (thread), a connection (tcp), a
\* subprocess on a pseudo terminal (shell) or on a socket pair (exec).  The other
\* end of a connection and a subprocess on a socket pair may stop writing and go
\* on reading; the exit of a subprocess is announced.
HalfCloses(k) == k \in {"tcp", "exec"}
Subprocess(k) == k \in {"shell", "exec"}

Fds == Streams \cup {TransportFd}
Greatest(a, b) == IF a < b THEN b ELSE a
Chunks == 1..Greatest(MaxUp, MaxDown)
Packet(cmd, s, data) == [cmd |-> cmd, s |-> s, data |-> data]
Packets == [cmd : {"OPEN", "OKAY", "CLSE", "WRTE", "SYNC0"},
            s : Fds, data : Seq(Chunks)]
First(q, k) == SubSeq(q, 1, k)
Rest(q, k) == SubSeq(q, k + 1, Len(q))
Least(a, b) == IF a < b THEN a ELSE b

\* Every variable has its type.
TypeOK ==
  /\ dev.sock \in [Streams -> {"none", "open", "closing", "gone"}]
  /\ dev.peer \in [Streams -> BOOLEAN]
  /\ \A f \in {"queue", "up", "down", "taken"} :
       dev[f] \in [Streams -> Seq(Chunks)]
  /\ \A s \in Streams : Len(dev.up[s]) <= BufCap /\ Len(dev.down[s]) <= BufCap
  /\ dev.out \in Seq(Packets) /\ inbox \in Seq(Packets)
  /\ dev.closes \in [Streams -> Nat]
  /\ dev.loop.active \subseteq Fds
  /\ link \in {"up", "broken"}
  /\ svc \in [Streams -> {"none", "open", "half", "closed"}]
  /\ host \in [Streams -> {"none", "opening", "open", "closed", "refused"}]
  /\ credit \in [Streams -> BOOLEAN] /\ owed \in [Streams -> BOOLEAN]
  /\ kind \in [Streams -> Kinds \cup {"none"}]
  /\ exits \subseteq {s \in Streams : Subprocess(kind[s])}
  /\ wrote \in [Streams -> 0..MaxUp] /\ sent \in [Streams -> 0..MaxDown]
  /\ gotUp \in [Streams -> Seq(Chunks)] /\ gotDown \in [Streams -> Seq(Chunks)]

Init ==
  /\ dev = [loop  |-> FdAdd(FdInstall(EmptyLoop(Fds), TransportFd), TransportFd, {"R"}),
            sock  |-> [s \in Streams |-> "none"],
            peer  |-> [s \in Streams |-> FALSE],
            queue |-> [s \in Streams |-> <<>>],
            up    |-> [s \in Streams |-> <<>>],
            down  |-> [s \in Streams |-> <<>>],
            out   |-> <<>>,
            taken |-> [s \in Streams |-> <<>>],
            closes |-> [s \in Streams |-> 0]]
  /\ inbox = <<>>
  /\ link = "up"
  /\ svc = [s \in Streams |-> "none"]
  /\ host = [s \in Streams |-> "none"]
  /\ credit = [s \in Streams |-> FALSE]
  /\ owed = [s \in Streams |-> FALSE]
  /\ kind = [s \in Streams |-> "none"]
  /\ exits = {}
  /\ wrote = [s \in Streams |-> 0]
  /\ sent = [s \in Streams |-> 0]
  /\ gotUp = [s \in Streams |-> <<>>]
  /\ gotDown = [s \in Streams |-> <<>>]

-----------------------------------------------------------------------------
\* The functions of sockets.c, on dev.

Send(d, cmd, s, data) == [d EXCEPT !.out = Append(@, Packet(cmd, s, data))]
SendReady(d, s) == Send(d, "OKAY", s, <<>>)
SendClose(d, s) == [Send(d, "CLSE", s, <<>>) EXCEPT !.closes[s] = @ + 1]

\* The list of open sockets and the one of closing ones.
InsertLocal(d, s, list) == [d EXCEPT !.sock[s] = list]
InstallLocal(d, s) == InsertLocal(d, s, "open")
RemoveSocket(d, s) == [d EXCEPT !.sock[s] = "gone"]

\* The remote socket, which is disconnected when the transport goes.
CreateRemote(d, s) == [d EXCEPT !.peer[s] = TRUE]

\* The far side is ready for data: main reads the service again.
LocalReady(d, s) == [d EXCEPT !.loop = FdAdd(@, s, {"R"})]

\* local_socket_destroy: what is queued is discarded.
Destroy(d, s) ==
  RemoveSocket([d EXCEPT !.loop = FdRemove(@, s), !.queue[s] = <<>>], s)

\* local_socket_close_locked after the peer: destroy, or wait for the queue.
Finish(d, s) ==
  IF d.sock[s] = "closing" \/ d.queue[s] = <<>> THEN Destroy(d, s)
  ELSE InsertLocal([d EXCEPT !.loop = FdDel(@, s, {"R"})], s, "closing")

\* local_socket_close: the peer's shutdown tells the host, its close frees it.
Close(d, s) ==
  IF d.peer[s] THEN Finish([SendClose(d, s) EXCEPT !.peer[s] = FALSE], s)
  ELSE Finish(d, s)

\* remote_socket_disconnect: the peer goes without telling the host.
Disconnect(d, s) ==
  IF d.peer[s] THEN Finish([d EXCEPT !.peer[s] = FALSE], s) ELSE d

\* Mutant: ptr does not move with a partial write.
PumpKeepsPointer(d, s) ==
  LET k == Least(BufCap - Len(d.down[s]), Len(d.queue[s])) IN
  [d EXCEPT !.down[s] = @ \o First(d.queue[s], k),
            !.queue[s] = First(@, Len(@) - k)]

\* adb_write in a loop, until nothing is left or the buffer is full.
Pump(d, s) ==
  LET k == Least(BufCap - Len(d.down[s]), Len(d.queue[s])) IN
  [d EXCEPT !.down[s] = @ \o First(d.queue[s], k), !.queue[s] = Rest(@, k)]

\* local_socket_enqueue, and the READY of handle_packet when it returns 0.
Enqueue(d, s, data) ==
  LET queued == [d EXCEPT !.queue[s] = @ \o data, !.taken[s] = @ \o data]
      pumped == Pump(queued, s)
      Wait(e) == [e EXCEPT !.loop = FdAdd(@, s, {"W"})]
  IN IF d.queue[s] # <<>> THEN Wait(queued)
     ELSE IF svc[s] = "closed" THEN Close([d EXCEPT !.taken[s] = @ \o data], s)
     ELSE IF pumped.queue[s] = <<>> THEN SendReady(pumped, s)
     ELSE Wait(pumped)

\* The FDE_WRITE part of local_socket_event_func.
OnWritable(d, s) ==
  LET pumped == Pump(d, s)
      quiet == [pumped EXCEPT !.loop = FdDel(@, s, {"W"})]
  IN IF d.queue[s] # <<>> /\ svc[s] = "closed" THEN Close(d, s)
     ELSE IF pumped.queue[s] # <<>> THEN pumped
     ELSE IF d.sock[s] = "closing" THEN Close(pumped, s)
     ELSE SendReady(quiet, s)

\* Mutant: reading goes on before the host's READY.
OnReadableGoesOn(d, s) ==
  LET n == Least(Len(d.up[s]), Payload)
      read == [d EXCEPT !.up[s] = Rest(@, n)]
      passed == IF n = 0 \/ ~ d.peer[s] THEN read
                ELSE Send(read, "WRTE", s, First(d.up[s], n))
  IN IF n < Payload /\ svc[s] \in {"half", "closed"} THEN Close(passed, s)
     ELSE passed

\* The FDE_READ part: one packet at most, then the end of file if it was met.
OnReadable(d, s) ==
  LET n == Least(Len(d.up[s]), Payload)
      read == [d EXCEPT !.up[s] = Rest(@, n)]
      packet == First(d.up[s], n)
      passed == IF n = 0 \/ ~ d.peer[s] THEN read
                ELSE [Send(read, "WRTE", s, packet)
                        EXCEPT !.loop = FdDel(@, s, {"R"})]
      eof == n < Payload /\ svc[s] \in {"half", "closed"}
  IN IF eof THEN Close(passed, s) ELSE passed

\* local_socket_event_func; it returns early when the write part closed the
\* socket or could not write all.
EventFunc(d, s, ev) ==
  LET written == IF "W" \in ev THEN OnWritable(d, s) ELSE d
      returned == "W" \in ev /\ (written.sock[s] # "open" \/ written.queue[s] # <<>>)
  IN IF "R" \in ev /\ ~ returned THEN OnReadable(written, s) ELSE written

-----------------------------------------------------------------------------
\* handle_packet of adb.c.  A packet for a socket that is not on the list of
\* open ones (find_local_socket) is ignored.

Connected(d, s) == d.sock[s] = "open" /\ d.peer[s]

\* A local socket for the service's end, and its peer.
CreateLocal(d, s) == InstallLocal([d EXCEPT !.loop = FdInstall(@, s)], s)

Accepted(d, s) == LocalReady(SendReady(CreateRemote(CreateLocal(d, s), s), s), s)

\* handle_offline runs the disconnect function of every remote socket.
Offline(d) == FoldSet(LAMBDA s, e : Disconnect(e, s), d, Streams)

\* Mutant: a READY does not start the reads again.
HandlePacketIgnoresReady(d, p) ==
  CASE p.cmd = "CLSE" /\ Connected(d, p.s) -> Close(d, p.s)
    [] p.cmd = "WRTE" /\ Connected(d, p.s) -> Enqueue(d, p.s, p.data)
    [] p.cmd = "SYNC0"                     -> Offline(d)
    [] OTHER                               -> d

HandlePacket(d, p) ==
  CASE p.cmd = "OKAY" /\ Connected(d, p.s) -> LocalReady(d, p.s)
    [] p.cmd = "CLSE" /\ Connected(d, p.s) -> Close(d, p.s)
    [] p.cmd = "WRTE" /\ Connected(d, p.s) -> Enqueue(d, p.s, p.data)
    [] p.cmd = "SYNC0"                     -> Offline(d)
    [] OTHER                               -> d

-----------------------------------------------------------------------------
\* The event loop.

Ready ==
  [f \in Fds |->
     IF f = TransportFd THEN IF inbox = <<>> THEN {} ELSE {"R"}
     ELSE {e \in Events :
             \/ e = "R" /\ (dev.up[f] # <<>> \/ svc[f] \in {"half", "closed"})
             \/ e = "W" /\ (Len(dev.down[f]) < BufCap \/ svc[f] = "closed")}]

Select ==
  LET hits == FdHits(dev.loop, Ready, {}) IN
  /\ dev.loop.plist = {}
  /\ HitSet(hits) # {}
  /\ dev' = [dev EXCEPT !.loop = FdNotice(@, hits)]
  /\ UNCHANGED <<inbox, link, hostVars, svcVars>>

Called(f) == [dev EXCEPT !.loop = FdCall(FdDequeue(@, f), f)]

\* A pending local socket gets its events.  Descriptors are numbered by the
\* kernel, so any order of the pending list is possible.
SocketEvent(s) ==
  /\ s \in dev.loop.plist
  /\ dev' = EventFunc(Called(s), s, dev.loop.events[s])
  /\ UNCHANGED <<inbox, link, hostVars, svcVars>>

\* An OPEN makes a service, or fails to.
ServiceStarts(s) ==
  /\ svc' = [svc EXCEPT ![s] = "open"]
  /\ \E k \in Kinds :
       /\ kind' = [kind EXCEPT ![s] = k]
       /\ exits' = IF Subprocess(k) THEN exits \cup {s} ELSE exits
  /\ dev' = Accepted(Called(TransportFd), s)

ServiceFails(s) ==
  /\ UNCHANGED <<svc, kind, exits>>
  /\ dev' = SendClose(Called(TransportFd), s)

\* transport_socket_events: one packet of the host.
TransportEvent ==
  /\ TransportFd \in dev.loop.plist
  /\ inbox # <<>>
  /\ inbox' = Tail(inbox)
  /\ IF Head(inbox).cmd = "OPEN"
       THEN ServiceStarts(Head(inbox).s) \/ ServiceFails(Head(inbox).s)
       ELSE /\ dev' = HandlePacket(Called(TransportFd), Head(inbox))
            /\ UNCHANGED <<svc, kind, exits>>
  /\ UNCHANGED <<link, hostVars, wrote, gotDown>>

\* fdevent_subproc_event_func, called between two callbacks: nothing when data
\* is left or the socket is gone, a read event or a call otherwise.
SubprocessExit(s) ==
  LET nudged == [dev EXCEPT !.loop.events[s] = @ \cup {"R"}] IN
  /\ s \in exits
  /\ exits' = exits \ {s}
  /\ dev' = IF s \notin dev.loop.active \/ dev.up[s] # <<>> THEN dev
            ELSE IF s \in dev.loop.pending THEN nudged
            ELSE EventFunc(dev, s, {"R"})
  /\ UNCHANGED <<inbox, link, hostVars, svc, kind, wrote, gotDown>>

-----------------------------------------------------------------------------
\* The services, at the other end of the local sockets.

Service(s) == UNCHANGED <<inbox, link, hostVars, kind, exits>>

SvcWrite(s) ==
  /\ svc[s] = "open" /\ wrote[s] < MaxUp
  /\ Len(dev.up[s]) < BufCap
  /\ wrote' = [wrote EXCEPT ![s] = @ + 1]
  /\ dev' = IF dev.sock[s] = "gone" THEN dev
            ELSE [dev EXCEPT !.up[s] = Append(@, wrote[s] + 1)]
  /\ UNCHANGED <<svc, gotDown>> /\ Service(s)

SvcRead(s) ==
  /\ svc[s] \in {"open", "half"}
  /\ dev.down[s] # <<>>
  /\ gotDown' = [gotDown EXCEPT ![s] = Append(@, Head(dev.down[s]))]
  /\ dev' = [dev EXCEPT !.down[s] = Tail(@)]
  /\ UNCHANGED <<svc, wrote>> /\ Service(s)

SvcStopsWriting(s) ==
  /\ HalfCloses(kind[s])
  /\ svc[s] = "open"
  /\ svc' = [svc EXCEPT ![s] = "half"]
  /\ UNCHANGED <<dev, wrote, gotDown>> /\ Service(s)

SvcClose(s) ==
  /\ svc[s] \in {"open", "half"}
  /\ svc' = [svc EXCEPT ![s] = "closed"]
  /\ UNCHANGED <<dev, wrote, gotDown>> /\ Service(s)

-----------------------------------------------------------------------------
\* The host, which follows protocol.txt.

HostSends(p) ==
  /\ link = "up"
  /\ inbox' = Append(inbox, p)
  /\ UNCHANGED <<dev, link, svcVars, gotUp>>

HostOpen(s) ==
  /\ host[s] = "none"
  /\ HostSends(Packet("OPEN", s, <<>>))
  /\ host' = [host EXCEPT ![s] = "opening"]
  /\ UNCHANGED <<credit, owed, sent>>

\* A WRITE, for which a READY must have come.
HostWrite(s, n) ==
  /\ host[s] = "open" /\ credit[s]
  /\ sent[s] + n <= MaxDown
  /\ HostSends(Packet("WRTE", s, [i \in 1..n |-> sent[s] + i]))
  /\ credit' = [credit EXCEPT ![s] = FALSE]
  /\ sent' = [sent EXCEPT ![s] = @ + n]
  /\ UNCHANGED <<host, owed>>

HostReady(s) ==
  /\ host[s] = "open" /\ owed[s]
  /\ HostSends(Packet("OKAY", s, <<>>))
  /\ owed' = [owed EXCEPT ![s] = FALSE]
  /\ UNCHANGED <<host, credit, sent>>

HostClose(s) ==
  /\ host[s] = "open"
  /\ HostSends(Packet("CLSE", s, <<>>))
  /\ host' = [host EXCEPT ![s] = "closed"]
  /\ UNCHANGED <<credit, owed, sent>>

HostReceive ==
  LET p == Head(dev.out)
      s == p.s
      is(cmd) == p.cmd = cmd /\ host[s] \in {"opening", "open"}
  IN
  /\ link = "up"
  /\ dev.out # <<>>
  /\ dev' = [dev EXCEPT !.out = Tail(@)]
  /\ host' = [host EXCEPT ![s] = IF is("OKAY") THEN "open"
                                 ELSE IF is("CLSE") THEN "refused" ELSE @]
  /\ credit' = [credit EXCEPT ![s] = @ \/ is("OKAY")]
  /\ owed' = [owed EXCEPT ![s] = @ \/ is("WRTE")]
  /\ gotUp' = [gotUp EXCEPT ![s] = IF is("WRTE") THEN @ \o p.data ELSE @]
  /\ UNCHANGED <<inbox, link, sent, svcVars>>

\* The connection breaks: the output thread queues SYNC(0,0), after which main
\* gets nothing more and what it sends is not received.
LinkBreaks ==
  /\ MayBreak /\ link = "up"
  /\ link' = "broken"
  /\ inbox' = Append(inbox, Packet("SYNC0", TransportFd, <<>>))
  /\ UNCHANGED <<dev, hostVars, svcVars>>

MainStep ==
  \/ Select
  \/ TransportEvent
  \/ \E s \in Streams : SocketEvent(s)
  \/ \E s \in Streams : SubprocessExit(s)
ServiceStep(s) == SvcWrite(s) \/ SvcRead(s) \/ SvcStopsWriting(s) \/ SvcClose(s)
HostStep(s) ==
  \/ HostOpen(s) \/ HostReady(s) \/ HostClose(s)
  \/ \E n \in 1..Payload : HostWrite(s, n)

Next ==
  \/ MainStep
  \/ HostReceive
  \/ LinkBreaks
  \/ \E s \in Streams : ServiceStep(s) \/ HostStep(s)

Spec == Init /\ [][Next]_vars

\* main's loop runs; the host reads what it is sent and acknowledges it; a
\* service reads what it is given.  Nothing makes any of them write or close.
FairSpec ==
  /\ Spec
  /\ WF_vars(Select) /\ WF_vars(TransportEvent)
  /\ WF_vars(HostReceive)
  /\ \A s \in Streams :
       /\ WF_vars(SocketEvent(s))
       /\ WF_vars(SvcRead(s))
       /\ WF_vars(HostReady(s))

-----------------------------------------------------------------------------
\* How many packets of q are commands cmd of stream s.
Count(q, cmd, s) == Cardinality({i \in DOMAIN q : q[i].cmd = cmd /\ q[i].s = s})
One(b) == IF b THEN 1 ELSE 0

\* Nobody writes twice without a READY in between: of the WRITEs main sent, one
\* at most is not answered yet (a subprocess excepted, whose exit makes main read
\* at once), and main never asks the host for more than one.
FlowControl ==
  \A s \in Streams :
    /\ host[s] = "open" /\ ~ Subprocess(kind[s]) =>
         Count(dev.out, "WRTE", s) + One(owed[s]) + Count(inbox, "OKAY", s) <= 1
    /\ host[s] = "open" =>
         Count(dev.out, "OKAY", s) + One(credit[s]) + Count(inbox, "WRTE", s)
           + One(dev.queue[s] # <<>>) <= 1

\* An open socket has its peer, so that neither the READY after a drained queue
\* nor a packet read goes through a null pointer, and a socket waits for write
\* events only while something is queued.
OpenHasPeer ==
  \A s \in Streams :
    /\ dev.sock[s] = "open" <=> dev.peer[s]
    /\ "W" \in dev.loop.wanted[s] \cup dev.loop.events[s] => dev.queue[s] # <<>>

\* What was taken from the host for a service that has stopped nothing is given
\* to it, in order: closing a socket does not lose its queue.  (One that stopped
\* writing may lose it, see the README.)
ClosingDeliversAll ==
  \A s \in Streams :
    svc[s] = "open" =>
      gotDown[s] \o dev.down[s] \o dev.queue[s] = dev.taken[s]

\* When the device ends a stream the host wrote nothing on, the host has got all
\* that the service wrote.
EofDeliversAll ==
  \A s \in Streams :
    host[s] = "refused" /\ sent[s] = 0 => gotUp[s] = [i \in 1..wrote[s] |-> i]

\* The device closes a stream once at most and sends nothing on it afterwards.
NothingAfterClose ==
  \A s \in Streams :
    /\ dev.closes[s] <= 1
    /\ \A i, j \in DOMAIN dev.out :
         i < j /\ dev.out[i].s = s /\ dev.out[j].s = s => dev.out[i].cmd # "CLSE"

\* Every OPEN is answered, unless the link breaks.
OpenIsAnswered ==
  \A s \in Streams : host[s] = "opening" ~> (host[s] # "opening" \/ link = "broken")

\* A closing socket is freed once its service has read all, or closed.
ClosingEnds ==
  \A s \in Streams : dev.sock[s] = "closing" ~> dev.sock[s] = "gone"

\* What a service wrote reaches the host, unless the stream ends or the link
\* breaks: the READYs of the host always start main's reads again.
UpIsDelivered ==
  \A s \in Streams : \A k \in 1..MaxUp :
    wrote[s] >= k ~> \/ Len(gotUp[s]) >= k
                     \/ host[s] \notin {"opening", "open"}
                     \/ link = "broken"

\* The streams as the host and the services see them do what AdbStream promises:
\* each end gets the other's data in order, without gap or repetition, nothing is
\* delivered to a host that closed or was refused, and the end of a service's
\* output comes after all of it.
Stream == INSTANCE AdbStream WITH
            state <- host, got <- gotUp, served <- gotDown
Implements == Stream!Spec

\* The sockets of adbd at every moment (sockets.c, handle_packet): flow control, peers, and
\* nothing lost or said after the end.
SocketsCorrect ==
  /\ TypeOK /\ FlowControl /\ OpenHasPeer /\ NothingAfterClose /\ ClosingDeliversAll
  /\ EofDeliversAll

\* And in the end: opens are answered, closing sockets freed, data delivered.
StreamsServed ==
  /\ OpenIsAnswered /\ ClosingEnds /\ UpIsDelivered
=============================================================================

---------------------------- MODULE AdbTransport ----------------------------
(***************************************************************************)
(* The life of adbd's transports: transport.c, with the TCP transport of   *)
(* transport_local.c, the USB transport of transport_usb.c on top of       *)
(* usb_linux_client.c, and the connection part of handle_packet in adb.c.  *)
(*                                                                         *)
(* A transport is one connection to a host.  It is served by three threads *)
(* that share only a socket pair and a few fields:                         *)
(*   main    the fdevent loop: registers and removes transports, handles   *)
(*           the packets the output thread queues (toMain) and queues      *)
(*           packets for the host (toInput);                               *)
(*   output  reads packets from the host and queues them for main;         *)
(*   input   takes the packets main queued and writes them to the host.    *)
(* (The names are the source's: output_thread feeds main, input_thread is  *)
(* fed by main.)  Each callback of main is one step.                       *)
(*                                                                         *)
(* Local sockets are abstracted to counters: streams[t] are the remote     *)
(* sockets linked in t->disconnects, opening[t] the local sockets a reverse*)
(* listener accepted for t that the host has not answered yet.             *)
(***************************************************************************)
EXTENDS Integers, Sequences, FiniteSets

CONSTANTS
  Transports,     \* the connections that may be made, in this instance
  UsbTransports,  \* those made through the USB handle; the others are TCP
  ReverseHosts,   \* those whose host opens a "reverse:forward:..." service
  NoTransport,    \* a null pointer to a transport
  MaxRead,        \* bound: packets the host sends on each connection
  MaxSent         \* bound: packets main queues unasked for each

ASSUME TransportAssumption ==
  /\ UsbTransports \subseteq Transports
  /\ ReverseHosts \subseteq Transports
  /\ NoTransport \notin Transports
  /\ MaxRead \in [Transports -> Nat]
  /\ MaxSent \in [Transports -> Nat]

VARIABLES
  list,       \* which list t is on: none, opened, pending, listed; or rejected, freed
  regPipe,    \* the transport registration socket, read by main
  refCount,   \* t->ref_count
  kicked,     \* t->kicked
  kicks,      \* how many times t->kick was called (history)
  link,       \* the connection to the host: none, up, broken (by the host), closed (by a kick)
  usbFd,      \* the connection the shared usb_handle is open on
  fdOpen,     \* t->fd, the threads' end of the socket pair, is open
  syncToken,  \* t->sync_token
  active,     \* the input thread's local variable
  online,     \* t->online
  conn,       \* t->connection_state: offline or host
  toMain,     \* packets written to t->fd by the output thread
  toInput,    \* packets written to t->transport_socket by main
  pc,         \* where each of the two threads of t is
  received,   \* number of packets read from the host (bounds the model)
  sent,       \* number of packets queued for the host
  delivered,  \* what the host of each connection has received (history)
  streams,    \* number of remote sockets on t
  opening,    \* number of local sockets of a reverse listener awaiting READY
  listener,   \* a reverse listener is bound to t
  revJob,     \* the reverse service thread: none, running, holding, done
  revTarget   \* the transport it acquired

regVars    == <<list, regPipe, fdOpen>>
threadVars == <<refCount, kicked, kicks, pc, active, syncToken>>
linkVars   == <<link, usbFd, received, delivered>>
connVars   == <<online, conn>>
socketVars == <<streams, opening, listener>>
revVars    == <<revJob, revTarget>>
queueVars  == <<toMain, toInput, sent>>
vars == <<regVars, threadVars, linkVars, connVars, socketVars, revVars, queueVars>>

Threads == {"out", "in"}
HostCommands == {"CNXN", "OPEN", "OKAY", "CLSE", "WRTE"}
Packet(cmd, arg) == [cmd |-> cmd, arg |-> arg]

IsUsb(t) == t \in UsbTransports
Registered(t) == list[t] \in {"pending", "listed"}

ListState   == {"none", "opened", "pending", "listed", "rejected", "freed"}
LinkState   == {"none", "up", "broken", "closed"}
Location    == {"off", "sync", "loop", "closeall", "kick", "dokick", "unref", "done"}
RegMessage  == [t : Transports, action : {"add", "remove"}]
MainPacket  == [cmd : HostCommands \cup {"SYNC0", "SYNC1"}, arg : Nat]
InputPacket == [cmd : {"SYNC0", "SYNC1", "MSG"}, arg : Nat]
Delivery    == [src : Transports, num : Nat]

TypeReg ==
  /\ list \in [Transports -> ListState]
  /\ regPipe \in Seq(RegMessage)
  /\ fdOpen \in [Transports -> BOOLEAN]
TypeThreads ==
  /\ refCount \in [Transports -> 0..2]
  /\ kicked \in [Transports -> BOOLEAN]
  /\ kicks \in [Transports -> Nat]
  /\ pc \in [Transports -> [Threads -> Location]]
  /\ active \in [Transports -> BOOLEAN]
  /\ syncToken \in [Transports -> Nat]
TypeLinks ==
  /\ link \in [Transports -> LinkState]
  /\ usbFd \in Transports \cup {NoTransport}
  /\ received \in [Transports -> Nat]
  /\ delivered \in [Transports -> Seq(Delivery)]
TypeConns ==
  /\ online \in [Transports -> BOOLEAN]
  /\ conn \in [Transports -> {"offline", "host"}]
TypeSockets ==
  /\ streams \in [Transports -> Nat]
  /\ opening \in [Transports -> Nat]
  /\ listener \in [Transports -> BOOLEAN]
TypeReverse ==
  /\ revJob \in {"none", "running", "holding", "done"}
  /\ revTarget \in Transports \cup {NoTransport}
TypeQueues ==
  /\ toMain \in [Transports -> Seq(MainPacket)]
  /\ toInput \in [Transports -> Seq(InputPacket)]
  /\ sent \in [Transports -> Nat]

\* Every variable has its type; in particular no reference is released twice.
TypeOK ==
  TypeReg /\ TypeThreads /\ TypeLinks /\ TypeConns /\ TypeSockets
    /\ TypeReverse /\ TypeQueues

Init ==
  /\ list = [t \in Transports |-> "none"]
  /\ regPipe = <<>>
  /\ refCount = [t \in Transports |-> 0]
  /\ kicked = [t \in Transports |-> FALSE]
  /\ kicks = [t \in Transports |-> 0]
  /\ link = [t \in Transports |-> "none"]
  /\ usbFd = NoTransport
  /\ fdOpen = [t \in Transports |-> FALSE]
  /\ syncToken = [t \in Transports |-> 1]
  /\ active = [t \in Transports |-> FALSE]
  /\ online = [t \in Transports |-> FALSE]
  /\ conn = [t \in Transports |-> "offline"]
  /\ toMain = [t \in Transports |-> <<>>]
  /\ toInput = [t \in Transports |-> <<>>]
  /\ pc = [t \in Transports |-> [th \in Threads |-> "off"]]
  /\ received = [t \in Transports |-> 0]
  /\ sent = [t \in Transports |-> 0]
  /\ delivered = [t \in Transports |-> <<>>]
  /\ streams = [t \in Transports |-> 0]
  /\ opening = [t \in Transports |-> 0]
  /\ listener = [t \in Transports |-> FALSE]
  /\ revJob = "none"
  /\ revTarget = NoTransport

-----------------------------------------------------------------------------
(* The socket pairs: a message or a packet is written and read whole.      *)

WriteAction(t, action) == regPipe' = Append(regPipe, [t |-> t, action |-> action])
RegisterTransport(t)   == WriteAction(t, "add")
RemoveTransport(t)     == WriteAction(t, "remove")

\* Main reads the first message, which asks for this.
ReadAction(t, action) ==
  /\ regPipe # <<>>
  /\ Head(regPipe) = [t |-> t, action |-> action]
  /\ regPipe' = Tail(regPipe)

\* The queue of a socket with one packet more.
WritePacket(queue, p) == Append(queue, p)

-----------------------------------------------------------------------------
(* Connections: the accepting threads and the host.                        *)

\* server_socket_thread accepts a TCP connection at any time; the USB open
\* thread opens the device only when the handle is closed (usb->fd == -1).
OpenLink(t) ==
  /\ list[t] = "none"
  /\ IsUsb(t) => usbFd = NoTransport
  /\ list' = [list EXCEPT ![t] = "opened"]
  /\ link' = [link EXCEPT ![t] = "up"]
  /\ usbFd' = IF IsUsb(t) THEN t ELSE usbFd
  /\ UNCHANGED <<regPipe, fdOpen, threadVars, received, delivered, connVars,
                 socketVars, revVars, queueVars>>

\* Every TCP transport has the serial "host"; a serial may be registered once.
SerialTaken(t) == ~IsUsb(t) /\ \E u \in Transports \ UsbTransports : Registered(u)

Register(t) ==
  /\ list[t] = "opened"
  /\ ~SerialTaken(t)
  /\ list' = [list EXCEPT ![t] = "pending"]
  /\ RegisterTransport(t)
  /\ UNCHANGED <<fdOpen, threadVars, linkVars, connVars, socketVars, revVars, queueVars>>

\* register_socket_transport frees t and returns -1; its caller ignores the
\* result and leaves the accepted socket open.
RegisterDuplicate(t) ==
  /\ list[t] = "opened"
  /\ SerialTaken(t)
  /\ list' = [list EXCEPT ![t] = "rejected"]
  /\ UNCHANGED <<regPipe, fdOpen, threadVars, linkVars, connVars, socketVars,
                 revVars, queueVars>>

\* The host goes away: cable pulled, TCP connection reset.
BreakLink(t) ==
  /\ link[t] = "up"
  /\ link' = [link EXCEPT ![t] = "broken"]
  /\ UNCHANGED <<regVars, threadVars, usbFd, received, delivered, connVars,
                 socketVars, revVars, queueVars>>

-----------------------------------------------------------------------------
(* The output thread.                                                      *)

\* Mutant: the token posted is the one before the increment.
OutSyncOldToken(t) ==
  /\ pc[t]["out"] = "sync"
  /\ syncToken' = [syncToken EXCEPT ![t] = @ + 1]
  /\ toMain' = [toMain EXCEPT ![t] = WritePacket(@, Packet("SYNC1", syncToken[t]))]
  /\ pc' = [pc EXCEPT ![t]["out"] = "loop"]
  /\ UNCHANGED <<regVars, refCount, kicked, kicks, active, linkVars, connVars,
                 socketVars, revVars, toInput, sent>>

OutSync(t) ==
  /\ pc[t]["out"] = "sync"
  /\ syncToken' = [syncToken EXCEPT ![t] = @ + 1]
  /\ toMain' = [toMain EXCEPT ![t] = WritePacket(@, Packet("SYNC1", syncToken[t] + 1))]
  /\ pc' = [pc EXCEPT ![t]["out"] = "loop"]
  /\ UNCHANGED <<regVars, refCount, kicked, kicks, active, linkVars, connVars,
                 socketVars, revVars, toInput, sent>>

OutRead(t) ==
  /\ pc[t]["out"] = "loop"
  /\ link[t] = "up"
  /\ received[t] < MaxRead[t]
  /\ received' = [received EXCEPT ![t] = @ + 1]
  /\ \E cmd \in HostCommands :
       toMain' = [toMain EXCEPT ![t] = WritePacket(@, Packet(cmd, 0))]
  /\ UNCHANGED <<regVars, threadVars, link, usbFd, delivered, connVars,
                 socketVars, revVars, toInput, sent>>

\* Mutant: the loop is left without posting SYNC(0,0).
OutOfflineSilent(t) ==
  /\ pc[t]["out"] = "loop"
  /\ pc' = [pc EXCEPT ![t]["out"] = "kick"]
  /\ UNCHANGED <<regVars, refCount, kicked, kicks, active, syncToken, linkVars,
                 connVars, socketVars, revVars, queueVars>>

\* read_from_remote failed: post SYNC(0,0) and leave the loop.
OutOffline(t) ==
  /\ pc[t]["out"] = "loop"
  /\ toMain' = [toMain EXCEPT ![t] = WritePacket(@, Packet("SYNC0", 0))]
  /\ pc' = [pc EXCEPT ![t]["out"] = "kick"]
  /\ UNCHANGED <<regVars, refCount, kicked, kicks, active, syncToken, linkVars,
                 connVars, socketVars, revVars, toInput, sent>>

OutReadFails(t) == link[t] # "up" /\ OutOffline(t)

\* check_header or check_data rejects a packet of a live connection.
OutReadCorrupt(t) == link[t] = "up" /\ OutOffline(t)

-----------------------------------------------------------------------------
(* The input thread.                                                       *)

\* The connection a packet of t is written to: a TCP transport owns its
\* socket, a USB transport writes to whatever the shared handle is open on.
TcpTarget(t) == IF link[t] = "closed" THEN NoTransport ELSE t
WriteTarget(t) == IF IsUsb(t) THEN usbFd ELSE TcpTarget(t)

\* The packet reaches the host of a connection that is up; from any other the
\* write returns an error.
RemoteWrite(t, num) ==
  LET u == WriteTarget(t) IN
  delivered' = IF u # NoTransport /\ link[u] = "up"
               THEN [delivered EXCEPT ![u] = Append(@, [src |-> t, num |-> num])]
               ELSE delivered

InTake(t) ==
  /\ pc[t]["in"] = "loop"
  /\ toInput[t] # <<>>
  /\ toInput' = [toInput EXCEPT ![t] = Tail(@)]

InSyncOffline(t) ==
  /\ InTake(t)
  /\ Head(toInput[t]).cmd = "SYNC0"
  /\ pc' = [pc EXCEPT ![t]["in"] = "closeall"]
  /\ UNCHANGED <<regVars, refCount, kicked, kicks, active, syncToken, linkVars,
                 connVars, socketVars, revVars, toMain, sent>>

InSyncOnline(t) ==
  /\ InTake(t)
  /\ Head(toInput[t]).cmd = "SYNC1"
  /\ active' = [active EXCEPT ![t] = @ \/ Head(toInput[t]).arg = syncToken[t]]
  /\ UNCHANGED <<regVars, refCount, kicked, kicks, pc, syncToken, linkVars,
                 connVars, socketVars, revVars, toMain, sent>>

\* write_to_remote's result is ignored: a packet that cannot be written is lost.
InWrite(t) ==
  /\ InTake(t)
  /\ Head(toInput[t]).cmd = "MSG"
  /\ IF active[t] THEN RemoteWrite(t, Head(toInput[t]).arg) ELSE UNCHANGED delivered
  /\ UNCHANGED <<regVars, threadVars, link, usbFd, received, connVars,
                 socketVars, revVars, toMain, sent>>

\* main queues n packets for the host of t on t->transport_socket.
Post(t, n) ==
  /\ toInput' = IF n = 0 THEN toInput
                ELSE [toInput EXCEPT ![t] =
                        @ \o [i \in 1..n |-> Packet("MSG", sent[t] + i)]]
  /\ sent' = [sent EXCEPT ![t] = @ + n]

\* close_all_sockets(t), run by the input thread: a socket with a peer sends
\* CLOSE as it closes, one still awaiting READY has no peer to tell.
InCloseAll(t) ==
  /\ pc[t]["in"] = "closeall"
  /\ Post(t, streams[t])
  /\ streams' = [streams EXCEPT ![t] = 0]
  /\ opening' = [opening EXCEPT ![t] = 0]
  /\ pc' = [pc EXCEPT ![t]["in"] = "kick"]
  /\ UNCHANGED <<regVars, refCount, kicked, kicks, active, syncToken, linkVars,
                 connVars, listener, revVars, toMain>>

-----------------------------------------------------------------------------
(* The end of either thread: kick_transport, then transport_unref.         *)

\* Mutant: kick_transport does not look at t->kicked.
KickAlways(t, th) ==
  /\ pc[t][th] = "kick"
  /\ kicked' = [kicked EXCEPT ![t] = TRUE]
  /\ pc' = [pc EXCEPT ![t][th] = "dokick"]
  /\ UNCHANGED <<regVars, refCount, kicks, active, syncToken, linkVars,
                 connVars, socketVars, revVars, queueVars>>

\* The flag is tested and set under transport_lock, t->kick is called after.
Kick(t, th) ==
  /\ pc[t][th] = "kick"
  /\ kicked' = [kicked EXCEPT ![t] = TRUE]
  /\ pc' = [pc EXCEPT ![t][th] = IF kicked[t] THEN "unref" ELSE "dokick"]
  /\ UNCHANGED <<regVars, refCount, kicks, active, syncToken, linkVars,
                 connVars, socketVars, revVars, queueVars>>

\* Mutant: usb_kick closes the file and leaves the handle's number set.
CloseLinkKeepsFd(t) ==
  /\ usbFd' = usbFd
  /\ IF IsUsb(t)
     THEN link' = [u \in Transports |-> IF u = usbFd THEN "closed" ELSE link[u]]
     ELSE link' = [link EXCEPT ![t] = "closed"]

\* t->kick: a TCP transport closes its own socket, usb_kick closes the file
\* the shared handle is open on and lets the USB thread open it again.
CloseLink(t) ==
  IF IsUsb(t)
  THEN /\ link' = [u \in Transports |-> IF u = usbFd THEN "closed" ELSE link[u]]
       /\ usbFd' = NoTransport
  ELSE /\ link' = [link EXCEPT ![t] = "closed"]
       /\ usbFd' = usbFd

DoKick(t, th) ==
  /\ pc[t][th] = "dokick"
  /\ kicks' = [kicks EXCEPT ![t] = @ + 1]
  /\ CloseLink(t)
  /\ pc' = [pc EXCEPT ![t][th] = "unref"]
  /\ UNCHANGED <<regVars, refCount, kicked, active, syncToken, received,
                 delivered, connVars, socketVars, revVars, queueVars>>

\* t->close: a TCP transport closes t->fd, usb_close does nothing.
RemoteClose(t) == fdOpen' = [fdOpen EXCEPT ![t] = @ /\ IsUsb(t)]

\* The last thread kicks if nobody did, closes and asks main to remove t.
LastUnref(t) ==
  /\ kicked' = [kicked EXCEPT ![t] = TRUE]
  /\ IF kicked[t] THEN UNCHANGED <<kicks, link, usbFd>>
     ELSE CloseLink(t) /\ kicks' = [kicks EXCEPT ![t] = @ + 1]
  /\ RemoteClose(t)
  /\ RemoveTransport(t)

Unref(t, th) ==
  /\ pc[t][th] = "unref"
  /\ refCount' = [refCount EXCEPT ![t] = @ - 1]
  /\ pc' = [pc EXCEPT ![t][th] = "done"]
  /\ IF refCount[t] = 1 THEN LastUnref(t)
     ELSE UNCHANGED <<kicked, kicks, fdOpen, regPipe, link, usbFd>>
  /\ UNCHANGED <<list, active, syncToken, received, delivered, connVars,
                 socketVars, revVars, queueVars>>

-----------------------------------------------------------------------------
(* The main loop: registration and removal.                                *)

\* run_transport_disconnects: every remote socket of t is closed, with its
\* local peer and without a CLOSE message, and t's reverse listener is freed.
\* A socket that still awaits READY is not linked in t->disconnects.
RunDisconnects(t) ==
  /\ streams' = [streams EXCEPT ![t] = 0]
  /\ listener' = [listener EXCEPT ![t] = FALSE]
  /\ opening' = opening

\* Mutant: one reference for the two threads.
RegAddOneReference(t) ==
  /\ ReadAction(t, "add")
  /\ list' = [list EXCEPT ![t] = "listed"]
  /\ refCount' = [refCount EXCEPT ![t] = 1]
  /\ fdOpen' = [fdOpen EXCEPT ![t] = TRUE]
  /\ pc' = [pc EXCEPT ![t] = [th \in Threads |-> IF th = "out" THEN "sync" ELSE "loop"]]
  /\ UNCHANGED <<kicked, kicks, active, syncToken, linkVars, connVars,
                 socketVars, revVars, queueVars>>

\* transport_registration_func, action 1: the socket pair, two references, both threads,
\* and the transport is listed.
RegAdd(t) ==
  /\ ReadAction(t, "add")
  /\ list' = [list EXCEPT ![t] = "listed"]
  /\ refCount' = [refCount EXCEPT ![t] = 2]
  /\ fdOpen' = [fdOpen EXCEPT ![t] = TRUE]
  /\ pc' = [pc EXCEPT ![t] = [th \in Threads |-> IF th = "out" THEN "sync" ELSE "loop"]]
  /\ UNCHANGED <<kicked, kicks, active, syncToken, linkVars, connVars,
                 socketVars, revVars, queueVars>>

\* fdevent_remove closes transport_socket and adb_close(t->fd) the other half;
\* whatever either queue still holds is gone with them.
RegRemove(t) ==
  /\ ReadAction(t, "remove")
  /\ list' = [list EXCEPT ![t] = "freed"]
  /\ fdOpen' = [fdOpen EXCEPT ![t] = FALSE]
  /\ RunDisconnects(t)
  /\ UNCHANGED <<threadVars, linkVars, connVars, revVars, queueVars>>

-----------------------------------------------------------------------------
(* The main loop: transport_socket_events and handle_packet.               *)

Handle(t, cmds) ==
  /\ list[t] = "listed"
  /\ toMain[t] # <<>>
  /\ Head(toMain[t]).cmd \in cmds
  /\ toMain' = [toMain EXCEPT ![t] = Tail(@)]

handleFrame == <<regVars, threadVars, linkVars>>

\* A_SYNC(1, token): returned to the input thread.
HandleSyncOnline(t) ==
  /\ Handle(t, {"SYNC1"})
  /\ toInput' = [toInput EXCEPT ![t] = WritePacket(@, Head(toMain[t]))]
  /\ UNCHANGED <<handleFrame, connVars, socketVars, revVars, sent>>

\* Mutant: handle_offline does not run the disconnects.
HandleSyncOfflineKeepsStreams(t) ==
  /\ Handle(t, {"SYNC0"})
  /\ conn' = [conn EXCEPT ![t] = "offline"]
  /\ online' = [online EXCEPT ![t] = FALSE]
  /\ toInput' = [toInput EXCEPT ![t] = WritePacket(@, Head(toMain[t]))]
  /\ UNCHANGED <<handleFrame, socketVars, revVars, sent>>

\* A_SYNC(0, 0): offline first, then returned to the input thread.
HandleSyncOffline(t) ==
  /\ Handle(t, {"SYNC0"})
  /\ conn' = [conn EXCEPT ![t] = "offline"]
  /\ online' = [online EXCEPT ![t] = FALSE]
  /\ RunDisconnects(t)
  /\ toInput' = [toInput EXCEPT ![t] = WritePacket(@, Head(toMain[t]))]
  /\ UNCHANGED <<handleFrame, revVars, sent>>

\* A_CNXN: a second CONNECT drops what the first one set up.
HandleConnect(t) ==
  /\ Handle(t, {"CNXN"})
  /\ IF conn[t] # "offline" THEN RunDisconnects(t) ELSE UNCHANGED socketVars
  /\ conn' = [conn EXCEPT ![t] = "host"]
  /\ online' = [online EXCEPT ![t] = TRUE]
  /\ Post(t, 1)
  /\ UNCHANGED <<handleFrame, revVars>>

\* Anything else while offline is dropped.
HandleOffline(t) ==
  /\ Handle(t, HostCommands \ {"CNXN"})
  /\ ~online[t]
  /\ UNCHANGED <<handleFrame, connVars, socketVars, revVars, toInput, sent>>

HandleOnline(t, cmd) == online[t] /\ Handle(t, {cmd})

onlineFrame == <<handleFrame, connVars, listener>>

\* A_OPEN: READY when the service exists, CLOSE(0, id) when it does not.
HandleOpen(t) ==
  /\ HandleOnline(t, "OPEN")
  /\ streams' \in {streams, [streams EXCEPT ![t] = @ + 1]}
  /\ Post(t, 1)
  /\ UNCHANGED <<onlineFrame, opening, revVars>>

\* A_OPEN of "reverse:forward:...": served by a thread of its own.
HandleOpenReverse(t) ==
  /\ t \in ReverseHosts
  /\ revJob = "none"
  /\ HandleOnline(t, "OPEN")
  /\ streams' = [streams EXCEPT ![t] = @ + 1]
  /\ revJob' = "running"
  /\ Post(t, 1)
  /\ UNCHANGED <<onlineFrame, opening, revTarget>>

\* A_OKAY: connects a socket that awaits it, or lets one read on.
HandleReady(t) ==
  /\ HandleOnline(t, "OKAY")
  /\ \/ /\ opening[t] > 0
        /\ opening' = [opening EXCEPT ![t] = @ - 1]
        /\ streams' = [streams EXCEPT ![t] = @ + 1]
     \/ UNCHANGED <<opening, streams>>
  /\ UNCHANGED <<onlineFrame, revVars, toInput, sent>>

\* A stream of t closes; its remote socket sends CLOSE.
CloseStream(t) ==
  /\ streams[t] > 0
  /\ streams' = [streams EXCEPT ![t] = @ - 1]
  /\ Post(t, 1)

\* A_CLSE: closes a stream, refuses an OPEN, or names no socket.
HandleClose(t) ==
  /\ HandleOnline(t, "CLSE")
  /\ \/ CloseStream(t) /\ UNCHANGED opening
     \/ /\ opening[t] > 0
        /\ opening' = [opening EXCEPT ![t] = @ - 1]
        /\ UNCHANGED <<streams, toInput, sent>>
     \/ UNCHANGED <<streams, opening, toInput, sent>>
  /\ UNCHANGED <<onlineFrame, revVars>>

\* A_WRTE: written through (READY), queued, refused by the fd (CLOSE), or
\* naming no socket.
HandleWrite(t) ==
  /\ HandleOnline(t, "WRTE")
  /\ \/ streams[t] > 0 /\ Post(t, 1) /\ UNCHANGED streams
     \/ CloseStream(t)
     \/ UNCHANGED <<streams, toInput, sent>>
  /\ UNCHANGED <<onlineFrame, opening, revVars>>

-----------------------------------------------------------------------------
(* The main loop: events of the local sockets and of the listener.         *)

localFrame == <<regVars, threadVars, linkVars, connVars, listener, revVars, toMain>>

\* A local socket of t has data for the host, or room for more of it.
StreamSend(t) ==
  /\ streams[t] > 0
  /\ sent[t] < MaxSent[t]
  /\ Post(t, 1)
  /\ UNCHANGED <<localFrame, streams, opening>>

\* A local socket of t reads end of file.
StreamEnd(t) ==
  /\ CloseStream(t)
  /\ UNCHANGED <<localFrame, opening>>

\* listener_event_func: a client connects, connect_to_remote sends OPEN.
\* A listener left on a freed transport is not followed any further.
ListenerAccept(t) ==
  /\ listener[t]
  /\ list[t] # "freed"
  /\ sent[t] < MaxSent[t]
  /\ opening' = [opening EXCEPT ![t] = @ + 1]
  /\ Post(t, 1)
  /\ UNCHANGED <<localFrame, streams>>

-----------------------------------------------------------------------------
(* The reverse service thread: handle_forward_request.                     *)

revFrame == <<regVars, threadVars, linkVars, connVars, streams, opening, queueVars>>

\* acquire_one_transport(CS_ANY, kTransportAny): the only transport, if any,
\* and not an offline one.
ReverseAcquire ==
  /\ revJob = "running"
  /\ LET candidates == {t \in Transports : list[t] = "listed"} IN
       \/ \E t \in candidates :
            /\ candidates = {t}
            /\ conn[t] # "offline"
            /\ revTarget' = t
            /\ revJob' = "holding"
       \/ /\ ~ \E t \in candidates : candidates = {t} /\ conn[t] # "offline"
          /\ revTarget' = revTarget
          /\ revJob' = "done"
  /\ UNCHANGED <<revFrame, listener>>

\* install_listener: binds the port and links the listener to the transport
\* acquired before, whatever became of it.
ReverseInstall ==
  /\ revJob = "holding"
  /\ listener' = [listener EXCEPT ![revTarget] = TRUE]
  /\ revJob' = "done"
  /\ UNCHANGED <<revFrame, revTarget>>

-----------------------------------------------------------------------------

AcceptStep(t)   == OpenLink(t) \/ Register(t) \/ RegisterDuplicate(t)
OutStep(t)      == OutSync(t) \/ OutRead(t) \/ OutReadFails(t) \/ OutReadCorrupt(t)
InStep(t)       == InSyncOffline(t) \/ InSyncOnline(t) \/ InWrite(t) \/ InCloseAll(t)
ExitStep(t, th) == Kick(t, th) \/ DoKick(t, th) \/ Unref(t, th)
RegStep(t)      == RegAdd(t) \/ RegRemove(t)
OnlineStep(t)   == HandleOpen(t) \/ HandleOpenReverse(t) \/ HandleReady(t)
                     \/ HandleClose(t) \/ HandleWrite(t)
HandleStep(t)   == HandleSyncOnline(t) \/ HandleSyncOffline(t) \/ HandleConnect(t)
                     \/ HandleOffline(t) \/ OnlineStep(t)
LocalStep(t)    == StreamSend(t) \/ StreamEnd(t) \/ ListenerAccept(t)
ReverseStep     == ReverseAcquire \/ ReverseInstall

Next ==
  \/ \E t \in Transports :
       \/ AcceptStep(t)
       \/ BreakLink(t)
       \/ OutStep(t)
       \/ InStep(t)
       \/ \E th \in Threads : ExitStep(t, th)
       \/ RegStep(t)
       \/ HandleStep(t)
       \/ LocalStep(t)
  \/ ReverseStep

\* Threads are scheduled: each of them goes on as long as it can.  Nothing is
\* assumed of the host (OutRead, BreakLink), of the local sockets or of the
\* reverse service.
Fairness ==
  \A t \in Transports :
    /\ WF_vars(Register(t) \/ RegisterDuplicate(t))
    /\ WF_vars(OutSync(t))
    /\ WF_vars(OutReadFails(t))
    /\ WF_vars(InStep(t))
    /\ \A th \in Threads : WF_vars(ExitStep(t, th))
    /\ WF_vars(RegStep(t))
    /\ WF_vars(HandleStep(t))

Spec == Init /\ [][Next]_vars
FairSpec == Spec /\ Fairness

-----------------------------------------------------------------------------
(* What makes this correct.                                                *)

PastLoop(t) == pc[t]["in"] \in {"closeall", "kick", "dokick", "unref", "done"}
RemovalQueued(t) == \E i \in DOMAIN regPipe : regPipe[i] = [t |-> t, action |-> "remove"]

\* "The transport will not actually be closed until both threads exit"
\* (transport.c): when removal is asked for, and ever after, neither thread of
\* the transport runs and its connection was kicked exactly once.
ClosedAfterThreadsExit ==
  \A t \in Transports : RemovalQueued(t) \/ list[t] = "freed" =>
    /\ \A th \in Threads : pc[t][th] = "done"
    /\ kicks[t] = 1
    /\ link[t] = "closed"

\* Once the input thread has read SYNC(0,0) main has handled every packet of
\* the host and has let go of the transport: the last step of the three
\* threads' handshake loses nothing and finds no stream to close.
QuietWhenInputExits ==
  \A t \in Transports : PastLoop(t) =>
    /\ toMain[t] = <<>>
    /\ ~online[t]
    /\ streams[t] = 0

\* The end of a transport is in order: closed and removed after its threads, and no stream left
\* when the input thread leaves.
TeardownOrder == ClosedAfterThreadsExit /\ QuietWhenInputExits

\* The input thread discards packets only until the SYNC(1, token) of its own
\* output thread: main never queues a packet ahead of it.
NothingDiscardedAsOffline ==
  \A t \in Transports : pc[t]["in"] = "loop" /\ ~active[t] =>
    \A i \in DOMAIN toInput[t] : toInput[t][i].cmd = "MSG" =>
      \E j \in 1..(i-1) : toInput[t][j] = Packet("SYNC1", syncToken[t])

\* The host receives what main queued for it in order and without a gap.
DeliveredInOrder ==
  \A t \in Transports : \A j \in DOMAIN delivered[t] : delivered[t][j].src = t =>
    /\ \A i \in 1..(j-1) :
         delivered[t][i].src = t => delivered[t][i].num < delivered[t][j].num
    /\ delivered[t][j].num > 1 =>
         \E i \in 1..(j-1) : delivered[t][i] = [src |-> t, num |-> delivered[t][j].num - 1]

\* "stale outbound messages are discarded when the connection to the remote
\* side is broken" (protocol.txt, SYNC): no host receives a packet that was
\* queued for another connection.
NoStaleDelivery ==
  \A t \in Transports : \A i \in DOMAIN delivered[t] : delivered[t][i].src = t

\* A kick disconnects the transport it is for, never the connection the USB
\* thread has opened since on the same handle.
KickClosesOwnLink ==
  [][\A t \in Transports : link[t] # "closed" /\ link'[t] = "closed" =>
       \E th \in Threads : pc[t][th] = "dokick" /\ pc'[t][th] = "unref"]_vars

\* A transport whose connection is gone is torn down to the end.
DeadTransportIsFreed ==
  \A t \in Transports : (Registered(t) /\ link[t] # "up") ~> (list[t] = "freed")

-----------------------------------------------------------------------------
(* The inductive invariant behind the safety properties: what each part of *)
(* the code relies on the others for.                                      *)

Started(t) == list[t] \in {"listed", "freed"}
Holds(t, th) == pc[t][th] \notin {"off", "done"}
HasSync0(q) == \E i \in DOMAIN q : q[i].cmd = "SYNC0"
Sync0Last(q) == \A i \in DOMAIN q : q[i].cmd = "SYNC0" => i = Len(q)

\* A thread runs on a listed transport, each in its own part of the code.
ThreadsInv(t) ==
  /\ pc[t]["out"] # "closeall" /\ pc[t]["in"] # "sync"
  /\ \A th \in Threads :
       /\ pc[t][th] = "off" <=> ~Started(t)
       /\ list[t] = "freed" => pc[t][th] = "done"

\* The count is the number of threads that have not released their reference.
RefsInv(t) ==
  refCount[t] = (IF Holds(t, "out") THEN 1 ELSE 0) + (IF Holds(t, "in") THEN 1 ELSE 0)

\* At most one thread is between setting t->kicked and calling t->kick.
KickInv(t) ==
  /\ ~kicked[t] => kicks[t] = 0
  /\ \A th \in Threads :
       /\ pc[t][th] = "off" => ~kicked[t]
       /\ pc[t][th] \in {"unref", "done"} => kicked[t]
       /\ pc[t][th] = "dokick" =>
            kicked[t] /\ kicks[t] = 0 /\ \A o \in Threads : pc[t][o] = "dokick" => o = th
  /\ kicked[t] /\ (\A th \in Threads : pc[t][th] # "dokick") =>
       kicks[t] = 1 /\ link[t] = "closed"

\* The handle is open on the one USB connection that was not kicked yet.
UsbInv(t) ==
  /\ list[t] = "rejected" => ~IsUsb(t)
  /\ usbFd = t <=> IsUsb(t) /\ list[t] # "none" /\ kicks[t] = 0
  /\ link[t] = "closed" => kicks[t] = 1

\* Main is asked to add a pending transport, to remove one without threads.
RegEntryInv(m) ==
  /\ m.action = "add" => list[m.t] = "pending"
  /\ m.action = "remove" =>
       list[m.t] = "listed" /\ \A th \in Threads : pc[m.t][th] = "done"
RegInv ==
  \A i \in DOMAIN regPipe :
    /\ RegEntryInv(regPipe[i])
    /\ \A j \in DOMAIN regPipe : regPipe[j].t = regPipe[i].t => i = j

\* SYNC(0,0) is the last packet of the output thread, and of main.
SyncInv(t) ==
  /\ pc[t]["out"] \in {"off", "sync", "loop"} =>
       ~HasSync0(toMain[t]) /\ ~HasSync0(toInput[t]) /\ ~PastLoop(t)
  /\ Sync0Last(toMain[t])
  /\ HasSync0(toInput[t]) \/ PastLoop(t) =>
       toMain[t] = <<>> /\ ~online[t] /\ streams[t] = 0

\* The handshake of the three threads, as one step relies on it: everything
\* the safety theorems need, and nothing a step can break.
HandshakeInv ==
  /\ TypeOK
  /\ RegInv
  /\ \A t \in Transports :
       ThreadsInv(t) /\ RefsInv(t) /\ KickInv(t) /\ UsbInv(t) /\ SyncInv(t)

\* What main handles of a connection's packets: all of them, in order, and none of another's
\* (transport.c, the SYNC tokens and the socket pair).
DeliveryCorrect ==
  /\ NothingDiscardedAsOffline /\ NoStaleDelivery /\ DeliveredInOrder
=============================================================================

------------------------- MODULE AdbTransportProofs -------------------------
(* Theorems about AdbTransport, for every set of transports and bounds.    *)
EXTENDS AdbTransport, TLAPS

USE DEF RegisterTransport, RemoveTransport, WriteAction, ReadAction, WritePacket, RemoteClose

-----------------------------------------------------------------------------
(* Types.                                                                  *)

\* A thread that is about to release its reference still holds one.
RefHeld == \A t \in Transports : \A th \in Threads : pc[t][th] = "unref" => refCount[t] > 0

LEMMA TypeInit == Init => TypeOK
<1> SUFFICES ASSUME Init PROVE TypeOK
  OBVIOUS
<1> USE DEF Init
<1>1. TypeReg BY DEF TypeReg, ListState
<1>2. TypeThreads BY DEF TypeThreads, Location
<1>3. TypeLinks BY DEF TypeLinks, LinkState
<1>4. TypeConns BY DEF TypeConns
<1>5. TypeSockets BY DEF TypeSockets
<1>6. TypeReverse BY DEF TypeReverse
<1>7. TypeQueues BY DEF TypeQueues
<1>8. QED
  BY <1>1, <1>2, <1>3, <1>4, <1>5, <1>6, <1>7 DEF TypeOK

LEMMA PacketType ==
  /\ \A cmd \in HostCommands : Packet(cmd, 0) \in MainPacket
  /\ Packet("SYNC0", 0) \in MainPacket
  /\ \A n \in Nat : Packet("SYNC1", n) \in MainPacket /\ Packet("MSG", n) \in InputPacket
BY DEF Packet, MainPacket, InputPacket

\* What main posts is a sequence of numbered messages.
LEMMA PostQueues ==
  ASSUME TypeQueues, NEW t \in Transports, NEW n \in Nat, Post(t, n)
  PROVE  /\ toInput' \in [Transports -> Seq(InputPacket)]
         /\ sent' \in [Transports -> Nat]
<1> DEFINE Sent == [i \in 1..n |-> Packet("MSG", sent[t] + i)]
<1>1. Sent \in Seq(InputPacket)
  <2>1. \A i \in 1..n : Packet("MSG", sent[t] + i) \in InputPacket
    BY PacketType DEF TypeQueues
  <2>2. QED
    BY <2>1
<1> HIDE DEF Sent
<1>2. toInput[t] \o Sent \in Seq(InputPacket)
  BY <1>1 DEF TypeQueues
<1>3. toInput' = toInput \/ toInput' = [toInput EXCEPT ![t] = @ \o Sent]
  BY DEF Post, Sent
<1>4. toInput' \in [Transports -> Seq(InputPacket)]
  <2>1. toInput \in [Transports -> Seq(InputPacket)]
    BY DEF TypeQueues
  <2>2. CASE toInput' = [toInput EXCEPT ![t] = @ \o Sent]
    BY <1>2, <2>1, <2>2, Zenon
  <2>3. QED
    BY <1>3, <2>1, <2>2
<1>5. sent' \in [Transports -> Nat]
  BY DEF Post, TypeQueues
<1>6. QED
  BY <1>4, <1>5

LEMMA PostType ==
  ASSUME TypeQueues, NEW t \in Transports, NEW n \in Nat, Post(t, n), UNCHANGED toMain
  PROVE  TypeQueues'
BY PostQueues DEF TypeQueues

LEMMA TypeUnchanged ==
  /\ TypeReg /\ UNCHANGED regVars => TypeReg'
  /\ TypeThreads /\ UNCHANGED threadVars => TypeThreads'
  /\ TypeLinks /\ UNCHANGED linkVars => TypeLinks'
  /\ TypeConns /\ UNCHANGED connVars => TypeConns'
  /\ TypeSockets /\ UNCHANGED socketVars => TypeSockets'
  /\ TypeReverse /\ UNCHANGED revVars => TypeReverse'
  /\ TypeQueues /\ UNCHANGED queueVars => TypeQueues'
BY DEF TypeReg, TypeThreads, TypeLinks, TypeConns, TypeSockets, TypeReverse, TypeQueues,
       regVars, threadVars, linkVars, connVars, socketVars, revVars, queueVars

LEMMA TypeAccept ==
  ASSUME TypeOK, NEW t \in Transports, AcceptStep(t) \/ BreakLink(t) PROVE TypeOK'
<1>1. CASE OpenLink(t)
  <2>1. TypeReg' BY <1>1 DEF OpenLink, TypeOK, TypeReg, ListState
  <2>2. TypeLinks' BY <1>1 DEF OpenLink, TypeOK, TypeLinks, LinkState
  <2>3. QED BY <1>1, <2>1, <2>2, TypeUnchanged DEF OpenLink, TypeOK
<1>2. CASE Register(t)
  <2>1. [t |-> t, action |-> "add"] \in RegMessage BY DEF RegMessage
  <2>2. TypeReg' BY <1>2, <2>1 DEF Register, TypeOK, TypeReg, ListState
  <2>3. QED BY <1>2, <2>2, TypeUnchanged DEF Register, TypeOK
<1>3. CASE RegisterDuplicate(t)
  <2>1. TypeReg' BY <1>3 DEF RegisterDuplicate, TypeOK, TypeReg, ListState
  <2>2. QED BY <1>3, <2>1, TypeUnchanged DEF RegisterDuplicate, TypeOK
<1>4. CASE BreakLink(t)
  <2>1. TypeLinks' BY <1>4 DEF BreakLink, TypeOK, TypeLinks, LinkState
  <2>2. QED BY <1>4, <2>1, TypeUnchanged DEF BreakLink, TypeOK
<1>5. QED
  BY <1>1, <1>2, <1>3, <1>4 DEF AcceptStep

LEMMA TypeOutput ==
  ASSUME TypeOK, NEW t \in Transports, OutStep(t) PROVE TypeOK'
<1>1. CASE OutSync(t)
  <2>1. Packet("SYNC1", syncToken[t] + 1) \in MainPacket
    BY PacketType DEF TypeOK, TypeThreads
  <2>2. TypeThreads'
    BY <1>1 DEF OutSync, TypeOK, TypeThreads, Threads, Location
  <2>3. TypeQueues' BY <1>1, <2>1 DEF OutSync, TypeOK, TypeQueues
  <2>4. QED BY <1>1, <2>2, <2>3, TypeUnchanged DEF OutSync, TypeOK
<1>2. CASE OutRead(t)
  <2>1. TypeLinks' BY <1>2 DEF OutRead, TypeOK, TypeLinks
  <2>2. TypeQueues' BY <1>2, PacketType DEF OutRead, TypeOK, TypeQueues
  <2>3. QED BY <1>2, <2>1, <2>2, TypeUnchanged DEF OutRead, TypeOK
<1>3. CASE OutOffline(t)
  <2>1. TypeThreads'
    BY <1>3 DEF OutOffline, TypeOK, TypeThreads, Threads, Location
  <2>2. TypeQueues' BY <1>3, PacketType DEF OutOffline, TypeOK, TypeQueues
  <2>3. QED BY <1>3, <2>1, <2>2, TypeUnchanged DEF OutOffline, TypeOK
<1>4. QED
  BY <1>1, <1>2, <1>3 DEF OutStep, OutReadFails, OutReadCorrupt

\* A packet taken from the head of a queue leaves a queue.
LEMMA TypeTake ==
  ASSUME TypeQueues, NEW t \in Transports
  PROVE  /\ toMain[t] # <<>> => Tail(toMain[t]) \in Seq(MainPacket)
                                 /\ Head(toMain[t]) \in MainPacket
         /\ toInput[t] # <<>> => Tail(toInput[t]) \in Seq(InputPacket)
                                 /\ Head(toInput[t]) \in InputPacket
<1>1. toMain[t] \in Seq(MainPacket) /\ toInput[t] \in Seq(InputPacket)
  BY DEF TypeQueues
<1>2. QED
  BY <1>1

LEMMA TypeInput ==
  ASSUME TypeOK, NEW t \in Transports, InStep(t) PROVE TypeOK'
<1>1. CASE InTake(t) /\ UNCHANGED <<regVars, connVars, socketVars, revVars, toMain, sent>>
  <2>1. TypeQueues'
    <3>1. toInput' = [toInput EXCEPT ![t] = Tail(toInput[t])] /\ toInput[t] # <<>>
      BY <1>1 DEF InTake
    <3>2. Tail(toInput[t]) \in Seq(InputPacket)
      BY <3>1, TypeTake DEF TypeOK
    <3>3. QED
      BY <1>1, <3>1, <3>2 DEF TypeOK, TypeQueues
  <2>2. (TypeReg /\ TypeConns /\ TypeSockets /\ TypeReverse)'
    BY <1>1, TypeUnchanged DEF TypeOK
  <2>3. CASE InSyncOffline(t)
    <3>1. TypeThreads'
      BY <2>3 DEF InSyncOffline, TypeOK, TypeThreads, Threads, Location
    <3>2. QED
      BY <2>1, <2>2, <2>3, <3>1, TypeUnchanged DEF InSyncOffline, TypeOK
  <2>4. CASE InSyncOnline(t)
    <3>1. TypeThreads'
      BY <2>4 DEF InSyncOnline, TypeOK, TypeThreads
    <3>2. QED
      BY <2>1, <2>2, <2>4, <3>1, TypeUnchanged DEF InSyncOnline, TypeOK
  <2>5. CASE InWrite(t)
    <3>1. Head(toInput[t]).arg \in Nat
      BY <1>1, TypeTake DEF TypeOK, InTake, InputPacket
    <3>2. [src |-> t, num |-> Head(toInput[t]).arg] \in Delivery
      BY <3>1 DEF Delivery
    <3>3. WriteTarget(t) \in Transports \cup {NoTransport}
      BY DEF WriteTarget, TcpTarget, TypeOK, TypeLinks
    <3>4. TypeLinks'
      <4>1. UNCHANGED <<link, usbFd, received>>
        BY <2>5 DEF InWrite
      <4>2. delivered' \in [Transports -> Seq(Delivery)]
        <5> DEFINE u == WriteTarget(t)
                   d == [src |-> t, num |-> Head(toInput[t]).arg]
        <5>1. delivered' = [delivered EXCEPT ![u] = Append(@, d)] \/ delivered' = delivered
          BY <2>5, Zenon DEF InWrite, RemoteWrite
        <5>2. delivered \in [Transports -> Seq(Delivery)] /\ d \in Delivery
          BY <3>2 DEF TypeOK, TypeLinks
        <5> HIDE DEF u, d
        <5>3. \A v \in Transports : Append(delivered[v], d) \in Seq(Delivery)
          BY <5>2
        <5>4. QED
          BY <5>1, <5>2, <5>3
      <4>3. QED
        BY <4>1, <4>2 DEF TypeOK, TypeLinks
    <3>5. QED
      BY <2>1, <2>2, <2>5, <3>4, TypeUnchanged DEF InWrite, TypeOK
  <2>6. CASE InCloseAll(t)
    BY <1>1, <2>6 DEF InCloseAll, InTake
  <2>7. QED
    BY <2>3, <2>4, <2>5, <2>6 DEF InStep
<1>2. CASE InCloseAll(t)
  <2>1. TypeQueues'
    BY <1>2, PostType DEF InCloseAll, TypeOK, TypeSockets
  <2>2. TypeThreads'
    BY <1>2 DEF InCloseAll, TypeOK, TypeThreads, Threads, Location
  <2>3. TypeSockets'
    BY <1>2 DEF InCloseAll, TypeOK, TypeSockets
  <2>4. QED
    BY <1>2, <2>1, <2>2, <2>3, TypeUnchanged DEF InCloseAll, TypeOK
<1>3. QED
  BY <1>1, <1>2 DEF InStep, InSyncOffline, InSyncOnline, InWrite

LEMMA TypeCloseLink ==
  ASSUME TypeLinks, NEW t \in Transports, CloseLink(t), UNCHANGED <<received, delivered>>
  PROVE  TypeLinks'
BY DEF TypeLinks, CloseLink, LinkState

LEMMA TypeExit ==
  ASSUME TypeOK, RefHeld, NEW t \in Transports, NEW th \in Threads, ExitStep(t, th)
  PROVE  TypeOK'
<1>1. CASE Kick(t, th)
  <2>1. TypeThreads'
    BY <1>1 DEF Kick, TypeOK, TypeThreads, Location
  <2>2. QED
    BY <1>1, <2>1, TypeUnchanged DEF Kick, TypeOK
<1>2. CASE DoKick(t, th)
  <2>1. TypeThreads'
    BY <1>2 DEF DoKick, TypeOK, TypeThreads, Location
  <2>2. TypeLinks'
    BY <1>2, TypeCloseLink DEF DoKick, TypeOK
  <2>3. QED
    BY <1>2, <2>1, <2>2, TypeUnchanged DEF DoKick, regVars, TypeOK
<1>3. CASE Unref(t, th)
  <2>1. refCount' \in [Transports -> 0..2]
    BY <1>3 DEF Unref, TypeOK, TypeThreads, RefHeld
  <2>2. pc' \in [Transports -> [Threads -> Location]]
    BY <1>3 DEF Unref, TypeOK, TypeThreads, Location
  <2>3. kicked' \in [Transports -> BOOLEAN] /\ kicks' \in [Transports -> Nat]
    <3>1. kicked \in [Transports -> BOOLEAN] /\ kicks \in [Transports -> Nat]
      BY DEF TypeOK, TypeThreads
    <3>2. \/ kicked' = kicked
          \/ kicked' = [kicked EXCEPT ![t] = TRUE]
      BY <1>3 DEF Unref, LastUnref
    <3>3. \/ kicks' = kicks
          \/ kicks' = [kicks EXCEPT ![t] = @ + 1]
      BY <1>3 DEF Unref, LastUnref
    <3>4. kicked' \in [Transports -> BOOLEAN]
      BY <3>1, <3>2
    <3>5. kicks' \in [Transports -> Nat]
      BY <3>1, <3>3
    <3>6. QED
      BY <3>4, <3>5
  <2>4. TypeThreads'
    BY <1>3, <2>1, <2>2, <2>3 DEF Unref, TypeOK, TypeThreads
  <2>5. TypeReg'
    <3>1. [t |-> t, action |-> "remove"] \in RegMessage
      BY DEF RegMessage
    <3>2. regPipe \in Seq(RegMessage) /\ fdOpen \in [Transports -> BOOLEAN]
      BY DEF TypeOK, TypeReg
    <3>3. regPipe' \in Seq(RegMessage)
      <4> DEFINE Removal == [t |-> t, action |-> "remove"]
      <4>1. regPipe' = regPipe \/ regPipe' = Append(regPipe, Removal)
        BY <1>3 DEF Unref, LastUnref
      <4>2. Removal \in RegMessage
        BY <3>1
      <4> HIDE DEF Removal
      <4>3. QED
        BY <3>2, <4>1, <4>2
    <3>4. fdOpen' \in [Transports -> BOOLEAN]
      <4>1. fdOpen' = fdOpen \/ fdOpen' = [fdOpen EXCEPT ![t] = @ /\ IsUsb(t)]
        BY <1>3 DEF Unref, LastUnref
      <4>2. (fdOpen[t] /\ IsUsb(t)) \in BOOLEAN
        OBVIOUS
      <4>3. QED
        BY <3>2, <4>1, <4>2, Zenon
    <3>5. QED
      BY <1>3, <3>3, <3>4 DEF Unref, TypeOK, TypeReg
  <2>6. TypeLinks'
    <3>1. CASE UNCHANGED <<link, usbFd>>
      BY <1>3, <3>1, TypeUnchanged DEF Unref, TypeOK, linkVars
    <3>2. CASE CloseLink(t)
      BY <1>3, <3>2, TypeCloseLink DEF Unref, TypeOK
    <3>3. QED
      BY <1>3, <3>1, <3>2 DEF Unref, LastUnref
  <2>7. QED
    BY <1>3, <2>4, <2>5, <2>6, TypeUnchanged DEF Unref, TypeOK
<1>4. QED
  BY <1>1, <1>2, <1>3 DEF ExitStep

LEMMA TypeDisconnects ==
  ASSUME TypeSockets, NEW t \in Transports, RunDisconnects(t) PROVE TypeSockets'
BY DEF TypeSockets, RunDisconnects

LEMMA TypeRegister ==
  ASSUME TypeOK, NEW t \in Transports, RegStep(t) PROVE TypeOK'
<1>1. regPipe # <<>> => Tail(regPipe) \in Seq(RegMessage)
  BY DEF TypeOK, TypeReg
<1>2. CASE RegAdd(t)
  <2>1. TypeReg'
    BY <1>1, <1>2 DEF RegAdd, TypeOK, TypeReg, ListState
  <2>2. TypeThreads'
    BY <1>2 DEF RegAdd, TypeOK, TypeThreads, Location
  <2>3. QED
    BY <1>2, <2>1, <2>2, TypeUnchanged DEF RegAdd, TypeOK
<1>3. CASE RegRemove(t)
  <2>1. TypeReg'
    BY <1>1, <1>3 DEF RegRemove, TypeOK, TypeReg, ListState
  <2>2. TypeSockets'
    BY <1>3, TypeDisconnects DEF RegRemove, TypeOK
  <2>3. QED
    BY <1>3, <2>1, <2>2, TypeUnchanged DEF RegRemove, TypeOK
<1>4. QED
  BY <1>2, <1>3 DEF RegStep

LEMMA TypeHandle ==
  ASSUME TypeOK, NEW t \in Transports, HandleStep(t) PROVE TypeOK'
<1>1. TypeReg' /\ TypeThreads' /\ TypeLinks'
  BY TypeUnchanged DEF TypeOK, HandleStep, HandleSyncOnline, HandleSyncOffline, HandleConnect,
     HandleOffline, OnlineStep, HandleOpen, HandleOpenReverse, HandleReady, HandleClose,
     HandleWrite, onlineFrame, handleFrame
<1>2. ASSUME NEW cmds, Handle(t, cmds)
      PROVE  /\ toMain' \in [Transports -> Seq(MainPacket)]
             /\ Head(toMain[t]) \in MainPacket
             /\ toMain[t] # <<>>
  <2>1. toMain' = [toMain EXCEPT ![t] = Tail(toMain[t])] /\ toMain[t] # <<>>
    BY <1>2 DEF Handle
  <2>2. Tail(toMain[t]) \in Seq(MainPacket) /\ Head(toMain[t]) \in MainPacket
    BY <2>1, TypeTake DEF TypeOK
  <2>3. QED
    BY <2>1, <2>2 DEF TypeOK, TypeQueues
<1>3. ASSUME NEW cmds, Handle(t, cmds), NEW n \in Nat, Post(t, n)
      PROVE  TypeQueues'
  <2>1. /\ toInput' \in [Transports -> Seq(InputPacket)]
        /\ sent' \in [Transports -> Nat]
    BY <1>3, PostQueues DEF TypeOK
  <2>2. QED
    BY <1>2, <1>3, <2>1 DEF TypeQueues
<1>4. ASSUME NEW cmds, Handle(t, cmds), UNCHANGED <<toInput, sent>>
      PROVE  TypeQueues'
  BY <1>2, <1>4 DEF TypeOK, TypeQueues
<1>5. ASSUME NEW cmds, Handle(t, cmds), cmds \subseteq {"SYNC0", "SYNC1"}, UNCHANGED sent,
             toInput' = [toInput EXCEPT ![t] = Append(@, Head(toMain[t]))]
      PROVE  TypeQueues'
  <2>1. Head(toMain[t]) \in InputPacket
    BY <1>2, <1>5 DEF Handle, MainPacket, InputPacket
  <2>2. QED
    BY <1>2, <1>5, <2>1 DEF TypeOK, TypeQueues
<1>6. CASE HandleSyncOnline(t)
  <2>1. TypeQueues' BY <1>5, <1>6 DEF HandleSyncOnline
  <2>2. QED BY <1>1, <1>6, <2>1, TypeUnchanged DEF HandleSyncOnline, TypeOK
<1>7. CASE HandleSyncOffline(t)
  <2>1. TypeQueues' BY <1>5, <1>7 DEF HandleSyncOffline
  <2>2. TypeConns' BY <1>7 DEF HandleSyncOffline, TypeOK, TypeConns
  <2>3. TypeSockets' BY <1>7, TypeDisconnects DEF HandleSyncOffline, TypeOK
  <2>4. QED BY <1>1, <1>7, <2>1, <2>2, <2>3, TypeUnchanged DEF HandleSyncOffline, TypeOK
<1>8. CASE HandleConnect(t)
  <2>1. TypeQueues' BY <1>3, <1>8 DEF HandleConnect
  <2>2. TypeConns' BY <1>8 DEF HandleConnect, TypeOK, TypeConns
  <2>3. TypeSockets' BY <1>8, TypeDisconnects, TypeUnchanged DEF HandleConnect, TypeOK
  <2>4. QED BY <1>1, <1>8, <2>1, <2>2, <2>3, TypeUnchanged DEF HandleConnect, TypeOK
<1>9. CASE HandleOffline(t)
  <2>1. TypeQueues' BY <1>4, <1>9 DEF HandleOffline
  <2>2. QED BY <1>1, <1>9, <2>1, TypeUnchanged DEF HandleOffline, TypeOK
<1>10. CASE OnlineStep(t)
  <2>1. TypeConns' BY <1>10, TypeUnchanged DEF TypeOK, OnlineStep, HandleOpen,
          HandleOpenReverse, HandleReady, HandleClose, HandleWrite, onlineFrame
  <2>2. TypeReverse' BY <1>10 DEF TypeOK, TypeReverse, OnlineStep, HandleOpen,
          HandleOpenReverse, HandleReady, HandleClose, HandleWrite, revVars
  <2>3. TypeSockets'
    <3>1. CASE HandleOpen(t)
      BY <3>1 DEF HandleOpen, onlineFrame, TypeOK, TypeSockets
    <3>2. CASE HandleOpenReverse(t)
      BY <3>2 DEF HandleOpenReverse, onlineFrame, TypeOK, TypeSockets
    <3>3. CASE HandleReady(t)
      BY <3>3 DEF HandleReady, onlineFrame, TypeOK, TypeSockets
    <3>4. CASE HandleClose(t)
      BY <3>4 DEF HandleClose, CloseStream, onlineFrame, TypeOK, TypeSockets
    <3>5. CASE HandleWrite(t)
      BY <3>5 DEF HandleWrite, CloseStream, onlineFrame, TypeOK, TypeSockets
    <3>6. QED
      BY <1>10, <3>1, <3>2, <3>3, <3>4, <3>5 DEF OnlineStep
  <2>4. TypeQueues'
    <3>1. PICK cmds : Handle(t, cmds)
      BY <1>10 DEF OnlineStep, HandleOpen, HandleOpenReverse, HandleReady, HandleClose,
         HandleWrite, HandleOnline
    <3>2. Post(t, 1) \/ UNCHANGED <<toInput, sent>>
      BY <1>10 DEF OnlineStep, HandleOpen, HandleOpenReverse, HandleReady, HandleClose,
         HandleWrite, CloseStream
    <3>3. QED
      BY <1>3, <1>4, <3>1, <3>2
  <2>5. QED
    BY <1>1, <2>1, <2>2, <2>3, <2>4 DEF TypeOK
<1>11. QED
  BY <1>6, <1>7, <1>8, <1>9, <1>10 DEF HandleStep

LEMMA TypeLocal ==
  ASSUME TypeOK, NEW t \in Transports, LocalStep(t) PROVE TypeOK'
<1>1. TypeReg' /\ TypeThreads' /\ TypeLinks' /\ TypeConns' /\ TypeReverse'
  BY TypeUnchanged DEF TypeOK, LocalStep, StreamSend, StreamEnd, ListenerAccept, localFrame
<1>2. TypeSockets'
  BY DEF TypeOK, LocalStep, StreamSend, StreamEnd, ListenerAccept, localFrame,
     CloseStream, TypeSockets
<1>3. TypeQueues'
  <2>1. Post(t, 1) /\ UNCHANGED toMain
    BY DEF LocalStep, StreamSend, StreamEnd, ListenerAccept, localFrame, CloseStream
  <2>2. QED
    BY <2>1, PostType DEF TypeOK
<1>4. QED
  BY <1>1, <1>2, <1>3 DEF TypeOK

LEMMA TypeReverseJob ==
  ASSUME TypeOK, ReverseStep PROVE TypeOK'
<1>1. TypeReg' /\ TypeThreads' /\ TypeLinks' /\ TypeConns' /\ TypeQueues'
  BY TypeUnchanged DEF TypeOK, ReverseStep, ReverseAcquire, ReverseInstall, revFrame
<1>2. TypeSockets'
  BY DEF TypeOK, ReverseStep, ReverseAcquire, ReverseInstall, revFrame, TypeSockets
<1>3. TypeReverse'
  BY DEF TypeOK, ReverseStep, ReverseAcquire, ReverseInstall, TypeReverse
<1>4. QED
  BY <1>1, <1>2, <1>3 DEF TypeOK

\* A step of any thread keeps every variable in its type.
LEMMA TypeNext == TypeOK /\ RefHeld /\ [Next]_vars => TypeOK'
<1> SUFFICES ASSUME TypeOK, RefHeld, [Next]_vars PROVE TypeOK'
  OBVIOUS
<1>1. CASE UNCHANGED vars
  BY <1>1, TypeUnchanged DEF vars, TypeOK
<1>2. CASE Next
  BY <1>2, TypeAccept, TypeOutput, TypeInput, TypeExit, TypeRegister, TypeHandle, TypeLocal,
     TypeReverseJob DEF Next
<1>3. QED
  BY <1>1, <1>2

-----------------------------------------------------------------------------
(* The threads, their references and the kick.                             *)

\* The part of the handshake that does not look at what the queues hold.
CoreInv ==
  /\ RegInv
  /\ \A t \in Transports : ThreadsInv(t) /\ RefsInv(t) /\ KickInv(t) /\ UsbInv(t)

LEMMA CoreInit == Init => CoreInv
<1> SUFFICES ASSUME Init PROVE CoreInv
  OBVIOUS
<1>1. RegInv BY DEF Init, RegInv
<1>2. ASSUME NEW t \in Transports
      PROVE  ThreadsInv(t) /\ RefsInv(t) /\ KickInv(t) /\ UsbInv(t)
  BY <1>2, TransportAssumption DEF Init, Threads, ThreadsInv, Started, RefsInv, Holds,
     KickInv, UsbInv
<1>3. QED
  BY <1>1, <1>2 DEF CoreInv

\* What the registration socket holds, and what one write or read does to it.
LEMMA RegMessages ==
  /\ \A m \in RegMessage : m.t \in Transports /\ m.action \in {"add", "remove"}
  /\ \A t \in Transports : [t |-> t, action |-> "add"] \in RegMessage
  /\ \A t \in Transports : [t |-> t, action |-> "remove"] \in RegMessage
  /\ TypeReg => \A i \in DOMAIN regPipe : regPipe[i] \in RegMessage
<1>1. TypeReg => \A i \in DOMAIN regPipe : regPipe[i] \in RegMessage
  BY DEF TypeReg
<1>2. QED
  BY <1>1 DEF RegMessage

LEMMA RegKeep ==
  ASSUME TypeReg, RegInv, UNCHANGED regPipe,
         \A m \in RegMessage : RegEntryInv(m) => RegEntryInv(m)'
  PROVE  RegInv'
BY RegMessages DEF RegInv

LEMMA RegWrite ==
  ASSUME TypeReg, RegInv, NEW m \in RegMessage, regPipe' = Append(regPipe, m),
         \A i \in DOMAIN regPipe : regPipe[i].t # m.t,
         RegEntryInv(m)',
         \A n \in RegMessage : n.t # m.t /\ RegEntryInv(n) => RegEntryInv(n)'
  PROVE  RegInv'
<1>1. regPipe \in Seq(RegMessage)
  BY DEF TypeReg
<1>2. \A i \in DOMAIN regPipe' :
        \/ i \in DOMAIN regPipe /\ regPipe'[i] = regPipe[i]
        \/ i = Len(regPipe) + 1 /\ regPipe'[i] = m
  BY <1>1
<1>3. \A i \in DOMAIN regPipe' : RegEntryInv(regPipe[i])'
  BY <1>2, RegMessages DEF RegInv, RegEntryInv
<1>4. \A i, j \in DOMAIN regPipe' : regPipe'[i].t = regPipe'[j].t => i = j
  BY <1>2 DEF RegInv
<1>5. QED
  BY <1>3, <1>4 DEF RegInv

LEMMA RegRead ==
  ASSUME TypeReg, RegInv, NEW m, regPipe # <<>>, Head(regPipe) = m,
         regPipe' = Tail(regPipe),
         \A n \in RegMessage : n.t # m.t /\ RegEntryInv(n) => RegEntryInv(n)'
  PROVE  RegInv'
<1>1. regPipe \in Seq(RegMessage)
  BY DEF TypeReg
<1>2. /\ 1 \in DOMAIN regPipe /\ regPipe[1] = m
      /\ \A i \in DOMAIN regPipe' :
           i \in Nat /\ i >= 1 /\ i + 1 \in DOMAIN regPipe /\ regPipe'[i] = regPipe[i + 1]
  BY <1>1
<1>3. \A i \in DOMAIN regPipe' : regPipe'[i].t # m.t
  BY <1>2 DEF RegInv
<1>4. \A i \in DOMAIN regPipe' : RegEntryInv(regPipe[i])'
  BY <1>2, <1>3, RegMessages DEF RegInv, RegEntryInv
<1>5. \A i, j \in DOMAIN regPipe' : regPipe'[i].t = regPipe'[j].t => i = j
  BY <1>2 DEF RegInv
<1>6. QED
  BY <1>4, <1>5 DEF RegInv

\* The head of the registration socket meets its condition.
LEMMA RegHead ==
  ASSUME TypeReg, RegInv, regPipe # <<>> PROVE RegEntryInv(Head(regPipe))
<1>1. regPipe \in Seq(RegMessage)
  BY DEF TypeReg
<1>2. 1 \in DOMAIN regPipe /\ regPipe[1] = Head(regPipe)
  BY <1>1
<1>3. QED
  BY <1>2 DEF RegInv

\* The count is positive as long as a thread has a reference to release.
LEMMA HeldReference == TypeOK /\ CoreInv => RefHeld
BY DEF TypeOK, TypeThreads, CoreInv, RefsInv, Holds, RefHeld, Threads

\* A step that leaves the lists, the kicks and the registration socket alone,
\* and moves a thread only between the parts of its loop.
Moves(t, th) ==
  \/ pc'[t][th] = pc[t][th]
  \/ /\ pc[t][th] \in {"sync", "loop", "closeall"}
     /\ pc'[t][th] \in {"loop", "closeall", "kick"}
     /\ th = "out" => pc'[t][th] # "closeall"

QuietStep ==
  /\ UNCHANGED <<list, regPipe, refCount, kicked, kicks, usbFd>>
  /\ \A t \in Transports :
       /\ \A th \in Threads : Moves(t, th)
       /\ link'[t] = link[t] \/ link[t] = "up"
       /\ link'[t] = "closed" => link[t] = "closed"

LEMMA CoreQuiet ==
  ASSUME TypeOK, CoreInv, QuietStep PROVE CoreInv'
<1>1. RegInv'
  BY RegKeep, RegMessages DEF TypeOK, CoreInv, RegEntryInv, QuietStep, Moves
<1>2. ASSUME NEW u \in Transports
      PROVE  (ThreadsInv(u) /\ RefsInv(u) /\ KickInv(u) /\ UsbInv(u))'
  <2> USE <1>2 DEF QuietStep, Moves, CoreInv, Threads
  <2>1. ThreadsInv(u)' BY DEF ThreadsInv, Started
  <2>2. RefsInv(u)' BY DEF RefsInv, Holds
  <2>3. KickInv(u)' BY DEF KickInv
  <2>4. UsbInv(u)' BY DEF UsbInv
  <2>5. QED
    BY <2>1, <2>2, <2>3, <2>4
<1>3. QED
  BY <1>1, <1>2 DEF CoreInv

\* Every other step than these six is quiet.
LEMMA OtherStepsAreQuiet ==
  ASSUME TypeOK, [Next]_vars
  PROVE  \/ QuietStep
         \/ \E t \in Transports :
              \/ AcceptStep(t)
              \/ RegStep(t)
              \/ \E th \in Threads : ExitStep(t, th)
<1>1. CASE UNCHANGED vars
  BY <1>1 DEF vars, regVars, threadVars, linkVars, QuietStep, Moves
<1>2. ASSUME NEW t \in Transports, BreakLink(t) PROVE QuietStep
  BY <1>2 DEF BreakLink, regVars, threadVars, QuietStep, Moves, TypeOK, TypeLinks
<1>3. ASSUME NEW t \in Transports, OutStep(t) PROVE QuietStep
  BY <1>3 DEF OutStep, OutSync, OutRead, OutReadFails, OutReadCorrupt, OutOffline,
     regVars, threadVars, linkVars, QuietStep, Moves, TypeOK, TypeThreads, Threads
<1>4. ASSUME NEW t \in Transports, InStep(t) PROVE QuietStep
  <2>1. CASE InSyncOffline(t)
    BY <2>1 DEF InTake, InSyncOffline, regVars, linkVars, QuietStep, Moves,
       TypeOK, TypeThreads, Threads
  <2>2. CASE InSyncOnline(t) \/ InWrite(t)
    BY <2>2 DEF InSyncOnline, InWrite, regVars, threadVars, linkVars, QuietStep, Moves
  <2>3. CASE InCloseAll(t)
    BY <2>3 DEF InCloseAll, regVars, linkVars, QuietStep, Moves,
       TypeOK, TypeThreads, Threads
  <2>4. QED
    BY <1>4, <2>1, <2>2, <2>3 DEF InStep
<1>5. ASSUME NEW t \in Transports, HandleStep(t) PROVE QuietStep
  BY <1>5 DEF HandleStep, HandleSyncOnline, HandleSyncOffline, HandleConnect,
     HandleOffline, OnlineStep, HandleOpen, HandleOpenReverse, HandleReady, HandleClose,
     HandleWrite, onlineFrame, handleFrame, regVars, threadVars, linkVars, QuietStep, Moves
<1>6. ASSUME NEW t \in Transports, LocalStep(t) PROVE QuietStep
  BY <1>6 DEF LocalStep, StreamSend, StreamEnd, ListenerAccept, localFrame,
     regVars, threadVars, linkVars, QuietStep, Moves
<1>7. CASE ReverseStep
  BY <1>7 DEF ReverseStep, ReverseAcquire, ReverseInstall, revFrame,
     regVars, threadVars, linkVars, QuietStep, Moves
<1>8. QED
  BY <1>1, <1>2, <1>3, <1>4, <1>5, <1>6, <1>7 DEF Next

LEMMA CoreAccept ==
  ASSUME TypeOK, CoreInv, NEW t \in Transports, AcceptStep(t) PROVE CoreInv'
<1>a. TypeReg /\ list \in [Transports -> ListState]
  BY DEF TypeOK, TypeReg
<1> USE <1>a DEF TypeOK, TypeThreads, TypeLinks
<1>1. CASE OpenLink(t)
  <2>1. RegInv'
    BY <1>1, RegKeep, RegMessages DEF OpenLink, threadVars, CoreInv, RegEntryInv
  <2>2. ASSUME NEW u \in Transports
        PROVE  (ThreadsInv(u) /\ RefsInv(u) /\ KickInv(u) /\ UsbInv(u))'
    <3> USE <1>1, <2>2 DEF OpenLink, threadVars, CoreInv, Threads
    <3>1. ThreadsInv(u)' BY DEF ThreadsInv, Started
    <3>2. RefsInv(u)' BY DEF RefsInv, Holds
    <3>3. KickInv(u)' BY DEF KickInv, ThreadsInv, Started
    <3>4. UsbInv(u)'
      BY TransportAssumption DEF UsbInv, IsUsb, KickInv, ThreadsInv, Started
    <3>5. QED
      BY <3>1, <3>2, <3>3, <3>4
  <2>3. QED
    BY <2>1, <2>2 DEF CoreInv
<1>2. CASE Register(t)
  <2>1. RegInv'
    <3> DEFINE m == [t |-> t, action |-> "add"]
    <3>1. m \in RegMessage /\ m.t = t /\ m.action = "add"
      BY RegMessages
    <3>2. \A i \in DOMAIN regPipe : regPipe[i].t # t
      BY <1>2, RegMessages DEF Register, CoreInv, RegInv, RegEntryInv
    <3>3. regPipe' = Append(regPipe, m)
      BY <1>2 DEF Register
    <3> HIDE DEF m
    <3>4. RegEntryInv(m)'
      BY <1>2, <3>1 DEF Register, RegEntryInv
    <3>5. \A n \in RegMessage : n.t # m.t /\ RegEntryInv(n) => RegEntryInv(n)'
      BY <1>2, <3>1, RegMessages DEF Register, threadVars, RegEntryInv
    <3>6. QED
      BY <3>1, <3>2, <3>3, <3>4, <3>5, RegWrite DEF CoreInv
  <2>2. ASSUME NEW u \in Transports
        PROVE  (ThreadsInv(u) /\ RefsInv(u) /\ KickInv(u) /\ UsbInv(u))'
    <3> USE <1>2, <2>2 DEF Register, threadVars, linkVars, CoreInv, Threads
    <3>1. ThreadsInv(u)' BY DEF ThreadsInv, Started
    <3>2. RefsInv(u)' BY DEF RefsInv, Holds
    <3>3. KickInv(u)' BY DEF KickInv
    <3>4. UsbInv(u)' BY DEF UsbInv, IsUsb
    <3>5. QED
      BY <3>1, <3>2, <3>3, <3>4
  <2>3. QED
    BY <2>1, <2>2 DEF CoreInv
<1>3. CASE RegisterDuplicate(t)
  <2>1. RegInv'
    BY <1>3, RegKeep, RegMessages DEF RegisterDuplicate, threadVars, CoreInv, RegEntryInv
  <2>2. ASSUME NEW u \in Transports
        PROVE  (ThreadsInv(u) /\ RefsInv(u) /\ KickInv(u) /\ UsbInv(u))'
    <3> USE <1>3, <2>2 DEF RegisterDuplicate, threadVars, linkVars, CoreInv, Threads
    <3>1. ThreadsInv(u)' BY DEF ThreadsInv, Started
    <3>2. RefsInv(u)' BY DEF RefsInv, Holds
    <3>3. KickInv(u)' BY DEF KickInv
    <3>4. UsbInv(u)' BY DEF UsbInv, IsUsb, SerialTaken
    <3>5. QED
      BY <3>1, <3>2, <3>3, <3>4
  <2>3. QED
    BY <2>1, <2>2 DEF CoreInv
<1>4. QED
  BY <1>1, <1>2, <1>3 DEF AcceptStep

LEMMA CoreRegister ==
  ASSUME TypeOK, CoreInv, NEW t \in Transports, RegStep(t) PROVE CoreInv'
<1>a. TypeReg /\ list \in [Transports -> ListState]
  BY DEF TypeOK, TypeReg
<1> USE <1>a DEF TypeOK, TypeThreads, TypeLinks
<1>2. CASE RegAdd(t)
  <2>1. Head(regPipe).t = t /\ Head(regPipe).action = "add"
    BY <1>2 DEF RegAdd
  <2>2. list[t] = "pending"
    BY <1>2, <2>1, RegHead DEF RegAdd, CoreInv, RegEntryInv
  <2>3. RegInv'
    <3>1. \A n \in RegMessage : n.t # t /\ RegEntryInv(n) => RegEntryInv(n)'
      BY <1>2, RegMessages DEF RegAdd, RegEntryInv
    <3>2. QED
      BY <1>2, <2>1, <3>1, RegRead DEF RegAdd, CoreInv
  <2>4. ASSUME NEW u \in Transports
        PROVE  (ThreadsInv(u) /\ RefsInv(u) /\ KickInv(u) /\ UsbInv(u))'
    <3> USE <1>2, <2>2, <2>4 DEF RegAdd, linkVars, CoreInv, Threads
    <3>1. ThreadsInv(u)' BY DEF ThreadsInv, Started
    <3>2. RefsInv(u)'
      <4>1. CASE u = t
        <5>1. refCount'[u] = 2 /\ pc'[u]["out"] = "sync" /\ pc'[u]["in"] = "loop"
          BY <4>1
        <5>2. QED
          BY <5>1 DEF RefsInv, Holds
      <4>2. CASE u # t
        <5>1. refCount'[u] = refCount[u] /\ pc'[u] = pc[u]
          BY <4>2
        <5>2. RefsInv(u)
          OBVIOUS
        <5>3. QED
          BY <5>1, <5>2 DEF RefsInv, Holds
      <4>3. QED
        BY <4>1, <4>2
    <3>3. KickInv(u)' BY DEF KickInv, ThreadsInv, Started
    <3>4. UsbInv(u)' BY DEF UsbInv, IsUsb
    <3>5. QED
      BY <3>1, <3>2, <3>3, <3>4
  <2>5. QED
    BY <2>3, <2>4 DEF CoreInv
<1>3. CASE RegRemove(t)
  <2>1. Head(regPipe).t = t /\ Head(regPipe).action = "remove"
    BY <1>3 DEF RegRemove
  <2>2. list[t] = "listed" /\ \A th \in Threads : pc[t][th] = "done"
    BY <1>3, <2>1, RegHead DEF RegRemove, CoreInv, RegEntryInv
  <2>3. RegInv'
    <3>1. \A n \in RegMessage : n.t # t /\ RegEntryInv(n) => RegEntryInv(n)'
      BY <1>3, RegMessages DEF RegRemove, threadVars, RegEntryInv
    <3>2. QED
      BY <1>3, <2>1, <3>1, RegRead DEF RegRemove, CoreInv
  <2>4. ASSUME NEW u \in Transports
        PROVE  (ThreadsInv(u) /\ RefsInv(u) /\ KickInv(u) /\ UsbInv(u))'
    <3> USE <1>3, <2>2, <2>4 DEF RegRemove, threadVars, linkVars, CoreInv, Threads
    <3>1. ThreadsInv(u)' BY DEF ThreadsInv, Started
    <3>2. RefsInv(u)' BY DEF RefsInv, Holds
    <3>3. KickInv(u)' BY DEF KickInv
    <3>4. UsbInv(u)' BY DEF UsbInv, IsUsb
    <3>5. QED
      BY <3>1, <3>2, <3>3, <3>4
  <2>5. QED
    BY <2>3, <2>4 DEF CoreInv
<1>4. QED
  BY <1>2, <1>3 DEF RegStep

LEMMA CoreExit ==
  ASSUME TypeOK, CoreInv, NEW t \in Transports, NEW th \in Threads, ExitStep(t, th)
  PROVE  CoreInv'
<1>a. TypeReg /\ list \in [Transports -> ListState]
  BY DEF TypeOK, TypeReg
<1> USE <1>a DEF TypeOK, TypeThreads, TypeLinks
<1>1. CASE Kick(t, th)
  <2>1. RegInv'
    BY <1>1, RegKeep, RegMessages DEF Kick, regVars, CoreInv, RegEntryInv
  <2>2. ASSUME NEW u \in Transports
        PROVE  (ThreadsInv(u) /\ RefsInv(u) /\ KickInv(u) /\ UsbInv(u))'
    <3> USE <1>1, <2>2 DEF Kick, regVars, linkVars, CoreInv, Threads
    <3>1. ThreadsInv(u)' BY DEF ThreadsInv, Started
    <3>2. RefsInv(u)'
      <4>1. /\ refCount'[u] = refCount[u]
            /\ \A o \in Threads : pc'[u][o] \in {"off", "done"} <=> pc[u][o] \in {"off", "done"}
        OBVIOUS
      <4>2. RefsInv(u)
        OBVIOUS
      <4>3. QED
        BY <4>1, <4>2 DEF RefsInv, Holds
    <3>3. KickInv(u)'
      <4>1. CASE u # t
        BY <4>1 DEF KickInv
      <4>2. CASE u = t /\ kicked[t]
        <5>1. pc' = [pc EXCEPT ![t][th] = "unref"]
          BY <4>2
        <5>2. \A o \in Threads : pc'[u][o] = IF o = th THEN "unref" ELSE pc[u][o]
          BY <4>2, <5>1
        <5>3. kicked'[u] /\ kicked[u] /\ kicks'[u] = kicks[u] /\ link'[u] = link[u]
          BY <4>2
        <5>4. QED
          BY <4>2, <5>2, <5>3 DEF KickInv
      <4>3. CASE u = t /\ ~kicked[t]
        <5>1. pc' = [pc EXCEPT ![t][th] = "dokick"]
          BY <4>3
        <5>2. \A o \in Threads : pc'[u][o] = IF o = th THEN "dokick" ELSE pc[u][o]
          BY <4>3, <5>1
        <5>3. kicked'[u] /\ kicks'[u] = kicks[u]
          BY <4>3
        <5>4. kicks[u] = 0 /\ \A o \in Threads : pc[u][o] \notin {"dokick", "unref", "done"}
          BY <4>3 DEF KickInv
        <5>5. pc[u][th] = "kick"
          BY <4>3
        <5>6. \A o \in Threads :
                /\ pc'[u][o] = "dokick" => o = th
                /\ pc'[u][o] \notin {"unref", "done"}
                /\ pc'[u][o] = "off" => pc[u][o] = "off"
          BY <5>2, <5>4
        <5>7. \A o \in Threads : pc[u][o] # "off"
          BY <5>5, <4>3 DEF ThreadsInv
        <5>8. QED
          BY <5>2, <5>3, <5>4, <5>6, <5>7 DEF KickInv
      <4>4. QED
        BY <4>1, <4>2, <4>3
    <3>4. UsbInv(u)' BY DEF UsbInv, IsUsb
    <3>5. QED
      BY <3>1, <3>2, <3>3, <3>4
  <2>3. QED
    BY <2>1, <2>2 DEF CoreInv
<1>2. CASE DoKick(t, th)
  <2>1. RegInv'
    BY <1>2, RegKeep, RegMessages DEF DoKick, regVars, CoreInv, RegEntryInv
  <2>2. kicks[t] = 0 /\ list[t] = "listed" /\ kicked[t]
    BY <1>2 DEF DoKick, CoreInv, KickInv, ThreadsInv, Started, Threads, ListState
  <2>3. IsUsb(t) => usbFd = t
    BY <2>2 DEF CoreInv, UsbInv
  <2>4. /\ link' = [link EXCEPT ![t] = "closed"]
        /\ usbFd' = IF IsUsb(t) THEN NoTransport ELSE usbFd
    BY <1>2, <2>3 DEF DoKick, CloseLink
  <2>5. ASSUME NEW u \in Transports
        PROVE  (ThreadsInv(u) /\ RefsInv(u) /\ KickInv(u) /\ UsbInv(u))'
    <3> USE <1>2, <2>2, <2>3, <2>4, <2>5 DEF DoKick, regVars, CoreInv, Threads
    <3>1. ThreadsInv(u)' BY DEF ThreadsInv, Started
    <3>2. RefsInv(u)' BY DEF RefsInv, Holds
    <3>3. KickInv(u)' BY DEF KickInv
    <3>4. UsbInv(u)' BY TransportAssumption, SMTT(30) DEF UsbInv, IsUsb
    <3>5. QED
      BY <3>1, <3>2, <3>3, <3>4
  <2>6. QED
    BY <2>1, <2>5 DEF CoreInv
<1>3. CASE Unref(t, th)
  <2>1. /\ list[t] = "listed" /\ kicked[t]
        /\ \A o \in Threads : pc[t][o] # "off"
    BY <1>3 DEF Unref, CoreInv, KickInv, ThreadsInv, Started, Threads, ListState
  <2>2. /\ UNCHANGED <<list, kicks, link, usbFd>>
        /\ \A u \in Transports : kicked'[u] = kicked[u]
    BY <1>3, <2>1 DEF Unref, LastUnref
  <2>3. ASSUME refCount[t] = 1 PROVE RegInv'
    <3>1. \A o \in Threads : o # th => pc[t][o] = "done"
      BY <1>3, <2>1, <2>3 DEF Unref, CoreInv, RefsInv, Holds, Threads
    <3> DEFINE m == [t |-> t, action |-> "remove"]
    <3>2. m \in RegMessage /\ m.t = t /\ m.action = "remove"
      BY RegMessages
    <3>3. regPipe' = Append(regPipe, m)
      BY <1>3, <2>3 DEF Unref, LastUnref
    <3> HIDE DEF m
    <3>4. \A i \in DOMAIN regPipe : regPipe[i].t # t
      BY <1>3, <2>1, RegMessages DEF Unref, CoreInv, RegInv, RegEntryInv
    <3>5. RegEntryInv(m)'
      BY <1>3, <2>1, <2>2, <3>1, <3>2 DEF Unref, RegEntryInv
    <3>6. \A n \in RegMessage : n.t # m.t /\ RegEntryInv(n) => RegEntryInv(n)'
      BY <1>3, <2>2, <3>2, RegMessages DEF Unref, RegEntryInv
    <3>7. QED
      BY <3>2, <3>3, <3>4, <3>5, <3>6, RegWrite DEF CoreInv
  <2>4. ASSUME refCount[t] # 1 PROVE RegInv'
    BY <1>3, <2>1, <2>2, <2>4, RegKeep, RegMessages DEF Unref, CoreInv, RegEntryInv
  <2>5. RegInv'
    BY <2>3, <2>4
  <2>6. ASSUME NEW u \in Transports
        PROVE  (ThreadsInv(u) /\ RefsInv(u) /\ KickInv(u) /\ UsbInv(u))'
    <3> USE <1>3, <2>1, <2>2, <2>6 DEF Unref, CoreInv, Threads
    <3>1. ThreadsInv(u)' BY DEF ThreadsInv, Started
    <3>2. RefsInv(u)' BY DEF RefsInv, Holds
    <3>3. KickInv(u)' BY DEF KickInv
    <3>4. UsbInv(u)' BY DEF UsbInv, IsUsb
    <3>5. QED
      BY <3>1, <3>2, <3>3, <3>4
  <2>7. QED
    BY <2>5, <2>6 DEF CoreInv
<1>4. QED
  BY <1>1, <1>2, <1>3 DEF ExitStep

\* Threads, references, kicks and registrations agree after every step.
LEMMA CoreNext == TypeOK /\ CoreInv /\ [Next]_vars => CoreInv'
BY OtherStepsAreQuiet, CoreQuiet, CoreAccept, CoreRegister, CoreExit

-----------------------------------------------------------------------------
(* The handshake through the queues.                                       *)

LEMMA Sync0Append ==
  ASSUME NEW S, NEW q \in Seq(S), NEW p
  PROVE  /\ HasSync0(Append(q, p)) <=> HasSync0(q) \/ p.cmd = "SYNC0"
         /\ ~HasSync0(q) => Sync0Last(Append(q, p))
<1>1. \A i \in DOMAIN Append(q, p) :
        Append(q, p)[i] = IF i = Len(q) + 1 THEN p ELSE q[i]
  OBVIOUS
<1>2. DOMAIN Append(q, p) = DOMAIN q \cup {Len(q) + 1} /\ Len(Append(q, p)) = Len(q) + 1
  OBVIOUS
<1>3. Len(q) + 1 \notin DOMAIN q
  OBVIOUS
<1>4. HasSync0(Append(q, p)) <=> HasSync0(q) \/ p.cmd = "SYNC0"
  BY <1>1, <1>2, <1>3 DEF HasSync0
<1>5. ~HasSync0(q) => Sync0Last(Append(q, p))
  BY <1>1, <1>2 DEF HasSync0, Sync0Last
<1>6. QED
  BY <1>4, <1>5

LEMMA Sync0Tail ==
  ASSUME NEW S, NEW q \in Seq(S), q # <<>>
  PROVE  /\ HasSync0(Tail(q)) => HasSync0(q)
         /\ Head(q).cmd = "SYNC0" => HasSync0(q)
         /\ Sync0Last(q) => Sync0Last(Tail(q))
         /\ Sync0Last(q) /\ Head(q).cmd = "SYNC0" => Tail(q) = <<>>
<1>1. /\ 1 \in DOMAIN q /\ Head(q) = q[1] /\ Len(Tail(q)) = Len(q) - 1
      /\ \A i \in DOMAIN Tail(q) :
           i \in Nat /\ i + 1 \in DOMAIN q /\ Tail(q)[i] = q[i + 1]
  OBVIOUS
<1>2. HasSync0(Tail(q)) => HasSync0(q)
  BY <1>1 DEF HasSync0
<1>3. Head(q).cmd = "SYNC0" => HasSync0(q)
  BY <1>1 DEF HasSync0
<1>4. Sync0Last(q) => Sync0Last(Tail(q))
  BY <1>1 DEF Sync0Last
<1>5. Sync0Last(q) /\ Head(q).cmd = "SYNC0" => Tail(q) = <<>>
  BY <1>1 DEF Sync0Last
<1>6. QED
  BY <1>2, <1>3, <1>4, <1>5

\* What main posts is never SYNC(0,0).
LEMMA Sync0Post ==
  ASSUME TypeQueues, NEW t \in Transports, NEW n \in Nat, Post(t, n), NEW u \in Transports
  PROVE  HasSync0(toInput'[u]) => HasSync0(toInput[u])
<1> DEFINE Sent == [i \in 1..n |-> Packet("MSG", sent[t] + i)]
<1>1. toInput[u] \in Seq(InputPacket) /\ toInput \in [Transports -> Seq(InputPacket)]
  BY DEF TypeQueues
<1>2. DOMAIN Sent = 1..n /\ \A i \in 1..n : Sent[i].cmd = "MSG"
  BY DEF Packet
<1>3. Sent \in Seq([cmd : {"MSG"}, arg : Nat])
  <2>1. \A i \in 1..n : Packet("MSG", sent[t] + i) \in [cmd : {"MSG"}, arg : Nat]
    BY DEF TypeQueues, Packet
  <2>2. QED
    BY <2>1
<1>4. toInput'[u] = toInput[u] \/ toInput'[u] = toInput[u] \o Sent
  BY <1>1 DEF Post
<1> HIDE DEF Sent
<1>5. ASSUME HasSync0(toInput[u] \o Sent) PROVE HasSync0(toInput[u])
  <2>1. PICK i \in DOMAIN (toInput[u] \o Sent) : (toInput[u] \o Sent)[i].cmd = "SYNC0"
    BY <1>5 DEF HasSync0
  <2>2. Len(Sent) \in Nat /\ Len(toInput[u]) \in Nat /\ i \in 1..(Len(toInput[u]) + Len(Sent))
    BY <1>1, <1>3
  <2>3. \/ i \in DOMAIN toInput[u] /\ (toInput[u] \o Sent)[i] = toInput[u][i]
        \/ /\ (i - Len(toInput[u])) \in DOMAIN Sent
           /\ (toInput[u] \o Sent)[i] = Sent[i - Len(toInput[u])]
    BY <1>1, <1>3, <2>2
  <2>4. QED
    BY <1>2, <2>1, <2>3 DEF HasSync0
<1>6. QED
  BY <1>4, <1>5

BeforeKick(t) == pc[t]["out"] \in {"off", "sync", "loop"}

\* A step that adds no packet to toMain[u] and no SYNC(0,0) to toInput[u].
LEMMA SyncKeep ==
  ASSUME TypeQueues, NEW u \in Transports, SyncInv(u),
         BeforeKick(u)' => BeforeKick(u),
         PastLoop(u)' => PastLoop(u) \/ HasSync0(toInput[u]),
         BeforeKick(u)' => ~PastLoop(u)',
         HasSync0(toInput'[u]) => HasSync0(toInput[u]),
         \/ toMain'[u] = toMain[u]
         \/ toMain[u] # <<>> /\ toMain'[u] = Tail(toMain[u]),
         toMain[u] = <<>> /\ ~online[u] /\ streams[u] = 0 => ~online'[u] /\ streams'[u] = 0
  PROVE  SyncInv(u)'
<1>1. toMain[u] \in Seq(MainPacket)
  BY DEF TypeQueues
<1>2. /\ HasSync0(toMain'[u]) => HasSync0(toMain[u])
      /\ Sync0Last(toMain[u]) => Sync0Last(toMain'[u])
  BY <1>1, Sync0Tail
<1>3. HasSync0(toInput'[u]) \/ PastLoop(u)' =>
        toMain'[u] = <<>> /\ ~online'[u] /\ streams'[u] = 0
  BY DEF SyncInv
<1>4. BeforeKick(u)' => ~HasSync0(toMain'[u]) /\ ~HasSync0(toInput'[u]) /\ ~PastLoop(u)'
  BY <1>2 DEF SyncInv, BeforeKick
<1>5. Sync0Last(toMain'[u])
  BY <1>2 DEF SyncInv
<1>6. QED
  BY <1>3, <1>4, <1>5 DEF SyncInv, BeforeKick, HasSync0, Sync0Last

\* The output thread adds a packet: SYNC(0,0) only as it leaves its loop.
LEMMA SyncOutput ==
  ASSUME TypeQueues, NEW u \in Transports, SyncInv(u), BeforeKick(u), NEW p,
         toMain'[u] = Append(toMain[u], p),
         p.cmd = "SYNC0" => ~BeforeKick(u)',
         pc'[u]["in"] = pc[u]["in"],
         toInput'[u] = toInput[u]
  PROVE  SyncInv(u)'
<1>1. toMain[u] \in Seq(MainPacket)
  BY DEF TypeQueues
<1>2. /\ HasSync0(toMain'[u]) <=> HasSync0(toMain[u]) \/ p.cmd = "SYNC0"
      /\ ~HasSync0(toMain[u]) => Sync0Last(toMain'[u])
  BY <1>1, Sync0Append
<1>3. ~HasSync0(toMain[u]) /\ ~HasSync0(toInput[u]) /\ ~PastLoop(u)
  BY DEF SyncInv, BeforeKick
<1>4. ~PastLoop(u)' /\ ~HasSync0(toInput'[u])
  BY <1>3 DEF PastLoop
<1>5. BeforeKick(u)' => ~HasSync0(toMain'[u])
  BY <1>2, <1>3
<1>6. Sync0Last(toMain'[u])
  BY <1>2, <1>3
<1>7. QED
  BY <1>4, <1>5, <1>6 DEF SyncInv, BeforeKick, HasSync0, Sync0Last

\* A step that leaves everything SyncInv(u) looks at as it is.
LEMMA SyncSame ==
  ASSUME NEW u \in Transports, SyncInv(u), pc'[u] = pc[u], toMain'[u] = toMain[u],
         toInput'[u] = toInput[u], online'[u] = online[u], streams'[u] = streams[u]
  PROVE  SyncInv(u)'
BY DEF SyncInv, PastLoop, HasSync0, Sync0Last

LEMMA SyncOutStep ==
  ASSUME TypeOK, NEW t \in Transports, OutStep(t), NEW u \in Transports, SyncInv(u)
  PROVE  SyncInv(u)'
<1> USE DEF TypeOK, TypeThreads, Threads
<1>a. toMain \in [Transports -> Seq(MainPacket)]
  BY DEF TypeQueues
<1>1. CASE u # t
  <2>1. /\ pc'[u] = pc[u] /\ toMain'[u] = toMain[u]
        /\ UNCHANGED <<toInput, online, streams>>
    BY <1>1, <1>a DEF OutStep, OutSync, OutRead, OutReadFails, OutReadCorrupt, OutOffline,
       threadVars, connVars, socketVars
  <2>2. QED
    BY <2>1, SyncSame
<1>2. CASE u = t
  <2>1. /\ BeforeKick(u) /\ pc'[u]["in"] = pc[u]["in"]
        /\ UNCHANGED <<toInput, online, streams>>
    BY <1>2 DEF OutStep, OutSync, OutRead, OutReadFails, OutReadCorrupt, OutOffline,
       threadVars, connVars, socketVars, BeforeKick
  <2>2. \E p : /\ toMain'[u] = Append(toMain[u], p)
               /\ p.cmd = "SYNC0" => ~BeforeKick(u)'
    <3>1. CASE OutSync(t)
      <4>1. toMain'[u] = Append(toMain[u], Packet("SYNC1", syncToken[t] + 1))
        BY <1>2, <1>a, <3>1 DEF OutSync
      <4>2. Packet("SYNC1", syncToken[t] + 1).cmd = "SYNC1"
        BY DEF Packet
      <4>3. QED
        BY <4>1, <4>2
    <3>2. CASE OutRead(t)
      <4>1. PICK cmd \in HostCommands : toMain'[u] = Append(toMain[u], Packet(cmd, 0))
        BY <1>2, <1>a, <3>2 DEF OutRead
      <4>2. Packet(cmd, 0).cmd = cmd /\ cmd # "SYNC0"
        BY DEF Packet, HostCommands
      <4>3. QED
        BY <4>1, <4>2
    <3>3. CASE OutOffline(t)
      BY <1>2, <1>a, <3>3 DEF OutOffline, BeforeKick
    <3>4. QED
      BY <3>1, <3>2, <3>3 DEF OutStep, OutReadFails, OutReadCorrupt
  <2>3. QED
    BY <2>1, <2>2, SyncOutput
<1>3. QED
  BY <1>1, <1>2

LEMMA SyncInStep ==
  ASSUME TypeOK, CoreInv, NEW t \in Transports, InStep(t), NEW u \in Transports, SyncInv(u)
  PROVE  SyncInv(u)'
<1> USE DEF TypeOK, TypeThreads, Threads
<1>a. toInput \in [Transports -> Seq(InputPacket)] /\ streams \in [Transports -> Nat]
  BY DEF TypeQueues, TypeSockets
<1>1. CASE InTake(t) /\ UNCHANGED <<toMain, online, streams>>
  <2>1. toInput' = [toInput EXCEPT ![t] = Tail(@)] /\ toInput[t] # <<>> /\ pc[t]["in"] = "loop"
    BY <1>1 DEF InTake
  <2>2. HasSync0(toInput'[u]) => HasSync0(toInput[u])
    BY <1>a, <2>1, Sync0Tail
  <2>3. CASE InSyncOffline(t)
    <3>1. Head(toInput[t]).cmd = "SYNC0" => HasSync0(toInput[t])
      BY <1>a, <2>1, Sync0Tail
    <3>2. PastLoop(u)' => PastLoop(u) \/ HasSync0(toInput[u])
      BY <2>3, <3>1 DEF InSyncOffline, PastLoop
    <3>3. BeforeKick(u)' => BeforeKick(u)
      BY <2>3 DEF InSyncOffline, BeforeKick
    <3>4. BeforeKick(u) => ~PastLoop(u) /\ ~HasSync0(toInput[u])
      BY DEF SyncInv, BeforeKick
    <3>5. QED
      BY <1>1, <2>2, <3>2, <3>3, <3>4, SyncKeep
  <2>4. CASE InSyncOnline(t) \/ InWrite(t)
    <3>1. pc' = pc
      BY <2>4 DEF InSyncOnline, InWrite, threadVars
    <3>2. BeforeKick(u) => ~PastLoop(u)
      BY DEF SyncInv, BeforeKick
    <3>3. QED
      BY <1>1, <2>2, <3>1, <3>2, SyncKeep DEF BeforeKick, PastLoop
  <2>5. CASE InCloseAll(t)
    BY <2>1, <2>5 DEF InCloseAll
  <2>6. QED
    BY <2>3, <2>4, <2>5 DEF InStep
<1>2. CASE InCloseAll(t)
  <2>1. HasSync0(toInput'[u]) => HasSync0(toInput[u])
    BY <1>2, <1>a, Sync0Post DEF InCloseAll
  <2>2. /\ pc[t]["in"] = "closeall" /\ pc' = [pc EXCEPT ![t]["in"] = "kick"]
        /\ streams' = [streams EXCEPT ![t] = 0] /\ UNCHANGED <<toMain, online>>
    BY <1>2 DEF InCloseAll, connVars
  <2>3. PastLoop(u)' => PastLoop(u)
    BY <2>2 DEF PastLoop
  <2>4. BeforeKick(u)' => BeforeKick(u)
    BY <2>2 DEF BeforeKick
  <2>5. BeforeKick(u) => ~PastLoop(u)
    BY DEF SyncInv, BeforeKick
  <2>6. streams[u] = 0 => streams'[u] = 0
    BY <1>a, <2>2
  <2>7. QED
    BY <2>1, <2>2, <2>3, <2>4, <2>5, <2>6, SyncKeep
<1>3. QED
  BY <1>1, <1>2 DEF InStep, InSyncOffline, InSyncOnline, InWrite, connVars, socketVars

LEMMA SyncExitStep ==
  ASSUME TypeOK, NEW t \in Transports, NEW th \in Threads, ExitStep(t, th),
         NEW u \in Transports, SyncInv(u)
  PROVE  SyncInv(u)'
<1>1. UNCHANGED <<toMain, toInput, online, streams>>
  BY DEF ExitStep, Kick, DoKick, Unref, connVars, socketVars, queueVars
<1>2. /\ pc[t][th] \in {"kick", "dokick", "unref"}
      /\ \E l \in {"dokick", "unref", "done"} : pc' = [pc EXCEPT ![t][th] = l]
  BY DEF ExitStep, Kick, DoKick, Unref
<1>3. /\ PastLoop(u)' => PastLoop(u)
      /\ BeforeKick(u)' => BeforeKick(u)
  BY <1>2 DEF PastLoop, BeforeKick, TypeOK, TypeThreads, Threads
<1>4. BeforeKick(u) => ~PastLoop(u)
  BY DEF SyncInv, BeforeKick
<1>5. QED
  BY <1>1, <1>3, <1>4, SyncKeep DEF TypeOK

LEMMA SyncRegStep ==
  ASSUME TypeOK, CoreInv, NEW t \in Transports, RegStep(t), NEW u \in Transports, SyncInv(u)
  PROVE  SyncInv(u)'
<1>1. UNCHANGED <<toMain, toInput, online>>
  BY DEF RegStep, RegAdd, RegRemove, connVars, queueVars
<1>2. streams[u] = 0 => streams'[u] = 0
  BY DEF RegStep, RegAdd, RegRemove, RunDisconnects, socketVars, TypeOK, TypeSockets
<1>3. CASE RegAdd(t)
  <2>1. Head(regPipe).t = t /\ Head(regPipe).action = "add" /\ regPipe # <<>>
    BY <1>3 DEF RegAdd
  <2>2. list[t] = "pending"
    BY <2>1, RegHead DEF TypeOK, CoreInv, RegEntryInv
  <2>3. \A th \in Threads : pc[t][th] = "off"
    BY <2>2 DEF CoreInv, ThreadsInv, Started
  <2>4. pc' = [pc EXCEPT ![t] = [th \in Threads |-> IF th = "out" THEN "sync" ELSE "loop"]]
    BY <1>3 DEF RegAdd
  <2>5. /\ PastLoop(u)' => PastLoop(u)
        /\ BeforeKick(u)' => BeforeKick(u)
    BY <2>3, <2>4 DEF PastLoop, BeforeKick, TypeOK, TypeThreads, Threads
  <2>6. BeforeKick(u) => ~PastLoop(u)
    BY DEF SyncInv, BeforeKick
  <2>7. QED
    BY <1>1, <1>2, <2>5, <2>6, SyncKeep DEF TypeOK
<1>4. CASE RegRemove(t)
  <2>1. pc' = pc
    BY <1>4 DEF RegRemove, threadVars
  <2>2. BeforeKick(u) => ~PastLoop(u)
    BY DEF SyncInv, BeforeKick
  <2>3. QED
    BY <1>1, <1>2, <2>1, <2>2, SyncKeep DEF TypeOK, PastLoop, BeforeKick
<1>5. QED
  BY <1>3, <1>4 DEF RegStep

LEMMA SyncHandleStep ==
  ASSUME TypeOK, NEW t \in Transports, HandleStep(t), NEW u \in Transports, SyncInv(u)
  PROVE  SyncInv(u)'
<1>a. /\ toMain \in [Transports -> Seq(MainPacket)]
      /\ toInput \in [Transports -> Seq(InputPacket)]
      /\ streams \in [Transports -> Nat]
      /\ online \in [Transports -> BOOLEAN]
  BY DEF TypeOK, TypeQueues, TypeSockets, TypeConns
<1>1. PICK cmds : Handle(t, cmds)
  BY DEF HandleStep, HandleSyncOnline, HandleSyncOffline, HandleConnect, HandleOffline,
     OnlineStep, HandleOpen, HandleOpenReverse, HandleReady, HandleClose, HandleWrite,
     HandleOnline
<1>2. /\ toMain[t] # <<>>
      /\ toMain' = [toMain EXCEPT ![t] = Tail(@)]
  BY <1>1 DEF Handle
<1>3. pc' = pc
  BY DEF HandleStep, HandleSyncOnline, HandleSyncOffline, HandleConnect, HandleOffline,
     OnlineStep, HandleOpen, HandleOpenReverse, HandleReady, HandleClose, HandleWrite,
     onlineFrame, handleFrame, threadVars
<1>4. BeforeKick(u) => ~PastLoop(u)
  BY DEF SyncInv, BeforeKick
<1>5. CASE u # t
  <2>1. online'[u] = online[u] /\ streams'[u] = streams[u]
    BY <1>5, <1>a DEF HandleStep, HandleSyncOnline, HandleSyncOffline, HandleConnect,
       HandleOffline, OnlineStep, HandleOpen, HandleOpenReverse, HandleReady, HandleClose,
       HandleWrite, CloseStream, RunDisconnects, onlineFrame, connVars, socketVars
  <2>2. toInput'[u] = toInput[u]
    BY <1>5, <1>a DEF HandleStep, HandleSyncOnline, HandleSyncOffline, HandleConnect,
       HandleOffline, OnlineStep, HandleOpen, HandleOpenReverse, HandleReady, HandleClose,
       HandleWrite, CloseStream, Post
  <2>3. toMain'[u] = toMain[u]
    BY <1>5, <1>a, <1>2
  <2>4. QED
    BY <1>3, <2>1, <2>2, <2>3, SyncSame
<1>6. CASE u = t /\ HandleSyncOffline(t)
  <2>1. /\ Head(toMain[t]).cmd = "SYNC0"
        /\ online' = [online EXCEPT ![t] = FALSE]
        /\ streams' = [streams EXCEPT ![t] = 0]
    BY <1>6 DEF HandleSyncOffline, Handle, RunDisconnects
  <2>2. HasSync0(toMain[t]) /\ (Sync0Last(toMain[t]) => Tail(toMain[t]) = <<>>)
    BY <1>a, <1>2, <2>1, Sync0Tail
  <2>3. toMain'[t] = <<>> /\ ~BeforeKick(t)
    BY <1>6, <1>a, <1>2, <2>2 DEF SyncInv, BeforeKick
  <2>4. ~online'[t] /\ streams'[t] = 0
    BY <1>a, <2>1
  <2>5. Sync0Last(toMain'[t])
    BY <2>3 DEF Sync0Last
  <2>6. QED
    BY <1>3, <1>6, <2>3, <2>4, <2>5 DEF SyncInv, BeforeKick, PastLoop, HasSync0, Sync0Last
<1>7. CASE u = t /\ HandleSyncOnline(t)
  <2>1. /\ Head(toMain[t]).cmd = "SYNC1" /\ UNCHANGED <<online, streams>>
        /\ toInput' = [toInput EXCEPT ![t] = Append(@, Head(toMain[t]))]
    BY <1>7 DEF HandleSyncOnline, Handle, connVars, socketVars
  <2>2. HasSync0(toInput'[t]) => HasSync0(toInput[t])
    BY <1>a, <2>1, Sync0Append
  <2>3. QED
    BY <1>2, <1>3, <1>4, <1>7, <1>a, <2>1, <2>2, SyncKeep DEF TypeOK, BeforeKick, PastLoop
<1>8. CASE u = t /\ (HandleConnect(t) \/ HandleOffline(t) \/ OnlineStep(t))
  <2>1. HasSync0(toInput'[t]) => HasSync0(toInput[t])
    <3>1. Post(t, 1) \/ toInput' = toInput
      BY <1>8 DEF HandleConnect, HandleOffline, OnlineStep, HandleOpen, HandleOpenReverse,
         HandleReady, HandleClose, HandleWrite, CloseStream
    <3>2. QED
      BY <3>1, Sync0Post DEF TypeOK
  <2>2. QED
    BY <1>2, <1>3, <1>4, <1>8, <1>a, <2>1, SyncKeep DEF TypeOK, BeforeKick, PastLoop
<1>9. QED
  BY <1>5, <1>6, <1>7, <1>8 DEF HandleStep

LEMMA SyncOtherStep ==
  ASSUME TypeOK, NEW t \in Transports,
         AcceptStep(t) \/ BreakLink(t) \/ LocalStep(t) \/ ReverseStep,
         NEW u \in Transports, SyncInv(u)
  PROVE  SyncInv(u)'
<1>1. UNCHANGED <<pc, toMain, online>>
  BY DEF AcceptStep, OpenLink, Register, RegisterDuplicate, BreakLink, LocalStep, StreamSend,
     StreamEnd, ListenerAccept, localFrame, ReverseStep, ReverseAcquire, ReverseInstall,
     revFrame, threadVars, connVars, queueVars
<1>2. HasSync0(toInput'[u]) => HasSync0(toInput[u])
  <2>1. Post(t, 1) \/ toInput' = toInput
    BY DEF AcceptStep, OpenLink, Register, RegisterDuplicate, BreakLink, LocalStep, StreamSend,
       StreamEnd, ListenerAccept, CloseStream, ReverseStep, ReverseAcquire, ReverseInstall,
       revFrame, queueVars
  <2>2. QED
    BY <2>1, Sync0Post DEF TypeOK
<1>3. streams[u] = 0 => streams'[u] = 0
  BY DEF AcceptStep, OpenLink, Register, RegisterDuplicate, BreakLink, LocalStep, StreamSend,
     StreamEnd, ListenerAccept, CloseStream, ReverseStep, ReverseAcquire, ReverseInstall,
     revFrame, socketVars, TypeOK, TypeSockets
<1>4. BeforeKick(u) => ~PastLoop(u)
  BY DEF SyncInv, BeforeKick
<1>5. QED
  BY <1>1, <1>2, <1>3, <1>4, SyncKeep DEF TypeOK, BeforeKick, PastLoop

LEMMA SyncNext ==
  ASSUME TypeOK, CoreInv, [Next]_vars, NEW u \in Transports, SyncInv(u)
  PROVE  SyncInv(u)'
<1>1. CASE UNCHANGED vars
  BY <1>1, SyncSame DEF vars, threadVars, connVars, socketVars, queueVars
<1>2. CASE Next
  BY <1>2, SyncOtherStep, SyncOutStep, SyncInStep, SyncExitStep, SyncRegStep,
     SyncHandleStep DEF Next
<1>3. QED
  BY <1>1, <1>2

-----------------------------------------------------------------------------
(* The theorems.                                                           *)

\* The invariant the theorems below rest on: the three threads' handshake over
\* the socket pair, the reference count, the kick and the registration socket.
THEOREM HandshakeInvariant == Spec => []HandshakeInv
<1>1. Init => HandshakeInv
  <2>1. ASSUME Init, NEW t \in Transports PROVE SyncInv(t)
    BY <2>1 DEF Init, SyncInv, PastLoop, HasSync0, Sync0Last, Threads
  <2>2. QED
    BY <2>1, TypeInit, CoreInit DEF HandshakeInv, CoreInv
<1>2. HandshakeInv /\ [Next]_vars => HandshakeInv'
  BY TypeNext, HeldReference, CoreNext, SyncNext DEF HandshakeInv, CoreInv
<1>3. QED
  BY <1>1, <1>2, PTL DEF Spec

\* Every variable keeps its type: no thread releases a reference it does not hold.
THEOREM TypeCorrect == Spec => []TypeOK
<1>1. HandshakeInv => TypeOK
  BY DEF HandshakeInv
<1>2. QED
  BY <1>1, HandshakeInvariant, PTL

\* transport_registration_func never removes a transport one of whose threads
\* still runs, nor one whose connection was not kicked exactly once.
THEOREM ClosedAfterThreadsExitHolds == Spec => []ClosedAfterThreadsExit
<1>1. HandshakeInv => ClosedAfterThreadsExit
  <2> SUFFICES ASSUME HandshakeInv, NEW t \in Transports, RemovalQueued(t) \/ list[t] = "freed"
               PROVE  /\ \A th \in Threads : pc[t][th] = "done"
                      /\ kicks[t] = 1
                      /\ link[t] = "closed"
    BY DEF ClosedAfterThreadsExit
  <2>1. \A th \in Threads : pc[t][th] = "done"
    BY DEF HandshakeInv, RemovalQueued, RegInv, RegEntryInv, ThreadsInv
  <2>2. QED
    BY <2>1 DEF HandshakeInv, KickInv, Threads
<1>2. QED
  BY <1>1, HandshakeInvariant, PTL

\* When input_thread leaves its loop, main has handled every packet of the host
\* and closed every stream.
THEOREM QuietWhenInputExitsHolds == Spec => []QuietWhenInputExits
<1>1. HandshakeInv => QuietWhenInputExits
  BY DEF HandshakeInv, SyncInv, QuietWhenInputExits
<1>2. QED
  BY <1>1, HandshakeInvariant, PTL

\* A step that closes a connection is t->kick, called for that connection's own
\* transport: usb_kick never closes the file the USB thread opened afterwards.
THEOREM KickClosesOwnLinkHolds == Spec => KickClosesOwnLink
<1> DEFINE Own == \A t \in Transports : link[t] # "closed" /\ link'[t] = "closed" =>
                    \E th \in Threads : pc[t][th] = "dokick" /\ pc'[t][th] = "unref"
<1>1. HandshakeInv /\ [Next]_vars => Own
  <2> SUFFICES ASSUME HandshakeInv, [Next]_vars,
                      NEW t \in Transports, link[t] # "closed", link'[t] = "closed"
               PROVE  \E th \in Threads : pc[t][th] = "dokick" /\ pc'[t][th] = "unref"
    OBVIOUS
  <2>1. TypeOK /\ CoreInv
    BY DEF HandshakeInv, CoreInv
  <2>2. link \in [Transports -> LinkState] /\ pc \in [Transports -> [Threads -> Location]]
    BY <2>1 DEF TypeOK, TypeLinks, TypeThreads
  <2>3. PICK u \in Transports :
          AcceptStep(u) \/ RegStep(u) \/ \E th \in Threads : ExitStep(u, th)
    BY <2>1, OtherStepsAreQuiet DEF QuietStep
  <2>4. ~AcceptStep(u) /\ ~RegStep(u)
    BY <2>2 DEF AcceptStep, OpenLink, Register, RegisterDuplicate, RegStep, RegAdd,
       RegRemove, linkVars
  <2>5. PICK th \in Threads : ExitStep(u, th)
    BY <2>3, <2>4
  <2>6. ~Kick(u, th)
    BY DEF Kick, linkVars
  <2>7. ~Unref(u, th)
    BY <2>1 DEF Unref, LastUnref, CoreInv, KickInv
  <2>8. DoKick(u, th)
    BY <2>5, <2>6, <2>7 DEF ExitStep
  <2>9. kicks[u] = 0 /\ list[u] = "listed"
    BY <2>1, <2>8 DEF DoKick, CoreInv, KickInv, ThreadsInv, Started
  <2>10. link' = [link EXCEPT ![u] = "closed"]
    BY <2>1, <2>2, <2>8, <2>9 DEF DoKick, CloseLink, CoreInv, UsbInv
  <2>11. t = u
    BY <2>2, <2>10
  <2>12. QED
    BY <2>2, <2>8, <2>11 DEF DoKick
<1>2. HandshakeInv /\ [Next]_vars => [Own]_vars
  BY <1>1
<1> HIDE DEF Own
<1>3. Spec => [][Own]_vars
  BY <1>2, HandshakeInvariant, PTL DEF Spec
<1>4. QED
  BY <1>3 DEF Own, KickClosesOwnLink

-----------------------------------------------------------------------------
(* What main queues for the host: it is not discarded before the host's    *)
(* connection is told of, and arrives in order.                            *)

Msg(n) == Packet("MSG", n)
SyncToken(t) == Packet("SYNC1", syncToken[t])

\* What lets main queue a packet for t, now or after a step of the reverse service.
MayPost(t) ==
  \/ online[t] \/ conn[t] # "offline" \/ streams[t] > 0 \/ opening[t] > 0 \/ listener[t]
  \/ revJob = "holding" /\ revTarget = t

\* The output thread has not posted its SYNC(1, token) yet.
Waits(t) == pc[t]["out"] \in {"off", "sync"}

\* The input thread writes, or will once it has taken the token.
Told(t) == active[t] \/ \E i \in DOMAIN toInput[t] : toInput[t][i] = SyncToken(t)
Ready(t) == ~ Waits(t) /\ (pc[t]["in"] = "loop" => Told(t))

\* The token is the first packet of the output thread, and main queues nothing before it.
TokenInv(t) ==
  /\ Waits(t) => toMain[t] = <<>> /\ toInput[t] = <<>> /\ ~ MayPost(t) /\ ~ active[t]
  /\ \A i \in DOMAIN toMain[t] : toMain[t][i].cmd = "SYNC1" => toMain[t][i] = SyncToken(t)
  /\ \A i \in DOMAIN toInput[t] : toInput[t][i].cmd = "SYNC1" => toInput[t][i] = SyncToken(t)
  /\ ~ Waits(t) => Ready(t) \/ (toMain[t] # <<>> /\ Head(toMain[t]).cmd = "SYNC1")
  /\ MayPost(t) => Ready(t)
  /\ pc[t]["in"] = "loop" /\ ~ active[t] =>
       \A i \in DOMAIN toInput[t] : toInput[t][i].cmd = "MSG" =>
         \E j \in DOMAIN toInput[t] : j < i /\ toInput[t][j] = SyncToken(t)

\* k packets of t have arrived, and while its link is up those that follow are in the queue.
Arrived(t, k) ==
  /\ k <= sent[t]
  /\ \A i \in DOMAIN delivered[t] : delivered[t][i].src = t => delivered[t][i].num \in 1 .. k
  /\ \A n \in 1 .. k : \E i \in DOMAIN delivered[t] : delivered[t][i] = [src |-> t, num |-> n]
  /\ \A i \in DOMAIN toInput[t] : toInput[t][i].cmd = "MSG" => toInput[t][i].arg > k
  /\ link[t] \in {"none", "up"} /\ pc[t]["in"] \in {"off", "loop"} =>
       \A n \in k + 1 .. sent[t] : \E i \in DOMAIN toInput[t] : toInput[t][i] = Msg(n)

OrderInv(t) ==
  /\ \A i, j \in DOMAIN delivered[t] :
       i < j /\ delivered[t][i].src = t /\ delivered[t][j].src = t =>
         delivered[t][i].num < delivered[t][j].num
  /\ \A i, j \in DOMAIN toInput[t] :
       i < j /\ toInput[t][i].cmd = "MSG" /\ toInput[t][j].cmd = "MSG" =>
         toInput[t][i].arg < toInput[t][j].arg
  /\ \A i \in DOMAIN toInput[t] : toInput[t][i].cmd = "MSG" => toInput[t][i].arg \in 1 .. sent[t]
  /\ \E k \in Nat : Arrived(t, k)

LinkInv(t) == list[t] = "none" <=> link[t] = "none"

\* Only the descriptor of the USB sessions leads to another host.
OwnInv(t) == \A i \in DOMAIN delivered[t] : delivered[t][i].src = t \/ IsUsb(t)

DeliveryInv == \A t \in Transports : TokenInv(t) /\ OrderInv(t) /\ LinkInv(t) /\ OwnInv(t)

LEMMA QueueAppend ==
  ASSUME NEW S, NEW q \in Seq(S), NEW p
  PROVE  /\ \A i \in DOMAIN q : i \in Nat /\ i < Len(q) + 1 /\ i \in DOMAIN Append(q, p)
                                /\ Append(q, p)[i] = q[i]
         /\ \A i \in DOMAIN Append(q, p) : i \in DOMAIN q \/ i = Len(q) + 1
         /\ Len(q) + 1 \in DOMAIN Append(q, p) /\ Append(q, p)[Len(q) + 1] = p
         /\ Len(q) + 1 \in Nat /\ Len(q) + 1 \notin DOMAIN q
  OBVIOUS

LEMMA QueueTail ==
  ASSUME NEW S, NEW q \in Seq(S), q # <<>>
  PROVE  /\ \A i \in DOMAIN Tail(q) : i \in Nat /\ i + 1 \in DOMAIN q /\ Tail(q)[i] = q[i + 1]
         /\ \A i \in DOMAIN q : i # 1 => i - 1 \in DOMAIN Tail(q) /\ Tail(q)[i - 1] = q[i]
         /\ 1 \in DOMAIN q /\ Head(q) = q[1]
         /\ \A i \in DOMAIN q : i \in Nat /\ i >= 1
<1>1. /\ Len(q) \in Nat /\ Len(q) # 0 /\ DOMAIN q = 1 .. Len(q)
      /\ Len(Tail(q)) = Len(q) - 1 /\ DOMAIN Tail(q) = 1 .. Len(q) - 1
  OBVIOUS
<1>2. \A i \in 1 .. Len(q) - 1 : Tail(q)[i] = q[i + 1]
  OBVIOUS
<1>3. Head(q) = q[1]
  OBVIOUS
<1>4. \A i \in DOMAIN Tail(q) : i \in Nat /\ i + 1 \in DOMAIN q /\ Tail(q)[i] = q[i + 1]
  BY <1>1, <1>2
<1>5. \A i \in DOMAIN q : i # 1 => i - 1 \in DOMAIN Tail(q) /\ Tail(q)[i - 1] = q[i]
  <2> SUFFICES ASSUME NEW i \in DOMAIN q, i # 1
               PROVE  i - 1 \in DOMAIN Tail(q) /\ Tail(q)[i - 1] = q[i]
    OBVIOUS
  <2>1. i - 1 \in 1 .. Len(q) - 1 /\ (i - 1) + 1 = i
    BY <1>1
  <2> QED
    BY <1>1, <1>2, <2>1
<1>6. 1 \in DOMAIN q /\ \A i \in DOMAIN q : i \in Nat /\ i >= 1
  BY <1>1
<1> QED
  BY <1>3, <1>4, <1>5, <1>6, Zenon

\* Queue r is queue q with the messages s + 1 .. s + n after it.
Grows(q, r, s, n) ==
  /\ \A i \in DOMAIN q : i \in DOMAIN r /\ r[i] = q[i]
  /\ \A i \in DOMAIN r : i \in DOMAIN q \/ \E k \in 1 .. n : i = Len(q) + k /\ r[i] = Msg(s + k)
  /\ \A k \in 1 .. n : Len(q) + k \in DOMAIN r /\ r[Len(q) + k] = Msg(s + k)

LEMMA GrowsConcat ==
  ASSUME NEW S, NEW q \in Seq(S), NEW s \in Nat, NEW n \in Nat,
         \A k \in 1 .. n : Msg(s + k) \in S
  PROVE  Grows(q, q \o [i \in 1 .. n |-> Msg(s + i)], s, n)
<1> DEFINE m == [i \in 1 .. n |-> Msg(s + i)]
<1>1. m \in Seq(S) /\ Len(m) = n /\ DOMAIN m = 1 .. n
  <2>1. m \in [1 .. n -> S]
    OBVIOUS
  <2> QED
    BY <2>1
<1>2. \A k \in 1 .. n : m[k] = Msg(s + k)
  OBVIOUS
<1> HIDE DEF m
<1>3. /\ Len(q) \in Nat /\ DOMAIN q = 1 .. Len(q)
      /\ DOMAIN (q \o m) = 1 .. Len(q) + n
      /\ \A i \in 1 .. Len(q) + n : (q \o m)[i] = IF i <= Len(q) THEN q[i] ELSE m[i - Len(q)]
  BY <1>1
<1>4. \A i \in DOMAIN q : i \in DOMAIN (q \o m) /\ (q \o m)[i] = q[i]
  BY <1>3
<1>5. \A k \in 1 .. n : Len(q) + k \in DOMAIN (q \o m) /\ (q \o m)[Len(q) + k] = Msg(s + k)
  <2> SUFFICES ASSUME NEW k \in 1 .. n
               PROVE  Len(q) + k \in DOMAIN (q \o m) /\ (q \o m)[Len(q) + k] = Msg(s + k)
    OBVIOUS
  <2>1. Len(q) + k \in 1 .. Len(q) + n /\ ~ (Len(q) + k <= Len(q)) /\ Len(q) + k - Len(q) = k
    BY <1>3
  <2> QED
    BY <1>2, <1>3, <2>1
<1>6. ASSUME NEW i \in DOMAIN (q \o m), i \notin DOMAIN q
      PROVE  \E k \in 1 .. n : i = Len(q) + k /\ (q \o m)[i] = Msg(s + k)
  <2>1. i - Len(q) \in 1 .. n /\ i = Len(q) + (i - Len(q))
    BY <1>3, <1>6
  <2> QED
    BY <1>5, <2>1
<1>7. Grows(q, q \o m, s, n)
  BY <1>4, <1>5, <1>6 DEF Grows
<1> QED
  BY <1>7 DEF m

LEMMA PostGrows ==
  ASSUME TypeQueues, NEW t \in Transports, NEW n \in Nat, Post(t, n), NEW u \in Transports
  PROVE  \/ toInput'[u] = toInput[u] /\ sent'[u] = sent[u]
         \/ u = t /\ Grows(toInput[u], toInput'[u], sent[u], n) /\ sent'[u] = sent[u] + n
<1>1. /\ toInput \in [Transports -> Seq(InputPacket)] /\ sent \in [Transports -> Nat]
      /\ sent[t] \in Nat /\ toInput[t] \in Seq(InputPacket)
  BY DEF TypeQueues
<1>2. \A k \in 1 .. n : Msg(sent[t] + k) \in InputPacket
  BY <1>1, PacketType DEF Msg
<1>3. Grows(toInput[t], toInput[t] \o [i \in 1 .. n |-> Msg(sent[t] + i)], sent[t], n)
  BY <1>1, <1>2, GrowsConcat
<1>4. sent' = [sent EXCEPT ![t] = sent[t] + n]
  BY DEF Post
<1>5. CASE u # t
  <2>1. toInput'[u] = toInput[u]
    BY <1>1, <1>5 DEF Post
  <2> QED
    BY <1>1, <1>4, <1>5, <2>1
<1>6. CASE u = t /\ n = 0
  BY <1>1, <1>4, <1>6 DEF Post
<1>7. CASE u = t /\ n # 0
  <2>1. toInput' = [toInput EXCEPT ![t] =
                      toInput[t] \o [i \in 1 .. n |-> Packet("MSG", sent[t] + i)]]
    BY <1>7 DEF Post
  <2>2. toInput'[t] = toInput[t] \o [i \in 1 .. n |-> Msg(sent[t] + i)]
    BY <1>1, <2>1 DEF Msg
  <2> QED
    BY <1>1, <1>3, <1>4, <1>7, <2>2
<1> QED
  BY <1>5, <1>6, <1>7

\* Queue r is queue q with packets after it, which are the token or no SYNC(1, token).
Extended(q, r, token) ==
  /\ \A i \in DOMAIN q : i \in DOMAIN r /\ r[i] = q[i]
  /\ \A i \in DOMAIN r : \/ i \in DOMAIN q
                         \/ /\ \A j \in DOMAIN q : j < i
                            /\ r[i].cmd = "SYNC1" => r[i] = token

LEMMA GrowsExtends ==
  ASSUME NEW S, NEW q \in Seq(S), NEW r, NEW s \in Nat, NEW n \in Nat, Grows(q, r, s, n), NEW token
  PROVE  Extended(q, r, token)
<1>1. DOMAIN q = 1 .. Len(q) /\ Len(q) \in Nat
  OBVIOUS
<1>2. \A k \in 1 .. n : \A j \in DOMAIN q : j < Len(q) + k
  BY <1>1
<1>3. \A k : Msg(k).cmd = "MSG"
  BY DEF Msg, Packet
<1> QED
  BY <1>2, <1>3 DEF Grows, Extended

LEMMA AppendExtends ==
  ASSUME NEW S, NEW q \in Seq(S), NEW p, NEW token, p.cmd = "SYNC1" => p = token
  PROVE  Extended(q, Append(q, p), token)
BY QueueAppend DEF Extended

\* A step that leaves the token alone, and lets main post only where it is Ready.
LEMMA TokenKeep ==
  ASSUME TypeQueues, NEW u \in Transports, TokenInv(u),
         Waits(u)' <=> Waits(u), syncToken'[u] = syncToken[u], active'[u] = active[u],
         pc'[u]["in"] = "loop" => pc[u]["in"] = "loop",
         \/ toMain'[u] = toMain[u]
         \/ /\ toMain[u] # <<>> /\ toMain'[u] = Tail(toMain[u])
            /\ Head(toMain[u]).cmd # "SYNC1"
         \/ ~ Waits(u) /\ \E p : toMain'[u] = Append(toMain[u], p) /\ p.cmd # "SYNC1",
         \/ toInput'[u] = toInput[u]
         \/ Ready(u) /\ Extended(toInput[u], toInput'[u], SyncToken(u)),
         MayPost(u)' => Ready(u)
  PROVE  TokenInv(u)' /\ (Ready(u) => Ready(u)')
<1>1. toMain[u] \in Seq(MainPacket) /\ toInput[u] \in Seq(InputPacket)
  BY DEF TypeQueues
<1>2. SyncToken(u)' = SyncToken(u)
  BY DEF SyncToken
<1>3. \A i \in DOMAIN toInput[u] : i \in DOMAIN toInput'[u] /\ toInput'[u][i] = toInput[u][i]
  BY DEF Extended
<1>4. Told(u) => Told(u)'
  BY <1>2, <1>3 DEF Told
<1>5. Ready(u) => Ready(u)'
  BY <1>4 DEF Ready
<1>6. CASE Waits(u)
  <2>1. ~ Ready(u)
    BY <1>6 DEF Ready
  <2>2. toMain[u] = <<>> /\ toInput[u] = <<>> /\ ~ active[u]
    BY <1>6 DEF TokenInv
  <2>3. toMain'[u] = <<>> /\ toInput'[u] = <<>> /\ ~ active'[u] /\ ~ MayPost(u)' /\ Waits(u)'
    BY <1>6, <2>1, <2>2
  <2> QED
    BY <2>1, <2>3 DEF TokenInv
<1>7. CASE ~ Waits(u)
  <2>1. \A i \in DOMAIN toMain'[u] : toMain'[u][i].cmd = "SYNC1" => toMain'[u][i] = SyncToken(u)
    <3>1. CASE toMain'[u] = toMain[u]
      BY <3>1 DEF TokenInv
    <3>2. CASE toMain[u] # <<>> /\ toMain'[u] = Tail(toMain[u])
      BY <1>1, <3>2, QueueTail DEF TokenInv
    <3>3. ASSUME NEW p, toMain'[u] = Append(toMain[u], p), p.cmd # "SYNC1"
          PROVE  \A i \in DOMAIN toMain'[u] :
                   toMain'[u][i].cmd = "SYNC1" => toMain'[u][i] = SyncToken(u)
      BY <1>1, <3>3, QueueAppend DEF TokenInv
    <3> QED
      BY <3>1, <3>2, <3>3
  <2>2. \A i \in DOMAIN toInput'[u] : toInput'[u][i].cmd = "SYNC1" => toInput'[u][i] = SyncToken(u)
    BY DEF TokenInv, Extended
  <2>3. Ready(u)' \/ (toMain'[u] # <<>> /\ Head(toMain'[u]).cmd = "SYNC1")
    <3>1. Ready(u) \/ (toMain[u] # <<>> /\ Head(toMain[u]).cmd = "SYNC1")
      BY <1>7 DEF TokenInv
    <3>2. ASSUME NEW p, toMain'[u] = Append(toMain[u], p), toMain[u] # <<>>
          PROVE  toMain'[u] # <<>> /\ Head(toMain'[u]) = Head(toMain[u])
      BY <1>1, <3>2
    <3> QED
      BY <1>5, <3>1, <3>2
  <2>4. ASSUME pc'[u]["in"] = "loop", ~ active'[u],
               NEW i \in DOMAIN toInput'[u], toInput'[u][i].cmd = "MSG"
        PROVE  \E j \in DOMAIN toInput'[u] : j < i /\ toInput'[u][j] = SyncToken(u)
    <3>1. pc[u]["in"] = "loop" /\ ~ active[u]
      BY <2>4
    <3>2. CASE i \in DOMAIN toInput[u]
      <4>1. toInput[u][i].cmd = "MSG"
        BY <1>3, <2>4, <3>2
      <4>2. PICK j \in DOMAIN toInput[u] : j < i /\ toInput[u][j] = SyncToken(u)
        BY <3>1, <3>2, <4>1 DEF TokenInv
      <4> QED
        BY <1>3, <4>2
    <3>3. CASE i \notin DOMAIN toInput[u]
      <4>1. Ready(u) /\ Extended(toInput[u], toInput'[u], SyncToken(u))
        BY <2>4, <3>3
      <4>2. PICK j \in DOMAIN toInput[u] : toInput[u][j] = SyncToken(u)
        BY <3>1, <4>1 DEF Ready, Told
      <4>3. j < i
        BY <2>4, <3>3, <4>1 DEF Extended
      <4> QED
        BY <1>3, <4>2, <4>3
    <3> QED
      BY <3>2, <3>3
  <2> QED
    BY <1>2, <1>5, <1>7, <2>1, <2>2, <2>3, <2>4 DEF TokenInv
<1> QED
  BY <1>5, <1>6, <1>7

\* A step of another transport.
LEMMA TokenSame ==
  ASSUME TypeQueues, NEW u \in Transports, TokenInv(u),
         pc'[u] = pc[u], syncToken'[u] = syncToken[u], active'[u] = active[u],
         toMain'[u] = toMain[u], toInput'[u] = toInput[u], MayPost(u)' => MayPost(u)
  PROVE  TokenInv(u)'
<1>1. (Waits(u)' <=> Waits(u)) /\ (MayPost(u)' => Ready(u))
  BY DEF Waits, TokenInv
<1> QED
  BY <1>1, TokenKeep

\* A transport whose output thread has not posted yet.
LEMMA TokenWaiting ==
  ASSUME NEW u \in Transports, TokenInv(u), Waits(u), Waits(u)', active'[u] = active[u],
         toMain'[u] = toMain[u], toInput'[u] = toInput[u], MayPost(u)' => MayPost(u)
  PROVE  TokenInv(u)'
<1>1. toMain'[u] = <<>> /\ toInput'[u] = <<>> /\ ~ active'[u] /\ ~ MayPost(u)'
  BY DEF TokenInv
<1> QED
  BY <1>1 DEF TokenInv

\* The input thread takes a packet: after it, it writes or has left its loop.
LEMMA TokenTake ==
  ASSUME TypeQueues, NEW u \in Transports, TokenInv(u), toInput[u] # <<>>,
         toInput'[u] = Tail(toInput[u]), Waits(u)' <=> Waits(u), syncToken'[u] = syncToken[u],
         pc'[u]["in"] # "loop" \/ active'[u], toMain'[u] = toMain[u], MayPost(u)' => MayPost(u)
  PROVE  TokenInv(u)'
<1>1. toInput[u] \in Seq(InputPacket)
  BY DEF TypeQueues
<1>2. ~ Waits(u)
  BY DEF TokenInv
<1>3. SyncToken(u)' = SyncToken(u)
  BY DEF SyncToken
<1>4. \A i \in DOMAIN toInput'[u] : toInput'[u][i].cmd = "SYNC1" => toInput'[u][i] = SyncToken(u)
  BY <1>1, QueueTail DEF TokenInv
<1>5. Ready(u)'
  BY <1>2 DEF Ready, Told
<1> QED
  BY <1>2, <1>3, <1>4, <1>5 DEF TokenInv

TokenLeft(u) ==
  /\ pc'[u] = pc[u] /\ syncToken'[u] = syncToken[u] /\ active'[u] = active[u]
  /\ toMain'[u] = toMain[u] /\ toInput'[u] = toInput[u]

LEMMA TokenOutStep ==
  ASSUME TypeOK, NEW t \in Transports, OutStep(t), NEW u \in Transports, TokenInv(u)
  PROVE  TokenInv(u)'
<1>a. /\ toMain \in [Transports -> Seq(MainPacket)] /\ syncToken \in [Transports -> Nat]
      /\ pc \in [Transports -> [Threads -> Location]] /\ "out" \in Threads /\ "in" \in Threads
  BY DEF TypeOK, TypeQueues, TypeThreads, Threads
<1>b. /\ UNCHANGED <<toInput, active>> /\ (MayPost(u)' <=> MayPost(u))
      /\ pc'[u]["in"] = pc[u]["in"]
  BY <1>a DEF OutStep, OutSync, OutRead, OutReadFails, OutReadCorrupt, OutOffline, MayPost,
     threadVars, connVars, socketVars, revVars
<1>1. CASE u # t
  <2>1. TokenLeft(u)
    BY <1>1, <1>a, <1>b DEF OutStep, OutSync, OutRead, OutReadFails, OutReadCorrupt, OutOffline,
       threadVars, TokenLeft
  <2> QED
    BY <1>b, <2>1, TokenSame DEF TypeOK, TokenLeft
<1>2. CASE u = t /\ OutSync(t)
  <2>1. /\ Waits(u) /\ ~ Waits(u)' /\ syncToken'[u] = syncToken[u] + 1
        /\ toMain'[u] = Append(toMain[u], Packet("SYNC1", syncToken[u] + 1))
    BY <1>2, <1>a DEF OutSync, Waits
  <2>2. toMain[u] = <<>> /\ toInput'[u] = <<>> /\ ~ MayPost(u)'
    BY <1>b, <2>1 DEF TokenInv
  <2>3. SyncToken(u)' = Packet("SYNC1", syncToken[u] + 1)
    BY <2>1 DEF SyncToken
  <2>4. toMain'[u] = << SyncToken(u)' >>
    BY <2>1, <2>2, <2>3
  <2>5. SyncToken(u)'.cmd = "SYNC1"
    BY DEF SyncToken, Packet
  <2>6. toMain'[u] # <<>> /\ Head(toMain'[u]).cmd = "SYNC1"
    BY <2>4, <2>5
  <2>7. \A i \in DOMAIN toMain'[u] : toMain'[u][i] = SyncToken(u)'
    BY <2>4
  <2> QED
    BY <2>1, <2>2, <2>6, <2>7 DEF TokenInv
<1>3. CASE u = t /\ (OutRead(t) \/ OutOffline(t))
  <2>1. /\ ~ Waits(u) /\ ~ Waits(u)' /\ syncToken' = syncToken
    BY <1>3, <1>a DEF OutRead, OutOffline, Waits, threadVars
  <2>2. \E p : toMain'[u] = Append(toMain[u], p) /\ p.cmd # "SYNC1"
    <3>1. CASE OutRead(t)
      <4>1. PICK cmd \in HostCommands : toMain'[u] = Append(toMain[u], Packet(cmd, 0))
        BY <1>3, <1>a, <3>1 DEF OutRead
      <4>2. Packet(cmd, 0).cmd = cmd /\ cmd # "SYNC1"
        BY DEF Packet, HostCommands
      <4> QED
        BY <4>1, <4>2
    <3>2. CASE OutOffline(t)
      <4>1. Packet("SYNC0", 0).cmd # "SYNC1"
        BY DEF Packet
      <4> QED
        BY <1>3, <1>a, <3>2, <4>1 DEF OutOffline
    <3> QED
      BY <1>3, <3>1, <3>2
  <2>3. MayPost(u)' => Ready(u)
    BY <1>b DEF TokenInv
  <2> QED
    BY <1>b, <2>1, <2>2, <2>3, TokenKeep DEF TypeOK
<1> QED
  BY <1>1, <1>2, <1>3 DEF OutStep, OutReadFails, OutReadCorrupt

LEMMA TokenInStep ==
  ASSUME TypeOK, CoreInv, NEW t \in Transports, InStep(t),
         NEW u \in Transports, SyncInv(u), TokenInv(u)
  PROVE  TokenInv(u)'
<1>a. /\ toInput \in [Transports -> Seq(InputPacket)] /\ streams \in [Transports -> Nat]
      /\ opening \in [Transports -> Nat] /\ active \in [Transports -> BOOLEAN]
      /\ pc \in [Transports -> [Threads -> Location]] /\ "out" \in Threads /\ "in" \in Threads
      /\ toInput[u] \in Seq(InputPacket)
  BY DEF TypeOK, TypeQueues, TypeThreads, TypeSockets, Threads
<1>b. /\ UNCHANGED <<toMain, syncToken, online, conn, listener, revJob, revTarget>>
      /\ (Waits(u)' <=> Waits(u)) /\ (MayPost(u)' => MayPost(u))
  <2>1. UNCHANGED <<toMain, syncToken, online, conn, listener, revJob, revTarget>>
    BY DEF InStep, InSyncOffline, InSyncOnline, InWrite, InCloseAll, threadVars, connVars,
       socketVars, revVars
  <2>2. Waits(u)' <=> Waits(u)
    <3>1. pc' = pc \/ \E l : pc' = [pc EXCEPT ![t]["in"] = l]
      BY DEF InStep, InSyncOffline, InSyncOnline, InWrite, InCloseAll, threadVars
    <3>2. ASSUME NEW l, pc' = [pc EXCEPT ![t]["in"] = l] PROVE pc'[u]["out"] = pc[u]["out"]
      BY <1>a, <3>2
    <3> QED
      BY <3>1, <3>2 DEF Waits
  <2>3. (streams'[u] > 0 => streams[u] > 0) /\ (opening'[u] > 0 => opening[u] > 0)
    <3>1. CASE UNCHANGED <<streams, opening>>
      BY <3>1
    <3>2. CASE InCloseAll(t)
      BY <1>a, <3>2 DEF InCloseAll
    <3> QED
      BY <3>1, <3>2 DEF InStep, InSyncOffline, InSyncOnline, InWrite, socketVars
  <2> QED
    BY <2>1, <2>2, <2>3 DEF MayPost
<1>1. CASE u # t
  <2>1. TokenLeft(u)
    <3>1. toInput'[u] = toInput[u]
      BY <1>1, <1>a DEF InStep, InSyncOffline, InSyncOnline, InWrite, InCloseAll, InTake, Post
    <3> QED
      BY <1>1, <1>a, <1>b, <3>1 DEF InStep, InSyncOffline, InSyncOnline, InWrite, InCloseAll,
         threadVars, TokenLeft
  <2> QED
    BY <1>b, <2>1, TokenSame DEF TypeOK, TokenLeft
<1>2. CASE u = t /\ InTake(t) /\ (InSyncOffline(t) \/ InSyncOnline(t) \/ InWrite(t))
  <2>1. toInput[u] # <<>> /\ toInput'[u] = Tail(toInput[u]) /\ pc[u]["in"] = "loop"
    BY <1>2, <1>a DEF InTake
  <2>2. /\ 1 \in DOMAIN toInput[u] /\ Head(toInput[u]) = toInput[u][1]
        /\ \A i \in DOMAIN toInput[u] : i \in Nat /\ i >= 1
    BY <1>a, <2>1, QueueTail
  <2>3. pc'[u]["in"] # "loop" \/ active'[u]
    <3>1. CASE InSyncOffline(t)
      BY <1>2, <1>a, <3>1 DEF InSyncOffline
    <3>2. CASE InSyncOnline(t)
      <4>1. toInput[u][1] = SyncToken(u)
        BY <1>2, <2>2, <3>2 DEF InSyncOnline, TokenInv
      <4>2. Head(toInput[u]).arg = syncToken[u]
        BY <2>2, <4>1 DEF SyncToken, Packet
      <4> QED
        BY <1>2, <1>a, <3>2, <4>2 DEF InSyncOnline
    <3>3. CASE InWrite(t)
      <4>1. toInput[u][1].cmd = "MSG" /\ active' = active
        BY <1>2, <2>2, <3>3 DEF InWrite, threadVars
      <4>2. active[u] \/ \E j \in DOMAIN toInput[u] : j < 1
        BY <2>1, <2>2, <4>1 DEF TokenInv
      <4>3. ~ \E j \in DOMAIN toInput[u] : j < 1
        BY <2>2
      <4> QED
        BY <4>1, <4>2, <4>3
    <3> QED
      BY <1>2, <3>1, <3>2, <3>3
  <2> QED
    BY <1>b, <2>1, <2>3, TokenTake DEF TypeOK
<1>3. CASE u = t /\ InCloseAll(t)
  <2>1. /\ pc[u]["in"] = "closeall" /\ pc'[u]["in"] = "kick" /\ active' = active
    BY <1>3, <1>a DEF InCloseAll
  <2>2. ~ Waits(u)
    BY <2>1 DEF SyncInv, PastLoop, Waits
  <2>3. Ready(u)
    BY <2>1, <2>2 DEF Ready
  <2>4. toInput'[u] = toInput[u] \/ Extended(toInput[u], toInput'[u], SyncToken(u))
    <3>1. streams[t] \in Nat /\ Post(t, streams[t]) /\ sent[u] \in Nat
      BY <1>3, <1>a DEF InCloseAll, TypeOK, TypeQueues
    <3>2. toInput'[u] = toInput[u] \/ Grows(toInput[u], toInput'[u], sent[u], streams[t])
      BY <3>1, PostGrows DEF TypeOK
    <3> QED
      BY <1>a, <3>1, <3>2, GrowsExtends
  <2> QED
    BY <1>b, <2>1, <2>3, <2>4, TokenKeep DEF TypeOK
<1> QED
  BY <1>1, <1>2, <1>3 DEF InStep, InSyncOffline, InSyncOnline, InWrite

LEMMA TokenExitStep ==
  ASSUME TypeOK, NEW t \in Transports, NEW th \in Threads, ExitStep(t, th),
         NEW u \in Transports, TokenInv(u)
  PROVE  TokenInv(u)'
<1>1. /\ UNCHANGED <<toMain, toInput, syncToken, active>> /\ (MayPost(u)' <=> MayPost(u))
  BY DEF ExitStep, Kick, DoKick, Unref, MayPost, connVars, socketVars, queueVars, revVars
<1>2. /\ pc[t][th] \in {"kick", "dokick", "unref"}
      /\ \E l \in {"dokick", "unref", "done"} : pc' = [pc EXCEPT ![t][th] = l]
  BY DEF ExitStep, Kick, DoKick, Unref
<1>3. /\ Waits(u)' <=> Waits(u)
      /\ pc'[u]["in"] = "loop" => pc[u]["in"] = "loop"
  BY <1>2 DEF Waits, TypeOK, TypeThreads, Threads
<1>4. MayPost(u)' => Ready(u)
  BY <1>1 DEF TokenInv
<1> QED
  BY <1>1, <1>3, <1>4, TokenKeep DEF TypeOK

LEMMA TokenRegStep ==
  ASSUME TypeOK, CoreInv, NEW t \in Transports, RegStep(t), NEW u \in Transports, TokenInv(u)
  PROVE  TokenInv(u)'
<1>1. /\ UNCHANGED <<toMain, toInput, syncToken, active>> /\ (MayPost(u)' => MayPost(u))
  <2>1. UNCHANGED <<toMain, toInput, syncToken, active, online, conn, opening, revJob, revTarget>>
    BY DEF RegStep, RegAdd, RegRemove, RunDisconnects, connVars, socketVars, queueVars, revVars,
       threadVars
  <2>2. (streams'[u] > 0 => streams[u] > 0) /\ (listener'[u] => listener[u])
    <3>1. CASE UNCHANGED socketVars
      BY <3>1 DEF socketVars
    <3>2. CASE RunDisconnects(t)
      BY <3>2 DEF RunDisconnects, TypeOK, TypeSockets
    <3> QED
      BY <3>1, <3>2 DEF RegStep, RegAdd, RegRemove
  <2> QED
    BY <2>1, <2>2 DEF MayPost
<1>2. pc \in [Transports -> [Threads -> Location]] /\ "out" \in Threads /\ "in" \in Threads
  BY DEF TypeOK, TypeThreads, Threads
<1>3. CASE RegAdd(t) /\ u = t
  <2>1. Head(regPipe).t = t /\ Head(regPipe).action = "add" /\ regPipe # <<>>
    BY <1>3 DEF RegAdd
  <2>2. list[t] = "pending"
    BY <2>1, RegHead DEF TypeOK, CoreInv, RegEntryInv
  <2>3. pc[u]["out"] = "off"
    BY <1>2, <1>3, <2>2 DEF CoreInv, ThreadsInv, Started
  <2>4. pc'[u]["out"] = "sync"
    BY <1>2, <1>3 DEF RegAdd
  <2> QED
    BY <1>1, <2>3, <2>4, TokenWaiting DEF Waits
<1>4. CASE RegRemove(t) \/ u # t
  <2>1. pc'[u] = pc[u]
    BY <1>2, <1>4 DEF RegStep, RegAdd, RegRemove, threadVars
  <2> QED
    BY <1>1, <2>1, TokenSame DEF TypeOK
<1> QED
  BY <1>3, <1>4 DEF RegStep

LEMMA TokenHandleStep ==
  ASSUME TypeOK, NEW t \in Transports, HandleStep(t), NEW u \in Transports, TokenInv(u)
  PROVE  TokenInv(u)'
<1>a. /\ toMain \in [Transports -> Seq(MainPacket)] /\ toMain[u] \in Seq(MainPacket)
      /\ toInput \in [Transports -> Seq(InputPacket)] /\ toInput[u] \in Seq(InputPacket)
      /\ streams \in [Transports -> Nat] /\ opening \in [Transports -> Nat]
      /\ online \in [Transports -> BOOLEAN] /\ conn \in [Transports -> {"offline", "host"}]
      /\ listener \in [Transports -> BOOLEAN] /\ sent[u] \in Nat
  BY DEF TypeOK, TypeQueues, TypeSockets, TypeConns
<1>1. PICK cmds : Handle(t, cmds)
  BY DEF HandleStep, HandleSyncOnline, HandleSyncOffline, HandleConnect, HandleOffline,
     OnlineStep, HandleOpen, HandleOpenReverse, HandleReady, HandleClose, HandleWrite,
     HandleOnline
<1>2. toMain[t] # <<>> /\ toMain' = [toMain EXCEPT ![t] = Tail(@)]
  BY <1>1 DEF Handle
<1>3. UNCHANGED <<pc, syncToken, active, revTarget>> /\ (revJob' = "holding" => revJob = "holding")
  BY DEF HandleStep, HandleSyncOnline, HandleSyncOffline, HandleConnect, HandleOffline,
     OnlineStep, HandleOpen, HandleOpenReverse, HandleReady, HandleClose, HandleWrite,
     onlineFrame, handleFrame, threadVars, revVars
<1>5. CASE u # t
  <2>1. /\ online'[u] = online[u] /\ conn'[u] = conn[u] /\ streams'[u] = streams[u]
        /\ opening'[u] = opening[u] /\ listener'[u] = listener[u]
    BY <1>5, <1>a DEF HandleStep, HandleSyncOnline, HandleSyncOffline, HandleConnect,
       HandleOffline, OnlineStep, HandleOpen, HandleOpenReverse, HandleReady, HandleClose,
       HandleWrite, CloseStream, RunDisconnects, onlineFrame, connVars, socketVars
  <2>2. toInput'[u] = toInput[u]
    BY <1>5, <1>a DEF HandleStep, HandleSyncOnline, HandleSyncOffline, HandleConnect,
       HandleOffline, OnlineStep, HandleOpen, HandleOpenReverse, HandleReady, HandleClose,
       HandleWrite, CloseStream, Post
  <2>3. toMain'[u] = toMain[u] /\ (MayPost(u)' => MayPost(u))
    BY <1>5, <1>a, <1>2, <1>3, <2>1 DEF MayPost
  <2> QED
    BY <1>3, <2>2, <2>3, TokenSame DEF TypeOK
<1>6. CASE u = t /\ Head(toMain[t]).cmd # "SYNC1"
  <2>1. ~ Waits(u)
    BY <1>2, <1>6 DEF TokenInv
  <2>2. Ready(u)
    BY <1>6, <2>1 DEF TokenInv
  <2>3. ~ HandleSyncOnline(t)
    BY <1>6 DEF HandleSyncOnline, Handle
  <2>4. toInput'[u] = toInput[u] \/ Extended(toInput[u], toInput'[u], SyncToken(u))
    <3>1. Post(t, 1) \/ toInput' = toInput \/ HandleSyncOffline(t)
      BY <2>3 DEF HandleStep, HandleConnect, HandleOffline, OnlineStep, HandleOpen,
         HandleOpenReverse, HandleReady, HandleClose, HandleWrite, CloseStream
    <3>2. CASE Post(t, 1)
      <4>1. toInput'[u] = toInput[u] \/ Grows(toInput[u], toInput'[u], sent[u], 1)
        BY <3>2, PostGrows DEF TypeOK
      <4> QED
        BY <1>a, <4>1, GrowsExtends
    <3>3. CASE HandleSyncOffline(t)
      <4>1. toInput'[u] = Append(toInput[u], Head(toMain[t]))
        BY <1>6, <1>a, <3>3 DEF HandleSyncOffline
      <4> QED
        BY <1>6, <1>a, <4>1, AppendExtends
    <3> QED
      BY <3>1, <3>2, <3>3
  <2>5. toMain'[u] = Tail(toMain[u])
    BY <1>2, <1>6, <1>a
  <2>6. Waits(u)' <=> Waits(u)
    BY <1>3 DEF Waits
  <2> QED
    BY <1>2, <1>3, <1>6, <2>2, <2>4, <2>5, <2>6, TokenKeep DEF TypeOK
<1>7. CASE u = t /\ Head(toMain[t]).cmd = "SYNC1"
  <2>1. HandleSyncOnline(t)
    BY <1>7 DEF HandleStep, HandleSyncOffline, HandleConnect, HandleOffline, OnlineStep,
       HandleOpen, HandleOpenReverse, HandleReady, HandleClose, HandleWrite, HandleOnline, Handle,
       HostCommands
  <2>2. /\ toInput'[u] = Append(toInput[u], Head(toMain[u])) /\ toMain'[u] = Tail(toMain[u])
        /\ UNCHANGED <<online, conn, streams, opening, listener, revJob>>
    BY <1>2, <1>7, <1>a, <2>1 DEF HandleSyncOnline, connVars, socketVars, revVars
  <2>3. Head(toMain[u]) = SyncToken(u) /\ SyncToken(u)' = SyncToken(u)
    <3>1. 1 \in DOMAIN toMain[u] /\ Head(toMain[u]) = toMain[u][1]
      BY <1>2, <1>7, <1>a, QueueTail
    <3> QED
      BY <1>3, <1>7, <3>1 DEF TokenInv, SyncToken
  <2>4. ~ Waits(u) /\ ~ Waits(u)'
    BY <1>2, <1>3, <1>7 DEF TokenInv, Waits
  <2>5. /\ \A i \in DOMAIN toInput[u] : i \in DOMAIN toInput'[u] /\ toInput'[u][i] = toInput[u][i]
        /\ \A i \in DOMAIN toInput'[u] :
             i \in DOMAIN toInput[u] \/ toInput'[u][i] = SyncToken(u)
        /\ \E i \in DOMAIN toInput'[u] : toInput'[u][i] = SyncToken(u)
    <3>1. toInput'[u] = Append(toInput[u], SyncToken(u)) /\ toInput[u] \in Seq(InputPacket)
      BY <1>a, <2>2, <2>3
    <3>2. \A i \in DOMAIN toInput[u] : i \in DOMAIN toInput'[u] /\ toInput'[u][i] = toInput[u][i]
      BY <3>1, QueueAppend
    <3>3. /\ \A i \in DOMAIN toInput'[u] : i \in DOMAIN toInput[u] \/ i = Len(toInput[u]) + 1
          /\ Len(toInput[u]) + 1 \in DOMAIN toInput'[u]
          /\ toInput'[u][Len(toInput[u]) + 1] = SyncToken(u)
      BY <3>1, QueueAppend
    <3> QED
      BY <3>2, <3>3
  <2>6. Ready(u)'
    BY <2>3, <2>4, <2>5 DEF Ready, Told
  <2>7. \A i \in DOMAIN toMain'[u] : toMain'[u][i].cmd = "SYNC1" => toMain'[u][i] = SyncToken(u)
    BY <1>2, <1>7, <1>a, <2>2, QueueTail DEF TokenInv
  <2>8. SyncToken(u).cmd # "MSG"
    BY DEF SyncToken, Packet
  <2>9. ASSUME pc[u]["in"] = "loop", ~ active[u],
               NEW i \in DOMAIN toInput'[u], toInput'[u][i].cmd = "MSG"
        PROVE  \E j \in DOMAIN toInput'[u] : j < i /\ toInput'[u][j] = SyncToken(u)
    <3>1. i \in DOMAIN toInput[u] /\ toInput[u][i].cmd = "MSG"
      BY <2>5, <2>8, <2>9
    <3>2. PICK j \in DOMAIN toInput[u] : j < i /\ toInput[u][j] = SyncToken(u)
      BY <2>9, <3>1 DEF TokenInv
    <3> QED
      BY <2>5, <3>2
  <2>10. \A i \in DOMAIN toInput'[u] : toInput'[u][i].cmd = "SYNC1" => toInput'[u][i] = SyncToken(u)
    BY <2>5 DEF TokenInv
  <2> QED
    BY <1>3, <2>3, <2>4, <2>6, <2>7, <2>9, <2>10 DEF TokenInv
<1> QED
  BY <1>5, <1>6, <1>7

LEMMA TokenOtherStep ==
  ASSUME TypeOK, NEW t \in Transports,
         AcceptStep(t) \/ BreakLink(t) \/ LocalStep(t) \/ ReverseStep,
         NEW u \in Transports, TokenInv(u)
  PROVE  TokenInv(u)'
<1>a. /\ toInput \in [Transports -> Seq(InputPacket)] /\ toInput[u] \in Seq(InputPacket)
      /\ streams \in [Transports -> Nat] /\ opening \in [Transports -> Nat] /\ sent[u] \in Nat
      /\ listener \in [Transports -> BOOLEAN]
  BY DEF TypeOK, TypeQueues, TypeSockets
<1>1. UNCHANGED <<pc, toMain, online, conn, active, syncToken>>
  BY DEF AcceptStep, OpenLink, Register, RegisterDuplicate, BreakLink, LocalStep, StreamSend,
     StreamEnd, ListenerAccept, localFrame, ReverseStep, ReverseAcquire, ReverseInstall,
     revFrame, threadVars, connVars, queueVars
<1>2. CASE UNCHANGED <<toInput, streams, opening, listener, revVars>>
  BY <1>1, <1>2, TokenSame DEF TypeOK, MayPost, revVars
<1>3. CASE ReverseStep
  <2>1. UNCHANGED <<toInput, streams, opening>>
    BY <1>3 DEF ReverseStep, ReverseAcquire, ReverseInstall, revFrame, queueVars
  <2>2. MayPost(u)' => MayPost(u)
    <3>1. CASE ReverseAcquire
      <4>1. revJob' = "holding" /\ revTarget' = u => conn[u] # "offline"
        BY <3>1 DEF ReverseAcquire
      <4>2. listener' = listener
        BY <3>1 DEF ReverseAcquire
      <4> QED
        BY <1>1, <2>1, <4>1, <4>2 DEF MayPost
    <3>2. CASE ReverseInstall
      <4>1. /\ revJob = "holding" /\ revJob' = "done"
            /\ listener' = [listener EXCEPT ![revTarget] = TRUE]
        BY <3>2 DEF ReverseInstall
      <4>2. listener'[u] => listener[u] \/ revTarget = u
        BY <1>a, <4>1
      <4> QED
        BY <1>1, <2>1, <4>1, <4>2 DEF MayPost
    <3> QED
      BY <1>3, <3>1, <3>2 DEF ReverseStep
  <2> QED
    BY <1>1, <2>1, <2>2, TokenSame DEF TypeOK
<1>4. CASE LocalStep(t) /\ u # t
  <2>1. /\ toInput'[u] = toInput[u] /\ streams'[u] = streams[u] /\ opening'[u] = opening[u]
        /\ UNCHANGED <<listener, revVars>>
    BY <1>4, <1>a DEF LocalStep, StreamSend, StreamEnd, ListenerAccept, CloseStream, Post,
       localFrame
  <2> QED
    BY <1>1, <2>1, TokenSame DEF TypeOK, MayPost, revVars
<1>5. CASE LocalStep(t) /\ u = t
  <2>1. MayPost(u) /\ Post(t, 1)
    BY <1>5 DEF LocalStep, StreamSend, StreamEnd, ListenerAccept, CloseStream, MayPost
  <2>2. Ready(u)
    BY <2>1 DEF TokenInv
  <2>3. toInput'[u] = toInput[u] \/ Extended(toInput[u], toInput'[u], SyncToken(u))
    <3>1. toInput'[u] = toInput[u] \/ Grows(toInput[u], toInput'[u], sent[u], 1)
      BY <2>1, PostGrows DEF TypeOK
    <3> QED
      BY <1>a, <3>1, GrowsExtends
  <2>4. Waits(u)' <=> Waits(u)
    BY <1>1 DEF Waits
  <2> QED
    BY <1>1, <2>2, <2>3, <2>4, TokenKeep DEF TypeOK
<1>6. LocalStep(t) \/ ReverseStep \/ UNCHANGED <<toInput, streams, opening, listener, revVars>>
  BY DEF AcceptStep, OpenLink, Register, RegisterDuplicate, BreakLink, queueVars, socketVars
<1> QED
  BY <1>2, <1>3, <1>4, <1>5, <1>6

LEMMA TokenNext ==
  ASSUME TypeOK, CoreInv, [Next]_vars, NEW u \in Transports, SyncInv(u), TokenInv(u)
  PROVE  TokenInv(u)'
<1>1. CASE UNCHANGED vars
  BY <1>1, TokenSame DEF TypeOK, vars, threadVars, connVars, socketVars, queueVars, revVars,
     MayPost
<1>2. CASE Next
  BY <1>2, TokenOtherStep, TokenOutStep, TokenInStep, TokenExitStep, TokenRegStep,
     TokenHandleStep DEF Next
<1> QED
  BY <1>1, <1>2

-----------------------------------------------------------------------------
(* The order in which a host is served.                                    *)

\* Main adds to the queue, or nothing is added; no packet of u arrives.
LEMMA OrderKeep ==
  ASSUME TypeQueues, NEW u \in Transports, OrderInv(u), delivered'[u] = delivered[u],
         link'[u] \in {"none", "up"} => link[u] \in {"none", "up"},
         pc'[u]["in"] \in {"off", "loop"} => pc[u]["in"] \in {"off", "loop"},
         \/ toInput'[u] = toInput[u] /\ sent'[u] = sent[u]
         \/ \E n \in Nat : /\ Grows(toInput[u], toInput'[u], sent[u], n)
                           /\ sent'[u] = sent[u] + n
         \/ \E p : toInput'[u] = Append(toInput[u], p) /\ p.cmd # "MSG" /\ sent'[u] = sent[u]
  PROVE  OrderInv(u)'
<1>1. PICK k \in Nat : Arrived(u, k)
  BY DEF OrderInv
<1>2. toInput[u] \in Seq(InputPacket) /\ sent[u] \in Nat
  BY DEF TypeQueues
<1>3. CASE toInput'[u] = toInput[u] /\ sent'[u] = sent[u]
  <2>1. Arrived(u, k)'
    BY <1>1, <1>3 DEF Arrived
  <2> QED
    BY <1>3, <2>1 DEF OrderInv
<1>4. ASSUME NEW n \in Nat, Grows(toInput[u], toInput'[u], sent[u], n), sent'[u] = sent[u] + n
      PROVE  OrderInv(u)'
  <2>1. \A i \in DOMAIN toInput[u] : i \in DOMAIN toInput'[u] /\ toInput'[u][i] = toInput[u][i]
    BY <1>4 DEF Grows
  <2>2. ASSUME NEW i \in DOMAIN toInput'[u], i \notin DOMAIN toInput[u]
        PROVE  \E m \in 1 .. n : /\ i = Len(toInput[u]) + m
                                 /\ toInput'[u][i].arg = sent[u] + m
    <3>1. PICK m \in 1 .. n : i = Len(toInput[u]) + m /\ toInput'[u][i] = Msg(sent[u] + m)
      BY <1>4, <2>2 DEF Grows
    <3>2. Msg(sent[u] + m).arg = sent[u] + m
      BY DEF Msg, Packet
    <3> QED
      BY <3>1, <3>2
  <2>3. \A i \in DOMAIN toInput[u] : toInput[u][i].cmd = "MSG" => toInput[u][i].arg \in 1 .. sent[u]
    BY DEF OrderInv
  <2>4. DOMAIN toInput[u] = 1 .. Len(toInput[u]) /\ Len(toInput[u]) \in Nat
    BY <1>2
  <2>5. ASSUME NEW i \in DOMAIN toInput'[u], NEW j \in DOMAIN toInput'[u], i < j,
               toInput'[u][i].cmd = "MSG", toInput'[u][j].cmd = "MSG"
        PROVE  toInput'[u][i].arg < toInput'[u][j].arg
    <3>1. CASE i \in DOMAIN toInput[u] /\ j \in DOMAIN toInput[u]
      BY <2>1, <2>5, <3>1 DEF OrderInv
    <3>2. CASE i \in DOMAIN toInput[u] /\ j \notin DOMAIN toInput[u]
      <4>1. toInput'[u][i].arg \in 1 .. sent[u]
        BY <2>1, <2>3, <2>5, <3>2
      <4>2. PICK m \in 1 .. n : toInput'[u][j].arg = sent[u] + m
        BY <2>2, <3>2
      <4> QED
        BY <1>2, <4>1, <4>2
    <3>3. CASE i \notin DOMAIN toInput[u] /\ j \notin DOMAIN toInput[u]
      <4>1. PICK m \in 1 .. n : i = Len(toInput[u]) + m /\ toInput'[u][i].arg = sent[u] + m
        BY <2>2, <3>3
      <4>2. PICK l \in 1 .. n : j = Len(toInput[u]) + l /\ toInput'[u][j].arg = sent[u] + l
        BY <2>2, <3>3
      <4> QED
        BY <1>2, <2>4, <2>5, <4>1, <4>2
    <3>4. CASE i \notin DOMAIN toInput[u] /\ j \in DOMAIN toInput[u]
      <4>1. PICK m \in 1 .. n : i = Len(toInput[u]) + m
        BY <2>2, <3>4
      <4> QED
        BY <2>4, <2>5, <3>4, <4>1
    <3> QED
      BY <3>1, <3>2, <3>3, <3>4
  <2>6. ASSUME NEW i \in DOMAIN toInput'[u], toInput'[u][i].cmd = "MSG"
        PROVE  toInput'[u][i].arg \in 1 .. sent'[u] /\ toInput'[u][i].arg > k
    <3>1. k <= sent[u]
      BY <1>1 DEF Arrived
    <3>2. CASE i \in DOMAIN toInput[u]
      <4>1. toInput'[u][i].arg \in 1 .. sent[u] /\ toInput'[u][i].arg > k
        BY <1>1, <2>1, <2>3, <2>6, <3>2 DEF Arrived
      <4> QED
        BY <1>2, <1>4, <4>1
    <3>3. CASE i \notin DOMAIN toInput[u]
      <4>1. PICK m \in 1 .. n : toInput'[u][i].arg = sent[u] + m
        BY <2>2, <3>3
      <4> QED
        BY <1>2, <1>4, <3>1, <4>1
    <3> QED
      BY <3>2, <3>3
  <2>7. ASSUME link'[u] \in {"none", "up"}, pc'[u]["in"] \in {"off", "loop"},
               NEW x \in k + 1 .. sent'[u]
        PROVE  \E i \in DOMAIN toInput'[u] : toInput'[u][i] = Msg(x)
    <3>1. CASE x <= sent[u]
      <4>1. x \in k + 1 .. sent[u]
        BY <1>2, <1>4, <2>7, <3>1
      <4>2. PICK i \in DOMAIN toInput[u] : toInput[u][i] = Msg(x)
        BY <1>1, <2>7, <4>1 DEF Arrived
      <4> QED
        BY <2>1, <4>2
    <3>2. CASE ~ (x <= sent[u])
      <4>1. x - sent[u] \in 1 .. n /\ sent[u] + (x - sent[u]) = x
        BY <1>2, <1>4, <2>7, <3>2
      <4> QED
        BY <1>4, <4>1 DEF Grows
    <3> QED
      BY <3>1, <3>2
  <2>8. k <= sent'[u]
    BY <1>1, <1>2, <1>4 DEF Arrived
  <2>9. Arrived(u, k)'
    BY <1>1, <2>6, <2>7, <2>8 DEF Arrived
  <2> QED
    BY <2>5, <2>6, <2>9 DEF OrderInv
<1>5. ASSUME NEW p, toInput'[u] = Append(toInput[u], p), p.cmd # "MSG", sent'[u] = sent[u]
      PROVE  OrderInv(u)'
  <2>1. \A i \in DOMAIN toInput[u] : i \in DOMAIN toInput'[u] /\ toInput'[u][i] = toInput[u][i]
    BY <1>2, <1>5, QueueAppend
  <2>2. \A i \in DOMAIN toInput'[u] : toInput'[u][i].cmd = "MSG" => i \in DOMAIN toInput[u]
    BY <1>2, <1>5, QueueAppend
  <2>3. Arrived(u, k)'
    BY <1>1, <1>5, <2>1, <2>2 DEF Arrived
  <2> QED
    BY <1>5, <2>1, <2>2, <2>3 DEF OrderInv
<1> QED
  BY <1>3, <1>4, <1>5

\* A packet is taken and reaches no host, or another one: it is a SYNC, or the link is down.
LEMMA OrderTake ==
  ASSUME TypeQueues, NEW u \in Transports, OrderInv(u), toInput[u] # <<>>,
         toInput'[u] = Tail(toInput[u]), sent'[u] = sent[u], delivered'[u] = delivered[u],
         link'[u] = link[u], pc'[u]["in"] \in {"off", "loop"} => pc[u]["in"] \in {"off", "loop"},
         Head(toInput[u]).cmd # "MSG" \/ link[u] \notin {"none", "up"}
  PROVE  OrderInv(u)'
<1>1. PICK k \in Nat : Arrived(u, k)
  BY DEF OrderInv
<1>2. toInput[u] \in Seq(InputPacket)
  BY DEF TypeQueues
<1>3. \A i \in DOMAIN toInput'[u] :
        i \in Nat /\ i + 1 \in DOMAIN toInput[u] /\ toInput'[u][i] = toInput[u][i + 1]
  BY <1>2, QueueTail
<1>4. \A i \in DOMAIN toInput[u] :
        i # 1 => i - 1 \in DOMAIN toInput'[u] /\ toInput'[u][i - 1] = toInput[u][i]
  BY <1>2, QueueTail
<1>5. Head(toInput[u]) = toInput[u][1]
  BY <1>2, QueueTail
<1>6. ASSUME link[u] \in {"none", "up"}, NEW i \in DOMAIN toInput[u], NEW n, toInput[u][i] = Msg(n)
      PROVE  \E j \in DOMAIN toInput'[u] : toInput'[u][j] = Msg(n)
  <2>1. i # 1
    BY <1>5, <1>6 DEF Msg, Packet
  <2> QED
    BY <1>4, <1>6, <2>1
<1>7. Arrived(u, k)'
  BY <1>1, <1>3, <1>6 DEF Arrived
<1>8. \A i, j \in DOMAIN toInput'[u] :
        i < j /\ toInput'[u][i].cmd = "MSG" /\ toInput'[u][j].cmd = "MSG" =>
          toInput'[u][i].arg < toInput'[u][j].arg
  <2> SUFFICES ASSUME NEW i \in DOMAIN toInput'[u], NEW j \in DOMAIN toInput'[u], i < j,
                      toInput'[u][i].cmd = "MSG", toInput'[u][j].cmd = "MSG"
               PROVE  toInput'[u][i].arg < toInput'[u][j].arg
    OBVIOUS
  <2>1. i + 1 < j + 1
    BY <1>3
  <2> QED
    BY <1>3, <2>1 DEF OrderInv
<1>9. \A i \in DOMAIN toInput'[u] :
        toInput'[u][i].cmd = "MSG" => toInput'[u][i].arg \in 1 .. sent'[u]
  BY <1>3 DEF OrderInv
<1> QED
  BY <1>7, <1>8, <1>9 DEF OrderInv

\* A packet is taken and reaches the host of u: it is the one after those that arrived.
LEMMA OrderDeliver ==
  ASSUME TypeOK, NEW u \in Transports, OrderInv(u), toInput[u] # <<>>,
         toInput'[u] = Tail(toInput[u]), sent'[u] = sent[u], Head(toInput[u]).cmd = "MSG",
         delivered'[u] = Append(delivered[u], [src |-> u, num |-> Head(toInput[u]).arg]),
         link[u] = "up", pc[u]["in"] = "loop"
  PROVE  OrderInv(u)'
<1>1. PICK k \in Nat : Arrived(u, k)
  BY DEF OrderInv
<1>2. /\ toInput[u] \in Seq(InputPacket) /\ delivered[u] \in Seq(Delivery) /\ sent[u] \in Nat
      /\ \A i \in DOMAIN toInput[u] : toInput[u][i].arg \in Nat
      /\ \A i \in DOMAIN delivered[u] : delivered[u][i].num \in Nat
  <2>1. toInput[u] \in Seq(InputPacket) /\ delivered[u] \in Seq(Delivery) /\ sent[u] \in Nat
    BY DEF TypeOK, TypeQueues, TypeLinks
  <2>2. \A i \in DOMAIN toInput[u] : toInput[u][i] \in InputPacket
    BY <2>1
  <2>3. \A i \in DOMAIN delivered[u] : delivered[u][i] \in Delivery
    BY <2>1
  <2>4. /\ \A p \in InputPacket : p.arg \in Nat
        /\ \A d \in Delivery : d.num \in Nat
    BY DEF InputPacket, Delivery
  <2> QED
    BY <2>1, <2>2, <2>3, <2>4
<1>3. \A i \in DOMAIN toInput'[u] :
        i \in Nat /\ i + 1 \in DOMAIN toInput[u] /\ toInput'[u][i] = toInput[u][i + 1]
  BY <1>2, QueueTail
<1>4. \A i \in DOMAIN toInput[u] :
        i # 1 => i - 1 \in DOMAIN toInput'[u] /\ toInput'[u][i - 1] = toInput[u][i]
  BY <1>2, QueueTail
<1>5. /\ Head(toInput[u]) = toInput[u][1] /\ 1 \in DOMAIN toInput[u]
      /\ \A i \in DOMAIN toInput[u] : i \in Nat /\ i >= 1
  BY <1>2, QueueTail
<1> DEFINE h == toInput[u][1].arg
<1>6. h = k + 1 /\ h <= sent[u]
  <2>1. h \in 1 .. sent[u] /\ h > k
    BY <1>1, <1>5 DEF OrderInv, Arrived
  <2>2. k + 1 \in k + 1 .. sent[u]
    BY <1>2, <2>1
  <2>3. PICK i \in DOMAIN toInput[u] : toInput[u][i] = Msg(k + 1)
    BY <1>1, <2>2 DEF Arrived
  <2>4. toInput[u][i].cmd = "MSG" /\ toInput[u][i].arg = k + 1
    BY <2>3 DEF Msg, Packet
  <2>5. CASE i = 1
    BY <2>1, <2>4, <2>5
  <2>6. CASE i # 1
    <3>1. 1 < i
      BY <1>5, <2>6
    <3>2. h < k + 1
      BY <1>5, <2>4, <3>1 DEF OrderInv
    <3> QED
      BY <2>1, <3>2
  <2> QED
    BY <2>5, <2>6
<1> HIDE DEF h
<1>7. /\ \A i \in DOMAIN delivered[u] : /\ i \in Nat /\ i < Len(delivered[u]) + 1
                                        /\ i \in DOMAIN delivered'[u]
                                        /\ delivered'[u][i] = delivered[u][i]
      /\ \A i \in DOMAIN delivered'[u] : i \in DOMAIN delivered[u] \/ i = Len(delivered[u]) + 1
      /\ Len(delivered[u]) + 1 \in DOMAIN delivered'[u] /\ Len(delivered[u]) + 1 \in Nat
      /\ delivered'[u][Len(delivered[u]) + 1] = [src |-> u, num |-> k + 1]
  <2>1. delivered'[u] = Append(delivered[u], [src |-> u, num |-> k + 1])
    BY <1>5, <1>6 DEF h
  <2> QED
    BY <1>2, <2>1, QueueAppend
<1>8. Arrived(u, k + 1)'
  <2>1. \A i \in DOMAIN delivered'[u] :
          delivered'[u][i].src = u => delivered'[u][i].num \in 1 .. k + 1
    <3> SUFFICES ASSUME NEW i \in DOMAIN delivered'[u], delivered'[u][i].src = u
                 PROVE  delivered'[u][i].num \in 1 .. k + 1
      OBVIOUS
    <3>1. CASE i \in DOMAIN delivered[u]
      <4>1. delivered'[u][i].num \in 1 .. k
        BY <1>1, <1>7, <3>1 DEF Arrived
      <4> QED
        BY <4>1
    <3>2. CASE i = Len(delivered[u]) + 1
      BY <1>7, <3>2
    <3> QED
      BY <1>7, <3>1, <3>2
  <2>2. ASSUME NEW n \in 1 .. k + 1
        PROVE  \E i \in DOMAIN delivered'[u] : delivered'[u][i] = [src |-> u, num |-> n]
    <3>1. CASE n = k + 1
      BY <1>7, <3>1
    <3>2. CASE n # k + 1
      <4>1. n \in 1 .. k
        BY <3>2
      <4>2. PICK i \in DOMAIN delivered[u] : delivered[u][i] = [src |-> u, num |-> n]
        BY <1>1, <4>1 DEF Arrived
      <4> QED
        BY <1>7, <4>2
    <3> QED
      BY <3>1, <3>2
  <2>3. \A i \in DOMAIN toInput'[u] : toInput'[u][i].cmd = "MSG" => toInput'[u][i].arg > k + 1
    <3> SUFFICES ASSUME NEW i \in DOMAIN toInput'[u], toInput'[u][i].cmd = "MSG"
                 PROVE  toInput'[u][i].arg > k + 1
      OBVIOUS
    <3>1. i + 1 \in DOMAIN toInput[u] /\ toInput'[u][i] = toInput[u][i + 1] /\ 1 < i + 1
      <4>1. i + 1 >= 1 /\ i \in Nat /\ i + 1 \in DOMAIN toInput[u] /\ i >= 1
        <5>1. DOMAIN toInput'[u] = 1 .. Len(toInput'[u]) /\ toInput'[u] \in Seq(InputPacket)
          BY <1>2
        <5> QED
          BY <1>3, <5>1
      <4> QED
        BY <1>3, <4>1
    <3>2. h < toInput[u][i + 1].arg
      BY <1>5, <3>1 DEF OrderInv, h
    <3> QED
      BY <1>2, <1>6, <3>1, <3>2
  <2>4. ASSUME NEW n \in (k + 1) + 1 .. sent[u]
        PROVE  \E i \in DOMAIN toInput'[u] : toInput'[u][i] = Msg(n)
    <3>1. n \in k + 1 .. sent[u] /\ n # k + 1
      BY <1>2
    <3>2. PICK i \in DOMAIN toInput[u] : toInput[u][i] = Msg(n)
      BY <1>1, <3>1 DEF Arrived
    <3>3. i # 1
      BY <1>6, <3>1, <3>2 DEF h, Msg, Packet
    <3> QED
      BY <1>4, <3>2, <3>3
  <2> QED
    BY <1>6, <2>1, <2>2, <2>3, <2>4 DEF Arrived
<1>9. \A i, j \in DOMAIN toInput'[u] :
        i < j /\ toInput'[u][i].cmd = "MSG" /\ toInput'[u][j].cmd = "MSG" =>
          toInput'[u][i].arg < toInput'[u][j].arg
  <2> SUFFICES ASSUME NEW i \in DOMAIN toInput'[u], NEW j \in DOMAIN toInput'[u], i < j,
                      toInput'[u][i].cmd = "MSG", toInput'[u][j].cmd = "MSG"
               PROVE  toInput'[u][i].arg < toInput'[u][j].arg
    OBVIOUS
  <2>1. i + 1 < j + 1
    BY <1>3
  <2> QED
    BY <1>3, <2>1 DEF OrderInv
<1>10. \A i \in DOMAIN toInput'[u] :
         toInput'[u][i].cmd = "MSG" => toInput'[u][i].arg \in 1 .. sent'[u]
  BY <1>3 DEF OrderInv
<1>11. \A i, j \in DOMAIN delivered'[u] :
         i < j /\ delivered'[u][i].src = u /\ delivered'[u][j].src = u =>
           delivered'[u][i].num < delivered'[u][j].num
  <2> SUFFICES ASSUME NEW i \in DOMAIN delivered'[u], NEW j \in DOMAIN delivered'[u], i < j,
                      delivered'[u][i].src = u, delivered'[u][j].src = u
               PROVE  delivered'[u][i].num < delivered'[u][j].num
    OBVIOUS
  <2>1. i \in DOMAIN delivered[u]
    BY <1>7
  <2>2. delivered'[u][i].num \in 1 .. k
    BY <1>1, <1>7, <2>1 DEF Arrived
  <2>3. CASE j \in DOMAIN delivered[u]
    BY <1>7, <2>1, <2>3 DEF OrderInv
  <2>4. CASE j = Len(delivered[u]) + 1
    <3>1. delivered'[u][j].num = k + 1
      BY <1>7, <2>4
    <3> QED
      BY <2>2, <3>1
  <2> QED
    BY <1>7, <2>3, <2>4
<1> QED
  BY <1>8, <1>9, <1>10, <1>11, SMTT(30) DEF OrderInv

\* A packet of another transport arrives at the host of u.
LEMMA OrderForeign ==
  ASSUME TypeOK, NEW u \in Transports, OrderInv(u), NEW t \in Transports, t # u, NEW num,
         delivered'[u] = Append(delivered[u], [src |-> t, num |-> num]),
         toInput'[u] = toInput[u], sent'[u] = sent[u], link'[u] = link[u], pc'[u] = pc[u]
  PROVE  OrderInv(u)'
<1>1. PICK k \in Nat : Arrived(u, k)
  BY DEF OrderInv
<1>2. delivered[u] \in Seq(Delivery)
  BY DEF TypeOK, TypeLinks
<1>3. /\ \A i \in DOMAIN delivered[u] : i \in DOMAIN delivered'[u]
                                        /\ delivered'[u][i] = delivered[u][i]
      /\ \A i \in DOMAIN delivered'[u] : delivered'[u][i].src = u => i \in DOMAIN delivered[u]
  BY <1>2, QueueAppend
<1>4. Arrived(u, k)'
  BY <1>1, <1>3 DEF Arrived
<1> QED
  BY <1>3, <1>4 DEF OrderInv

OrderLeft(u) ==
  /\ delivered'[u] = delivered[u] /\ toInput'[u] = toInput[u] /\ sent'[u] = sent[u]
  /\ link'[u] \in {"none", "up"} => link[u] \in {"none", "up"}
  /\ pc'[u]["in"] \in {"off", "loop"} => pc[u]["in"] \in {"off", "loop"}

LEMMA OrderSame ==
  ASSUME TypeOK, NEW u \in Transports, OrderInv(u), OrderLeft(u) PROVE OrderInv(u)'
BY OrderKeep DEF TypeOK, OrderLeft

\* An open USB handle is open on the session whose link is up.
LEMMA UpIsOwn ==
  ASSUME TypeOK, CoreInv, NEW u \in Transports, LinkInv(u), pc[u]["in"] = "loop",
         link[u] \in {"none", "up"}
  PROVE  link[u] = "up" /\ WriteTarget(u) = u
<1>1. list[u] # "none" /\ kicks[u] \in Nat
  <2>1. pc[u]["in"] # "off" /\ "in" \in Threads
    BY DEF Threads
  <2> QED
    BY <2>1 DEF CoreInv, ThreadsInv, Started, TypeOK, TypeThreads
<1>2. link[u] = "up"
  BY <1>1 DEF LinkInv
<1>3. ~ kicked[u] \/ \E th \in Threads : pc[u][th] = "dokick"
  BY <1>2 DEF CoreInv, KickInv
<1>4. kicks[u] = 0
  BY <1>3 DEF CoreInv, KickInv
<1>5. IsUsb(u) => usbFd = u
  BY <1>1, <1>4 DEF CoreInv, UsbInv
<1> QED
  BY <1>2, <1>5 DEF WriteTarget, TcpTarget

\* What InWrite delivers: to u its own packets, or to the USB handle another's.
LEMMA InWriteDelivers ==
  ASSUME TypeOK, NEW t \in Transports, InWrite(t), NEW u \in Transports
  PROVE  \/ delivered'[u] = delivered[u]
         \/ /\ u = WriteTarget(t) /\ link[u] = "up"
            /\ delivered'[u] = Append(delivered[u], [src |-> t, num |-> Head(toInput[t]).arg])
<1>1. delivered \in [Transports -> Seq(Delivery)]
  BY DEF TypeOK, TypeLinks
<1> DEFINE d == [src |-> t, num |-> Head(toInput[t]).arg]
           w == WriteTarget(t)
<1>2. \/ delivered' = delivered
      \/ w # NoTransport /\ link[w] = "up" /\ delivered' = [delivered EXCEPT ![w] = Append(@, d)]
  BY DEF InWrite, RemoteWrite
<1> HIDE DEF d, w
<1>3. \/ delivered'[u] = delivered[u]
      \/ u = w /\ link[u] = "up" /\ delivered'[u] = Append(delivered[u], d)
  BY <1>1, <1>2
<1> QED
  BY <1>3 DEF d, w

LEMMA OrderInStep ==
  ASSUME TypeOK, CoreInv, NEW t \in Transports, InStep(t), NEW u \in Transports,
         TokenInv(t), LinkInv(t), OrderInv(u)
  PROVE  OrderInv(u)'
<1>a. /\ toInput \in [Transports -> Seq(InputPacket)] /\ sent \in [Transports -> Nat]
      /\ pc \in [Transports -> [Threads -> Location]] /\ "out" \in Threads /\ "in" \in Threads
      /\ toInput[t] \in Seq(InputPacket) /\ streams[t] \in Nat
  BY DEF TypeOK, TypeQueues, TypeThreads, TypeSockets, Threads
<1>b. link' = link
  BY DEF InStep, InSyncOffline, InSyncOnline, InWrite, InCloseAll, linkVars
<1>c. pc'[u]["in"] \in {"off", "loop"} => pc[u]["in"] \in {"off", "loop"}
  <2>1. CASE pc' = pc
    BY <2>1
  <2>2. ASSUME NEW l \in {"closeall", "kick"}, pc' = [pc EXCEPT ![t]["in"] = l]
        PROVE  pc'[u]["in"] \in {"off", "loop"} => pc[u]["in"] \in {"off", "loop"}
    BY <1>a, <2>2
  <2> QED
    BY <2>1, <2>2 DEF InStep, InSyncOffline, InSyncOnline, InWrite, InCloseAll, threadVars
<1>1. CASE u # t
  <2>1. /\ toInput'[u] = toInput[u] /\ sent'[u] = sent[u] /\ pc'[u] = pc[u]
    <3>1. toInput'[u] = toInput[u] /\ sent'[u] = sent[u]
      BY <1>1, <1>a DEF InStep, InSyncOffline, InSyncOnline, InWrite, InCloseAll, InTake, Post
    <3>2. pc'[u] = pc[u]
      BY <1>1, <1>a DEF InStep, InSyncOffline, InSyncOnline, InWrite, InCloseAll, threadVars
    <3> QED
      BY <3>1, <3>2
  <2>2. CASE delivered'[u] = delivered[u]
    BY <1>b, <2>1, <2>2, OrderSame DEF OrderLeft
  <2>3. CASE delivered'[u] # delivered[u]
    <3>1. InWrite(t)
      BY <2>3 DEF InStep, InSyncOffline, InSyncOnline, InCloseAll, linkVars
    <3>2. delivered'[u] = Append(delivered[u], [src |-> t, num |-> Head(toInput[t]).arg])
      BY <2>3, <3>1, InWriteDelivers
    <3> QED
      BY <1>1, <1>b, <2>1, <3>2, OrderForeign
  <2> QED
    BY <2>2, <2>3
<1>2. CASE u = t /\ InCloseAll(t)
  <2>1. Post(t, streams[t]) /\ delivered' = delivered
    BY <1>2 DEF InCloseAll, linkVars
  <2>2. \/ toInput'[u] = toInput[u] /\ sent'[u] = sent[u]
        \/ \E n \in Nat : Grows(toInput[u], toInput'[u], sent[u], n) /\ sent'[u] = sent[u] + n
    BY <1>a, <2>1, PostGrows DEF TypeOK
  <2> QED
    BY <1>b, <1>c, <2>1, <2>2, OrderKeep DEF TypeOK
<1>3. CASE u = t /\ (InSyncOffline(t) \/ InSyncOnline(t))
  <2>1. toInput[u] # <<>> /\ toInput'[u] = Tail(toInput[u]) /\ Head(toInput[u]).cmd # "MSG"
    BY <1>3, <1>a DEF InSyncOffline, InSyncOnline, InTake
  <2>2. UNCHANGED <<sent, delivered>>
    BY <1>3 DEF InSyncOffline, InSyncOnline, linkVars
  <2> QED
    BY <1>b, <1>c, <2>1, <2>2, OrderTake DEF TypeOK
<1>4. CASE u = t /\ InWrite(t)
  <2>1. /\ toInput[u] # <<>> /\ toInput'[u] = Tail(toInput[u]) /\ Head(toInput[u]).cmd = "MSG"
        /\ pc[u]["in"] = "loop" /\ sent' = sent
    BY <1>4, <1>a DEF InWrite, InTake
  <2>2. CASE link[u] \in {"none", "up"}
    <3>1. link[u] = "up" /\ WriteTarget(u) = u
      BY <1>4, <2>1, <2>2, UpIsOwn
    <3>2. active[u]
      <4>1. /\ 1 \in DOMAIN toInput[u] /\ Head(toInput[u]) = toInput[u][1]
            /\ \A i \in DOMAIN toInput[u] : i \in Nat /\ i >= 1
        BY <1>4, <1>a, <2>1, QueueTail
      <4>2. active[u] \/ \E j \in DOMAIN toInput[u] : j < 1
        BY <1>4, <2>1, <4>1 DEF TokenInv
      <4>3. ~ \E j \in DOMAIN toInput[u] : j < 1
        BY <4>1
      <4> QED
        BY <4>2, <4>3
    <3>3. delivered'[u] = Append(delivered[u], [src |-> u, num |-> Head(toInput[u]).arg])
      <4>1. u # NoTransport /\ delivered \in [Transports -> Seq(Delivery)]
        BY TransportAssumption DEF TypeOK, TypeLinks
      <4>2. delivered' = [delivered EXCEPT ![u] =
                            Append(@, [src |-> u, num |-> Head(toInput[u]).arg])]
        BY <1>4, <3>1, <3>2, <4>1 DEF InWrite, RemoteWrite
      <4> QED
        BY <4>1, <4>2
    <3> QED
      BY <2>1, <3>1, <3>3, OrderDeliver
  <2>3. CASE link[u] \notin {"none", "up"}
    <3>1. delivered'[u] = delivered[u]
      BY <1>4, <2>3, InWriteDelivers
    <3> QED
      BY <1>b, <1>c, <2>1, <2>3, <3>1, OrderTake DEF TypeOK
  <2> QED
    BY <2>2, <2>3
<1> QED
  BY <1>1, <1>2, <1>3, <1>4 DEF InStep

\* What the other steps change of the link: it goes down, or comes up with the session.
LEMMA LinkStep ==
  ASSUME TypeOK, CoreInv, [Next]_vars, NEW u \in Transports, LinkInv(u)
  PROVE  /\ LinkInv(u)'
         /\ link'[u] \in {"none", "up"} => link[u] \in {"none", "up"}
<1>a. /\ link \in [Transports -> LinkState] /\ list \in [Transports -> ListState]
      /\ pc \in [Transports -> [Threads -> Location]] /\ "out" \in Threads /\ "in" \in Threads
  BY DEF TypeOK, TypeReg, TypeLinks, TypeThreads, Threads
<1>1. CASE UNCHANGED <<link, list>>
  BY <1>1 DEF LinkInv
<1>2. ASSUME NEW t \in Transports, OpenLink(t)
      PROVE  LinkInv(u)' /\ (link'[u] \in {"none", "up"} => link[u] \in {"none", "up"})
  <2>1. /\ list[t] = "none" /\ list' = [list EXCEPT ![t] = "opened"]
        /\ link' = [link EXCEPT ![t] = "up"]
    BY <1>2 DEF OpenLink
  <2> QED
    BY <1>a, <2>1 DEF LinkInv
<1>3. ASSUME NEW t \in Transports, BreakLink(t)
      PROVE  LinkInv(u)' /\ (link'[u] \in {"none", "up"} => link[u] \in {"none", "up"})
  <2>1. link[t] = "up" /\ link' = [link EXCEPT ![t] = "broken"] /\ list' = list
    BY <1>3 DEF BreakLink, regVars
  <2> QED
    BY <1>a, <2>1 DEF LinkInv
<1>4. ASSUME NEW t \in Transports, NEW l \in {"pending", "rejected", "listed", "freed"},
             list[t] # "none", list' = [list EXCEPT ![t] = l], link' = link
      PROVE  LinkInv(u)' /\ (link'[u] \in {"none", "up"} => link[u] \in {"none", "up"})
  BY <1>a, <1>4 DEF LinkInv
<1>5. ASSUME NEW t \in Transports, NEW th \in Threads, ExitStep(t, th)
      PROVE  LinkInv(u)' /\ (link'[u] \in {"none", "up"} => link[u] \in {"none", "up"})
  <2>1. list' = list /\ (CloseLink(t) \/ link' = link) /\ pc[t][th] \in {"kick", "dokick", "unref"}
    BY <1>5 DEF ExitStep, Kick, DoKick, Unref, LastUnref, regVars, linkVars
  <2>2. list[t] # "none"
    BY <2>1 DEF CoreInv, ThreadsInv, Started
  <2>3. CASE CloseLink(t)
    <3>1. link'[u] = link[u] \/ (link'[u] = "closed" /\ (u = t \/ usbFd = u))
      BY <1>a, <2>3 DEF CloseLink
    <3>2. usbFd = u => list[u] # "none"
      BY DEF CoreInv, UsbInv
    <3> QED
      BY <2>1, <2>2, <3>1, <3>2 DEF LinkInv
  <2> QED
    BY <2>1, <2>3 DEF LinkInv
<1>6. ASSUME NEW t \in Transports, RegStep(t)
      PROVE  LinkInv(u)' /\ (link'[u] \in {"none", "up"} => link[u] \in {"none", "up"})
  <2>1. /\ regPipe # <<>> /\ Head(regPipe).t = t
        /\ (Head(regPipe).action = "add" \/ Head(regPipe).action = "remove")
    BY <1>6 DEF RegStep, RegAdd, RegRemove
  <2>2. list[t] # "none"
    BY <2>1, RegHead DEF TypeOK, CoreInv, RegEntryInv
  <2> QED
    BY <1>4, <1>6, <2>2 DEF RegStep, RegAdd, RegRemove, linkVars
<1>7. ASSUME NEW t \in Transports, Register(t) \/ RegisterDuplicate(t)
      PROVE  LinkInv(u)' /\ (link'[u] \in {"none", "up"} => link[u] \in {"none", "up"})
  BY <1>4, <1>7 DEF Register, RegisterDuplicate, linkVars
<1>8. ASSUME NEW t \in Transports, OutStep(t) \/ InStep(t) \/ HandleStep(t) \/ LocalStep(t)
      PROVE  UNCHANGED <<link, list>>
  BY <1>8 DEF OutStep, OutSync, OutRead, OutReadFails, OutReadCorrupt, OutOffline, InStep,
     InSyncOffline, InSyncOnline, InWrite, InCloseAll, HandleStep, HandleSyncOnline,
     HandleSyncOffline, HandleConnect, HandleOffline, OnlineStep, HandleOpen, HandleOpenReverse,
     HandleReady, HandleClose, HandleWrite, onlineFrame, handleFrame, LocalStep, StreamSend,
     StreamEnd, ListenerAccept, localFrame, regVars, linkVars
<1>9. ASSUME ReverseStep PROVE UNCHANGED <<link, list>>
  BY <1>9 DEF ReverseStep, ReverseAcquire, ReverseInstall, revFrame, regVars, linkVars
<1>10. CASE UNCHANGED vars
  BY <1>1, <1>10 DEF vars, regVars, linkVars
<1>11. CASE Next
  BY <1>1, <1>2, <1>3, <1>5, <1>6, <1>7, <1>8, <1>9, <1>11 DEF Next, AcceptStep
<1> QED
  BY <1>10, <1>11

LEMMA OrderNext ==
  ASSUME TypeOK, CoreInv, [Next]_vars, NEW u \in Transports, OrderInv(u),
         \A t \in Transports : TokenInv(t) /\ LinkInv(t)
  PROVE  OrderInv(u)'
<1>a. /\ toInput \in [Transports -> Seq(InputPacket)] /\ sent \in [Transports -> Nat]
      /\ pc \in [Transports -> [Threads -> Location]] /\ "out" \in Threads /\ "in" \in Threads
  BY DEF TypeOK, TypeQueues, TypeThreads, Threads
<1>b. link'[u] \in {"none", "up"} => link[u] \in {"none", "up"}
  BY LinkStep
<1>1. CASE UNCHANGED vars
  BY <1>1, OrderSame DEF OrderLeft, vars, threadVars, linkVars, queueVars
<1>2. ASSUME NEW t \in Transports, AcceptStep(t) \/ BreakLink(t) PROVE OrderInv(u)'
  <2>1. UNCHANGED <<pc, toInput, sent, delivered>>
    BY <1>2 DEF AcceptStep, OpenLink, Register, RegisterDuplicate, BreakLink, threadVars, linkVars,
       queueVars
  <2> QED
    BY <1>b, <2>1, OrderSame DEF OrderLeft
<1>3. ASSUME NEW t \in Transports, OutStep(t) PROVE OrderInv(u)'
  <2>1. UNCHANGED <<toInput, sent, delivered>>
    BY <1>3 DEF OutStep, OutSync, OutRead, OutReadFails, OutReadCorrupt, OutOffline, linkVars
  <2>2. pc' = pc \/ \E l : pc' = [pc EXCEPT ![t]["out"] = l]
    BY <1>3 DEF OutStep, OutSync, OutRead, OutReadFails, OutReadCorrupt, OutOffline, threadVars
  <2>3. pc'[u]["in"] = pc[u]["in"]
    <3>1. ASSUME NEW l, pc' = [pc EXCEPT ![t]["out"] = l] PROVE pc'[u]["in"] = pc[u]["in"]
      BY <1>a, <3>1
    <3> QED
      BY <2>2, <3>1
  <2> QED
    BY <1>b, <2>1, <2>3, OrderSame DEF OrderLeft
<1>4. ASSUME NEW t \in Transports, NEW th \in Threads, ExitStep(t, th) PROVE OrderInv(u)'
  <2>1. UNCHANGED <<toInput, sent, delivered>>
    BY <1>4 DEF ExitStep, Kick, DoKick, Unref, linkVars, queueVars
  <2>2. \E l \in {"dokick", "unref", "done"} : pc' = [pc EXCEPT ![t][th] = l]
    BY <1>4 DEF ExitStep, Kick, DoKick, Unref
  <2>3. pc'[u]["in"] \in {"off", "loop"} => pc[u]["in"] \in {"off", "loop"}
    BY <1>a, <2>2
  <2> QED
    BY <1>b, <2>1, <2>3, OrderSame DEF OrderLeft
<1>5. ASSUME NEW t \in Transports, RegStep(t) PROVE OrderInv(u)'
  <2>1. UNCHANGED <<toInput, sent, delivered>>
    BY <1>5 DEF RegStep, RegAdd, RegRemove, linkVars, queueVars
  <2>2. pc'[u]["in"] \in {"off", "loop"} => pc[u]["in"] \in {"off", "loop"}
    <3>1. CASE RegAdd(t)
      <4>1. Head(regPipe).t = t /\ Head(regPipe).action = "add" /\ regPipe # <<>>
        BY <3>1 DEF RegAdd
      <4>2. list[t] = "pending"
        BY <4>1, RegHead DEF TypeOK, CoreInv, RegEntryInv
      <4>3. pc[t]["in"] = "off"
        BY <1>a, <4>2 DEF CoreInv, ThreadsInv, Started
      <4>4. u # t => pc'[u] = pc[u]
        BY <1>a, <3>1 DEF RegAdd
      <4> QED
        BY <4>3, <4>4
    <3>2. CASE RegRemove(t)
      BY <3>2 DEF RegRemove, threadVars
    <3> QED
      BY <1>5, <3>1, <3>2 DEF RegStep
  <2> QED
    BY <1>b, <2>1, <2>2, OrderSame DEF OrderLeft
<1>6. ASSUME NEW t \in Transports, HandleStep(t) \/ LocalStep(t) PROVE OrderInv(u)'
  <2>1. UNCHANGED <<pc, delivered>>
    BY <1>6 DEF HandleStep, HandleSyncOnline, HandleSyncOffline, HandleConnect, HandleOffline,
       OnlineStep, HandleOpen, HandleOpenReverse, HandleReady, HandleClose, HandleWrite,
       onlineFrame, handleFrame, LocalStep, StreamSend, StreamEnd, ListenerAccept, localFrame,
       threadVars, linkVars
  <2>2. \/ UNCHANGED <<toInput, sent>>
        \/ Post(t, 1)
        \/ HandleSyncOnline(t) \/ HandleSyncOffline(t)
    BY <1>6 DEF HandleStep, HandleConnect, HandleOffline, OnlineStep, HandleOpen,
       HandleOpenReverse, HandleReady, HandleClose, HandleWrite, CloseStream, LocalStep, StreamSend,
       StreamEnd, ListenerAccept
  <2>3. CASE UNCHANGED <<toInput, sent>>
    BY <1>b, <2>1, <2>3, OrderSame DEF OrderLeft
  <2>4. CASE Post(t, 1)
    <3>1. \/ toInput'[u] = toInput[u] /\ sent'[u] = sent[u]
          \/ \E n \in Nat : Grows(toInput[u], toInput'[u], sent[u], n) /\ sent'[u] = sent[u] + n
      BY <2>4, PostGrows DEF TypeOK
    <3> QED
      BY <1>b, <2>1, <3>1, OrderKeep DEF TypeOK
  <2>5. CASE HandleSyncOnline(t) \/ HandleSyncOffline(t)
    <3>1. /\ toInput' = [toInput EXCEPT ![t] = Append(@, Head(toMain[t]))] /\ sent' = sent
          /\ Head(toMain[t]).cmd # "MSG"
      BY <2>5 DEF HandleSyncOnline, HandleSyncOffline, Handle
    <3>2. \/ toInput'[u] = toInput[u]
          \/ \E p : toInput'[u] = Append(toInput[u], p) /\ p.cmd # "MSG"
      BY <1>a, <3>1
    <3> QED
      BY <1>b, <2>1, <3>1, <3>2, OrderKeep DEF TypeOK
  <2> QED
    BY <2>2, <2>3, <2>4, <2>5
<1>7. ASSUME ReverseStep PROVE OrderInv(u)'
  <2>1. UNCHANGED <<pc, toInput, sent, delivered>>
    BY <1>7 DEF ReverseStep, ReverseAcquire, ReverseInstall, revFrame, threadVars, linkVars,
       queueVars
  <2> QED
    BY <1>b, <2>1, OrderSame DEF OrderLeft
<1> QED
  BY <1>1, <1>2, <1>3, <1>4, <1>5, <1>6, <1>7, OrderInStep DEF Next

LEMMA OwnNext ==
  ASSUME TypeOK, CoreInv, [Next]_vars, NEW u \in Transports, OwnInv(u) PROVE OwnInv(u)'
<1>1. CASE delivered' = delivered
  BY <1>1 DEF OwnInv
<1>2. ASSUME NEW t \in Transports, InWrite(t) PROVE OwnInv(u)'
  <2>1. CASE delivered'[u] = delivered[u]
    BY <2>1 DEF OwnInv
  <2>2. CASE /\ u = WriteTarget(t)
             /\ delivered'[u] = Append(delivered[u], [src |-> t, num |-> Head(toInput[t]).arg])
    <3>1. u = t \/ IsUsb(u)
      BY <2>2, TransportAssumption DEF WriteTarget, TcpTarget, CoreInv, UsbInv
    <3>2. delivered[u] \in Seq(Delivery)
      BY DEF TypeOK, TypeLinks
    <3> QED
      BY <2>2, <3>1, <3>2, QueueAppend DEF OwnInv
  <2> QED
    BY <1>2, <2>1, <2>2, InWriteDelivers
<1>3. ASSUME NEW t \in Transports, AcceptStep(t) \/ BreakLink(t) \/ OutStep(t)
      PROVE  delivered' = delivered
  BY <1>3 DEF AcceptStep, OpenLink, Register, RegisterDuplicate, BreakLink, OutStep, OutSync,
     OutRead, OutReadFails, OutReadCorrupt, OutOffline, linkVars
<1>4. ASSUME NEW t \in Transports, InStep(t) PROVE delivered' = delivered \/ InWrite(t)
  BY <1>4 DEF InStep, InSyncOffline, InSyncOnline, InCloseAll, linkVars
<1>5. ASSUME NEW t \in Transports, RegStep(t) \/ \E th \in Threads : ExitStep(t, th)
      PROVE  delivered' = delivered
  BY <1>5 DEF ExitStep, Kick, DoKick, Unref, RegStep, RegAdd, RegRemove, linkVars
<1>6. ASSUME NEW t \in Transports, HandleStep(t) \/ LocalStep(t) PROVE delivered' = delivered
  BY <1>6 DEF HandleStep, HandleSyncOnline, HandleSyncOffline, HandleConnect, HandleOffline,
     OnlineStep, HandleOpen, HandleOpenReverse, HandleReady, HandleClose, HandleWrite,
     onlineFrame, handleFrame, LocalStep, StreamSend, StreamEnd, ListenerAccept, localFrame,
     linkVars
<1>7. ASSUME ReverseStep PROVE delivered' = delivered
  BY <1>7 DEF ReverseStep, ReverseAcquire, ReverseInstall, revFrame, linkVars
<1>8. CASE UNCHANGED vars
  BY <1>1, <1>8 DEF vars, linkVars
<1>9. CASE Next
  BY <1>1, <1>2, <1>3, <1>4, <1>5, <1>6, <1>7, <1>9 DEF Next
<1> QED
  BY <1>8, <1>9

\* What the delivery theorems rest on: the token goes before everything main queues, the queue
\* is numbered, and what has arrived is where the queue begins.
LEMMA DeliveryInvariant == Spec => []DeliveryInv
<1>1. Init => DeliveryInv
  <2> SUFFICES ASSUME Init, NEW t \in Transports
               PROVE  TokenInv(t) /\ OrderInv(t) /\ LinkInv(t) /\ OwnInv(t)
    BY DEF DeliveryInv
  <2>1. /\ toMain[t] = <<>> /\ toInput[t] = <<>> /\ delivered[t] = <<>> /\ sent[t] = 0
        /\ ~ MayPost(t) /\ ~ active[t] /\ Waits(t) /\ list[t] = "none" /\ link[t] = "none"
    BY TransportAssumption DEF Init, MayPost, Waits, Threads
  <2>2. Arrived(t, 0)
    BY <2>1 DEF Arrived
  <2>3. OrderInv(t)
    BY <2>1, <2>2 DEF OrderInv
  <2> QED
    BY <2>1, <2>3 DEF TokenInv, LinkInv, OwnInv
<1>2. HandshakeInv /\ DeliveryInv /\ [Next]_vars => DeliveryInv'
  BY TokenNext, OrderNext, LinkStep, OwnNext DEF HandshakeInv, CoreInv, DeliveryInv
<1> QED
  BY <1>1, <1>2, HandshakeInvariant, PTL DEF Spec

\* Whatever the transports: no packet for the host is dropped because the input thread has not
\* heard of its connection yet.
THEOREM NothingDiscardedHolds == Spec => []NothingDiscardedAsOffline
<1>1. TypeOK /\ DeliveryInv => NothingDiscardedAsOffline
  <2> SUFFICES ASSUME TypeOK, DeliveryInv, NEW t \in Transports, pc[t]["in"] = "loop", ~ active[t],
                      NEW i \in DOMAIN toInput[t], toInput[t][i].cmd = "MSG"
               PROVE  \E j \in 1 .. i - 1 : toInput[t][j] = Packet("SYNC1", syncToken[t])
    BY DEF NothingDiscardedAsOffline
  <2>1. PICK j \in DOMAIN toInput[t] : j < i /\ toInput[t][j] = SyncToken(t)
    BY DEF DeliveryInv, TokenInv
  <2>2. toInput[t] \in Seq(InputPacket)
    BY DEF TypeOK, TypeQueues
  <2>3. j \in 1 .. i - 1
    BY <2>1, <2>2
  <2> QED
    BY <2>1, <2>3 DEF SyncToken
<1> QED
  BY <1>1, DeliveryInvariant, TypeCorrect, PTL

\* Whatever the transports, also those that share the USB handle: a host receives what main
\* queued for it in order and without a gap.
THEOREM DeliveredInOrderHolds == Spec => []DeliveredInOrder
<1>1. TypeOK /\ DeliveryInv => DeliveredInOrder
  <2> SUFFICES ASSUME TypeOK, DeliveryInv, NEW t \in Transports, NEW j \in DOMAIN delivered[t],
                      delivered[t][j].src = t
               PROVE  /\ \A i \in 1 .. (j - 1) :
                           delivered[t][i].src = t => delivered[t][i].num < delivered[t][j].num
                      /\ delivered[t][j].num > 1 =>
                           \E i \in 1 .. (j - 1) :
                             delivered[t][i] = [src |-> t, num |-> delivered[t][j].num - 1]
    BY DEF DeliveredInOrder
  <2>1. PICK k \in Nat : Arrived(t, k)
    BY DEF DeliveryInv, OrderInv
  <2>2. DOMAIN delivered[t] = 1 .. Len(delivered[t]) /\ Len(delivered[t]) \in Nat
    BY DEF TypeOK, TypeLinks
  <2>3. \A i, l \in DOMAIN delivered[t] :
          i < l /\ delivered[t][i].src = t /\ delivered[t][l].src = t =>
            delivered[t][i].num < delivered[t][l].num
    BY DEF DeliveryInv, OrderInv
  <2>4. \A i \in 1 .. (j - 1) :
          delivered[t][i].src = t => delivered[t][i].num < delivered[t][j].num
    BY <2>2, <2>3
  <2>5. ASSUME delivered[t][j].num > 1
        PROVE  \E i \in 1 .. (j - 1) :
                 delivered[t][i] = [src |-> t, num |-> delivered[t][j].num - 1]
    <3>1. delivered[t][j].num \in 1 .. k
      BY <2>1 DEF Arrived
    <3>2. delivered[t][j].num - 1 \in 1 .. k
      BY <2>5, <3>1
    <3>3. PICK i \in DOMAIN delivered[t] :
                 delivered[t][i] = [src |-> t, num |-> delivered[t][j].num - 1]
      BY <2>1, <3>2 DEF Arrived
    <3>4. delivered[t][i].src = t /\ delivered[t][i].num = delivered[t][j].num - 1
      BY <3>3
    <3>5. ~ (j < i) /\ i # j
      BY <2>3, <3>1, <3>4
    <3>6. i \in 1 .. (j - 1)
      BY <2>2, <3>5
    <3> QED
      BY <3>3, <3>6
  <2> QED
    BY <2>4, <2>5
<1> QED
  BY <1>1, DeliveryInvariant, TypeCorrect, PTL

\* Where every connection has a socket of its own, as over TCP: all of DeliveryCorrect, so no
\* host receives what was queued for another.  The sessions of the USB handle can (see README).
THEOREM TcpDeliveryHolds ==
  ASSUME UsbTransports = {} PROVE Spec => []DeliveryCorrect
<1>1. DeliveryInv => NoStaleDelivery
  BY DEF DeliveryInv, OwnInv, IsUsb, NoStaleDelivery
<1> QED
  BY <1>1, DeliveryInvariant, NothingDiscardedHolds, DeliveredInOrderHolds, PTL
     DEF DeliveryCorrect

\* Both parts of the order in which a transport ends.
THEOREM TeardownHolds == Spec => []TeardownOrder
BY ClosedAfterThreadsExitHolds, QuietWhenInputExitsHolds, PTL DEF TeardownOrder
=============================================================================

---------------------------- MODULE DeviceProofs ----------------------------
(***************************************************************************)
(* What is proved of the processes of the device and of the USB cable: of  *)
(* adbd's end of it (usb_linux_client.c) and of a Linux host's             *)
(* (usb_linux.c), of the children of adbd's services (services.c,          *)
(* framebuffer_service.c), of the daemons an application starts            *)
(* (AdbdService.java, AdbdManager.java, adbd.cpp) and of the processes a   *)
(* debugger can ask for (jdwp_service.c), for any number of them.          *)
(***************************************************************************)
EXTENDS ServiceChildren, AdbdProcesses, UsbClient, UsbLinux, AdbJdwp, FiniteSetTheorems,
        WellFoundedInduction, TLAPS

-----------------------------------------------------------------------------
\* The device's end of the USB cable.

UsbClientSpec == UsbClientInit /\ [][UsbClientNext]_usbClientVars

\* A transport has the handle, or its kick has begun and not closed the files yet.
InUse == sessions > kicks \/ kicker = "halts"
Resting == {"waits", "checks", "sleeps", "asleep"}
IsOpen(e) == ends[e] > 0

\* Which files are open, by where the thread is.
OpenAt ==
  /\ opener \in {"sleeps", "asleep"} => InUse
  /\ opener \in {"waits", "checks"} /\ ~ InUse =>
       NeedsOpening /\ \A e \in EndsOf \ {"control"} : ~ IsOpen(e)
  /\ InUse \/ opener = "registers" => \A e \in EndsOf : IsOpen(e)
  /\ opener \in {"control", "describes", "out"} => ~ IsOpen("out") /\ ~ IsOpen("in")
  /\ opener \in {"describes", "out", "in"} => IsOpen("control")
  /\ opener = "in" => IsOpen("out") /\ ~ IsOpen("in")
  /\ opener = "fd" => ~ IsOpen("fd")

ClientInv ==
  /\ UsbClientTypeOK /\ FilesInHandle /\ OpenAt
  /\ ffs \in BOOLEAN /\ there \in BOOLEAN /\ kicks \in Nat /\ sessions \in Nat
  /\ opener \in UsbFiles => opener \in EndsOf
  /\ opener = "describes" => ffs
  /\ ffs => ends["control"] # 0
  /\ InUse => opener \in Resting
  /\ kicker = "halts" => sessions = kicks
  /\ ffs /\ IsOpen("control") /\ opener \notin {"describes", "failed"} => described

\* The kernel gives the lowest free number, of the first three as two files at most are open.
LEMMA LowestFree ==
  ASSUME files \subseteq 3 .. 5, NEW n \in 3 .. 5, n \notin files
  PROVE  LowestFile \in 3 .. 5 /\ LowestFile \notin files
<1> DEFINE P(f) == f \notin files /\ \A g \in 3 .. f - 1 : g \in files
<1>1. \E f \in 3 .. 9 : P(f)
  <2>1. CASE 3 \notin files
    BY <2>1
  <2>2. CASE 3 \in files /\ 4 \notin files
    <3>1. 4 \in 3 .. 9 /\ \A g \in 3 .. 3 : g = 3
      OBVIOUS
    <3>2. P(4)
      BY <2>2, <3>1
    <3> QED
      BY <3>1, <3>2
  <2>3. CASE 3 \in files /\ 4 \in files
    <3>1. n = 5 /\ 5 \in 3 .. 9 /\ \A g \in 3 .. 4 : g = 3 \/ g = 4
      BY <2>3
    <3>2. P(5)
      BY <2>3, <3>1
    <3> QED
      BY <3>1, <3>2
  <2> QED
    BY <2>1, <2>2, <2>3
<1>2. LowestFile = CHOOSE f \in 3 .. 9 : P(f)
  BY DEF LowestFile
<1>3. LowestFile \in 3 .. 9 /\ P(LowestFile)
  BY <1>1, <1>2
<1> QED
  BY <1>3

LEMMA ClientInit == UsbClientInit => ClientInv
<1> SUFFICES ASSUME UsbClientInit PROVE ClientInv
  OBVIOUS
<1> USE DEF UsbClientInit
<1>1. /\ UsbFiles = {"fd", "control", "out", "in"} /\ files = {} /\ opener = "waits"
      /\ ~ InUse /\ \A e \in UsbFiles : ends[e] \in {-1, 0}
  BY DEF UsbFiles, InUse
<1>2. UsbClientTypeOK
  <2>1. ends = [e \in UsbFiles |-> ends[e]]
    OBVIOUS
  <2>2. ends \in [UsbFiles -> {-1, 0} \cup 3 .. 5]
    BY <1>1, <2>1
  <2>3. described \in BOOLEAN /\ kicker \in {"none", "halts"}
    OBVIOUS
  <2>4. sessions - kicks \in {0, 1}
    OBVIOUS
  <2> HIDE DEF UsbClientInit
  <2> QED
    BY <1>1, <2>2, <2>3, <2>4 DEF UsbClientTypeOK
<1>3. FilesInHandle
  BY <1>1 DEF FilesInHandle, EndsOf
<1>4. NeedsOpening
  <2>1. CASE ffs
    BY <1>1, <2>1 DEF NeedsOpening, EndsOf
  <2>2. CASE ~ ffs
    BY <1>1, <2>2 DEF NeedsOpening, EndsOf
  <2> QED
    BY <2>1, <2>2
<1>5. OpenAt
  BY <1>1, <1>4 DEF OpenAt, IsOpen, EndsOf
<1> QED
  BY <1>1, <1>2, <1>3, <1>5 DEF ClientInv, IsOpen, InUse, EndsOf, Resting

LEMMA OpensKeeps ==
  ASSUME ClientInv, NEW e \in UsbFiles, OpensFile(e)
  PROVE  ClientInv'
<1> DEFINE n == LowestFile
<1>1. e = opener /\ e \in EndsOf /\ ~ IsOpen(e) /\ ~ InUse /\ sessions = kicks
  BY DEF ClientInv, OpenAt, OpensFile, EndsOf, UsbFiles, IsOpen, InUse, Resting, UsbClientTypeOK
<1>2. n \in 3 .. 5 /\ n \notin files
  <2>1. files \subseteq 3 .. 5
    BY DEF ClientInv, FilesInHandle, EndsOf, UsbFiles, UsbClientTypeOK
  <2>2. \E m \in 3 .. 5 : m \notin files
    BY <1>1 DEF ClientInv, FilesInHandle, EndsOf, UsbFiles, UsbClientTypeOK, IsOpen
  <2> QED
    BY <2>1, <2>2, LowestFree
<1> HIDE DEF n
<1>3. ends' = [ends EXCEPT ![e] = n] /\ files' = files \cup {n}
  BY DEF OpensFile, n
<1>4. UsbClientTypeOK'
  BY <1>1, <1>2, <1>3 DEF ClientInv, UsbClientTypeOK, OpensFile, OpenerGoes, UsbFiles
<1>5. FilesInHandle'
  BY <1>1, <1>2, <1>3 DEF ClientInv, UsbClientTypeOK, OpensFile, FilesInHandle, EndsOf, UsbFiles,
                          IsOpen
<1>6. OpenAt'
  BY <1>1, <1>2, <1>3 DEF ClientInv, UsbClientTypeOK, OpensFile, OpenAt, OpenerGoes, EndsOf,
                          UsbFiles, IsOpen, InUse, Resting
<1> QED
  BY <1>1, <1>2, <1>3, <1>4, <1>5, <1>6
     DEF ClientInv, UsbClientTypeOK, OpensFile, OpenerGoes, EndsOf, UsbFiles, IsOpen, InUse,
         Resting, Endpoints

LEMMA ClosesKeeps ==
  ASSUME ClientInv, OpenFailed \/ KickCloses \/ \E e \in UsbFiles : FileFails(e)
  PROVE  ClientInv'
<1> USE DEF ClientInv, UsbClientTypeOK, EndsOf, UsbFiles, IsOpen, InUse, Resting, OpenerGoes
<1>1. CASE OpenFailed
  <2>1. FilesInHandle'
    BY <1>1 DEF OpenFailed, FailedEnds, FilesInHandle
  <2>2. OpenAt'
    BY <1>1 DEF OpenFailed, FailedEnds, OpenAt, FirstEnd
  <2> QED
    BY <1>1, <2>1, <2>2 DEF OpenFailed, FailedEnds, FirstEnd
<1>2. CASE KickCloses
  <2>1. FilesInHandle'
    BY <1>2 DEF KickCloses, FilesInHandle
  <2>2. OpenAt'
    BY <1>2 DEF KickCloses, OpenAt, NeedsOpening
  <2> QED
    BY <1>2, <2>1, <2>2 DEF KickCloses
<1>3. ASSUME NEW e \in UsbFiles, FileFails(e) PROVE ClientInv'
  <2>0. e = opener /\ ~ IsOpen(e) /\ e \in EndsOf
    BY <1>3 DEF FileFails, OpenAt
  <2>1. FilesInHandle'
    BY <1>3, <2>0 DEF FileFails, FilesInHandle
  <2>2. OpenAt'
    BY <1>3, <2>0 DEF FileFails, OpenAt
  <2> QED
    BY <1>3, <2>0, <2>1, <2>2 DEF FileFails
<1> QED
  BY <1>1, <1>2, <1>3

LEMMA ClientStep == ClientInv /\ [UsbClientNext]_usbClientVars => ClientInv'
<1> SUFFICES ASSUME ClientInv, [UsbClientNext]_usbClientVars PROVE ClientInv'
  OBVIOUS
<1> USE DEF ClientInv, UsbClientTypeOK, OpenAt, EndsOf, UsbFiles, IsOpen, InUse, Resting,
            OpenerGoes, FilesInHandle, NeedsOpening
<1>1. CASE TakesLock
  BY <1>1 DEF TakesLock
<1>2. CASE Checks
  <2>1. CASE NeedsOpening
    BY <1>2, <2>1 DEF Checks, FirstEnd
  <2>2. CASE ~ NeedsOpening
    BY <1>2, <2>2 DEF Checks, FirstEnd
  <2> QED
    BY <2>1, <2>2
<1>3. CASE Sleeps
  BY <1>3 DEF Sleeps
<1>4. CASE KeepsControl
  <2>1. UNCHANGED <<ffs, ends, files, described, kicker, sessions, kicks, there>>
        /\ opener = "control" /\ opener' = "out" /\ ends["control"] > 0
    BY <1>4 DEF KeepsControl
  <2> QED
    BY <2>1
<1>5. CASE Describes
  BY <1>5 DEF Describes
<1>6. CASE Registers
  BY <1>6 DEF Registers
<1>7. CASE KickStarts
  BY <1>7 DEF KickStarts
<1>8. CASE FunctionGoes \/ FunctionComes
  <2>1. UNCHANGED <<ffs, ends, files, described, opener, kicker, sessions, kicks>>
        /\ there' \in BOOLEAN
    BY <1>8 DEF FunctionGoes, FunctionComes
  <2> QED
    BY <2>1
<1>9. CASE UNCHANGED usbClientVars
  BY <1>9 DEF usbClientVars
<1> QED
  BY <1>1, <1>2, <1>3, <1>4, <1>5, <1>6, <1>7, <1>8, <1>9, OpensKeeps, ClosesKeeps
     DEF UsbClientNext, OpenerStep, KickerStep

\* adbd's end of USB, for any number of transports and losses of the function: the open files
\* are those of the handle, through every failure, and a transport that was not kicked has all
\* of them, with a control file that was described (usb_linux_client.c).
THEOREM UsbClientHolds ==
  UsbClientSpec => [](UsbClientTypeOK /\ FilesInHandle /\ RegisteredWhole)
<1>1. ClientInv => RegisteredWhole
  BY DEF ClientInv, RegisteredWhole, OpenAt, InUse, FilesInHandle, UsbClientTypeOK, EndsOf,
         UsbFiles, IsOpen, Resting
<1>2. ClientInv => UsbClientTypeOK /\ FilesInHandle
  BY DEF ClientInv
<1> QED
  BY <1>1, <1>2, ClientInit, ClientStep, PTL DEF UsbClientSpec

-----------------------------------------------------------------------------
\* The children of the services.

ChildrenSpec == ChildrenInit /\ [][ChildrenNext]_childVars

\* What is told of a shell's end: by then its process was reaped, or it never had one, nor a
\* socket.
EndedOrNone(s) == IF own[s] THEN proc[s] = "reaped" ELSE number[s] = Bad

ServiceOK(s) ==
  /\ answered[s] = "none" => thread[s] = "none" /\ s \notin opened /\ s \notin exitRead
  /\ answered[s] # "none" => number[s] \in {Bad} \cup Numbers
  /\ s \in opened => number[s] \in Numbers
  /\ s \in Shells /\ ~ own[s] => number[s] = Bad
  /\ thread[s] = "told" => s \in Shells /\ EndedOrNone(s)

NoticeOK(n) ==
  /\ n.of \in Shells /\ thread[n.of] = "done"
  /\ n.fd = number[n.of] /\ EndedOrNone(n.of)

\* A framebuffer's thread that left its loop has sent everything, if it could.
FrameOK(s) ==
  /\ answered[s] = "none" => copied[s] = 0
  /\ thread[s] = "copy" => copied[s] < FrameParts
  /\ thread[s] \in {"wait", "done"} /\ proc[s] # "none" /\ s \in opened /\ known[s] =>
       copied[s] = FrameParts

ChildInv ==
  /\ ChildrenTypeOK /\ ToldOfItsExit
  /\ \A s \in Services : ServiceOK(s)
  /\ \A i \in DOMAIN notices : NoticeOK(notices[i])
  /\ \A s \in Frames : FrameOK(s)

LEMMA NumbersAre == Numbers \subseteq Nat \ {0} /\ Bad \notin Numbers
<1>1. IsFiniteSet(Services)
  BY ServiceChildrenAssumption, FS_Union DEF Services
<1>2. Cardinality(Services) \in Nat
  BY <1>1, FS_CardinalityType
<1> QED
  BY <1>2 DEF Numbers, Bad

LEMMA ChildrenStart == ChildrenInit => ChildInv
<1> SUFFICES ASSUME ChildrenInit PROVE ChildInv
  OBVIOUS
<1>1. ChildrenTypeOK
  BY ServiceChildrenAssumption DEF ChildrenInit, ChildrenTypeOK
<1> QED
  BY <1>1, ServiceChildrenAssumption
     DEF ChildrenInit, ChildInv, ToldOfItsExit, ServiceOK, FrameOK, Services

\* main starts a service.
LEMMA AskedKeeps ==
  ASSUME ChildInv, NEW s \in Services, ServiceAsked(s)
  PROVE  ChildInv'
<1>1. /\ answered[s] = "none" /\ answered'[s] # "none"
      /\ \E a \in {"socket", "failed"} : answered' = [answered EXCEPT ![s] = a]
      /\ \E p \in {"none", "running"} : proc' = [proc EXCEPT ![s] = p]
      /\ \E t \in {"none", "copy", "wait", "done"} : thread' = [thread EXCEPT ![s] = t]
      /\ \E o \in BOOLEAN : own' = [own EXCEPT ![s] = o]
      /\ \/ \E n \in Numbers : number' = [number EXCEPT ![s] = n] /\ opened' = opened \cup {s}
         \/ number' = [number EXCEPT ![s] = Bad] /\ opened' = opened
      /\ UNCHANGED <<notices, exitRead, frameVars, stolen>>
  <2>1. /\ GivesSocket(s) \/ GivesNone(s)
        /\ \E p \in {"none", "running"}, t \in {"none", "copy", "wait", "done"}, o \in BOOLEAN :
             Starts(s, p, t, o)
    BY DEF ServiceAsked, ShellStarts, ShellFails, ShellUnwatched, FrameStarts, FrameForkFails,
           FramePipeFails, FrameFails
  <2>2. answered[s] = "none" /\ answered \in [Services -> {"none", "socket", "failed"}]
    BY DEF ServiceAsked, ChildInv, ChildrenTypeOK
  <2> QED
    BY <2>1, <2>2 DEF Starts, GivesSocket, GivesNone
<1>2. s \in Shells => /\ ~ own'[s] => number'[s] = Bad
                      /\ thread'[s] \in {"none", "wait"}
  BY ServiceChildrenAssumption
     DEF ServiceAsked, ShellStarts, ShellFails, ShellUnwatched, Starts, GivesSocket, GivesNone,
         ChildInv, ChildrenTypeOK
<1>3. s \in Frames => /\ thread'[s] \in {"wait", "done"} => proc'[s] = "none"
  BY ServiceChildrenAssumption
     DEF ServiceAsked, FrameStarts, FrameForkFails, FramePipeFails, FrameFails, Starts,
         ChildInv, ChildrenTypeOK
<1>4. ChildrenTypeOK'
  <2>1. /\ answered' \in [Services -> {"none", "socket", "failed"}]
        /\ proc' \in [Services -> {"none", "running", "exited", "reaped"}]
        /\ thread' \in [Services -> {"none", "copy", "wait", "told", "done"}]
        /\ own' \in [Services -> BOOLEAN]
    BY <1>1 DEF ChildInv, ChildrenTypeOK
  <2>2. number' \in [Services -> {0, Bad} \cup Numbers] /\ opened' \subseteq Services
    <3>1. PICK n \in {0, Bad} \cup Numbers : number' = [number EXCEPT ![s] = n]
      BY <1>1
    <3>2. number \in [Services -> {0, Bad} \cup Numbers] /\ opened \subseteq Services
      BY DEF ChildInv, ChildrenTypeOK
    <3>3. number' \in [Services -> {0, Bad} \cup Numbers]
      BY <3>1, <3>2
    <3>4. opened' = opened \/ opened' = opened \cup {s}
      BY <1>1
    <3> QED
      BY <3>2, <3>3, <3>4
  <2> QED
    BY <1>1, <2>1, <2>2 DEF ChildInv, ChildrenTypeOK, frameVars
<1>5. \A c \in Services : c # s =>
        /\ UNCHANGED <<answered[c], proc[c], thread[c], own[c], number[c]>>
        /\ c \in opened' <=> c \in opened
  BY <1>1 DEF ChildInv, ChildrenTypeOK
<1>6. ToldOfItsExit'
  <2> SUFFICES ASSUME NEW e \in exitRead
               PROVE  \/ proc'[e] \notin {"none", "running"}
                      \/ \E c \in Shells \ {e} : number'[c] = number'[e] /\ thread'[c] = "done"
    BY <1>1 DEF ToldOfItsExit
  <2>1. e # s /\ e \in Services /\ UNCHANGED <<proc[e], number[e]>>
    BY <1>1, <1>5 DEF ChildInv, ChildrenTypeOK, ServiceOK
  <2>2. ASSUME NEW c \in Shells, thread[c] = "done"
        PROVE  c # s /\ UNCHANGED <<number[c], thread[c]>>
    BY <1>1, <1>5, <2>2 DEF ChildInv, ServiceOK, Services
  <2> QED
    BY <2>1, <2>2 DEF ChildInv, ToldOfItsExit
<1>7. ASSUME NEW c \in Services PROVE ServiceOK(c)'
  <2>1. CASE c # s
    BY <1>1, <1>5, <2>1 DEF ChildInv, ServiceOK, EndedOrNone
  <2>2. CASE c = s
    BY <1>1, <1>2, <2>2 DEF ChildInv, ChildrenTypeOK, ServiceOK
  <2> QED
    BY <2>1, <2>2
<1>8. ASSUME NEW i \in DOMAIN notices' PROVE NoticeOK(notices[i])'
  <2>0. i \in DOMAIN notices /\ notices' = notices
    BY <1>1
  <2> SUFFICES ASSUME NEW c, c = notices[i].of
               PROVE  NoticeOK(notices[i])'
    OBVIOUS
  <2>1. c \in Shells /\ notices[i].fd = number[c] /\ thread[c] = "done" /\ EndedOrNone(c)
    BY <2>0 DEF ChildInv, NoticeOK
  <2>2. c \in Services /\ c # s
    BY <1>1, <2>1 DEF ChildInv, ServiceOK, Services
  <2>3. UNCHANGED <<proc[c], thread[c], own[c], number[c]>>
    BY <1>5, <2>2
  <2>4. EndedOrNone(c)'
    BY <2>1, <2>3 DEF EndedOrNone
  <2> QED
    BY <2>0, <2>1, <2>3, <2>4 DEF NoticeOK
<1>9. ASSUME NEW c \in Frames PROVE FrameOK(c)'
  <2>0. UNCHANGED <<copied, known>> /\ c \in Services
    BY <1>1 DEF frameVars, Services
  <2>1. CASE c # s
    BY <1>5, <2>0, <2>1 DEF ChildInv, FrameOK
  <2>2. CASE c = s
    BY <1>1, <1>3, <2>0, <2>2, ServiceChildrenAssumption DEF ChildInv, FrameOK
  <2> QED
    BY <2>1, <2>2
<1> QED
  BY <1>4, <1>6, <1>7, <1>8, <1>9 DEF ChildInv

\* main closes a socket, or reads of an end.
LEMMA MainKeeps ==
  ASSUME ChildInv, NoticeRead \/ \E s \in Services : SocketClosed(s)
  PROVE  ChildInv'
<1>0. /\ UNCHANGED <<proc, thread, own, answered, number, frameVars, stolen>>
      /\ opened' \subseteq opened
  BY DEF NoticeRead, SocketClosed
<1>1. /\ exitRead' \subseteq Services
      /\ notices' \in Seq([fd : {Bad} \cup Numbers, of : Services])
  <2> DEFINE S == [fd : {Bad} \cup Numbers, of : Services]
  <2>1. notices \in Seq(S) /\ exitRead \subseteq Services /\ opened \subseteq Services
    BY DEF ChildInv, ChildrenTypeOK
  <2> HIDE DEF S
  <2>2. notices' \in Seq(S) /\ exitRead' \subseteq Services
    BY <2>1 DEF NoticeRead, SocketClosed
  <2> QED
    BY <2>2 DEF S
<1>2. ASSUME NEW i \in DOMAIN notices' PROVE \E k \in DOMAIN notices : notices'[i] = notices[k]
  <2>1. CASE NoticeRead
    <3>1. /\ notices' = Tail(notices) /\ notices # <<>>
          /\ notices \in Seq([fd : {Bad} \cup Numbers, of : Services])
      BY <2>1 DEF NoticeRead, ChildInv, ChildrenTypeOK
    <3>2. i + 1 \in DOMAIN notices /\ notices'[i] = notices[i + 1]
      BY <1>2, <3>1
    <3> QED
      BY <3>2
  <2>2. CASE \E s \in Services : SocketClosed(s)
    BY <1>2, <2>2 DEF SocketClosed
  <2> QED
    BY <2>1, <2>2
<1>3. ASSUME NEW e \in exitRead' PROVE e \in exitRead
      \/ (/\ NoticeRead /\ e \in opened
          /\ \E k \in DOMAIN notices : number[e] = notices[k].fd /\ notices[k].of \in Shells)
  <2>1. CASE NoticeRead
    <3>1. notices # <<>> /\ notices \in Seq([fd : {Bad} \cup Numbers, of : Services])
      BY <2>1 DEF NoticeRead, ChildInv, ChildrenTypeOK
    <3>2. 1 \in DOMAIN notices /\ Head(notices) = notices[1]
      BY <3>1
    <3> QED
      BY <1>3, <2>1, <3>2 DEF NoticeRead, ChildInv, NoticeOK
  <2>2. CASE \E s \in Services : SocketClosed(s)
    BY <1>3, <2>2 DEF SocketClosed
  <2> QED
    BY <2>1, <2>2
<1>4. ChildrenTypeOK'
  BY <1>0, <1>1 DEF ChildInv, ChildrenTypeOK, frameVars
<1>5. ASSUME NEW e \in exitRead'
      PROVE  \/ proc[e] \notin {"none", "running"}
             \/ \E c \in Shells \ {e} : number[c] = number[e] /\ thread[c] = "done"
  <2>1. CASE e \in exitRead
    BY <2>1 DEF ChildInv, ToldOfItsExit
  <2>2. ASSUME NEW k \in DOMAIN notices, e \in opened, number[e] = notices[k].fd
        PROVE  \/ proc[e] \notin {"none", "running"}
               \/ \E c \in Shells \ {e} : number[c] = number[e] /\ thread[c] = "done"
    <3>1. /\ notices[k].of \in Shells /\ thread[notices[k].of] = "done"
          /\ number[e] = number[notices[k].of] /\ EndedOrNone(notices[k].of)
      BY <2>2 DEF ChildInv, NoticeOK
    <3>2. number[e] # Bad
      BY <2>2, NumbersAre DEF ChildInv, ChildrenTypeOK, ServiceOK
    <3> QED
      BY <3>1, <3>2 DEF EndedOrNone
  <2> QED
    BY <1>3, <1>5, <2>1, <2>2
<1>6. ToldOfItsExit'
  BY <1>0, <1>5 DEF ToldOfItsExit
<1>7. ASSUME NEW s \in Services PROVE ServiceOK(s)'
  <2>1. s \in exitRead' => answered[s] # "none"
    BY <1>3 DEF ChildInv, ServiceOK
  <2> QED
    BY <1>0, <2>1 DEF ChildInv, ServiceOK, EndedOrNone
<1>8. ASSUME NEW i \in DOMAIN notices' PROVE NoticeOK(notices[i])'
  <2>1. PICK k \in DOMAIN notices : notices'[i] = notices[k]
    BY <1>2, <1>8
  <2>2. NoticeOK(notices[k])
    BY DEF ChildInv
  <2> QED
    BY <1>0, <2>1, <2>2 DEF NoticeOK, EndedOrNone
<1>9. ASSUME NEW s \in Frames PROVE FrameOK(s)'
  BY <1>0 DEF ChildInv, FrameOK, frameVars
<1> QED
  BY <1>4, <1>6, <1>7, <1>8, <1>9 DEF ChildInv

\* What the processes and the threads do keeps it, if only threads that were not done change,
\* and a process only from running to exited or from exited to reaped.
LEMMA ProcsKeep ==
  ASSUME ChildInv, ChildrenTypeOK',
         UNCHANGED <<own, answered, number, opened, exitRead, notices, known>>,
         \A s \in Services : \/ proc'[s] = proc[s]
                             \/ proc[s] = "running" /\ proc'[s] = "exited"
                             \/ proc[s] = "exited" /\ proc'[s] = "reaped",
         \A s \in Services : \/ thread'[s] = thread[s]
                             \/ thread[s] \notin {"none", "done"},
         \A s \in Services : thread'[s] = "told" => s \in Shells /\ EndedOrNone(s)',
         \A s \in Frames : FrameOK(s)'
  PROVE  ChildInv'
<1>0. Shells \subseteq Services
  BY DEF Services
<1>1. ToldOfItsExit'
  <2> SUFFICES ASSUME NEW e \in exitRead
               PROVE  \/ proc'[e] \notin {"none", "running"}
                      \/ \E c \in Shells \ {e} : number[c] = number[e] /\ thread'[c] = "done"
    BY DEF ToldOfItsExit
  <2>1. e \in Services
    BY DEF ChildInv, ChildrenTypeOK
  <2>2. \/ proc[e] \notin {"none", "running"}
        \/ \E c \in Shells \ {e} : number[c] = number[e] /\ thread[c] = "done"
    BY DEF ChildInv, ToldOfItsExit
  <2>3. \A c \in Shells : thread[c] = "done" => thread'[c] = "done"
    BY <1>0
  <2>4. proc[e] \notin {"none", "running"} => proc'[e] \notin {"none", "running"}
    BY <2>1
  <2> QED
    BY <2>2, <2>3, <2>4
<1>2. ASSUME NEW s \in Services PROVE ServiceOK(s)'
  BY DEF ChildInv, ServiceOK
<1>3. ASSUME NEW i \in DOMAIN notices' PROVE NoticeOK(notices[i])'
  BY <1>0 DEF ChildInv, NoticeOK, EndedOrNone
<1> QED
  BY <1>1, <1>2, <1>3 DEF ChildInv

\* A thread tells of the end.
LEMMA TellsKeeps ==
  ASSUME ChildInv, NEW s \in Services, ThreadTells(s)
  PROVE  ChildInv'
<1>1. /\ thread[s] = "told" /\ thread' = [thread EXCEPT ![s] = "done"]
      /\ notices' = Append(notices, [fd |-> number[s], of |-> s])
      /\ UNCHANGED <<proc, own, answered, number, opened, exitRead, frameVars, stolen>>
  BY DEF ThreadTells
<1>2. s \in Shells /\ EndedOrNone(s) /\ number[s] \in {Bad} \cup Numbers
  BY <1>1 DEF ChildInv, ServiceOK
<1>3. ChildrenTypeOK'
  <2> DEFINE S == [fd : {Bad} \cup Numbers, of : Services]
  <2>1. [fd |-> number[s], of |-> s] \in S /\ notices \in Seq(S)
    BY <1>2 DEF ChildInv, ChildrenTypeOK
  <2> HIDE DEF S
  <2>2. notices' \in Seq(S)
    BY <1>1, <2>1
  <2>3. thread' \in [Services -> {"none", "copy", "wait", "told", "done"}]
    BY <1>1 DEF ChildInv, ChildrenTypeOK
  <2> QED
    BY <1>1, <2>2, <2>3 DEF ChildInv, ChildrenTypeOK, frameVars, S
<1>4. \A c \in Services : c # s => thread'[c] = thread[c]
  BY <1>1 DEF ChildInv, ChildrenTypeOK
<1>5. thread'[s] = "done"
  BY <1>1 DEF ChildInv, ChildrenTypeOK
<1>6. ToldOfItsExit'
  <2>1. \A c \in Shells : thread[c] = "done" => thread'[c] = "done"
    BY <1>4, <1>5 DEF Services
  <2> QED
    BY <1>1, <2>1 DEF ChildInv, ToldOfItsExit
<1>7. ASSUME NEW c \in Services PROVE ServiceOK(c)'
  <2>1. CASE c # s
    BY <1>1, <1>4, <2>1 DEF ChildInv, ServiceOK, EndedOrNone
  <2>2. CASE c = s
    BY <1>1, <1>5, <2>2 DEF ChildInv, ServiceOK
  <2> QED
    BY <2>1, <2>2
<1>8. ASSUME NEW i \in DOMAIN notices' PROVE NoticeOK(notices[i])'
  <2>0. notices \in Seq([fd : {Bad} \cup Numbers, of : Services])
    BY DEF ChildInv, ChildrenTypeOK
  <2>1. CASE i \in DOMAIN notices
    <3>1. notices'[i] = notices[i] /\ NoticeOK(notices[i])
      BY <1>1, <2>0, <2>1 DEF ChildInv
    <3>2. thread'[notices[i].of] = "done"
      BY <1>4, <1>5, <3>1 DEF NoticeOK, Services
    <3> QED
      BY <1>1, <3>1, <3>2 DEF NoticeOK, EndedOrNone
  <2>2. CASE i \notin DOMAIN notices
    <3>1. notices'[i] = [fd |-> number[s], of |-> s]
      BY <1>1, <1>8, <2>0, <2>2
    <3> QED
      BY <1>1, <1>2, <1>5, <3>1 DEF NoticeOK, EndedOrNone
  <2> QED
    BY <2>1, <2>2
<1>9. ASSUME NEW f \in Frames PROVE FrameOK(f)'
  <2>1. f # s /\ f \in Services
    BY <1>2, ServiceChildrenAssumption DEF Services
  <2> QED
    BY <1>1, <1>4, <2>1 DEF ChildInv, FrameOK, frameVars
<1> QED
  BY <1>3, <1>6, <1>7, <1>8, <1>9 DEF ChildInv

\* A process writes or ends.
LEMMA ProcessKeeps ==
  ASSUME ChildInv, NEW s \in Services, ScreencapWrites(s) \/ ProcessExits(s)
  PROVE  ChildInv'
<1>1. CASE ScreencapWrites(s)
  <2>0. UNCHANGED <<proc, thread, own, answered, number, opened, exitRead, notices, known, copied>>
    BY <1>1 DEF ScreencapWrites
  <2>1. ChildrenTypeOK'
    <3>1. written' \in [Frames -> 0 .. FrameParts] /\ piped' \in [Frames -> 0 .. PipeRoom]
      BY <1>1, ServiceChildrenAssumption DEF ScreencapWrites, ChildInv, ChildrenTypeOK
    <3> QED
      BY <1>1, <2>0, <3>1 DEF ScreencapWrites, ChildInv, ChildrenTypeOK
  <2>2. \A c \in Frames : FrameOK(c)'
    BY <2>0 DEF ChildInv, FrameOK
  <2>3. \A c \in Services : thread'[c] = "told" => c \in Shells /\ EndedOrNone(c)'
    BY <2>0 DEF ChildInv, ServiceOK, EndedOrNone
  <2> QED
    BY <2>0, <2>1, <2>2, <2>3, ProcsKeep
<1>2. CASE ProcessExits(s)
  <2>0. /\ UNCHANGED <<thread, own, answered, number, opened, exitRead, notices, known, copied>>
        /\ proc[s] = "running" /\ proc' = [proc EXCEPT ![s] = "exited"]
        /\ proc \in [Services -> {"none", "running", "exited", "reaped"}]
    BY <1>2 DEF ProcessExits, ChildInv, ChildrenTypeOK
  <2>1. ChildrenTypeOK'
    <3>1. proc' \in [Services -> {"none", "running", "exited", "reaped"}]
      BY <2>0
    <3>2. early' \subseteq Frames
      BY <1>2 DEF ProcessExits, ChildInv, ChildrenTypeOK
    <3> QED
      BY <1>2, <2>0, <3>1, <3>2 DEF ProcessExits, ChildInv, ChildrenTypeOK
  <2>2. \A c \in Services : \/ proc'[c] = proc[c]
                            \/ c = s /\ proc[c] = "running" /\ proc'[c] = "exited"
    BY <2>0
  <2>3. \A c \in Frames : FrameOK(c)'
    BY <2>0, <2>2 DEF ChildInv, FrameOK, Services
  <2>4. \A c \in Services : thread'[c] = "told" => c \in Shells /\ EndedOrNone(c)'
    BY <2>0, <2>2 DEF ChildInv, ServiceOK, EndedOrNone
  <2> QED
    BY <2>0, <2>1, <2>2, <2>3, <2>4, ProcsKeep
<1> QED
  BY <1>1, <1>2

\* The thread of a framebuffer copies a part.
LEMMA CopiesKeeps ==
  ASSUME ChildInv, NEW s \in Frames, FrameCopies(s)
  PROVE  ChildInv'
<1>0. s \in Services /\ s \notin Shells
  BY ServiceChildrenAssumption DEF Services
<1>1. /\ UNCHANGED <<proc, own, answered, number, opened, exitRead, notices, known, written, early,
                     stolen>>
      /\ thread[s] = "copy" /\ thread' \in {thread, [thread EXCEPT ![s] = "wait"]}
      /\ thread \in [Services -> {"none", "copy", "wait", "told", "done"}]
      /\ copied \in [Frames -> 0 .. FrameParts] /\ copied[s] < FrameParts
  BY DEF FrameCopies, ChildInv, ChildrenTypeOK, FrameOK
<1>2. /\ copied' \in {copied, [copied EXCEPT ![s] = copied[s] + 1]}
      /\ thread'[s] = "copy" => copied'[s] < FrameParts
      /\ thread'[s] = "wait" /\ s \in opened /\ known[s] => copied'[s] = FrameParts
  BY <1>0, <1>1, ServiceChildrenAssumption DEF FrameCopies
<1>3. /\ copied' \in [Frames -> 0 .. FrameParts]
      /\ \A c \in Frames : c # s => copied'[c] = copied[c]
      /\ \A c \in Services : c # s => thread'[c] = thread[c]
  BY <1>1, <1>2, ServiceChildrenAssumption
<1>4. ChildrenTypeOK'
  <2>1. piped' \in [Frames -> 0 .. PipeRoom]
    BY ServiceChildrenAssumption DEF FrameCopies, ChildInv, ChildrenTypeOK
  <2>2. thread' \in [Services -> {"none", "copy", "wait", "told", "done"}]
    BY <1>0, <1>1
  <2> QED
    BY <1>1, <1>3, <2>1, <2>2 DEF ChildInv, ChildrenTypeOK
<1>5. thread'[s] \in {"copy", "wait"} /\ answered[s] # "none"
  BY <1>0, <1>1 DEF ChildInv, ServiceOK
<1>6. ASSUME NEW c \in Frames PROVE FrameOK(c)'
  <2>1. CASE c = s
    BY <1>1, <1>2, <1>5, <2>1 DEF FrameOK
  <2>2. CASE c # s
    BY <1>1, <1>3, <2>2 DEF ChildInv, FrameOK, Services
  <2> QED
    BY <2>1, <2>2
<1>7. ASSUME NEW c \in Services, thread'[c] = "told" PROVE c \in Shells /\ EndedOrNone(c)'
  <2>1. c # s /\ thread[c] = "told"
    BY <1>3, <1>5, <1>7
  <2> QED
    BY <1>1, <2>1 DEF ChildInv, ServiceOK, EndedOrNone
<1>8. \A c \in Services : \/ thread'[c] = thread[c]
                           \/ thread[c] \notin {"none", "done"}
  BY <1>1, <1>3
<1> QED
  BY <1>1, <1>4, <1>6, <1>7, <1>8, ProcsKeep

\* A thread waits for a process, its own or any.
LEMMA WaitsKeeps ==
  ASSUME ChildInv, NEW s \in Services, ThreadWaits(s)
  PROVE  ChildInv'
<1>1. /\ UNCHANGED <<own, answered, number, opened, exitRead, notices, frameVars>>
      /\ thread[s] = "wait"
      /\ \E t \in {"wait", "told", "done"} : thread' = [thread EXCEPT ![s] = t]
      /\ thread \in [Services -> {"none", "copy", "wait", "told", "done"}]
      /\ proc \in [Services -> {"none", "running", "exited", "reaped"}]
      /\ stolen \subseteq Services
  BY DEF ThreadWaits, OwnReaped, OwnStolen, AnyReaped, NoneReaped, ChildInv, ChildrenTypeOK
<1>2. /\ \/ proc' = proc
         \/ \E c \in Services : proc[c] = "exited" /\ proc' = [proc EXCEPT ![c] = "reaped"]
      /\ stolen' \subseteq Services
  BY <1>1 DEF ThreadWaits, OwnReaped, OwnStolen, AnyReaped, NoneReaped
<1>3. thread'[s] = "told" => s \in Shells /\ (own[s] => proc'[s] = "reaped")
  BY <1>1 DEF ThreadWaits, OwnReaped, OwnStolen, AnyReaped, NoneReaped
<1>4. ChildrenTypeOK'
  <2>1. thread' \in [Services -> {"none", "copy", "wait", "told", "done"}]
    BY <1>1
  <2>2. proc' \in [Services -> {"none", "running", "exited", "reaped"}]
    BY <1>1, <1>2
  <2> QED
    BY <1>1, <1>2, <2>1, <2>2 DEF ChildInv, ChildrenTypeOK, frameVars
<1>5. \A c \in Services : proc'[c] = proc[c] \/ (proc[c] = "exited" /\ proc'[c] = "reaped")
  BY <1>1, <1>2
<1>6. \A c \in Services : \/ thread'[c] = thread[c]
                          \/ c = s /\ thread'[c] \in {"wait", "told", "done"}
  BY <1>1
<1>7. ASSUME NEW c \in Frames PROVE FrameOK(c)'
  BY <1>1, <1>5, <1>6 DEF ChildInv, FrameOK, Services, frameVars
<1>8. ASSUME NEW c \in Services, thread'[c] = "told" PROVE c \in Shells /\ EndedOrNone(c)'
  <2>1. CASE c = s
    BY <1>1, <1>3, <1>8, <2>1 DEF ChildInv, ServiceOK, EndedOrNone
  <2>2. CASE c # s
    BY <1>1, <1>5, <1>6, <1>8, <2>2 DEF ChildInv, ServiceOK, EndedOrNone
  <2> QED
    BY <2>1, <2>2
<1>9. known' = known
  BY <1>1 DEF frameVars
<1>10. \A c \in Services : \/ thread'[c] = thread[c]
                            \/ thread[c] \notin {"none", "done"}
  BY <1>1, <1>6
<1> QED
  BY <1>1, <1>4, <1>5, <1>7, <1>8, <1>9, <1>10, ProcsKeep

LEMMA ChildrenStep == ChildInv /\ [ChildrenNext]_childVars => ChildInv'
<1> SUFFICES ASSUME ChildInv, [ChildrenNext]_childVars PROVE ChildInv'
  OBVIOUS
<1>1. CASE UNCHANGED childVars
  <2>1. UNCHANGED <<proc, thread, own, answered, number, opened, notices, exitRead, written, piped,
                    copied, known, early, stolen>>
    BY <1>1 DEF childVars, frameVars
  <2>2. ChildrenTypeOK'
    BY <2>1 DEF ChildInv, ChildrenTypeOK
  <2>3. \A s \in Services : thread'[s] = "told" => s \in Shells /\ EndedOrNone(s)'
    BY <2>1 DEF ChildInv, ServiceOK, EndedOrNone
  <2>4. \A s \in Frames : FrameOK(s)'
    BY <2>1 DEF ChildInv, FrameOK
  <2> QED
    BY <2>1, <2>2, <2>3, <2>4, ProcsKeep
<1>2. CASE ChildrenNext
  BY <1>2, AskedKeeps, MainKeeps, ProcessKeeps, CopiesKeeps, WaitsKeeps, TellsKeeps
     DEF ChildrenNext, ThreadStep
<1> QED
  BY <1>1, <1>2

\* The children of adbd's services, for any number of them and whatever fails to start: main is
\* told of an end only when there was one, or of a number that was given again; and a
\* framebuffer that ended with its socket open sent the whole screen (services.c,
\* framebuffer_service.c).
THEOREM ChildrenHold ==
  ChildrenSpec => [](ChildrenTypeOK /\ FrameWhole /\ ToldOfItsExit)
<1>1. ChildInv => ChildrenTypeOK /\ FrameWhole /\ ToldOfItsExit
  BY DEF ChildInv, FrameOK, FrameWhole
<1> QED
  BY <1>1, ChildrenStart, ChildrenStep, PTL DEF ChildrenSpec

-----------------------------------------------------------------------------
\* The daemons of the application.

ProcessesSpec == ProcessesInit /\ [][ProcessesNext]_processVars

Requests == {Run(p) : p \in Ports} \cup {KillAll, GetAll}

\* The service's list against the processes: each daemon is listed at its port by the instance
\* that forked it, and instances only grow.
DaemonInv ==
  /\ service \in {0, instance} /\ instance \in 0 .. MaxInstances
  /\ service = 0 => DOMAIN listed = {}
  /\ DOMAIN listed \subseteq Ports /\ failedFork \subseteq Ports
  /\ child \in [Pids -> {"none", "running", "killed", "exited", "reaped"}]
  /\ place \in [Pids -> [port : {0} \cup Ports, of : 0 .. instance]]
  /\ forked \in 0 .. MaxPids
  /\ \A p \in DOMAIN listed :
       /\ listed[p] \in 1 .. forked
       /\ place[listed[p]] = [port |-> p, of |-> service]
       /\ child[listed[p]] \in {"running", "exited"} \/ p \in failedFork
  /\ RunningListed

RefreshInv ==
  /\ clicks \in 0 .. MaxClicks /\ messages \in Nat /\ lost \in Nat
  /\ bound \in 0 .. instance
  /\ conns \in Seq(Requests) /\ told \subseteq DOMAIN conns
  /\ instance = 0 => told = {}
  /\ OneRefresh

ProcInv == DaemonInv /\ RefreshInv

LEMMA PidsAre ==
  /\ MaxClicks \in Nat /\ MaxPids \in Nat /\ MaxInstances \in Nat /\ MaxConns \in Nat
  /\ Pids = 1 .. MaxPids /\ Instances = 1 .. MaxInstances
  BY ProcessesAssumption DEF Pids, Instances

LEMMA RequestsDiffer ==
  /\ KillAll # GetAll
  /\ \A p : Run(p) # KillAll /\ Run(p) # GetAll /\ Run(p).op = "run" /\ Run(p).port = p
  /\ KillAll.op = "killAll" /\ GetAll.op = "getAll"
<1>1. \A p : Run(p).op = "run" /\ Run(p).port = p
  BY DEF Run
<1>2. KillAll.op = "killAll" /\ GetAll.op = "getAll"
  BY DEF KillAll, GetAll
<1> QED
  BY <1>1, <1>2

\* Two ports have two daemons.
LEMMA ListedApart ==
  ASSUME DaemonInv, NEW p \in DOMAIN listed, NEW q \in DOMAIN listed, p # q
  PROVE  listed[p] # listed[q] /\ listed[p] \in Pids
<1>1. /\ place[listed[p]] = [port |-> p, of |-> service]
      /\ place[listed[q]] = [port |-> q, of |-> service]
  BY DEF DaemonInv
<1>2. listed[p] \in 1 .. forked /\ forked \in 0 .. MaxPids
  BY DEF DaemonInv
<1>3. listed[p] \in 1 .. MaxPids
  BY <1>2, PidsAre
<1> QED
  BY <1>1, <1>3, PidsAre

-----------------------------------------------------------------------------
\* run, killAll and getAll.

LEMMA ForksKeeps ==
  ASSUME DaemonInv, service # 0, UNCHANGED serviceVars, NEW p \in Ports, RunForks(p)
  PROVE  DaemonInv'
<1> DEFINE n == forked + 1
<1>0. MaxPids \in Nat /\ Pids = 1 .. MaxPids /\ UNCHANGED <<service, instance>>
  BY PidsAre DEF serviceVars
<1>1. n \in Pids /\ n \notin 1 .. forked /\ forked' = n /\ forked' \in 0 .. MaxPids
  BY <1>0 DEF RunForks, DaemonInv
<1>2. /\ \A d \in Pids : d # n => \/ child'[d] = child[d]
                                 \/ /\ child[d] = "exited" /\ child'[d] = "reaped"
                                    /\ p \in DOMAIN listed /\ d = listed[p]
      /\ child'[n] = "running" /\ DOMAIN child' = Pids
      /\ child' = [d \in Pids |-> child'[d]]
  BY <1>1 DEF RunForks, Reaped
<1>3. child' \in [Pids -> {"none", "running", "killed", "exited", "reaped"}]
  BY <1>2 DEF DaemonInv
<1>4. /\ DOMAIN listed' = DOMAIN listed \cup {p} /\ listed'[p] = n
      /\ \A q \in DOMAIN listed : q # p => listed'[q] = listed[q]
  BY <1>1 DEF RunForks
<1>5. /\ place' = [place EXCEPT ![n] = [port |-> p, of |-> service]]
      /\ failedFork' = failedFork
  BY <1>1 DEF RunForks
<1>6. place'[n] = [port |-> p, of |-> service] /\ \A d \in Pids : d # n => place'[d] = place[d]
  BY <1>1, <1>5 DEF DaemonInv
<1>7. place' \in [Pids -> [port : {0} \cup Ports, of : 0 .. instance']]
  BY <1>0, <1>1, <1>5 DEF DaemonInv
<1>8. ASSUME NEW q \in DOMAIN listed'
      PROVE  /\ listed'[q] \in 1 .. forked'
             /\ place'[listed'[q]] = [port |-> q, of |-> service']
             /\ child'[listed'[q]] \in {"running", "exited"} \/ q \in failedFork'
  <2>1. CASE q = p
    BY <1>0, <1>1, <1>2, <1>4, <1>6, <2>1
  <2>2. CASE q # p
    <3>1. q \in DOMAIN listed /\ listed'[q] = listed[q]
      BY <1>4, <2>2
    <3>2. listed[q] \in 1 .. forked /\ place[listed[q]] = [port |-> q, of |-> service]
      BY <3>1 DEF DaemonInv
    <3>3. listed[q] \in Pids /\ listed[q] # n
      BY <1>0, <1>1, <3>2 DEF DaemonInv
    <3>4. p \in DOMAIN listed => listed[p] # listed[q]
      BY <2>2, <3>1, ListedApart
    <3>5. child'[listed[q]] = child[listed[q]]
      BY <1>2, <3>3, <3>4
    <3>6. child[listed[q]] \in {"running", "exited"} \/ q \in failedFork
      BY <3>1 DEF DaemonInv
    <3> QED
      <4>1. place'[listed'[q]] = [port |-> q, of |-> service']
        BY <1>0, <1>6, <3>1, <3>2, <3>3
      <4>2. listed'[q] \in 1 .. forked'
        <5>1. forked \in Nat /\ forked' = forked + 1
          BY <1>0, <1>1 DEF DaemonInv
        <5> QED
          BY <3>1, <3>2, <5>1
      <4> QED
        BY <1>5, <3>1, <3>5, <3>6, <4>1, <4>2
  <2> QED
    BY <2>1, <2>2
<1>9. RunningListed'
  <2> SUFFICES ASSUME NEW d \in Pids, child'[d] = "running", place'[d].of = service
               PROVE  place'[d].port \in DOMAIN listed' /\ listed'[place'[d].port] = d
    BY <1>0 DEF RunningListed, Ours
  <2>1. CASE d = n
    BY <1>4, <1>6, <2>1
  <2>2. CASE d # n
    <3>1. child[d] = "running" /\ place'[d] = place[d]
      BY <1>2, <1>6, <2>2
    <3>2. place[d].port \in DOMAIN listed /\ listed[place[d].port] = d
      BY <3>1 DEF DaemonInv, RunningListed, Ours
    <3>3. place[d].port # p
      BY <3>1, <3>2 DEF RunForks, Refused, SaysRunning
    <3> QED
      BY <1>4, <3>1, <3>2, <3>3
  <2> QED
    BY <2>1, <2>2
<1> QED
  BY <1>0, <1>1, <1>3, <1>4, <1>5, <1>7, <1>8, <1>9 DEF DaemonInv

\* A fork that failed, a run that is refused and killAll.
LEMMA CallsKeep ==
  ASSUME DaemonInv, service # 0, UNCHANGED serviceVars,
         (\E p \in Ports : RunForkFails(p) \/ RunRefused(p)) \/ KillsAll \/ GetsAll
  PROVE  DaemonInv'
<1>0. MaxPids \in Nat /\ Pids = 1 .. MaxPids /\ UNCHANGED <<service, instance>>
  BY PidsAre DEF serviceVars
<1>1. ASSUME NEW q \in DOMAIN listed PROVE listed[q] \in Pids
  <2>1. listed[q] \in 1 .. forked /\ forked \in 0 .. MaxPids
    BY DEF DaemonInv
  <2> QED
    BY <1>0, <2>1
<1>2. ASSUME NEW p \in Ports, RunForkFails(p) PROVE DaemonInv'
  <2>1. /\ UNCHANGED <<listed, forked, place>> /\ failedFork' = failedFork \cup {p}
        /\ \A d \in Pids : \/ child'[d] = child[d]
                           \/ /\ child[d] = "exited" /\ child'[d] = "reaped"
                              /\ p \in DOMAIN listed /\ d = listed[p]
        /\ child' = [d \in Pids |-> child'[d]]
    BY <1>2 DEF RunForkFails, Reaped
  <2>2. child' \in [Pids -> {"none", "running", "killed", "exited", "reaped"}]
    BY <2>1 DEF DaemonInv
  <2>3. ASSUME NEW q \in DOMAIN listed
        PROVE  child'[listed[q]] \in {"running", "exited"} \/ q \in failedFork'
    <3>1. q = p \/ (p \in DOMAIN listed => listed[p] # listed[q])
      BY ListedApart
    <3> QED
      BY <1>1, <2>1, <3>1 DEF DaemonInv
  <2>4. RunningListed'
    BY <1>0, <2>1 DEF DaemonInv, RunningListed, Ours
  <2> QED
    BY <1>0, <2>1, <2>2, <2>3, <2>4 DEF DaemonInv
<1>3. ASSUME NEW p \in Ports, RunRefused(p) PROVE DaemonInv'
  BY <1>0, <1>3 DEF RunRefused, daemonVars, DaemonInv, RunningListed, Ours
<1>4. CASE KillsAll
  <2>1. /\ UNCHANGED <<forked, place>> /\ listed' = <<>> /\ failedFork' = {}
        /\ child' = [d \in Pids |-> child'[d]]
        /\ \A d \in Pids : /\ d \in ListedPids => child'[d] # "running"
                           /\ child'[d] \in {child[d], "killed", "reaped"}
    BY <1>4 DEF KillsAll
  <2>2. child' \in [Pids -> {"none", "running", "killed", "exited", "reaped"}]
    BY <2>1 DEF DaemonInv
  <2>3. RunningListed'
    <3> SUFFICES ASSUME NEW d \in Pids, child'[d] = "running", place[d].of = service
                 PROVE  FALSE
      BY <1>0, <2>1 DEF RunningListed, Ours
    <3>1. child[d] = "running" /\ d \notin ListedPids
      BY <2>1
    <3> QED
      BY <3>1 DEF DaemonInv, RunningListed, Ours, ListedPids
  <2> QED
    BY <1>0, <2>1, <2>2, <2>3 DEF DaemonInv
<1>5. CASE GetsAll
  <2>1. /\ UNCHANGED <<forked, place>>
        /\ DOMAIN listed' = {q \in DOMAIN listed : child[listed[q]] # "exited"}
        /\ \A q \in DOMAIN listed' : listed'[q] = listed[q]
        /\ failedFork' = failedFork \cap DOMAIN listed'
        /\ child' = [d \in Pids |-> child'[d]]
        /\ \A d \in Pids : \/ child'[d] = child[d]
                           \/ child[d] = "exited" /\ child'[d] = "reaped"
    BY <1>5 DEF GetsAll, ListedOnly, SaysRunning, Reaped
  <2>2. child' \in [Pids -> {"none", "running", "killed", "exited", "reaped"}]
    BY <2>1 DEF DaemonInv
  <2>3. ASSUME NEW q \in DOMAIN listed'
        PROVE  /\ q \in DOMAIN listed /\ listed'[q] \in 1 .. forked
               /\ place[listed'[q]] = [port |-> q, of |-> service]
               /\ child'[listed'[q]] \in {"running", "exited"} \/ q \in failedFork'
    BY <1>1, <2>1 DEF DaemonInv
  <2>4. RunningListed'
    BY <1>0, <2>1 DEF DaemonInv, RunningListed, Ours
  <2> QED
    BY <1>0, <2>1, <2>2, <2>3, <2>4 DEF DaemonInv
<1> QED
  BY <1>2, <1>3, <1>4, <1>5

\* A call, of the instance that runs or of one that is gone; and when run is refused.
LEMMA CallKeeps ==
  ASSUME DaemonInv, UNCHANGED serviceVars, NEW r \in Requests, NEW b, b # 0, Call(r, b)
  PROVE  /\ DaemonInv'
         /\ \E a \in {"ok", "error"} : outcome' = Asked(r, a)
         /\ \A p \in Ports : outcome' = Asked(Run(p), "error") /\ b = service =>
              \/ p \in DOMAIN listed /\ child[listed[p]] = "running"
              \/ p \in failedFork
<1>1. CASE b # service
  <2>1. outcome' = Asked(r, "error") /\ UNCHANGED daemonVars
    BY <1>1 DEF Call
  <2>2. DaemonInv'
    BY <2>1 DEF DaemonInv, daemonVars, serviceVars, RunningListed, Ours
  <2> QED
    BY <1>1, <2>1, <2>2
<1>2. CASE b = service
  <2>0. service # 0
    BY <1>2
  <2>1. ASSUME NEW p \in Ports, r = Run(p)
        PROVE  RunForks(p) \/ RunForkFails(p) \/ RunRefused(p)
    BY <1>2, <2>1, RequestsDiffer DEF Call
  <2>2. CASE r = KillAll
    <3>1. KillsAll
      BY <1>2, <2>2, RequestsDiffer DEF Call
    <3>2. outcome' = Asked(r, "ok")
      BY <2>2, <3>1 DEF KillsAll
    <3> QED
      BY <2>0, <3>1, <3>2, CallsKeep DEF Asked
  <2>3. CASE r = GetAll
    <3>1. GetsAll
      BY <1>2, <2>3, RequestsDiffer DEF Call
    <3>2. outcome' = Asked(r, "ok")
      BY <2>3, <3>1 DEF GetsAll
    <3> QED
      BY <2>0, <3>1, <3>2, CallsKeep DEF Asked
  <2>4. ASSUME NEW p \in Ports, r = Run(p) PROVE
           /\ DaemonInv'
           /\ \E a \in {"ok", "error"} : outcome' = Asked(r, a)
           /\ \A q \in Ports : outcome' = Asked(Run(q), "error") =>
                \/ q \in DOMAIN listed /\ child[listed[q]] = "running"
                \/ q \in failedFork
    <3>1. CASE RunRefused(p)
      <4>1. outcome' = Asked(Run(p), "error") /\ Refused(p)
        BY <3>1 DEF RunRefused
      <4>2. /\ p \in DOMAIN listed /\ child[listed[p]] # "exited"
            /\ child[listed[p]] \in {"running", "exited"} \/ p \in failedFork
        BY <4>1 DEF Refused, SaysRunning, DaemonInv
      <4>3. \A q \in Ports : outcome' = Asked(Run(q), "error") => q = p
        BY <4>1 DEF Asked, Run
      <4> QED
        BY <2>0, <2>4, <3>1, <4>1, <4>2, <4>3, CallsKeep
    <3>2. CASE RunForks(p) \/ RunForkFails(p)
      <4>1. outcome' = Asked(Run(p), "ok")
        BY <3>2 DEF RunForks, RunForkFails
      <4>2. \A q \in Ports : outcome' # Asked(Run(q), "error")
        BY <4>1 DEF Asked
      <4> QED
        BY <2>0, <2>4, <3>2, <4>1, <4>2, CallsKeep, ForksKeeps
    <3> QED
      BY <2>1, <2>4, <3>1, <3>2
  <2> QED
    BY <2>2, <2>3, <2>4 DEF Requests
<1> QED
  BY <1>1, <1>2
-----------------------------------------------------------------------------
\* The activity and the system.

Waiting == {i \in DOMAIN conns \ told : conns[i] = GetAll}

LEMMA WaitingFinite ==
  ASSUME RefreshInv
  PROVE  IsFiniteSet(Waiting) /\ Cardinality(Waiting) \in Nat
<1>1. DOMAIN conns = 1 .. Len(conns) /\ Len(conns) \in Nat
  BY DEF RefreshInv
<1>2. IsFiniteSet(DOMAIN conns)
  BY <1>1, FS_Interval
<1>3. IsFiniteSet(Waiting)
  BY <1>2, FS_Subset DEF Waiting
<1> QED
  BY <1>3, FS_CardinalityType

\* What a listener does with the answer: a refresh that was answered has the next message sent.
LEMMA ListensCounts ==
  ASSUME RefreshInv, NEW r \in Requests, NEW taken \in {0, 1}, taken <= messages,
         Listens(r, taken), \E a \in {"ok", "error"} : outcome' = Asked(r, a)
  PROVE  /\ messages' \in Nat /\ lost' \in Nat /\ lost' >= lost
         /\ lost' = 0 => lost = 0 /\ messages' = messages - taken + (IF r = GetAll THEN 1 ELSE 0)
<1>1. messages \in Nat /\ lost \in Nat
  BY DEF RefreshInv
<1>2. outcome'.answer \in {"ok", "error"}
  BY DEF Asked
<1>3. CASE r = GetAll /\ outcome'.answer = "ok"
  <2>1. messages' = messages - taken + 1 /\ lost' = lost + 0
    BY <1>3 DEF Listens
  <2> QED
    BY <1>1, <1>3, <2>1
<1>4. CASE r = GetAll /\ outcome'.answer = "error"
  <2>1. messages' = messages - taken + 0 /\ lost' = lost + 1
    BY <1>4 DEF Listens
  <2> QED
    BY <1>1, <2>1
<1>5. CASE r # GetAll
  <2>1. messages' = messages - taken + 0 /\ lost' = lost + 0
    BY <1>5 DEF Listens
  <2> QED
    BY <1>1, <1>5, <2>1
<1> QED
  BY <1>2, <1>3, <1>4, <1>5

\* A request, that of a refresh taking its message.
LEMMA AsksKeeps ==
  ASSUME ProcInv, clicks' \in 0 .. MaxClicks, NEW r \in Requests, NEW taken \in {0, 1},
         taken <= messages, taken = 1 <=> r = GetAll, Asks(r, taken)
  PROVE  ProcInv'
<1> USE DEF ProcInv
<1>0. messages \in Nat /\ lost \in Nat /\ Cardinality(Waiting) \in Nat /\ IsFiniteSet(Waiting)
  BY WaitingFinite DEF RefreshInv
<1>3. Refreshes = messages + Cardinality(Waiting) /\ Refreshes' = messages' + Cardinality(Waiting')
  BY DEF Refreshes, Waiting
<1>1. CASE bound = 0 /\ conns' = Append(conns, r) /\ messages' = messages - taken
           /\ UNCHANGED <<bound, told, lost, serviceVars, daemonVars, outcome>>
  <2>1. /\ conns \in Seq(Requests) /\ Len(conns) \in Nat /\ DOMAIN conns = 1 .. Len(conns)
        /\ told \subseteq DOMAIN conns
    BY DEF RefreshInv
  <2>2. /\ conns' \in Seq(Requests) /\ DOMAIN conns' = DOMAIN conns \cup {Len(conns) + 1}
        /\ conns'[Len(conns) + 1] = r /\ \A i \in DOMAIN conns : conns'[i] = conns[i]
        /\ Len(conns) + 1 \notin DOMAIN conns
    BY <1>1, <2>1
  <2>3. messages' \in Nat
    BY <1>0, <1>1
  <2>4. Refreshes' = Refreshes
    <3>1. CASE r = GetAll
      <4>1. Waiting' = Waiting \cup {Len(conns) + 1} /\ Len(conns) + 1 \notin Waiting
        BY <1>1, <2>1, <2>2, <3>1 DEF Waiting
      <4>2. Cardinality(Waiting') = Cardinality(Waiting) + 1
        BY <1>0, <4>1, FS_AddElement
      <4> QED
        BY <1>0, <1>1, <1>3, <3>1, <4>2
    <3>2. CASE r # GetAll
      <4>1. Waiting' = Waiting
        BY <1>1, <2>1, <2>2, <3>2 DEF Waiting
      <4> QED
        BY <1>0, <1>1, <1>3, <3>2, <4>1
    <3> QED
      BY <3>1, <3>2
  <2>5. RefreshInv'
    BY <1>1, <2>1, <2>2, <2>3, <2>4 DEF RefreshInv, OneRefresh, serviceVars
  <2>6. DaemonInv'
    BY <1>1 DEF DaemonInv, serviceVars, daemonVars, RunningListed, Ours
  <2> QED
    BY <2>5, <2>6
<1>2. CASE bound # 0 /\ Call(r, bound) /\ Listens(r, taken)
           /\ UNCHANGED <<bound, conns, told, serviceVars>>
  <2>1. DaemonInv' /\ \E a \in {"ok", "error"} : outcome' = Asked(r, a)
    BY <1>2, CallKeeps
  <2>2. /\ messages' \in Nat /\ lost' \in Nat
        /\ lost' = 0 => lost = 0 /\ messages' = messages - taken + (IF r = GetAll THEN 1 ELSE 0)
    BY <1>2, <2>1, ListensCounts
  <2>3. lost' = 0 => messages' = messages
    BY <1>0, <2>2
  <2>4. lost' = 0 => Refreshes' = Refreshes
    BY <1>2, <2>3 DEF Refreshes
  <2>5. RefreshInv'
    BY <1>2, <2>2, <2>4 DEF RefreshInv, OneRefresh, serviceVars
  <2> QED
    BY <2>1, <2>5
<1> QED
  BY <1>1, <1>2 DEF Asks

\* A connection is told: what it was made for is carried out.
LEMMA ConnectedKeeps ==
  ASSUME ProcInv, NEW i \in 1 .. MaxConns, Connected(i)
  PROVE  ProcInv'
<1> USE DEF ProcInv
<1>0. /\ messages \in Nat /\ lost \in Nat /\ Cardinality(Waiting) \in Nat /\ IsFiniteSet(Waiting)
      /\ conns \in Seq(Requests) /\ told \subseteq DOMAIN conns
  BY WaitingFinite DEF RefreshInv
<1>1. /\ service # 0 /\ i \in DOMAIN conns /\ i \notin told /\ bound' = service
      /\ told' = told \cup {i} /\ Call(conns[i], service) /\ Listens(conns[i], 0)
      /\ UNCHANGED <<clicks, conns, serviceVars>>
  BY DEF Connected
<1>2. conns[i] \in Requests
  BY <1>0, <1>1
<1>3. DaemonInv' /\ \E a \in {"ok", "error"} : outcome' = Asked(conns[i], a)
  BY <1>1, <1>2, CallKeeps
<1>4. /\ messages' \in Nat /\ lost' \in Nat
      /\ lost' = 0 => lost = 0 /\ messages' = messages - 0 + (IF conns[i] = GetAll THEN 1 ELSE 0)
  <2>1. 0 \in {0, 1} /\ 0 <= messages
    BY <1>0
  <2> QED
    BY <1>1, <1>2, <1>3, <2>1, ListensCounts
<1>7. Refreshes = messages + Cardinality(Waiting) /\ Refreshes' = messages' + Cardinality(Waiting')
  BY DEF Refreshes, Waiting
<1>5. lost' = 0 => Refreshes' = Refreshes
  <2>1. CASE conns[i] = GetAll
    <3>1. Waiting' = Waiting \ {i} /\ i \in Waiting
      BY <1>1, <2>1 DEF Waiting
    <3>2. Cardinality(Waiting') = Cardinality(Waiting) - 1
      BY <1>0, <3>1, FS_RemoveElement
    <3> QED
      BY <1>0, <1>4, <1>7, <2>1, <3>2
  <2>2. CASE conns[i] # GetAll
    <3>1. Waiting' = Waiting
      BY <1>1, <2>2 DEF Waiting
    <3> QED
      BY <1>0, <1>4, <1>7, <2>2, <3>1
  <2> QED
    BY <2>1, <2>2
<1>6. RefreshInv'
  <2>1. service = instance /\ instance \in Nat /\ instance # 0
    BY <1>1 DEF DaemonInv
  <2>2. bound' \in 0 .. instance'
    BY <1>1, <2>1 DEF serviceVars
  <2> QED
    BY <1>0, <1>1, <1>4, <1>5, <2>1, <2>2 DEF RefreshInv, OneRefresh, serviceVars
<1> QED
  BY <1>3, <1>6

\* The service starts and dies, a daemon exits.
LEMMA SystemKeeps ==
  ASSUME ProcInv, ServiceStarts \/ ServiceDies \/ (\E d \in Pids : DaemonExits(d))
  PROVE  ProcInv'
<1> USE DEF ProcInv
<1>0. instance \in 0 .. MaxInstances /\ MaxInstances \in Nat /\ service \in {0, instance}
  BY PidsAre DEF DaemonInv
<1>1. CASE ServiceStarts
  <2>1. /\ service = 0 /\ instance < MaxInstances
        /\ instance' = instance + 1 /\ service' = instance' /\ told' = {}
        /\ UNCHANGED <<clicks, messages, bound, conns, lost, daemonVars, outcome>>
    BY <1>1 DEF ServiceStarts
  <2>2. \A d \in Pids : place[d].of \in 0 .. instance
    BY DEF DaemonInv
  <2>3. UNCHANGED <<listed, forked, child, place, failedFork>> /\ DOMAIN listed = {}
    BY <2>1 DEF daemonVars, DaemonInv
  <2>4. RunningListed'
    BY <1>0, <2>1, <2>2, <2>3 DEF RunningListed, Ours
  <2>5. place' \in [Pids -> [port : {0} \cup Ports, of : 0 .. instance']]
    <3>1. 0 .. instance \subseteq 0 .. instance'
      BY <1>0, <2>1
    <3> QED
      BY <2>3, <3>1 DEF DaemonInv
  <2>6. service' \in {0, instance'} /\ instance' \in 0 .. MaxInstances /\ service' # 0
    BY <1>0, <2>1
  <2>7. DaemonInv'
    BY <2>3, <2>4, <2>5, <2>6 DEF DaemonInv
  <2>8. instance' <= 1 => instance = 0 /\ told' = told /\ Refreshes' = Refreshes
    <3>1. instance' <= 1 => instance = 0 /\ told' = told
      BY <1>0, <2>1 DEF RefreshInv
    <3>2. told' = told => Refreshes' = Refreshes
      BY <2>1 DEF Refreshes
    <3> QED
      BY <3>1, <3>2
  <2>9. bound' \in 0 .. instance' /\ instance' # 0
    BY <1>0, <2>1 DEF RefreshInv
  <2> QED
    BY <1>0, <2>1, <2>7, <2>8, <2>9 DEF RefreshInv, OneRefresh
<1>2. CASE ServiceDies
  <2>1. /\ service' = 0 /\ listed' = <<>> /\ failedFork' = {}
        /\ UNCHANGED <<clicks, messages, bound, conns, told, lost, instance, forked, place>>
    BY <1>2 DEF ServiceDies, clientVars
  <2>2. PICK D \in SUBSET {d \in Pids : child[d] = "running"} :
          child' = [d \in Pids |-> IF d \in D THEN "reaped" ELSE child[d]]
    BY <1>2 DEF ServiceDies
  <2>3. child' \in [Pids -> {"none", "running", "killed", "exited", "reaped"}]
    BY <2>2 DEF DaemonInv
  <2>4. RunningListed'
    BY <2>1 DEF RunningListed, Ours
  <2>5. DOMAIN listed' = {}
    BY <2>1
  <2>6. DaemonInv'
    BY <2>1, <2>3, <2>4, <2>5 DEF DaemonInv
  <2>7. RefreshInv'
    BY <2>1 DEF RefreshInv, OneRefresh, Refreshes
  <2> QED
    BY <2>6, <2>7
<1>3. ASSUME NEW d \in Pids, DaemonExits(d) PROVE ProcInv'
  <2>1. /\ child[d] = "running" /\ child' = [child EXCEPT ![d] = "exited"]
        /\ UNCHANGED <<clicks, messages, bound, conns, told, lost, service, instance, listed,
                       forked, place, failedFork>>
    BY <1>3 DEF DaemonExits, clientVars, serviceVars
  <2>2. child' \in [Pids -> {"none", "running", "killed", "exited", "reaped"}]
    BY <2>1 DEF DaemonInv
  <2>3. \A e \in Pids : \/ child'[e] = child[e]
                        \/ child[e] = "running" /\ child'[e] = "exited"
    BY <2>1 DEF DaemonInv
  <2>4. RunningListed'
    BY <2>1, <2>3 DEF DaemonInv, RunningListed, Ours
  <2>5. ASSUME NEW p \in DOMAIN listed
        PROVE  child'[listed[p]] \in {"running", "exited"} \/ p \in failedFork
    <3>1. listed[p] \in 1 .. forked /\ forked \in 0 .. MaxPids
      BY DEF DaemonInv
    <3>2. listed[p] \in Pids
      BY <3>1, PidsAre
    <3> QED
      BY <2>3, <3>2 DEF DaemonInv
  <2>6. DaemonInv'
    BY <2>1, <2>2, <2>4, <2>5 DEF DaemonInv
  <2>7. RefreshInv'
    BY <2>1 DEF RefreshInv, OneRefresh, Refreshes
  <2> QED
    BY <2>6, <2>7
<1> QED
  BY <1>1, <1>2, <1>3

LEMMA ProcessesStep == ProcInv /\ [ProcessesNext]_processVars => ProcInv'
<1> SUFFICES ASSUME ProcInv, [ProcessesNext]_processVars PROVE ProcInv'
  OBVIOUS
<1>1. CASE UNCHANGED processVars
  <2>1. UNCHANGED <<clicks, messages, bound, conns, told, lost, service, instance, listed, forked,
                    child, place, failedFork>>
    BY <1>1 DEF processVars, clientVars, serviceVars, daemonVars
  <2>2. DaemonInv'
    BY <2>1 DEF ProcInv, DaemonInv, RunningListed, Ours
  <2>3. RefreshInv'
    BY <2>1 DEF ProcInv, RefreshInv, OneRefresh, Refreshes
  <2> QED
    BY <2>2, <2>3 DEF ProcInv
<1>2. CASE Click
  <2>1. clicks' \in 0 .. MaxClicks
    BY <1>2, PidsAre DEF Click, ProcInv, RefreshInv
  <2>2. PICK r \in {Run(p) : p \in Ports} \cup {KillAll} : Asks(r, 0)
    BY <1>2 DEF Click
  <2>3. r \in Requests /\ r # GetAll
    BY RequestsDiffer DEF Requests
  <2>4. 0 \in {0, 1} /\ 0 <= messages /\ (0 = 1 <=> r = GetAll)
    BY <2>3 DEF ProcInv, RefreshInv
  <2> QED
    BY <2>1, <2>2, <2>3, <2>4, AsksKeeps
<1>3. CASE Refresh
  <2>1. messages > 0 /\ Asks(GetAll, 1) /\ clicks' = clicks
    BY <1>3 DEF Refresh
  <2>2. GetAll \in Requests /\ 1 \in {0, 1} /\ 1 <= messages /\ clicks' \in 0 .. MaxClicks
    BY <2>1 DEF ProcInv, RefreshInv, Requests
  <2>3. 1 = 1 <=> GetAll = GetAll
    OBVIOUS
  <2> QED
    BY <2>1, <2>2, <2>3, AsksKeeps
<1>4. CASE Disconnected
  <2>1. /\ bound' = 0
        /\ UNCHANGED <<clicks, messages, conns, told, lost, service, instance, listed, forked,
                       child, place, failedFork>>
    BY <1>4 DEF Disconnected, serviceVars, daemonVars
  <2>2. DaemonInv'
    BY <2>1 DEF ProcInv, DaemonInv, RunningListed, Ours
  <2>3. instance \in Nat
    BY DEF ProcInv, DaemonInv
  <2>4. RefreshInv'
    BY <2>1, <2>3 DEF ProcInv, RefreshInv, OneRefresh, Refreshes
  <2> QED
    BY <2>2, <2>4 DEF ProcInv
<1> QED
  BY <1>1, <1>2, <1>3, <1>4, ConnectedKeeps, SystemKeeps DEF ProcessesNext

LEMMA ProcessesStart == ProcessesInit => ProcInv
<1> SUFFICES ASSUME ProcessesInit PROVE ProcInv
  OBVIOUS
<1>1. /\ clicks = 0 /\ messages = 1 /\ bound = 0 /\ conns = <<>> /\ told = {} /\ lost = 0
      /\ service = 0 /\ instance = 0 /\ listed = <<>> /\ forked = 0 /\ failedFork = {}
      /\ child = [d \in Pids |-> "none"] /\ place = [d \in Pids |-> NoPlace]
  BY DEF ProcessesInit
<1>2. place \in [Pids -> [port : {0} \cup Ports, of : 0 .. instance]]
  BY <1>1 DEF NoPlace
<1>3. RunningListed
  BY <1>1 DEF RunningListed, Ours
<1>4. DOMAIN listed = {} /\ 0 \in 0 .. MaxInstances /\ 0 \in 0 .. MaxPids /\ 0 \in 0 .. MaxClicks
  BY <1>1, PidsAre
<1>5. DaemonInv
  BY <1>1, <1>2, <1>3, <1>4 DEF DaemonInv
<1>6. Waiting = {}
  BY <1>1 DEF Waiting
<1>7. Refreshes = 1
  BY <1>1, <1>6, FS_EmptySet DEF Refreshes, Waiting
<1> QED
  BY <1>1, <1>4, <1>5, <1>7 DEF ProcInv, RefreshInv, OneRefresh

LEMMA ProcessesTyped == ProcInv => ProcessesTypeOK /\ RunningListed /\ ListedNotReaped /\ OneRefresh
<1> SUFFICES ASSUME ProcInv PROVE ProcessesTypeOK /\ RunningListed /\ ListedNotReaped /\ OneRefresh
  OBVIOUS
<1>0. /\ MaxPids \in Nat /\ MaxInstances \in Nat
      /\ Pids = 1 .. MaxPids /\ Instances = 1 .. MaxInstances
  BY PidsAre
<1>1. instance \in 0 .. MaxInstances /\ 0 .. instance \subseteq {0} \cup Instances
  BY <1>0 DEF ProcInv, DaemonInv
<1>2. ListedPids \subseteq Pids
  <2>1. ASSUME NEW p \in DOMAIN listed PROVE listed[p] \in Pids
    <3>1. listed[p] \in 1 .. forked /\ forked \in 0 .. MaxPids
      BY DEF ProcInv, DaemonInv
    <3> QED
      BY <1>0, <3>1
  <2> QED
    BY <2>1 DEF ListedPids
<1>3. place \in [Pids -> [port : {0} \cup Ports, of : {0} \cup Instances]]
  BY <1>1 DEF ProcInv, DaemonInv
<1>4. /\ bound \in {0} \cup Instances /\ service \in {0} \cup Instances
      /\ instance \in {0} \cup Instances
  BY <1>1 DEF ProcInv, DaemonInv, RefreshInv
<1>5. ProcessesTypeOK
  BY <1>2, <1>3, <1>4 DEF ProcInv, DaemonInv, RefreshInv, ProcessesTypeOK, Requests
<1>6. ListedNotReaped
  BY DEF ProcInv, DaemonInv, ListedNotReaped
<1> QED
  BY <1>5, <1>6 DEF ProcInv, DaemonInv, RefreshInv

\* When run is refused: a call of the running instance, by the activity or a connection.
LEMMA RefusedStep ==
  ASSUME ProcInv, [ProcessesNext]_processVars, NEW p \in Ports,
         outcome' = Asked(Run(p), "error"), outcome # outcome', bound' = service
  PROVE  \/ p \in DOMAIN listed /\ child[listed[p]] = "running"
         \/ p \in failedFork
<1>1. ASSUME NEW r \in Requests, NEW taken, Asks(r, taken)
      PROVE  (p \in DOMAIN listed /\ child[listed[p]] = "running") \/ p \in failedFork
  <2>1. bound # 0 /\ bound' = bound /\ Call(r, bound) /\ UNCHANGED serviceVars
    BY <1>1 DEF Asks
  <2> QED
    BY <2>1, CallKeeps DEF ProcInv
<1>2. ASSUME NEW i \in 1 .. MaxConns, Connected(i)
      PROVE  (p \in DOMAIN listed /\ child[listed[p]] = "running") \/ p \in failedFork
  <2>1. service # 0 /\ i \in DOMAIN conns /\ Call(conns[i], service) /\ UNCHANGED serviceVars
    BY <1>2 DEF Connected
  <2>2. conns[i] \in Requests
    BY <2>1 DEF ProcInv, RefreshInv
  <2> QED
    BY <2>1, <2>2, CallKeeps DEF ProcInv
<1>3. Nothing # Asked(Run(p), "error")
  BY DEF Nothing, Asked
<1>4. ~ UNCHANGED processVars /\ ~ Disconnected /\ ~ ServiceStarts /\ ~ ServiceDies
      /\ \A d \in Pids : ~ DaemonExits(d)
  BY <1>3 DEF processVars, Disconnected, ServiceStarts, ServiceDies, DaemonExits
<1>5. CASE Click
  BY <1>1, <1>5 DEF Click, Requests
<1>6. CASE Refresh
  BY <1>1, <1>6 DEF Refresh, Requests
<1> QED
  BY <1>2, <1>4, <1>5, <1>6 DEF ProcessesNext

\* The daemons of the application, for any ports, clicks, deaths and restarts of the service: a
\* daemon that runs is listed by the instance that forked it, so one for a port at most; a listed
\* one was not reaped unless a fork failed there; one refresh is under way; and run is refused
\* only for a daemon that runs or a fork that failed (AdbdService.java, Adbd.java, adbd.cpp,
\* AdbdManager.java, AdbdActivity.java).
THEOREM ProcessesHold ==
  ProcessesSpec => /\ [](ProcessesTypeOK /\ RunningListed /\ ListedNotReaped /\ OneRefresh)
                   /\ RefusedRunning
<1>1. ProcInv /\ [ProcessesNext]_processVars =>
        [\A p \in Ports :
           outcome' = Asked(Run(p), "error") /\ outcome # outcome' /\ bound' = service =>
           \/ p \in DOMAIN listed /\ child[listed[p]] = "running"
           \/ p \in failedFork]_processVars
  BY RefusedStep
<1> QED
  BY <1>1, ProcessesStart, ProcessesStep, ProcessesTyped, PTL DEF ProcessesSpec, RefusedRunning

-----------------------------------------------------------------------------
\* The host's end of the USB cable, on Linux.

LinuxTypeOK ==
  /\ plugged \in [Devices -> BOOLEAN] /\ stayed \in [Devices -> BOOLEAN]
  /\ inList \in [Devices -> BOOLEAN] /\ mark \in [Devices -> BOOLEAN]
  /\ dead \in [Devices -> BOOLEAN] /\ urb_out_busy \in [Devices -> BOOLEAN]
  /\ poll \in {"start", "scan", "kick", "unregister"} /\ todo \subseteq Devices
  /\ usbLock \in {Free, "poll"} /\ transportLock \in Devices \cup {Free}
  /\ urb_in \in [Devices -> {"none", "pending", "done"}]
  /\ urb_out \in [Devices -> {"none", "pending", "done"}]
  /\ statusIn \in [Devices -> {"unset", "ok", "error"}]
  /\ statusOut \in [Devices -> {"unset", "ok", "error"}]
  /\ reader \in [Devices -> {"none", "idle", "reaping", "failed", "leaves", "gone"}]
  /\ writer \in [Devices -> {"none", "idle", "submits", "waits", "leaves", "gone"}]
  /\ returned \in [Devices -> {"none", "ok", "failed"}]
  /\ length \in [Devices -> Nat] /\ left \in [Devices -> Nat] /\ took \in [Devices -> Nat]
  /\ plugs \in 0 .. MaxPlugs /\ writes \in 0 .. MaxWrites

\* The threads of a device, its handle and its transfer to the device.
ThreadsOK(d) ==
  /\ ~ inList[d] => reader[d] = "none"
  /\ reader[d] = "none" <=> writer[d] = "none"
  /\ d \in ReadOnly => reader[d] = "none"
  /\ urb_out[d] = "pending" =>
       writer[d] = "waits" /\ ~ dead[d] /\ urb_out_busy[d] /\ statusOut[d] = "unset"
  /\ transportLock = d => {reader[d], writer[d]} = {"leaves", "gone"}

\* What the device took of a write is what is not left of it; while the writer waits, the transfer
\* may have been taken beside it.
Sent(d) == length[d] - left[d]
Sure(d, A) == Confused(d) \/ took[d] \in A
WriteOK(d) ==
  /\ left[d] <= length[d] /\ took[d] <= length[d]
  /\ writer[d] \in {"submits", "waits"} =>
       /\ returned[d] = "none"
       /\ left[d] = 0 \/ left[d] % MaxXfer = length[d] % MaxXfer
  /\ writer[d] = "submits" \/ urb_out[d] = "pending" =>
       took[d] <= Sent(d) /\ Sure(d, {Sent(d)})
  /\ writer[d] = "waits" =>
       /\ took[d] <= Sent(d) + Xfer(d) /\ Sure(d, {Sent(d), Sent(d) + Xfer(d)})
       /\ statusOut[d] = "ok" => Sure(d, {Sent(d) + Xfer(d)})
  /\ returned[d] = "ok" => Sure(d, {length[d]})

\* A device that has been there since before the scan is marked when the polling thread looks.
ScanOK(d) ==
  /\ stayed[d] => plugged[d]
  /\ poll = "scan" /\ stayed[d] => d \in todo \/ mark[d] \/ ~ inList[d]
  /\ poll \in {"kick", "unregister"} =>
       usbLock = "poll" /\ (stayed[d] /\ d \in todo => mark[d])

LinuxInv == LinuxTypeOK /\ \A d \in Devices : ThreadsOK(d) /\ WriteOK(d) /\ ScanOK(d)

LEMMA LinuxStart == UsbInit => LinuxInv
<1> SUFFICES ASSUME UsbInit PROVE LinuxInv
  OBVIOUS
<1>1. LinuxTypeOK
  BY UsbAssumption DEF UsbInit, LinuxTypeOK
<1>2. ASSUME NEW d \in Devices PROVE ThreadsOK(d) /\ ScanOK(d)
  BY UsbAssumption DEF UsbInit, ThreadsOK, ScanOK, Free
<1>3. ASSUME NEW d \in Devices PROVE WriteOK(d)
  BY DEF UsbInit, WriteOK, Sure
<1> QED
  BY <1>1, <1>2, <1>3 DEF LinuxInv

\* A step that leaves the writes alone.
WriteSame(d) ==
  UNCHANGED <<writer[d], urb_out[d], statusOut[d], length[d], left[d], took[d], returned[d]>>

LEMMA WriteStays ==
  ASSUME LinuxInv, NEW d \in Devices, WriteSame(d)
  PROVE  WriteOK(d)'
BY DEF LinuxInv, WriteSame, WriteOK, Sent, Sure, Confused, Xfer

\* A step that leaves the threads and the handle alone, one that leaves what the scan looks at.
ThreadsSame(d) ==
  UNCHANGED <<inList[d], reader[d], writer[d], urb_out[d], dead[d], urb_out_busy[d], statusOut[d],
              transportLock>>
ScanSame(d) ==
  /\ UNCHANGED <<stayed[d], plugged[d], poll, mark[d], inList[d], usbLock>>
  /\ d \in todo' <=> d \in todo

LEMMA ThreadsStay ==
  ASSUME LinuxInv, NEW d \in Devices, ThreadsSame(d)
  PROVE  ThreadsOK(d)'
BY DEF LinuxInv, ThreadsSame, ThreadsOK

LEMMA ScanStays ==
  ASSUME LinuxInv, NEW d \in Devices, ScanSame(d)
  PROVE  ScanOK(d)'
BY DEF LinuxInv, ScanSame, ScanOK

\* Devices that come, and the polling thread.
LEMMA PlugKeeps ==
  ASSUME LinuxInv, NEW d \in Devices, Plug(d)
  PROVE  LinuxInv'
<1>1. /\ plugged' = [plugged EXCEPT ![d] = TRUE] /\ plugs' = plugs + 1 /\ plugs < MaxPlugs
      /\ todo' = todo \/ (poll = "scan" /\ todo' = todo \cup {d})
      /\ ~ plugged[d]
      /\ UNCHANGED <<stayed, poll, usbLock, transportLock, inList, mark, dead, urb_in, statusIn,
           urb_out, statusOut, urb_out_busy, reader, writer, length, left, took, returned, writes>>
  BY DEF Plug, Set, lockVars, inVars, outVars, threadVars, writeVars
<1>2. LinuxTypeOK'
  BY <1>1, UsbAssumption DEF LinuxInv, LinuxTypeOK
<1>3. ASSUME NEW e \in Devices PROVE ThreadsOK(e)' /\ WriteOK(e)'
  BY <1>1, ThreadsStay, WriteStays DEF ThreadsSame, WriteSame
<1>4. ASSUME NEW e \in Devices PROVE ScanOK(e)'
  <2>1. plugged \in [Devices -> BOOLEAN] /\ ScanOK(e)
    BY DEF LinuxInv, LinuxTypeOK
  <2> QED
    BY <1>1, <2>1 DEF ScanOK
<1> QED
  BY <1>2, <1>3, <1>4 DEF LinuxInv

LEMMA ScansKeep ==
  ASSUME LinuxInv, ScanBegins \/ ScanEnds \/ Unregisters \/ KicksEnd
  PROVE  LinuxInv'
<1>1. /\ todo' \subseteq Devices /\ stayed' \in {stayed, plugged}
      /\ usbLock' \in {usbLock, "poll", Free}
      /\ poll' \in {"start", "scan", "kick", "unregister"}
      /\ UNCHANGED <<plugged, plugs, transportLock, inList, mark, dead, urb_in, statusIn, urb_out,
           statusOut, urb_out_busy, reader, writer, length, left, took, returned, writes>>
  BY DEF ScanBegins, ScanEnds, Unregisters, KicksEnd, LinuxInv, LinuxTypeOK, deviceVars, lockVars,
         inVars, outVars, threadVars, writeVars
<1>2. LinuxTypeOK'
  BY <1>1 DEF LinuxInv, LinuxTypeOK
<1>3. ASSUME NEW e \in Devices PROVE ThreadsOK(e)' /\ WriteOK(e)'
  BY <1>1, ThreadsStay, WriteStays DEF ThreadsSame, WriteSame
<1>4. ASSUME NEW e \in Devices PROVE ScanOK(e)'
  <2>1. ScanOK(e)
    BY DEF LinuxInv
  <2>2. CASE ScanBegins
    BY <1>1, <2>1, <2>2 DEF ScanBegins, ScanOK
  <2>3. CASE ScanEnds
    BY <1>1, <2>1, <2>3 DEF ScanEnds, ScanOK, deviceVars
  <2>4. CASE Unregisters
    BY <1>1, <2>1, <2>4 DEF Unregisters, ScanOK, deviceVars, lockVars
  <2>5. CASE KicksEnd
    BY <1>1, <2>1, <2>5 DEF KicksEnd, ScanOK, deviceVars
  <2> QED
    BY <2>2, <2>3, <2>4, <2>5
<1> QED
  BY <1>2, <1>3, <1>4 DEF LinuxInv

LEMMA MarksKeep ==
  ASSUME LinuxInv, NEW d \in Devices,
         Unmarks(d) \/ KicksReadOnly(d) \/ (Finds(d) /\ Marks(d))
  PROVE  LinuxInv'
<1>1. /\ todo' = todo \ {d}
      /\ mark' \in {mark, [mark EXCEPT ![d] = TRUE], [mark EXCEPT ![d] = FALSE]}
      /\ dead' = dead \/ (d \in ReadOnly /\ dead' = [dead EXCEPT ![d] = TRUE])
      /\ poll' \in {poll, "unregister"} /\ (poll' # poll => poll = "kick")
      /\ mark'[d] \/ poll \in {"kick", "unregister"}
      /\ \A e \in Devices : e # d => mark'[e] = mark[e]
      /\ UNCHANGED <<plugged, stayed, plugs, usbLock, transportLock, inList, urb_in, statusIn,
           urb_out, statusOut, urb_out_busy, reader, writer, length, left, took, returned, writes>>
  <2>1. mark \in [Devices -> BOOLEAN]
    BY DEF LinuxInv, LinuxTypeOK
  <2>2. CASE Unmarks(d)
    BY <2>1, <2>2 DEF Unmarks, Set, deviceVars, lockVars, inVars, outVars, threadVars, writeVars
  <2>3. CASE KicksReadOnly(d)
    BY <2>1, <2>3 DEF KicksReadOnly, Set, deviceVars, lockVars, inVars, outVars, threadVars,
       writeVars
  <2>4. CASE Finds(d) /\ Marks(d)
    BY <2>1, <2>4 DEF Finds, Marks, Set, deviceVars, lockVars, inVars, outVars, threadVars,
       writeVars
  <2> QED
    BY <2>2, <2>3, <2>4
<1>2. LinuxTypeOK'
  <2>0. mark \in [Devices -> BOOLEAN] /\ dead \in [Devices -> BOOLEAN]
    BY DEF LinuxInv, LinuxTypeOK
  <2>1. mark' \in [Devices -> BOOLEAN] /\ dead' \in [Devices -> BOOLEAN]
    <3>1. mark' \in [Devices -> BOOLEAN]
      <4>1. CASE mark' = mark
        BY <2>0, <4>1
      <4>2. CASE mark' = [mark EXCEPT ![d] = TRUE]
        BY <2>0, <4>2
      <4>3. CASE mark' = [mark EXCEPT ![d] = FALSE]
        BY <2>0, <4>3
      <4> QED
        BY <1>1, <4>1, <4>2, <4>3
    <3>2. dead' \in [Devices -> BOOLEAN]
      BY <1>1, <2>0
    <3> QED
      BY <3>1, <3>2
  <2>2. todo' \subseteq Devices /\ poll' \in {"start", "scan", "kick", "unregister"}
    BY <1>1 DEF LinuxInv, LinuxTypeOK
  <2> QED
    BY <1>1, <2>1, <2>2 DEF LinuxInv, LinuxTypeOK
<1>3. ASSUME NEW e \in Devices PROVE ThreadsOK(e)' /\ WriteOK(e)'
  <2>1. CASE dead'[e] = dead[e]
    BY <1>1, <2>1, ThreadsStay, WriteStays DEF ThreadsSame, WriteSame
  <2>2. CASE dead'[e] # dead[e]
    <3>1. e \in ReadOnly /\ e = d
      BY <1>1, <2>2 DEF LinuxInv, LinuxTypeOK
    <3>2. ThreadsOK(e) /\ reader[e] = "none" /\ writer[e] = "none" /\ urb_out[e] # "pending"
      BY <3>1 DEF LinuxInv, ThreadsOK
    <3>3. ThreadsOK(e)'
      BY <1>1, <3>2 DEF ThreadsOK
    <3> QED
      BY <1>1, <3>3, WriteStays DEF WriteSame
  <2> QED
    BY <2>1, <2>2
<1>4. ASSUME NEW e \in Devices PROVE ScanOK(e)'
  <2>1. ScanOK(e)
    BY DEF LinuxInv
  <2> QED
    BY <1>1, <2>1 DEF ScanOK
<1> QED
  BY <1>2, <1>3, <1>4 DEF LinuxInv

LEMMA RegistersKeep ==
  ASSUME LinuxInv, NEW d \in Devices, Finds(d), RegistersHandle(d)
  PROVE  LinuxInv'
<1>0. /\ LinuxTypeOK /\ \A e \in Devices : ThreadsOK(e) /\ WriteOK(e) /\ ScanOK(e)
  BY DEF LinuxInv
<1>1. /\ ~ inList[d] /\ poll = "scan" /\ todo' = todo \ {d}
      /\ inList' = [inList EXCEPT ![d] = TRUE] /\ mark' = [mark EXCEPT ![d] = TRUE]
      /\ dead' = [dead EXCEPT ![d] = FALSE]
      /\ reader' = [reader EXCEPT ![d] = IF d \notin ReadOnly THEN "idle" ELSE "none"]
      /\ writer' = [writer EXCEPT ![d] = IF d \notin ReadOnly THEN "idle" ELSE "none"]
      /\ UNCHANGED <<plugged, stayed, plugs, poll, usbLock, transportLock, urb_in, statusIn,
           urb_out, statusOut, urb_out_busy, length, left, took, returned, writes>>
  BY DEF Finds, RegistersHandle, Set, deviceVars, lockVars, inVars, outVars, writeVars
<1>2. LinuxTypeOK'
  BY <1>0, <1>1 DEF LinuxTypeOK
<1>3. ASSUME NEW e \in Devices, e # d PROVE ThreadsOK(e)' /\ WriteOK(e)' /\ ScanOK(e)'
  <2>1. ThreadsSame(e) /\ WriteSame(e) /\ ScanSame(e)
    BY <1>1, <1>3 DEF ThreadsSame, WriteSame, ScanSame
  <2> QED
    BY <2>1, ThreadsStay, WriteStays, ScanStays
<1>4. /\ writer[d] = "none" /\ reader[d] = "none" /\ urb_out[d] # "pending" /\ transportLock # d
  BY <1>0, <1>1 DEF ThreadsOK
<1>5. /\ inList'[d] /\ mark'[d] /\ ~ dead'[d] /\ d \notin todo'
      /\ reader'[d] = writer'[d] /\ reader'[d] \in {"none", "idle"}
      /\ d \in ReadOnly => reader'[d] = "none"
  BY <1>0, <1>1 DEF LinuxTypeOK
<1>6. ThreadsOK(d)'
  BY <1>1, <1>4, <1>5 DEF ThreadsOK
<1>7. WriteOK(d)'
  BY <1>0, <1>1, <1>4, <1>5 DEF WriteOK, Sure, Confused
<1>8. ScanOK(d)'
  BY <1>0, <1>1, <1>5 DEF ScanOK
<1> QED
  BY <1>2, <1>3, <1>6, <1>7, <1>8 DEF LinuxInv

\* A kick leaves no transfer pending; what the device took of it stays taken.
LEMMA KicksKeep ==
  ASSUME LinuxInv, NEW d \in Devices, Kick(d)
  PROVE  /\ dead' \in [Devices -> BOOLEAN] /\ urb_out_busy' \in [Devices -> BOOLEAN]
         /\ urb_in' \in [Devices -> {"none", "pending", "done"}]
         /\ urb_out' \in [Devices -> {"none", "pending", "done"}]
         /\ statusIn' \in [Devices -> {"unset", "ok", "error"}]
         /\ statusOut' \in [Devices -> {"unset", "ok", "error"}]
         /\ \A e \in Devices : e # d =>
              UNCHANGED <<dead[e], urb_out[e], statusOut[e], urb_out_busy[e]>>
         /\ dead'[d] /\ urb_out'[d] # "pending"
         /\ statusOut'[d] \in {statusOut[d], "error"}
<1>0. LinuxTypeOK /\ ThreadsOK(d)
  BY DEF LinuxInv
<1>1. CASE dead[d]
  BY <1>0, <1>1 DEF Kick, inVars, outVars, LinuxTypeOK, ThreadsOK
<1>2. CASE ~ dead[d]
  <2>1. Discarded(urb_in[d]) \in {"none", "done"} /\ Discarded(urb_out[d]) \in {"none", "done"}
    BY <1>0 DEF Discarded, LinuxTypeOK
  <2>2. /\ dead' = [dead EXCEPT ![d] = TRUE]
        /\ urb_in' = [urb_in EXCEPT ![d] = Discarded(urb_in[d])]
        /\ urb_out' = [urb_out EXCEPT ![d] = Discarded(urb_out[d])]
        /\ statusIn' = [statusIn EXCEPT ![d] = "error"]
        /\ statusOut' = [statusOut EXCEPT ![d] = "error"]
        /\ urb_out_busy' = [urb_out_busy EXCEPT ![d] = FALSE]
    BY <1>2 DEF Kick, Set
  <2> HIDE DEF Discarded
  <2> QED
    BY <1>0, <2>1, <2>2 DEF LinuxTypeOK
<1> QED
  BY <1>1, <1>2

\* A kicked device, if its threads and the rest are as they were, or one of them moves on.
LEMMA KickedKeeps ==
  ASSUME LinuxInv, NEW d \in Devices, Kick(d),
         \A e \in Devices : e # d => UNCHANGED <<reader[e], writer[e], mark[e]>>,
         UNCHANGED <<deviceVars, poll, lockVars, inList, mark, length, left, took, returned,
                     writes>>,
         reader' \in [Devices -> {"none", "idle", "reaping", "failed", "leaves", "gone"}],
         writer' \in [Devices -> {"none", "idle", "submits", "waits", "leaves", "gone"}],
         \/ reader'[d] = reader[d]
         \/ reader[d] = "failed" /\ reader'[d] = "leaves",
         \/ writer'[d] = writer[d]
         \/ writer[d] = "idle" /\ writer'[d] = "leaves",
         todo' = todo \/ (todo' = todo \ {d} /\ poll = "kick")
  PROVE  LinuxInv'
<1>0. LinuxTypeOK /\ \A e \in Devices : ThreadsOK(e) /\ WriteOK(e) /\ ScanOK(e)
  BY DEF LinuxInv
<1>1. /\ UNCHANGED <<plugged, stayed, plugs, poll, usbLock, transportLock, inList, mark, length,
                     left, took, returned, writes>>
      /\ todo' = todo \/ (todo' = todo \ {d} /\ poll = "kick")
  BY DEF deviceVars, lockVars
<1>2. /\ dead' \in [Devices -> BOOLEAN] /\ urb_out_busy' \in [Devices -> BOOLEAN]
      /\ urb_in' \in [Devices -> {"none", "pending", "done"}]
      /\ urb_out' \in [Devices -> {"none", "pending", "done"}]
      /\ statusIn' \in [Devices -> {"unset", "ok", "error"}]
      /\ statusOut' \in [Devices -> {"unset", "ok", "error"}]
      /\ \A e \in Devices : e # d =>
           UNCHANGED <<dead[e], urb_out[e], statusOut[e], urb_out_busy[e]>>
      /\ dead'[d] /\ urb_out'[d] # "pending" /\ statusOut'[d] \in {statusOut[d], "error"}
  BY KicksKeep
<1>3. LinuxTypeOK'
  BY <1>0, <1>1, <1>2 DEF LinuxTypeOK
<1>4. ASSUME NEW e \in Devices, e # d PROVE ThreadsOK(e)' /\ WriteOK(e)' /\ ScanOK(e)'
  <2>1. ThreadsSame(e) /\ WriteSame(e) /\ ScanSame(e)
    BY <1>1, <1>2, <1>4 DEF ThreadsSame, WriteSame, ScanSame
  <2> QED
    BY <2>1, ThreadsStay, WriteStays, ScanStays
<1>5. ThreadsOK(d)'
  <2>1. transportLock = d => reader[d] \in {"leaves", "gone"} /\ writer[d] \in {"leaves", "gone"}
    BY <1>0 DEF ThreadsOK
  <2>2. transportLock' = d => {reader'[d], writer'[d]} = {"leaves", "gone"}
    BY <1>0, <1>1, <2>1 DEF ThreadsOK
  <2>3. reader'[d] = "none" <=> reader[d] = "none"
    OBVIOUS
  <2>4. writer'[d] = "none" <=> writer[d] = "none"
    OBVIOUS
  <2>5. /\ ~ inList[d] => reader[d] = "none"
        /\ reader[d] = "none" <=> writer[d] = "none"
        /\ d \in ReadOnly => reader[d] = "none"
    BY <1>0 DEF ThreadsOK
  <2>6. inList' = inList /\ urb_out'[d] # "pending"
    BY <1>1, <1>2
  <2> QED
    BY <2>2, <2>3, <2>4, <2>5, <2>6 DEF ThreadsOK
<1>6. WriteOK(d)'
  <2>1. UNCHANGED <<length[d], left[d], took[d], returned[d]>> /\ urb_out'[d] # "pending"
    BY <1>1, <1>2
  <2>2. writer'[d] = writer[d] \/ writer'[d] = "leaves"
    OBVIOUS
  <2> QED
    BY <1>0, <1>2, <2>1, <2>2 DEF WriteOK, Sure, Sent, Xfer, Confused
<1>7. ScanOK(d)'
  BY <1>0, <1>1 DEF ScanOK
<1> QED
  BY <1>3, <1>4, <1>5, <1>6, <1>7 DEF LinuxInv

\* Main, the device that goes or ends a transfer in an error, and the last of a thread.
LEMMA KicksAll ==
  ASSUME LinuxInv, NEW d \in Devices,
         HostKicks(d) \/ KicksGone(d) \/ ReaderLeaves(d) \/ WriterLeaves(d)
  PROVE  LinuxInv'
<1>0. LinuxTypeOK
  BY DEF LinuxInv
<1>1. CASE HostKicks(d) \/ KicksGone(d)
  <2>1. /\ Kick(d) /\ UNCHANGED <<deviceVars, poll, lockVars, inList, mark, reader, writer, length,
                                  left, took, returned, writes>>
        /\ todo' = todo \/ (todo' = todo \ {d} /\ poll = "kick")
    BY <1>1 DEF HostKicks, KicksGone, pollVars, threadVars, writeVars
  <2> QED
    BY <1>0, <2>1, KickedKeeps DEF LinuxTypeOK
<1>2. CASE ReaderLeaves(d)
  <2>1. /\ Kick(d) /\ UNCHANGED <<deviceVars, poll, todo, lockVars, inList, mark, writer, length,
                                  left, took, returned, writes>>
        /\ reader[d] = "failed" /\ reader' = [reader EXCEPT ![d] = "leaves"]
    BY <1>2 DEF ReaderLeaves, Set, pollVars, writeVars
  <2>2. /\ reader' \in [Devices -> {"none", "idle", "reaping", "failed", "leaves", "gone"}]
        /\ reader'[d] = "leaves" /\ \A e \in Devices : e # d => reader'[e] = reader[e]
    BY <1>0, <2>1 DEF LinuxTypeOK
  <2> QED
    BY <1>0, <2>1, <2>2, KickedKeeps DEF LinuxTypeOK
<1>3. CASE WriterLeaves(d)
  <2>1. /\ Kick(d) /\ UNCHANGED <<deviceVars, poll, todo, lockVars, inList, mark, reader, length,
                                  left, took, returned, writes>>
        /\ writer[d] = "idle" /\ writer' = [writer EXCEPT ![d] = "leaves"]
    BY <1>3 DEF WriterLeaves, Set, pollVars, writeVars
  <2>2. /\ writer' \in [Devices -> {"none", "idle", "submits", "waits", "leaves", "gone"}]
        /\ writer'[d] = "leaves" /\ \A e \in Devices : e # d => writer'[e] = writer[e]
    BY <1>0, <2>1 DEF LinuxTypeOK
  <2> QED
    BY <1>0, <2>1, <2>2, KickedKeeps DEF LinuxTypeOK
<1> QED
  BY <1>1, <1>2, <1>3

LEMMA UnplugKeeps ==
  ASSUME LinuxInv, NEW d \in Devices, Unplug(d)
  PROVE  LinuxInv'
<1>0. LinuxTypeOK /\ \A e \in Devices : ThreadsOK(e) /\ WriteOK(e) /\ ScanOK(e)
  BY DEF LinuxInv
<1>1. /\ plugged' = [plugged EXCEPT ![d] = FALSE] /\ stayed' = [stayed EXCEPT ![d] = FALSE]
      /\ \/ UNCHANGED <<urb_in, statusIn>>
         \/ /\ urb_in' = [urb_in EXCEPT ![d] = "done"]
            /\ statusIn' = [statusIn EXCEPT ![d] = "error"]
      /\ \/ UNCHANGED <<urb_out, statusOut>>
         \/ /\ urb_out' = [urb_out EXCEPT ![d] = "done"]
            /\ statusOut' = [statusOut EXCEPT ![d] = "error"]
      /\ UNCHANGED <<plugs, poll, todo, usbLock, transportLock, inList, mark, dead, urb_out_busy,
                     reader, writer, length, left, took, returned, writes>>
  BY DEF Unplug, Set, inVars, pollVars, lockVars, threadVars, writeVars
<1>2. LinuxTypeOK'
  <2>1. /\ urb_in' \in [Devices -> {"none", "pending", "done"}]
        /\ statusIn' \in [Devices -> {"unset", "ok", "error"}]
    BY <1>0, <1>1 DEF LinuxTypeOK
  <2>2. /\ urb_out' \in [Devices -> {"none", "pending", "done"}]
        /\ statusOut' \in [Devices -> {"unset", "ok", "error"}]
    BY <1>0, <1>1 DEF LinuxTypeOK
  <2>3. plugged' \in [Devices -> BOOLEAN] /\ stayed' \in [Devices -> BOOLEAN]
    BY <1>0, <1>1 DEF LinuxTypeOK
  <2> QED
    BY <1>0, <1>1, <2>1, <2>2, <2>3 DEF LinuxTypeOK
<1>3. ASSUME NEW e \in Devices, e # d PROVE ThreadsOK(e)' /\ WriteOK(e)' /\ ScanOK(e)'
  <2>1. ThreadsSame(e) /\ WriteSame(e) /\ ScanSame(e)
    BY <1>0, <1>1, <1>3 DEF LinuxTypeOK, ThreadsSame, WriteSame, ScanSame
  <2> QED
    BY <2>1, ThreadsStay, WriteStays, ScanStays
<1>4. \/ UNCHANGED <<urb_out[d], statusOut[d]>>
      \/ urb_out'[d] = "done" /\ statusOut'[d] = "error"
  BY <1>0, <1>1 DEF LinuxTypeOK
<1>5. ~ stayed'[d]
  BY <1>0, <1>1 DEF LinuxTypeOK
<1>6. ThreadsOK(d)'
  BY <1>0, <1>1, <1>4 DEF ThreadsOK
<1>7. WriteOK(d)'
  BY <1>0, <1>1, <1>4 DEF WriteOK, Sure, Sent, Xfer, Confused
<1>8. ScanOK(d)'
  BY <1>0, <1>1, <1>5 DEF ScanOK
<1> QED
  BY <1>2, <1>3, <1>6, <1>7, <1>8 DEF LinuxInv

\* A transfer that the device sent, and one that it took.
LEMMA SendsKeep ==
  ASSUME LinuxInv, NEW d \in Devices, DeviceSends(d)
  PROVE  LinuxInv'
<1>1. /\ urb_in' = [urb_in EXCEPT ![d] = "done"]
      /\ \E s \in {"ok", "error"} : statusIn' = [statusIn EXCEPT ![d] = s]
      /\ UNCHANGED <<plugged, stayed, plugs, poll, todo, usbLock, transportLock, inList, mark, dead,
           urb_out, statusOut, urb_out_busy, reader, writer, length, left, took, returned, writes>>
  BY DEF DeviceSends, Set, deviceVars, pollVars, lockVars, outVars, threadVars, writeVars
<1>2. LinuxTypeOK'
  BY <1>1 DEF LinuxInv, LinuxTypeOK
<1>3. ASSUME NEW e \in Devices PROVE ThreadsOK(e)' /\ WriteOK(e)' /\ ScanOK(e)'
  <2>1. ThreadsSame(e) /\ WriteSame(e) /\ ScanSame(e)
    BY <1>1 DEF ThreadsSame, WriteSame, ScanSame
  <2> QED
    BY <2>1, ThreadsStay, WriteStays, ScanStays
<1> QED
  BY <1>2, <1>3 DEF LinuxInv

LEMMA TakesKeep ==
  ASSUME LinuxInv, NEW d \in Devices, DeviceTakes(d)
  PROVE  LinuxInv'
<1>0. LinuxTypeOK /\ \A e \in Devices : ThreadsOK(e) /\ WriteOK(e) /\ ScanOK(e)
  BY DEF LinuxInv
<1>1. PICK s \in {"ok", "error"} :
        /\ urb_out[d] = "pending" /\ urb_out' = [urb_out EXCEPT ![d] = "done"]
        /\ statusOut' = [statusOut EXCEPT ![d] = s]
        /\ took' = IF s = "ok" THEN [took EXCEPT ![d] = took[d] + Xfer(d)] ELSE took
        /\ UNCHANGED <<plugged, stayed, plugs, poll, todo, usbLock, transportLock, inList, mark,
             dead, urb_in, statusIn, urb_out_busy, reader, writer, length, left, returned, writes>>
  BY DEF DeviceTakes, Set, deviceVars, pollVars, lockVars, inVars, threadVars
<1>2. /\ Xfer(d) \in Nat /\ Xfer(d) <= left[d]
      /\ left[d] \in Nat /\ length[d] \in Nat /\ took[d] \in Nat
  BY <1>0, UsbAssumption DEF Xfer, Shorter, LinuxTypeOK
<1> HIDE DEF Xfer
<1>3. took' \in [Devices -> Nat]
  BY <1>0, <1>1, <1>2 DEF LinuxTypeOK
<1>4. LinuxTypeOK'
  BY <1>0, <1>1, <1>3 DEF LinuxTypeOK
<1>5. ASSUME NEW e \in Devices, e # d PROVE ThreadsOK(e)' /\ WriteOK(e)' /\ ScanOK(e)'
  <2>1. ThreadsSame(e) /\ WriteSame(e) /\ ScanSame(e)
    BY <1>0, <1>1, <1>5 DEF LinuxTypeOK, ThreadsSame, WriteSame, ScanSame
  <2> QED
    BY <2>1, ThreadsStay, WriteStays, ScanStays
<1>6. /\ urb_out'[d] = "done" /\ statusOut'[d] = s
      /\ took'[d] = IF s = "ok" THEN took[d] + Xfer(d) ELSE took[d]
  BY <1>0, <1>1 DEF LinuxTypeOK
<1>7. ThreadsOK(d)'
  BY <1>0, <1>1, <1>6 DEF ThreadsOK
<1>8. WriteOK(d)'
  <2>1. /\ writer[d] = "waits" /\ returned[d] = "none" /\ took[d] <= Sent(d) /\ Sure(d, {Sent(d)})
        /\ left[d] = 0 \/ left[d] % MaxXfer = length[d] % MaxXfer
        /\ left[d] <= length[d]
    BY <1>0, <1>1 DEF ThreadsOK, WriteOK
  <2>2. Xfer(d)' = Xfer(d) /\ Sent(d)' = Sent(d) /\ (Confused(d)' <=> Confused(d))
    BY <1>1 DEF Xfer, Sent, Confused
  <2>3. Sent(d) = length[d] - left[d]
    BY DEF Sent
  <2>4. took'[d] <= length[d] /\ took'[d] <= Sent(d) + Xfer(d)
    BY <1>2, <1>6, <2>1, <2>3
  <2>5. Confused(d) \/ took'[d] = IF s = "ok" THEN Sent(d) + Xfer(d) ELSE Sent(d)
    BY <1>6, <2>1 DEF Sure
  <2> HIDE DEF Sent, Confused
  <2> QED
    BY <1>1, <1>6, <2>1, <2>2, <2>4, <2>5 DEF WriteOK, Sure
<1>9. ScanOK(d)'
  BY <1>0, <1>1 DEF ScanOK
<1> QED
  BY <1>4, <1>5, <1>7, <1>8, <1>9 DEF LinuxInv

\* The reader's steps but its last: it moves between its states and reaps.
LEMMA ReadsKeep ==
  ASSUME LinuxInv, NEW d \in Devices, ReadSubmits(d) \/ ReapsIn(d) \/ ReapsOut(d)
  PROVE  LinuxInv'
<1>0. LinuxTypeOK /\ \A e \in Devices : ThreadsOK(e) /\ WriteOK(e) /\ ScanOK(e)
  BY DEF LinuxInv
<1>1. /\ UNCHANGED <<plugged, stayed, plugs, poll, todo, usbLock, transportLock, inList, mark, dead,
                     statusOut, writer, length, left, took, returned, writes>>
      /\ reader[d] \in {"idle", "reaping"}
      /\ \E r \in {"idle", "reaping", "failed"} : reader' = [reader EXCEPT ![d] = r]
      /\ \E u \in {"none", "pending", "done"} : urb_in' = [urb_in EXCEPT ![d] = u]
      /\ statusIn' = statusIn \/ statusIn' = [statusIn EXCEPT ![d] = "unset"]
      /\ urb_out' = urb_out \/ urb_out' = [urb_out EXCEPT ![d] = "none"]
      /\ urb_out_busy' = urb_out_busy \/ urb_out_busy' = [urb_out_busy EXCEPT ![d] = FALSE]
      /\ urb_out_busy' # urb_out_busy => urb_out' = [urb_out EXCEPT ![d] = "none"]
  <2>1. reader = [reader EXCEPT ![d] = reader[d]] /\ urb_in = [urb_in EXCEPT ![d] = urb_in[d]]
        /\ urb_in[d] \in {"none", "pending", "done"}
    BY <1>0 DEF LinuxTypeOK
  <2>2. CASE ReadSubmits(d)
    BY <2>1, <2>2 DEF ReadSubmits, Set, deviceVars, pollVars, lockVars, outVars, writeVars
  <2>3. CASE ReapsIn(d)
    BY <2>3 DEF ReapsIn, Set, deviceVars, pollVars, lockVars, outVars, writeVars
  <2>4. CASE ReapsOut(d)
    BY <2>1, <2>4 DEF ReapsOut, Set, deviceVars, pollVars, lockVars, inVars, writeVars
  <2> QED
    BY <2>2, <2>3, <2>4
<1>2. LinuxTypeOK'
  <2>1. reader' \in [Devices -> {"none", "idle", "reaping", "failed", "leaves", "gone"}]
    BY <1>0, <1>1 DEF LinuxTypeOK
  <2>2. urb_in' \in [Devices -> {"none", "pending", "done"}]
    BY <1>0, <1>1 DEF LinuxTypeOK
  <2>3. statusIn' \in [Devices -> {"unset", "ok", "error"}]
    BY <1>0, <1>1 DEF LinuxTypeOK
  <2>4. urb_out' \in [Devices -> {"none", "pending", "done"}]
    BY <1>0, <1>1 DEF LinuxTypeOK
  <2>5. urb_out_busy' \in [Devices -> BOOLEAN]
    BY <1>0, <1>1, ZenonT(60) DEF LinuxTypeOK
  <2> QED
    BY <1>0, <1>1, <2>1, <2>2, <2>3, <2>4, <2>5 DEF LinuxTypeOK
<1>3. ASSUME NEW e \in Devices, e # d PROVE ThreadsOK(e)' /\ WriteOK(e)' /\ ScanOK(e)'
  <2>1. UNCHANGED <<reader[e], urb_out[e], urb_out_busy[e]>>
    BY <1>0, <1>1, <1>3 DEF LinuxTypeOK
  <2>2. ThreadsSame(e) /\ WriteSame(e) /\ ScanSame(e)
    BY <1>1, <2>1 DEF ThreadsSame, WriteSame, ScanSame
  <2> QED
    BY <2>2, ThreadsStay, WriteStays, ScanStays
<1>4. /\ reader'[d] \in {"idle", "reaping", "failed"}
      /\ urb_out'[d] = "none" \/ UNCHANGED <<urb_out[d], urb_out_busy[d]>>
  BY <1>0, <1>1 DEF LinuxTypeOK
<1>5. ThreadsOK(d)'
  <2>1. /\ transportLock # d /\ reader[d] # "none" /\ writer[d] # "none"
        /\ d \notin ReadOnly /\ inList[d]
    BY <1>0, <1>1 DEF ThreadsOK
  <2> QED
    BY <1>0, <1>1, <1>4, <2>1 DEF ThreadsOK
<1>6. WriteOK(d)'
  BY <1>0, <1>1, <1>4 DEF WriteOK, Sure, Sent, Xfer, Confused
<1>7. ScanOK(d)'
  BY <1>0, <1>1 DEF ScanOK
<1> QED
  BY <1>2, <1>3, <1>5, <1>6, <1>7 DEF LinuxInv
\* The remainder of what is left of a write, a transfer less.
LEMMA Multiple == ASSUME NEW n \in Nat \ {0}, NEW k \in Int, -n < n * k, n * k < n PROVE k = 0
<1>1. CASE k >= 1
  <2>1. n * k = n + n * (k - 1) /\ k - 1 \in Nat
    BY <1>1
  <2>2. n * (k - 1) >= 0
    BY <2>1
  <2> QED
    BY <2>1, <2>2
<1>2. CASE k <= -1
  <2>1. n * k = n * (k + 1) - n /\ -(k + 1) \in Nat
    BY <1>2
  <2>2. n * (-(k + 1)) >= 0
    BY <2>1
  <2> QED
    BY <2>1, <2>2
<1> QED
  BY <1>1, <1>2
LEMMA ModStep == ASSUME NEW a \in Nat, NEW n \in Nat \ {0}, a >= n PROVE (a - n) % n = a % n
<1> DEFINE q == a \div n
           p == (a - n) \div n
           r == a % n
           s == (a - n) % n
<1>1. a = n * q + r /\ q \in Int /\ r \in 0 .. n - 1
  OBVIOUS
<1>2. a - n = n * p + s /\ p \in Int /\ s \in 0 .. n - 1
  OBVIOUS
<1> HIDE DEF q, p, r, s
<1>3. n * (q - p - 1) = s - r /\ q - p - 1 \in Int
  BY <1>1, <1>2
<1>4. -n < s - r /\ s - r < n
  BY <1>1, <1>2
<1>5. q - p - 1 = 0
  BY <1>3, <1>4, Multiple
<1>6. n * (q - p - 1) = 0
  BY <1>5
<1>7. r = s
  BY <1>1, <1>2, <1>3, <1>6
<1> QED
  BY <1>7 DEF r, s
LEMMA ModLess == ASSUME NEW a \in Nat, NEW n \in Nat \ {0}, a < n PROVE a % n = a
OBVIOUS


\* The bytes left once a transfer went through.
LEMMA LeftOver ==
  ASSUME LinuxInv, NEW d \in Devices
  PROVE  /\ Xfer(d) \in Nat /\ Xfer(d) <= left[d] /\ left[d] \in Nat /\ length[d] \in Nat
         /\ took[d] \in Nat /\ left[d] <= length[d]
         /\ Xfer(d) = 0 => left[d] = 0
         /\ left[d] - Xfer(d) = 0 \/ (left[d] - Xfer(d)) % MaxXfer = left[d] % MaxXfer
         /\ Xfer(d) = TimedOut => left[d] % MaxXfer = TimedOut /\ left[d] # 0
<1>1. /\ MaxXfer \in Nat \ {0} /\ TimedOut \in Nat \ {0} /\ TimedOut < MaxXfer
      /\ left[d] \in Nat /\ length[d] \in Nat /\ took[d] \in Nat /\ left[d] <= length[d]
  BY UsbAssumption DEF LinuxInv, LinuxTypeOK, WriteOK
<1>2. CASE left[d] < MaxXfer
  <2>1. Xfer(d) = left[d]
    BY <1>2 DEF Xfer, Shorter
  <2>2. left[d] % MaxXfer = left[d]
    BY <1>1, <1>2, ModLess
  <2> QED
    BY <1>1, <2>1, <2>2
<1>3. CASE ~ left[d] < MaxXfer
  <2>1. Xfer(d) = MaxXfer
    BY <1>3 DEF Xfer, Shorter
  <2>2. (left[d] - MaxXfer) % MaxXfer = left[d] % MaxXfer
    BY <1>1, <1>3, ModStep
  <2> QED
    BY <1>1, <1>3, <2>1, <2>2
<1> QED
  BY <1>2, <1>3

LEMMA BeginsKeep ==
  ASSUME LinuxInv, NEW d \in Devices, WriteBegins(d)
  PROVE  LinuxInv'
<1>0. LinuxTypeOK /\ \A e \in Devices : ThreadsOK(e) /\ WriteOK(e) /\ ScanOK(e)
  BY DEF LinuxInv
<1>1. PICK len \in Lengths :
        /\ writer[d] = "idle" /\ writes < MaxWrites /\ reader[d] \notin {"leaves", "gone"}
        /\ length' = [length EXCEPT ![d] = len] /\ left' = [left EXCEPT ![d] = len]
        /\ took' = [took EXCEPT ![d] = 0] /\ returned' = [returned EXCEPT ![d] = "none"]
        /\ writes' = writes + 1 /\ writer' = [writer EXCEPT ![d] = "submits"]
        /\ UNCHANGED <<plugged, stayed, plugs, poll, todo, usbLock, transportLock, inList, mark,
             dead, urb_in, statusIn, urb_out, statusOut, urb_out_busy, reader>>
  BY DEF WriteBegins, Set, deviceVars, pollVars, lockVars, inVars, outVars
<1>2. len \in Nat /\ MaxWrites \in Nat
  BY UsbAssumption
<1>3. LinuxTypeOK'
  BY <1>0, <1>1, <1>2 DEF LinuxTypeOK
<1>4. ASSUME NEW e \in Devices, e # d PROVE ThreadsOK(e)' /\ WriteOK(e)' /\ ScanOK(e)'
  <2>1. ThreadsSame(e) /\ WriteSame(e) /\ ScanSame(e)
    BY <1>0, <1>1, <1>4 DEF LinuxTypeOK, ThreadsSame, WriteSame, ScanSame
  <2> QED
    BY <2>1, ThreadsStay, WriteStays, ScanStays
<1>5. /\ writer'[d] = "submits" /\ length'[d] = len /\ left'[d] = len /\ took'[d] = 0
      /\ returned'[d] = "none"
  BY <1>0, <1>1 DEF LinuxTypeOK
<1>6. ThreadsOK(d)'
  BY <1>0, <1>1, <1>5 DEF ThreadsOK
<1>7. WriteOK(d)'
  <2>1. urb_out'[d] # "pending"
    BY <1>0, <1>1 DEF ThreadsOK
  <2> QED
    BY <1>2, <1>5, <2>1 DEF WriteOK, Sure, Sent
<1>8. ScanOK(d)'
  BY <1>0, <1>1 DEF ScanOK
<1> QED
  BY <1>3, <1>4, <1>6, <1>7, <1>8 DEF LinuxInv

LEMMA SubmitsKeep ==
  ASSUME LinuxInv, NEW d \in Devices, WriteSubmits(d), ~ dead[d] /\ plugged[d]
  PROVE  LinuxInv'
<1>0. LinuxTypeOK /\ \A e \in Devices : ThreadsOK(e) /\ WriteOK(e) /\ ScanOK(e)
  BY DEF LinuxInv
<1>1. /\ writer[d] = "submits"
      /\ urb_out' = [urb_out EXCEPT ![d] = "pending"]
      /\ statusOut' = [statusOut EXCEPT ![d] = "unset"]
      /\ urb_out_busy' = [urb_out_busy EXCEPT ![d] = TRUE]
      /\ writer' = [writer EXCEPT ![d] = "waits"]
      /\ UNCHANGED <<plugged, stayed, plugs, poll, todo, usbLock, transportLock, inList, mark, dead,
           urb_in, statusIn, reader, length, left, took, returned, writes>>
  BY DEF WriteSubmits, Set, deviceVars, pollVars, lockVars, inVars
<1>2. LinuxTypeOK'
  BY <1>0, <1>1 DEF LinuxTypeOK
<1>3. ASSUME NEW e \in Devices, e # d PROVE ThreadsOK(e)' /\ WriteOK(e)' /\ ScanOK(e)'
  <2>1. ThreadsSame(e) /\ WriteSame(e) /\ ScanSame(e)
    BY <1>0, <1>1, <1>3 DEF LinuxTypeOK, ThreadsSame, WriteSame, ScanSame
  <2> QED
    BY <2>1, ThreadsStay, WriteStays, ScanStays
<1>4. /\ writer'[d] = "waits" /\ urb_out'[d] = "pending" /\ urb_out_busy'[d]
      /\ statusOut'[d] = "unset"
  BY <1>0, <1>1 DEF LinuxTypeOK
<1>5. ThreadsOK(d)'
  BY <1>0, <1>1, <1>4 DEF ThreadsOK
<1>6. WriteOK(d)'
  <2>1. /\ left[d] <= length[d] /\ took[d] <= length[d] /\ returned[d] = "none"
        /\ left[d] = 0 \/ left[d] % MaxXfer = length[d] % MaxXfer
        /\ took[d] <= Sent(d) /\ Sure(d, {Sent(d)})
    BY <1>0, <1>1 DEF WriteOK
  <2>2. Xfer(d) \in Nat /\ Sent(d) \in Nat /\ took[d] \in Nat
    BY LeftOver DEF Sent
  <2>3. Xfer(d)' = Xfer(d) /\ Sent(d)' = Sent(d) /\ (Confused(d)' <=> Confused(d))
    BY <1>1 DEF Xfer, Sent, Confused
  <2> HIDE DEF Xfer, Sent, Confused
  <2> QED
    BY <1>1, <1>4, <2>1, <2>2, <2>3 DEF WriteOK, Sure
<1>7. ScanOK(d)'
  BY <1>0, <1>1 DEF ScanOK
<1> QED
  BY <1>2, <1>3, <1>5, <1>6, <1>7 DEF LinuxInv

\* A transfer of the writer returned: of what was submitted, or without a device to take it.
LEMMA ReturnsKeep ==
  ASSUME LinuxInv, NEW d \in Devices, NEW n, Returns(d, n),
         UNCHANGED <<deviceVars, pollVars, lockVars, inList, mark, dead, inVars, outVars, reader,
                     length, took, writes>>,
         urb_out[d] # "pending", writer[d] \in {"submits", "waits"},
         n = Xfer(d) => Sure(d, {Sent(d) + Xfer(d)}) /\ took[d] <= Sent(d) + Xfer(d)
  PROVE  LinuxInv'
<1>0. LinuxTypeOK /\ \A e \in Devices : ThreadsOK(e) /\ WriteOK(e) /\ ScanOK(e)
  BY DEF LinuxInv
<1>1. UNCHANGED <<plugged, stayed, plugs, poll, todo, usbLock, transportLock, inList, mark, dead,
        urb_in, statusIn, urb_out, statusOut, urb_out_busy, reader, length, took, writes>>
  BY DEF deviceVars, pollVars, lockVars, inVars, outVars
<1>2. /\ Xfer(d) \in Nat /\ Xfer(d) <= left[d] /\ left[d] \in Nat /\ length[d] \in Nat
      /\ took[d] \in Nat /\ left[d] <= length[d] /\ (Xfer(d) = 0 => left[d] = 0)
      /\ left[d] - Xfer(d) = 0 \/ (left[d] - Xfer(d)) % MaxXfer = left[d] % MaxXfer
  BY LeftOver
<1>3. PICK w \in {"idle", "submits"}, a \in {"none", "ok", "failed"}, l \in Nat :
        /\ writer' = [writer EXCEPT ![d] = w] /\ returned' = [returned EXCEPT ![d] = a]
        /\ left' = [left EXCEPT ![d] = l]
        /\ \/ w = "idle" /\ a = "failed" /\ l = left[d]
           \/ n = Xfer(d) /\ l = left[d] - Xfer(d) /\ w = "submits" /\ a = returned[d]
           \/ n = Xfer(d) /\ l = left[d] - Xfer(d) /\ w = "idle" /\ a = "ok" /\ l = 0
  <2>1. /\ left = [left EXCEPT ![d] = left[d]] /\ returned = [returned EXCEPT ![d] = returned[d]]
        /\ returned[d] = "none"
    BY <1>0, ZenonT(60) DEF LinuxTypeOK, WriteOK
  <2>2. CASE n # Xfer(d)
    BY <1>2, <2>1, <2>2 DEF Returns, Set
  <2>3. CASE n = Xfer(d)
    <3>1. left[d] - Xfer(d) \in Nat /\ left' = [left EXCEPT ![d] = left[d] - Xfer(d)]
      BY <1>2, <2>3 DEF Returns, Set
    <3>2. CASE Xfer(d) > 0 /\ (left[d] - Xfer(d) > 0 \/ NeedsZero(d))
      <4>1. writer' = [writer EXCEPT ![d] = "submits"] /\ returned' = returned
        BY <2>3, <3>2 DEF Returns, Set
      <4> QED
        BY <2>1, <2>3, <3>1, <4>1
    <3>3. CASE ~ (Xfer(d) > 0 /\ (left[d] - Xfer(d) > 0 \/ NeedsZero(d)))
      <4>1. writer' = [writer EXCEPT ![d] = "idle"] /\ returned' = [returned EXCEPT ![d] = "ok"]
        BY <2>3, <3>3 DEF Returns, Set
      <4>2. left[d] - Xfer(d) = 0
        BY <1>2, <3>1, <3>3
      <4> QED
        BY <2>3, <3>1, <4>1, <4>2
    <3> QED
      BY <3>2, <3>3
  <2> QED
    BY <2>2, <2>3
<1>4. LinuxTypeOK'
  <2>1. writer' \in [Devices -> {"none", "idle", "submits", "waits", "leaves", "gone"}]
    BY <1>0, <1>3 DEF LinuxTypeOK
  <2>2. returned' \in [Devices -> {"none", "ok", "failed"}] /\ left' \in [Devices -> Nat]
    BY <1>0, <1>3 DEF LinuxTypeOK
  <2> QED
    BY <1>0, <1>1, <2>1, <2>2 DEF LinuxTypeOK
<1>5. ASSUME NEW e \in Devices, e # d PROVE ThreadsOK(e)' /\ WriteOK(e)' /\ ScanOK(e)'
  <2>1. UNCHANGED <<writer[e], returned[e], left[e]>>
    BY <1>0, <1>3, <1>5 DEF LinuxTypeOK
  <2>2. ThreadsSame(e) /\ WriteSame(e) /\ ScanSame(e)
    BY <1>1, <2>1 DEF ThreadsSame, WriteSame, ScanSame
  <2> QED
    BY <2>2, ThreadsStay, WriteStays, ScanStays
<1>6. writer'[d] = w /\ returned'[d] = a /\ left'[d] = l
  BY <1>0, <1>3 DEF LinuxTypeOK
<1>7. ThreadsOK(d)'
  <2>1. transportLock # d /\ reader[d] # "none" /\ d \notin ReadOnly /\ inList[d]
    BY <1>0 DEF ThreadsOK
  <2> QED
    BY <1>1, <1>6, <2>1 DEF ThreadsOK
<1>8. WriteOK(d)'
  <2>1. /\ returned[d] = "none" /\ took[d] <= length[d]
        /\ left[d] = 0 \/ left[d] % MaxXfer = length[d] % MaxXfer
    BY <1>0 DEF WriteOK
  <2>2. l = 0 \/ l % MaxXfer = length[d] % MaxXfer \/ w = "idle"
    BY <1>2, <1>3, <2>1
  <2>3. /\ w = "submits" => took[d] <= length[d] - l /\ Sure(d, {length[d] - l})
        /\ a = "ok" => Sure(d, {length[d]})
    BY <1>2, <1>3, <2>1 DEF Sent, Sure
  <2>4. l <= length[d] /\ (w = "submits" => a = "none")
    BY <1>2, <1>3, <2>1
  <2>5. length'[d] = length[d] /\ took'[d] = took[d] /\ (Confused(d)' <=> Confused(d))
    BY <1>1 DEF Confused
  <2> HIDE DEF Confused
  <2> QED
    BY <1>1, <1>6, <2>1, <2>2, <2>3, <2>4, <2>5 DEF WriteOK, Sure, Sent
<1>9. ScanOK(d)'
  BY <1>0, <1>1 DEF ScanOK
<1> QED
  BY <1>4, <1>5, <1>7, <1>8, <1>9 DEF LinuxInv

LEMMA WritesKeep ==
  ASSUME LinuxInv, NEW d \in Devices, WriteSubmits(d) \/ WaitReturns(d)
  PROVE  LinuxInv'
<1>0. LinuxTypeOK /\ ThreadsOK(d) /\ WriteOK(d)
  BY DEF LinuxInv
<1>1. /\ Xfer(d) \in Nat /\ left[d] \in Nat /\ length[d] \in Nat /\ took[d] \in Nat
      /\ Xfer(d) = 0 => left[d] = 0
      /\ Xfer(d) = TimedOut => left[d] % MaxXfer = TimedOut /\ left[d] # 0
  BY LeftOver
<1>2. CASE WriteSubmits(d)
  <2>1. CASE ~ dead[d] /\ plugged[d]
    BY <1>2, <2>1, SubmitsKeep
  <2>2. CASE ~ (~ dead[d] /\ plugged[d])
    <3>1. /\ Returns(d, -1) /\ writer[d] = "submits"
          /\ UNCHANGED <<deviceVars, pollVars, lockVars, inList, mark, dead, inVars, outVars,
                         reader, length, took, writes>>
      BY <1>2, <2>2 DEF WriteSubmits
    <3>2. -1 # Xfer(d) /\ urb_out[d] # "pending"
      BY <1>0, <1>1, <3>1 DEF ThreadsOK
    <3> QED
      BY <3>1, <3>2, ReturnsKeep
  <2> QED
    BY <2>1, <2>2
<1>3. CASE WaitReturns(d)
  <2>1. PICK res \in {0, TimedOut} :
          Returns(d, IF ~ dead[d] /\ statusOut[d] = "ok" THEN Xfer(d) ELSE res)
    BY <1>3 DEF WaitReturns
  <2>2. /\ writer[d] = "waits"
        /\ dead[d] \/ ~ urb_out_busy[d]
        /\ UNCHANGED <<deviceVars, pollVars, lockVars, inList, mark, dead, inVars, outVars, reader,
                       length, took, writes>>
    BY <1>3 DEF WaitReturns
  <2>3. urb_out[d] # "pending"
    BY <1>0, <2>2 DEF ThreadsOK
  <2>4. /\ took[d] <= Sent(d) + Xfer(d) /\ Sure(d, {Sent(d), Sent(d) + Xfer(d)})
        /\ statusOut[d] = "ok" => Sure(d, {Sent(d) + Xfer(d)})
        /\ left[d] = 0 \/ left[d] % MaxXfer = length[d] % MaxXfer
    BY <1>0, <2>2 DEF WriteOK
  <2>5. Xfer(d) = 0 => Sure(d, {Sent(d) + Xfer(d)})
    <3>1. Sent(d) \in Int
      BY <1>1 DEF Sent
    <3> QED
      BY <2>4, <3>1 DEF Sure
  <2>6. Xfer(d) = TimedOut => Sure(d, {Sent(d) + Xfer(d)})
    BY <1>1, <2>4 DEF Sure, Confused
  <2>7. CASE ~ dead[d] /\ statusOut[d] = "ok"
    BY <2>1, <2>2, <2>3, <2>4, <2>7, ReturnsKeep
  <2>8. CASE ~ (~ dead[d] /\ statusOut[d] = "ok")
    <3>1. Returns(d, res)
      BY <2>1, <2>8
    <3>2. res = Xfer(d) => Sure(d, {Sent(d) + Xfer(d)})
      BY <2>5, <2>6
    <3> QED
      BY <2>2, <2>3, <2>4, <3>1, <3>2, ReturnsKeep
  <2> QED
    BY <2>7, <2>8
<1> QED
  BY <1>2, <1>3

\* The threads give up the transport; the last has the handle closed.
LEMMA UnrefsKeep ==
  ASSUME LinuxInv, NEW d \in Devices, FirstUnrefs(d) \/ LastUnrefs(d)
  PROVE  LinuxInv'
<1>0. LinuxTypeOK /\ \A e \in Devices : ThreadsOK(e) /\ WriteOK(e) /\ ScanOK(e)
  BY DEF LinuxInv
<1>1. /\ transportLock = Free
      /\ UNCHANGED <<plugged, stayed, plugs, poll, todo, usbLock, inList, mark, dead, urb_in,
           statusIn, urb_out, statusOut, urb_out_busy, length, left, took, returned, writes>>
      /\ \/ /\ reader[d] = "leaves" /\ reader' = [reader EXCEPT ![d] = "gone"]
            /\ writer' = writer /\ transportLock' = Free
         \/ /\ writer[d] = "leaves" /\ writer' = [writer EXCEPT ![d] = "gone"]
            /\ reader' = reader /\ transportLock' = Free
         \/ /\ {reader[d], writer[d]} = {"leaves", "gone"} /\ transportLock' = d
            /\ UNCHANGED <<reader, writer>>
  BY DEF FirstUnrefs, LastUnrefs, Set, deviceVars, pollVars, lockVars, inVars, outVars, threadVars,
         writeVars
<1>2. Free \notin Devices
  BY UsbAssumption DEF Free
<1>3. LinuxTypeOK'
  <2>1. reader' \in [Devices -> {"none", "idle", "reaping", "failed", "leaves", "gone"}]
    BY <1>0, <1>1 DEF LinuxTypeOK
  <2>2. writer' \in [Devices -> {"none", "idle", "submits", "waits", "leaves", "gone"}]
    BY <1>0, <1>1 DEF LinuxTypeOK
  <2> QED
    BY <1>0, <1>1, <2>1, <2>2 DEF LinuxTypeOK
<1>4. ASSUME NEW e \in Devices, e # d PROVE ThreadsOK(e)' /\ WriteOK(e)' /\ ScanOK(e)'
  <2>1. WriteSame(e) /\ ScanSame(e) /\ reader'[e] = reader[e]
    BY <1>0, <1>1, <1>4 DEF LinuxTypeOK, WriteSame, ScanSame
  <2>2. ThreadsOK(e)'
    BY <1>0, <1>1, <1>2, <1>4, <2>1 DEF ThreadsOK, WriteSame
  <2> QED
    BY <2>1, <2>2, WriteStays, ScanStays
<1>5. /\ reader'[d] = reader[d] \/ (reader[d] = "leaves" /\ reader'[d] = "gone")
      /\ writer'[d] = writer[d] \/ (writer[d] = "leaves" /\ writer'[d] = "gone")
      /\ transportLock' = d => {reader'[d], writer'[d]} = {"leaves", "gone"}
  BY <1>0, <1>1, <1>2, ZenonT(60) DEF LinuxTypeOK
<1>6. ThreadsOK(d)'
  <2>1. /\ ~ inList[d] => reader[d] = "none"
        /\ reader[d] = "none" <=> writer[d] = "none"
        /\ d \in ReadOnly => reader[d] = "none"
        /\ urb_out[d] = "pending" =>
             writer[d] = "waits" /\ ~ dead[d] /\ urb_out_busy[d] /\ statusOut[d] = "unset"
    BY <1>0 DEF ThreadsOK
  <2>2. /\ reader'[d] = "none" <=> reader[d] = "none"
        /\ writer'[d] = "none" <=> writer[d] = "none"
        /\ writer[d] = "waits" => writer'[d] = "waits"
    BY <1>5
  <2> QED
    BY <1>1, <1>5, <2>1, <2>2 DEF ThreadsOK
<1>7. WriteOK(d)'
  BY <1>0, <1>1, <1>5 DEF WriteOK, Sure, Sent, Xfer, Confused
<1>8. ScanOK(d)'
  BY <1>0, <1>1 DEF ScanOK
<1> QED
  BY <1>3, <1>4, <1>6, <1>7, <1>8 DEF LinuxInv

LEMMA ClosesKeep ==
  ASSUME LinuxInv, NEW d \in Devices, Closes(d)
  PROVE  LinuxInv'
<1>0. LinuxTypeOK /\ \A e \in Devices : ThreadsOK(e) /\ WriteOK(e) /\ ScanOK(e)
  BY DEF LinuxInv
<1>1. /\ transportLock = d /\ usbLock = Free /\ transportLock' = Free
      /\ inList' = [inList EXCEPT ![d] = FALSE] /\ reader' = [reader EXCEPT ![d] = "none"]
      /\ writer' = [writer EXCEPT ![d] = "none"] /\ mark' = [mark EXCEPT ![d] = FALSE]
      /\ dead' = [dead EXCEPT ![d] = FALSE] /\ urb_in' = [urb_in EXCEPT ![d] = "none"]
      /\ urb_out' = [urb_out EXCEPT ![d] = "none"] /\ statusIn' = [statusIn EXCEPT ![d] = "unset"]
      /\ statusOut' = [statusOut EXCEPT ![d] = "unset"] /\ length' = [length EXCEPT ![d] = 0]
      /\ left' = [left EXCEPT ![d] = 0] /\ took' = [took EXCEPT ![d] = 0]
      /\ returned' = [returned EXCEPT ![d] = "none"]
      /\ UNCHANGED <<plugged, stayed, plugs, poll, todo, usbLock, urb_out_busy, writes>>
  BY DEF Closes, Set, deviceVars, pollVars
<1>2. Free \notin Devices /\ Free # "poll"
  BY UsbAssumption DEF Free
<1>3. LinuxTypeOK'
  BY <1>0, <1>1 DEF LinuxTypeOK
<1>4. ASSUME NEW e \in Devices, e # d PROVE ThreadsOK(e)' /\ WriteOK(e)' /\ ScanOK(e)'
  <2>1. /\ WriteSame(e) /\ ScanSame(e)
        /\ UNCHANGED <<inList[e], reader[e], writer[e], urb_out[e], dead[e], urb_out_busy[e],
                       statusOut[e]>>
    BY <1>0, <1>1, <1>4 DEF LinuxTypeOK, WriteSame, ScanSame
  <2>2. ThreadsOK(e)'
    BY <1>0, <1>1, <1>2, <1>4, <2>1 DEF ThreadsOK
  <2> QED
    BY <2>1, <2>2, WriteStays, ScanStays
<1>5. /\ ~ inList'[d] /\ reader'[d] = "none" /\ writer'[d] = "none" /\ urb_out'[d] = "none"
      /\ length'[d] = 0 /\ left'[d] = 0 /\ took'[d] = 0 /\ returned'[d] = "none"
  BY <1>0, <1>1 DEF LinuxTypeOK
<1>6. ThreadsOK(d)' /\ WriteOK(d)'
  BY <1>1, <1>2, <1>5 DEF ThreadsOK, WriteOK
<1>7. ScanOK(d)'
  BY <1>0, <1>1, <1>2, <1>5 DEF ScanOK
<1> QED
  BY <1>3, <1>4, <1>6, <1>7 DEF LinuxInv

LEMMA LinuxStep == LinuxInv /\ [UsbNext]_usbVars => LinuxInv'
<1> SUFFICES ASSUME LinuxInv, [UsbNext]_usbVars PROVE LinuxInv'
  OBVIOUS
<1>1. CASE UNCHANGED usbVars
  <2>1. UNCHANGED <<plugged, stayed, plugs, poll, todo, usbLock, transportLock, inList, mark, dead,
          urb_in, statusIn, urb_out, statusOut, urb_out_busy, reader, writer, length, left, took,
          returned, writes>>
    BY <1>1 DEF usbVars, deviceVars, pollVars, lockVars, inVars, outVars, threadVars, writeVars
  <2>2. LinuxTypeOK'
    BY <2>1 DEF LinuxInv, LinuxTypeOK
  <2>3. ASSUME NEW e \in Devices PROVE ThreadsOK(e)' /\ WriteOK(e)' /\ ScanOK(e)'
    BY <2>1, ThreadsStay, WriteStays, ScanStays DEF ThreadsSame, WriteSame, ScanSame
  <2> QED
    BY <2>2, <2>3 DEF LinuxInv
<1>2. CASE PollStep
  <2>1. ASSUME NEW d \in Devices, Finds(d) PROVE LinuxInv'
    <3>1. Marks(d) \/ RegistersHandle(d)
      BY <2>1 DEF Finds
    <3> QED
      BY <2>1, <3>1, MarksKeep, RegistersKeep
  <2> QED
    BY <1>2, <2>1, ScansKeep, MarksKeep, KicksAll DEF PollStep
<1>3. ASSUME NEW d \in Devices,
        \/ Plug(d) \/ Unplug(d) \/ DeviceSends(d) \/ DeviceTakes(d)
        \/ HostKicks(d) \/ WriteBegins(d)
        \/ ReaderStep(d) \/ WriterStep(d) \/ TransportStep(d)
      PROVE  LinuxInv'
  BY <1>3, PlugKeeps, UnplugKeeps, SendsKeep, TakesKeep, KicksAll, BeginsKeep, ReadsKeep,
     WritesKeep,
     UnrefsKeep, ClosesKeep DEF ReaderStep, WriterStep, TransportStep
<1> QED
  BY <1>1, <1>2, <1>3 DEF UsbNext

LEMMA LinuxTyped == LinuxInv => UsbTypeOK /\ WrittenWasTaken /\ ClosedUnused
<1> SUFFICES ASSUME LinuxInv PROVE UsbTypeOK /\ WrittenWasTaken /\ ClosedUnused
  OBVIOUS
<1>1. \A d \in Devices : left[d] \in 0 .. length[d] /\ took[d] \in 0 .. length[d]
  <2>1. ASSUME NEW d \in Devices PROVE left[d] \in 0 .. length[d] /\ took[d] \in 0 .. length[d]
    <3>1. left[d] \in Nat /\ length[d] \in Nat /\ took[d] \in Nat /\ left[d] <= length[d]
      BY LeftOver
    <3>2. took[d] <= length[d]
      BY DEF LinuxInv, WriteOK
    <3> QED
      BY <3>1, <3>2
  <2> QED
    BY <2>1
<1>2. UsbTypeOK
  BY <1>1 DEF LinuxInv, LinuxTypeOK, UsbTypeOK
<1>3. WrittenWasTaken
  BY DEF LinuxInv, WriteOK, Sure, WrittenWasTaken
<1>4. ClosedUnused
  BY DEF LinuxInv, ThreadsOK, ClosedUnused
<1> QED
  BY <1>2, <1>3, <1>4

\* Only the polling thread takes a device from its list while it kicks.
LEMMA KickedStep ==
  ASSUME LinuxInv, [UsbNext]_usbVars, NEW d \in Devices, KickedByPoll(d)
  PROVE  ~ stayed[d]
<1>1. poll = "kick" /\ d \in todo /\ d \notin todo' /\ ~ dead[d] /\ dead'[d]
  BY DEF KickedByPoll
<1>2. LinuxTypeOK /\ ScanOK(d)
  BY DEF LinuxInv
<1>3. ~ UNCHANGED todo
  BY <1>1
<1>4. ~ UNCHANGED usbVars
  BY <1>3 DEF usbVars, pollVars
<1>5. ~ (\E e \in Devices :
           \/ Plug(e) \/ Unplug(e) \/ DeviceSends(e) \/ DeviceTakes(e)
        \/ HostKicks(e) \/ WriteBegins(e)
           \/ ReaderStep(e) \/ WriterStep(e) \/ TransportStep(e))
  <2>1. ASSUME NEW e \in Devices PROVE ~ Plug(e)
    BY <1>1 DEF Plug
  <2>2. ASSUME NEW e \in Devices
        PROVE  ~ (Unplug(e) \/ DeviceSends(e) \/ DeviceTakes(e) \/ HostKicks(e) \/ WriteBegins(e))
    BY <1>3 DEF Unplug, DeviceSends, DeviceTakes, HostKicks, WriteBegins, pollVars
  <2>3. ASSUME NEW e \in Devices PROVE ~ ReaderStep(e)
    BY <1>3 DEF ReaderStep, ReadSubmits, ReapsIn, ReapsOut, ReaderLeaves, pollVars
  <2>4. ASSUME NEW e \in Devices PROVE ~ WriterStep(e)
    BY <1>3 DEF WriterStep, WriteSubmits, WaitReturns, WriterLeaves, pollVars
  <2>5. ASSUME NEW e \in Devices PROVE ~ TransportStep(e)
    BY <1>3 DEF TransportStep, FirstUnrefs, LastUnrefs, Closes, pollVars
  <2> QED
    BY <2>1, <2>2, <2>3, <2>4, <2>5
<1>6. PollStep
  BY <1>4, <1>5 DEF UsbNext
<1>7. ~ ScanBegins /\ ~ ScanEnds /\ ~ Unregisters /\ ~ KicksEnd
  BY <1>1 DEF ScanBegins, ScanEnds, Unregisters, KicksEnd
<1>8. ASSUME NEW e \in Devices, Finds(e) \/ Unmarks(e) \/ KicksGone(e) \/ KicksReadOnly(e)
      PROVE  ~ mark[d]
  <2>1. ~ Finds(e)
    BY <1>1 DEF Finds
  <2>2. todo' = todo \ {e}
    BY <1>8, <2>1 DEF Unmarks, KicksGone, KicksReadOnly
  <2>3. e = d
    BY <1>1, <2>2
  <2>4. ~ Unmarks(d)
    BY <1>1 DEF Unmarks
  <2> QED
    BY <1>8, <2>1, <2>3, <2>4 DEF KicksGone, KicksReadOnly
<1>9. ~ mark[d]
  BY <1>6, <1>7, <1>8 DEF PollStep
<1> QED
  BY <1>1, <1>2, <1>9 DEF ScanOK

\* A Linux host, for any devices, transfers and lengths, whenever devices go and main kicks: what
\* usb_write reports as written was taken by the device, but for a last transfer of ETIMEDOUT
\* bytes; a handle is closed when both threads have left it; and the polling thread kicks no
\* device that has been there since before its scan (usb_linux.c).
THEOREM UsbLinuxHolds ==
  UsbSpec => [](UsbTypeOK /\ WrittenWasTaken /\ ClosedUnused) /\ KicksOnlyGone
<1>1. LinuxInv /\ [UsbNext]_usbVars => [\A d \in Devices : KickedByPoll(d) => ~ stayed[d]]_usbVars
  BY KickedStep
<1> QED
  BY <1>1, LinuxStart, LinuxStep, LinuxTyped, PTL DEF UsbSpec, KicksOnlyGone

-----------------------------------------------------------------------------
\* The processes that can be debugged (AdbJdwp).

\* No element of a sequence comes twice.
Apart(s) == \A i, j \in 1 .. Len(s) : s[i] = s[j] => i = j

LEMMA EmptyIs ==
  ASSUME NEW S, NEW s \in Seq(S)
  PROVE  s = <<>> <=> Len(s) = 0
  OBVIOUS

LEMMA JoinedIs ==
  ASSUME NEW S, NEW s \in Seq(S), NEW t \in Seq(S)
  PROVE  /\ s \o t \in Seq(S) /\ Len(s \o t) = Len(s) + Len(t)
         /\ \A i \in 1 .. Len(s) : (s \o t)[i] = s[i]
         /\ \A i \in 1 .. Len(s) + Len(t) : ~ i <= Len(s) => (s \o t)[i] = t[i - Len(s)]
  OBVIOUS

LEMMA AppendContains ==
  ASSUME NEW S, NEW s \in Seq(S), NEW x \in S
  PROVE  /\ Append(s, x) \in Seq(S) /\ Append(s, x) # <<>>
         /\ \A e : Contains(Append(s, x), e) <=> Contains(s, e) \/ e = x
         /\ Apart(s) /\ ~ Contains(s, x) => Apart(Append(s, x))
<1>1. /\ Append(s, x) \in Seq(S) /\ Len(Append(s, x)) = Len(s) + 1 /\ Len(s) \in Nat
      /\ \A i \in 1 .. Len(s) : Append(s, x)[i] = s[i]
      /\ Append(s, x)[Len(s) + 1] = x
  OBVIOUS
<1>2. ASSUME NEW e
      PROVE  Contains(Append(s, x), e) <=> Contains(s, e) \/ e = x
  <2>1. ASSUME Contains(Append(s, x), e) PROVE Contains(s, e) \/ e = x
    <3>1. PICK i \in 1 .. Len(s) + 1 : Append(s, x)[i] = e
      BY <1>1, <2>1 DEF Contains
    <3>2. CASE i = Len(s) + 1
      BY <1>1, <3>1, <3>2
    <3>3. CASE i # Len(s) + 1
      <4>1. i \in 1 .. Len(s)
        BY <1>1, <3>3
      <4> QED
        BY <1>1, <3>1, <4>1 DEF Contains
    <3> QED
      BY <3>2, <3>3
  <2>2. ASSUME Contains(s, e) PROVE Contains(Append(s, x), e)
    <3>1. PICK i \in 1 .. Len(s) : s[i] = e
      BY <2>2 DEF Contains
    <3>2. i \in 1 .. Len(s) + 1 /\ Append(s, x)[i] = e
      BY <1>1, <3>1
    <3> QED
      BY <1>1, <3>2 DEF Contains
  <2>3. Contains(Append(s, x), x)
    <3>1. Len(s) + 1 \in 1 .. Len(s) + 1
      BY <1>1
    <3> QED
      BY <1>1, <3>1 DEF Contains
  <2> QED
    BY <2>1, <2>2, <2>3
<1>3. ASSUME Apart(s), ~ Contains(s, x),
             NEW i \in 1 .. Len(s) + 1, NEW j \in 1 .. Len(s) + 1,
             Append(s, x)[i] = Append(s, x)[j]
      PROVE  i = j
  <2>1. i \in 1 .. Len(s) \/ i = Len(s) + 1
    BY <1>1
  <2>2. j \in 1 .. Len(s) \/ j = Len(s) + 1
    BY <1>1
  <2> QED
    BY <1>1, <1>3, <2>1, <2>2 DEF Apart, Contains
<1>4. Append(s, x) # <<>>
  BY <1>1
<1> QED
  BY <1>1, <1>2, <1>3, <1>4 DEF Apart

LEMMA TailContains ==
  ASSUME NEW S, NEW s \in Seq(S), s # <<>>, Apart(s)
  PROVE  /\ Head(s) \in S /\ Tail(s) \in Seq(S) /\ Apart(Tail(s)) /\ Contains(s, Head(s))
         /\ Tail(s) # <<>> <=> Len(s) > 1
         /\ \A e : Contains(Tail(s), e) <=> Contains(s, e) /\ e # Head(s)
<1>1. /\ Len(s) \in Nat /\ Len(s) >= 1 /\ Head(s) = s[1] /\ Head(s) \in S
      /\ Tail(s) \in Seq(S) /\ Len(Tail(s)) = Len(s) - 1
      /\ \A i \in 1 .. Len(s) - 1 : Tail(s)[i] = s[i + 1]
  OBVIOUS
<1>2. Apart(Tail(s))
  <2>1. SUFFICES ASSUME NEW i \in 1 .. Len(s) - 1, NEW j \in 1 .. Len(s) - 1,
                        s[i + 1] = s[j + 1]
                 PROVE  i = j
    BY <1>1 DEF Apart
  <2>2. i + 1 \in 1 .. Len(s) /\ j + 1 \in 1 .. Len(s)
    BY <1>1
  <2>3. i + 1 = j + 1
    BY <2>1, <2>2 DEF Apart
  <2> QED
    BY <2>3
<1>3. Contains(s, Head(s))
  <2>1. 1 \in 1 .. Len(s)
    BY <1>1
  <2> QED
    BY <1>1, <2>1 DEF Contains
<1>4. ASSUME NEW e, Contains(Tail(s), e) PROVE Contains(s, e) /\ e # Head(s)
  <2>1. PICK i \in 1 .. Len(s) - 1 : s[i + 1] = e
    BY <1>1, <1>4 DEF Contains
  <2>2. i + 1 \in 1 .. Len(s) /\ 1 \in 1 .. Len(s) /\ i + 1 # 1
    BY <1>1
  <2> QED
    BY <1>1, <2>1, <2>2 DEF Contains, Apart
<1>5. ASSUME NEW e, Contains(s, e), e # Head(s) PROVE Contains(Tail(s), e)
  <2>1. PICK i \in 1 .. Len(s) : s[i] = e
    BY <1>5 DEF Contains
  <2>2. i - 1 \in 1 .. Len(s) - 1 /\ (i - 1) + 1 = i
    BY <1>1, <1>5, <2>1
  <2>3. Tail(s)[i - 1] = e
    BY <1>1, <2>1, <2>2
  <2> QED
    BY <1>1, <2>2, <2>3 DEF Contains
<1>6. Tail(s) # <<>> <=> Len(s) > 1
  <2>1. Tail(s) = <<>> <=> Len(Tail(s)) = 0
    BY <1>1, EmptyIs
  <2> QED
    BY <1>1, <2>1
<1> QED
  BY <1>1, <1>2, <1>3, <1>4, <1>5, <1>6

LEMMA RemoveContains ==
  ASSUME NEW S, NEW s \in Seq(S), Apart(s), NEW i \in 1 .. Len(s)
  PROVE  /\ RemoveAt(s, i) \in Seq(S) /\ Apart(RemoveAt(s, i))
         /\ \A e : Contains(RemoveAt(s, i), e) <=> Contains(s, e) /\ e # s[i]
<1> DEFINE a == SubSeq(s, 1, i - 1)
           b == SubSeq(s, i + 1, Len(s))
           r == RemoveAt(s, i)
<1>1. Len(s) \in Nat /\ i \in Nat /\ 1 <= i /\ i <= Len(s)
  OBVIOUS
<1>2. a \in Seq(S) /\ Len(a) = i - 1 /\ \A j \in 1 .. i - 1 : a[j] = s[j]
  BY <1>1
<1>3. b \in Seq(S) /\ Len(b) = Len(s) - i /\ \A j \in 1 .. Len(s) - i : b[j] = s[i + j]
  BY <1>1
<1>4. r = a \o b
  BY DEF RemoveAt
<1> HIDE DEF a, b, r
<1>10. /\ r \in Seq(S) /\ Len(r) = Len(a) + Len(b)
       /\ \A j \in 1 .. Len(a) : r[j] = a[j]
       /\ \A j \in 1 .. Len(a) + Len(b) : ~ j <= Len(a) => r[j] = b[j - Len(a)]
  BY <1>2, <1>3, <1>4, JoinedIs, ZenonT(40)
<1>5. r \in Seq(S) /\ Len(r) = Len(s) - 1
  BY <1>1, <1>2, <1>3, <1>10
<1>6. ASSUME NEW j \in 1 .. Len(s) - 1
      PROVE  r[j] = IF j < i THEN s[j] ELSE s[j + 1]
  <2>1. CASE j < i
    BY <1>1, <1>2, <1>3, <1>10, <2>1
  <2>2. CASE ~ j < i
    <3>1. j - (i - 1) \in 1 .. Len(s) - i /\ i + (j - (i - 1)) = j + 1
      BY <1>1, <2>2
    <3>2. r[j] = b[j - (i - 1)]
      BY <1>1, <1>2, <1>3, <1>10, <2>2
    <3> QED
      BY <1>3, <2>2, <3>1, <3>2
  <2> QED
    BY <2>1, <2>2
<1>7. Apart(r)
  <2>1. SUFFICES ASSUME NEW j \in 1 .. Len(s) - 1, NEW k \in 1 .. Len(s) - 1, r[j] = r[k]
                 PROVE  j = k
    BY <1>5 DEF Apart
  <2> DEFINE at(n) == IF n < i THEN n ELSE n + 1
  <2>2. at(j) \in 1 .. Len(s) /\ at(k) \in 1 .. Len(s) /\ r[j] = s[at(j)] /\ r[k] = s[at(k)]
    BY <1>1, <1>6
  <2>3. at(j) = at(k)
    BY <2>1, <2>2 DEF Apart
  <2> QED
    BY <1>1, <2>3
<1>8. ASSUME NEW e, Contains(r, e) PROVE Contains(s, e) /\ e # s[i]
  <2>1. PICK j \in 1 .. Len(s) - 1 : r[j] = e
    BY <1>5, <1>8 DEF Contains
  <2>2. PICK k \in 1 .. Len(s) : k # i /\ s[k] = e
    <3>1. CASE j < i
      BY <1>1, <1>6, <2>1, <3>1, SMTT(30)
    <3>2. CASE ~ j < i
      <4>1. j + 1 \in 1 .. Len(s) /\ j + 1 # i
        BY <1>1, <3>2
      <4> QED
        BY <1>6, <2>1, <3>2, <4>1
    <3> QED
      BY <3>1, <3>2
  <2> QED
    BY <1>1, <2>2 DEF Contains, Apart
<1>9. ASSUME NEW e, Contains(s, e), e # s[i] PROVE Contains(r, e)
  <2>1. PICK k \in 1 .. Len(s) : s[k] = e
    BY <1>9 DEF Contains
  <2>2. CASE k < i
    <3>1. k \in 1 .. Len(s) - 1 /\ r[k] = e
      BY <1>1, <1>6, <2>1, <2>2
    <3> QED
      BY <1>5, <3>1 DEF Contains
  <2>3. CASE k > i
    <3>1. k - 1 \in 1 .. Len(s) - 1 /\ ~ k - 1 < i /\ (k - 1) + 1 = k
      BY <1>1, <2>3
    <3>2. r[k - 1] = e
      BY <1>6, <2>1, <3>1
    <3> QED
      BY <1>5, <3>1, <3>2 DEF Contains
  <2> QED
    BY <1>1, <1>9, <2>1, <2>2, <2>3
<1> QED
  BY <1>5, <1>7, <1>8, <1>9 DEF r

\* Each process is at one place, accepted or not, once.
ProcsOnce ==
  /\ DOMAIN vm = Procs /\ list \in Seq(Procs) /\ backlog \in Seq(Procs)
  /\ Apart(list) /\ Apart(backlog)
  /\ \A p \in Procs : ~ (Contains(list, p) /\ Contains(backlog, p))
  /\ \A p \in Procs : Contains(list, p) \/ Contains(backlog, p) => vm[p] # "none"

\* Who waits for a process wants its write events, and the process is listed.
WaitersKept ==
  /\ out \in [Procs -> Seq(Debuggers)] /\ wantW \in [Procs -> BOOLEAN]
  /\ \A p \in Procs : wantW[p] <=> out[p] # <<>>
  /\ \A p \in Procs : out[p] # <<>> => Contains(list, p)
  /\ \A p \in Procs : Apart(out[p])

\* What is noted of a debugger is where it is.
NotedRight ==
  /\ passed \in [Procs -> Seq(Debuggers)] /\ DOMAIN dbg = Debuggers
  /\ \A d \in Debuggers : dbg[d] = "waiting" <=> \E p \in Procs : Contains(out[p], d)
  /\ \A d \in Debuggers : dbg[d] = "passed" <=> \E p \in Procs : Contains(passed[p], d)
  /\ \A d \in Debuggers, p, q \in Procs : Contains(out[p], d) /\ Contains(out[q], d) => p = q
  /\ \A d \in Debuggers, p, q \in Procs :
       Contains(passed[p], d) /\ Contains(passed[q], d) => p = q

DebugInv == ProcsOnce /\ WaitersKept /\ NotedRight

\* A debugger is given to a process, or put last to wait: what comes after what was
\* stays as it was.
InOrder == \A p \in Procs : \/ IsPrefix(passed[p] \o out[p], passed'[p] \o out'[p])
                            \/ ~ Contains(list', p)

LEMMA DebugStarts == JdwpInit => DebugInv
<1> SUFFICES ASSUME JdwpInit PROVE DebugInv
  OBVIOUS
<1>1. \A e : ~ Contains(<<>>, e)
  BY DEF Contains
<1>2. Apart(<<>>) /\ \A S : <<>> \in Seq(S)
  BY DEF Apart
<1>3. ProcsOnce
  BY <1>1, <1>2 DEF JdwpInit, ProcsOnce
<1>4. WaitersKept
  BY <1>1, <1>2 DEF JdwpInit, WaitersKept
<1>5. NotedRight
  BY <1>1, <1>2 DEF JdwpInit, NotedRight
<1> QED
  BY <1>3, <1>4, <1>5 DEF DebugInv

LEMMA PrefixIs ==
  ASSUME NEW S, NEW s \in Seq(S), NEW t \in Seq(S), Len(s) <= Len(t),
         \A i \in 1 .. Len(s) : s[i] = t[i]
  PROVE  IsPrefix(s, t)
<1> DEFINE a == SubSeq(s, 1, Len(s))
           b == SubSeq(t, 1, Len(s))
<1>1. Len(s) \in Nat /\ Len(t) \in Nat
  OBVIOUS
<1>2. a \in Seq(S) /\ Len(a) = Len(s) /\ \A i \in 1 .. Len(s) : a[i] = s[i]
  BY <1>1
<1>3. b \in Seq(S) /\ Len(b) = Len(s) /\ \A i \in 1 .. Len(s) : b[i] = t[i]
  BY <1>1
<1> HIDE DEF a, b
<1>4. a = b
  BY <1>2, <1>3
<1> QED
  BY <1>4 DEF IsPrefix, a, b

\* Of two sequences joined, the first of the second may as well be last of the first.
LEMMA MovedPrefix ==
  ASSUME NEW S, NEW q \in Seq(S), NEW s \in Seq(S), s # <<>>
  PROVE  IsPrefix(q \o s, Append(q, Head(s)) \o Tail(s))
<1> DEFINE r == Append(q, Head(s))
           t == Tail(s)
           a == q \o s
           b == r \o t
<1>1. /\ Len(q) \in Nat /\ Len(s) \in Nat /\ Len(s) >= 1 /\ Head(s) = s[1] /\ Head(s) \in S
      /\ t \in Seq(S) /\ Len(t) = Len(s) - 1 /\ \A i \in 1 .. Len(s) - 1 : t[i] = s[i + 1]
  OBVIOUS
<1>2. /\ r \in Seq(S) /\ Len(r) = Len(q) + 1 /\ \A i \in 1 .. Len(q) : r[i] = q[i]
      /\ r[Len(q) + 1] = s[1]
  BY <1>1
<1> HIDE DEF r, t
<1>3. /\ a \in Seq(S) /\ Len(a) = Len(q) + Len(s)
      /\ \A i \in 1 .. Len(q) : a[i] = q[i]
      /\ \A i \in 1 .. Len(q) + Len(s) : ~ i <= Len(q) => a[i] = s[i - Len(q)]
  BY JoinedIs
<1>4. /\ b \in Seq(S) /\ Len(b) = Len(r) + Len(t)
      /\ \A i \in 1 .. Len(r) : b[i] = r[i]
      /\ \A i \in 1 .. Len(r) + Len(t) : ~ i <= Len(r) => b[i] = t[i - Len(r)]
  BY <1>1, <1>2, JoinedIs, ZenonT(60)
<1> HIDE DEF a, b
<1>5. ASSUME NEW i \in 1 .. Len(a)
      PROVE  a[i] = b[i]
  <2>1. CASE i <= Len(q)
    BY <1>1, <1>2, <1>3, <1>4, <2>1
  <2>2. CASE i = Len(q) + 1
    BY <1>1, <1>2, <1>3, <1>4, <2>2, SMTT(30)
  <2>3. CASE ~ i <= Len(q) + 1
    <3>1. i - Len(r) \in 1 .. Len(s) - 1 /\ (i - Len(r)) + 1 = i - Len(q)
      BY <1>1, <1>2, <1>3, <2>3
    <3>2. b[i] = t[i - Len(r)] /\ a[i] = s[i - Len(q)]
      BY <1>1, <1>2, <1>3, <1>4, <2>3
    <3> QED
      BY <1>1, <3>1, <3>2
  <2> QED
    BY <1>1, <1>3, <2>1, <2>2, <2>3
<1>6. Len(a) <= Len(b)
  BY <1>1, <1>2, <1>3, <1>4
<1>7. IsPrefix(a, b)
  BY <1>3, <1>4, <1>5, <1>6, PrefixIs
<1> QED
  BY <1>7 DEF a, b, r, t

LEMMA LongerPrefix ==
  ASSUME NEW S, NEW q \in Seq(S), NEW s \in Seq(S), NEW d \in S
  PROVE  IsPrefix(q \o s, q \o Append(s, d))
<1> DEFINE t == Append(s, d)
           a == q \o s
           b == q \o t
<1>1. /\ Len(q) \in Nat /\ Len(s) \in Nat
      /\ t \in Seq(S) /\ Len(t) = Len(s) + 1 /\ \A i \in 1 .. Len(s) : t[i] = s[i]
  OBVIOUS
<1> HIDE DEF t
<1>2. /\ a \in Seq(S) /\ Len(a) = Len(q) + Len(s)
      /\ \A i \in 1 .. Len(q) : a[i] = q[i]
      /\ \A i \in 1 .. Len(q) + Len(s) : ~ i <= Len(q) => a[i] = s[i - Len(q)]
  BY JoinedIs
<1>3. /\ b \in Seq(S) /\ Len(b) = Len(q) + Len(t)
      /\ \A i \in 1 .. Len(q) : b[i] = q[i]
      /\ \A i \in 1 .. Len(q) + Len(t) : ~ i <= Len(q) => b[i] = t[i - Len(q)]
  BY <1>1, JoinedIs
<1> HIDE DEF a, b
<1>4. ASSUME NEW i \in 1 .. Len(a)
      PROVE  a[i] = b[i]
  <2>1. CASE i <= Len(q)
    BY <1>1, <1>2, <1>3, <2>1
  <2>2. CASE ~ i <= Len(q)
    <3>1. i - Len(q) \in 1 .. Len(s) /\ i \in 1 .. Len(q) + Len(t)
      BY <1>1, <1>2, <2>2
    <3> QED
      BY <1>1, <1>2, <1>3, <2>2, <3>1
  <2> QED
    BY <2>1, <2>2
<1>5. Len(a) <= Len(b)
  BY <1>1, <1>2, <1>3
<1>6. IsPrefix(a, b)
  BY <1>2, <1>3, <1>4, <1>5, PrefixIs
<1> QED
  BY <1>6 DEF a, b, t

LEMMA PrefixOfItself ==
  ASSUME NEW S, NEW s \in Seq(S)
  PROVE  IsPrefix(s, s)
<1>1. Len(s) \in Nat
  OBVIOUS
<1>2. Len(s) <= Len(s)
  BY <1>1
<1> QED
  BY <1>2 DEF IsPrefix

\* Nothing is done to the debuggers.
LEMMA OrderStays ==
  ASSUME WaitersKept, NotedRight, NEW p \in Procs, passed'[p] = passed[p], out'[p] = out[p]
  PROVE  IsPrefix(passed[p] \o out[p], passed'[p] \o out'[p])
<1>1. passed[p] \in Seq(Debuggers) /\ out[p] \in Seq(Debuggers)
  BY DEF WaitersKept, NotedRight
<1>2. passed[p] \o out[p] \in Seq(Debuggers)
  BY <1>1
<1>3. IsPrefix(passed[p] \o out[p], passed[p] \o out[p])
  BY <1>2, PrefixOfItself
<1> QED
  BY <1>3

LEMMA DebuggersStay ==
  ASSUME DebugInv, ProcsOnce', UNCHANGED <<out, wantW, passed, dbg>>,
         \A p \in Procs : Contains(list, p) => Contains(list', p)
  PROVE  DebugInv' /\ InOrder
<1>1. WaitersKept' /\ NotedRight'
  BY DEF DebugInv, WaitersKept, NotedRight
<1>2. InOrder
  BY OrderStays DEF DebugInv, InOrder
<1> QED
  BY <1>1, <1>2 DEF DebugInv

\* A process connects, speaks or dies, and main accepts it.
LEMMA ConnectKeeps ==
  ASSUME DebugInv, NEW p \in Procs, Connect(p)
  PROVE  DebugInv' /\ InOrder
<1>1. /\ vm[p] = "none" /\ vm' = [vm EXCEPT ![p] = "running"] /\ backlog' = Append(backlog, p)
      /\ UNCHANGED <<list, out, wantW, passed, dbg>>
  BY DEF Connect, procVars
<1>2. ProcsOnce /\ ~ Contains(backlog, p) /\ ~ Contains(list, p)
  BY <1>1 DEF DebugInv, ProcsOnce
<1>3. /\ backlog' \in Seq(Procs) /\ Apart(backlog')
      /\ \A e : Contains(backlog', e) <=> Contains(backlog, e) \/ e = p
  BY <1>1, <1>2, AppendContains DEF ProcsOnce
<1>4. ProcsOnce'
  BY <1>1, <1>2, <1>3 DEF ProcsOnce
<1> QED
  BY <1>1, <1>4, DebuggersStay

LEMMA SayKeeps ==
  ASSUME DebugInv, NEW p \in Procs, Say(p) \/ Die(p)
  PROVE  DebugInv' /\ InOrder
<1>1. /\ UNCHANGED <<backlog, list, out, wantW, passed, dbg>>
      /\ vm' = vm \/ vm' = [vm EXCEPT ![p] = "dead"]
  BY DEF Say, Die, procVars
<1>2. ProcsOnce'
  BY <1>1 DEF DebugInv, ProcsOnce
<1> QED
  BY <1>1, <1>2, DebuggersStay

LEMMA AcceptKeeps ==
  ASSUME DebugInv, Accept
  PROVE  DebugInv' /\ InOrder
<1>1. /\ backlog # <<>> /\ list' = Append(list, Head(backlog)) /\ backlog' = Tail(backlog)
      /\ UNCHANGED <<vm, out, wantW, passed, dbg>>
  BY DEF Accept, Alloc, procVars
<1>2. ProcsOnce
  BY DEF DebugInv
<1>3. /\ Head(backlog) \in Procs /\ Tail(backlog) \in Seq(Procs) /\ Apart(Tail(backlog))
      /\ Contains(backlog, Head(backlog))
      /\ \A e : Contains(Tail(backlog), e) <=> Contains(backlog, e) /\ e # Head(backlog)
  BY <1>1, <1>2, TailContains DEF ProcsOnce
<1>4. ~ Contains(list, Head(backlog))
  BY <1>2, <1>3 DEF ProcsOnce
<1>5. /\ list' \in Seq(Procs) /\ Apart(list')
      /\ \A e : Contains(list', e) <=> Contains(list, e) \/ e = Head(backlog)
  BY <1>1, <1>2, <1>3, <1>4, AppendContains DEF ProcsOnce
<1>6. ProcsOnce'
  BY <1>1, <1>2, <1>3, <1>5 DEF ProcsOnce
<1> QED
  BY <1>1, <1>5, <1>6, DebuggersStay

\* The process is freed, with those that waited for it.
LEMMA ProcessFreeKeeps ==
  ASSUME DebugInv, NEW p \in Procs, Contains(list, p), ProcessFree(p), UNCHANGED <<vm, backlog>>
  PROVE  DebugInv' /\ InOrder
<1> DEFINE k == CHOOSE i \in DOMAIN list : list[i] = p
<1>1. /\ list' = RemoveAt(list, k)
      /\ dbg' = [d \in Debuggers |-> IF Contains(out[p], d) THEN "closed" ELSE dbg[d]]
      /\ out' = [out EXCEPT ![p] = <<>>] /\ wantW' = [wantW EXCEPT ![p] = FALSE]
      /\ passed' = passed
  BY DEF ProcessFree
<1>2. ProcsOnce /\ WaitersKept /\ NotedRight
  BY DEF DebugInv
<1>3. DOMAIN list = 1 .. Len(list)
  BY <1>2 DEF ProcsOnce
<1>4. k \in 1 .. Len(list) /\ list[k] = p
  <2>1. \E i \in DOMAIN list : list[i] = p
    BY <1>3 DEF Contains
  <2> QED
    BY <1>3, <2>1
<1> HIDE DEF k
<1>5. /\ list' \in Seq(Procs) /\ Apart(list')
      /\ \A e : Contains(list', e) <=> Contains(list, e) /\ e # p
  BY <1>1, <1>2, <1>4, RemoveContains DEF ProcsOnce
<1>6. ProcsOnce'
  BY <1>2, <1>5 DEF ProcsOnce
<1>7. /\ <<>> \in Seq(Debuggers) /\ Apart(<<>>) /\ \A e : ~ Contains(<<>>, e)
  BY DEF Apart, Contains
<1>8. /\ out' \in [Procs -> Seq(Debuggers)] /\ out'[p] = <<>>
      /\ wantW' \in [Procs -> BOOLEAN] /\ ~ wantW'[p]
      /\ \A q \in Procs \ {p} : out'[q] = out[q] /\ wantW'[q] = wantW[q]
  BY <1>1, <1>2, <1>7 DEF WaitersKept
<1>9. WaitersKept'
  BY <1>2, <1>5, <1>7, <1>8 DEF WaitersKept
<1>10. NotedRight'
  <2>1. \A d \in Debuggers, q \in Procs : Contains(out'[q], d) <=> Contains(out[q], d) /\ q # p
    BY <1>7, <1>8
  <2>2. \A d \in Debuggers : dbg'[d] = IF Contains(out[p], d) THEN "closed" ELSE dbg[d]
    BY <1>1
  <2>3. \A d \in Debuggers : dbg'[d] = "waiting" <=> \E q \in Procs : Contains(out'[q], d)
    BY <1>2, <2>1, <2>2 DEF NotedRight
  <2>4. \A d \in Debuggers : dbg'[d] = "passed" <=> \E q \in Procs : Contains(passed'[q], d)
    BY <1>1, <1>2, <2>2 DEF NotedRight
  <2>5. \A d \in Debuggers, q, r \in Procs : Contains(out'[q], d) /\ Contains(out'[r], d) => q = r
    BY <1>2, <2>1 DEF NotedRight
  <2>6. DOMAIN dbg' = Debuggers
    BY <1>1
  <2> QED
    BY <1>1, <1>2, <2>3, <2>4, <2>5, <2>6 DEF NotedRight
<1>11. InOrder
  BY <1>1, <1>2, <1>5, <1>8, OrderStays DEF InOrder
<1> QED
  BY <1>6, <1>9, <1>10, <1>11 DEF DebugInv

\* The process is sent the first of those that wait for it.
LEMMA WriteKeeps ==
  ASSUME DebugInv, NEW p \in Procs, wantW[p], vm[p] # "dead", Write(p), UNCHANGED <<vm, backlog>>
  PROVE  DebugInv' /\ InOrder
<1> DEFINE h == Head(out[p])
<1>1. /\ passed' = [passed EXCEPT ![p] = Append(passed[p], h)]
      /\ dbg' = [dbg EXCEPT ![h] = "passed"]
      /\ out' = [out EXCEPT ![p] = Tail(out[p])]
      /\ wantW' = [wantW EXCEPT ![p] = Len(out[p]) > 1]
      /\ list' = list
  BY DEF Write
<1>2. ProcsOnce /\ WaitersKept /\ NotedRight
  BY DEF DebugInv
<1>3. /\ out[p] \in Seq(Debuggers) /\ out[p] # <<>> /\ Apart(out[p])
      /\ passed[p] \in Seq(Debuggers)
  BY <1>2 DEF WaitersKept, NotedRight
<1>4. /\ h \in Debuggers /\ Tail(out[p]) \in Seq(Debuggers) /\ Apart(Tail(out[p]))
      /\ Contains(out[p], h) /\ (Tail(out[p]) # <<>> <=> Len(out[p]) > 1)
      /\ \A e : Contains(Tail(out[p]), e) <=> Contains(out[p], e) /\ e # h
  BY <1>3, TailContains
<1>5. /\ Append(passed[p], h) \in Seq(Debuggers)
      /\ \A e : Contains(Append(passed[p], h), e) <=> Contains(passed[p], e) \/ e = h
  BY <1>3, <1>4, AppendContains
<1> HIDE DEF h
<1>6. /\ out' \in [Procs -> Seq(Debuggers)] /\ out'[p] = Tail(out[p])
      /\ wantW' \in [Procs -> BOOLEAN] /\ (wantW'[p] <=> Len(out[p]) > 1)
      /\ \A q \in Procs \ {p} : out'[q] = out[q] /\ wantW'[q] = wantW[q]
  <2> DEFINE more == Len(out[p]) > 1
  <2>1. more \in BOOLEAN /\ wantW' = [wantW EXCEPT ![p] = more]
    BY <1>1
  <2> HIDE DEF more
  <2>2. wantW' \in [Procs -> BOOLEAN] /\ (wantW'[p] <=> more)
        /\ \A q \in Procs \ {p} : wantW'[q] = wantW[q]
    BY <1>2, <2>1, Zenon DEF WaitersKept
  <2>3. /\ out' \in [Procs -> Seq(Debuggers)] /\ out'[p] = Tail(out[p])
        /\ \A q \in Procs \ {p} : out'[q] = out[q]
    BY <1>1, <1>2, <1>4 DEF WaitersKept
  <2> QED
    BY <2>2, <2>3 DEF more
<1>7. /\ passed' \in [Procs -> Seq(Debuggers)] /\ passed'[p] = Append(passed[p], h)
      /\ \A q \in Procs \ {p} : passed'[q] = passed[q]
  BY <1>1, <1>2, <1>5 DEF NotedRight
<1>8. ProcsOnce' /\ WaitersKept'
  <2>1. ProcsOnce'
    BY <1>1, <1>2 DEF ProcsOnce
  <2> QED
    BY <1>1, <1>2, <1>3, <1>4, <1>6, <2>1 DEF WaitersKept
<1>9. NotedRight'
  <2>1. \A d \in Debuggers, q \in Procs :
          Contains(out'[q], d) <=> Contains(out[q], d) /\ (q = p => d # h)
    BY <1>4, <1>6
  <2>2. \A d \in Debuggers, q \in Procs :
          Contains(passed'[q], d) <=> Contains(passed[q], d) \/ (q = p /\ d = h)
    BY <1>5, <1>7
  <2>3. /\ DOMAIN dbg' = Debuggers /\ dbg'[h] = "passed"
        /\ \A d \in Debuggers \ {h} : dbg'[d] = dbg[d]
    BY <1>1, <1>2, <1>4 DEF NotedRight
  <2>4. dbg[h] = "waiting"
    BY <1>2, <1>4 DEF NotedRight
  <2>5. \A q \in Procs : ~ Contains(passed[q], h) /\ ~ Contains(out'[q], h)
    <3>1. \A q \in Procs : ~ Contains(passed[q], h)
      BY <1>2, <1>4, <2>4 DEF NotedRight
    <3>2. \A q \in Procs : ~ Contains(out'[q], h)
      BY <1>2, <1>4, <2>1 DEF NotedRight
    <3> QED
      BY <3>1, <3>2
  <2>6. ASSUME NEW d \in Debuggers
        PROVE  /\ dbg'[d] = "waiting" <=> \E q \in Procs : Contains(out'[q], d)
               /\ dbg'[d] = "passed" <=> \E q \in Procs : Contains(passed'[q], d)
    <3>1. CASE d = h
      BY <2>2, <2>3, <2>5, <3>1
    <3>2. CASE d # h
      BY <1>2, <2>1, <2>2, <2>3, <3>2 DEF NotedRight
    <3> QED
      BY <3>1, <3>2
  <2>7. \A d \in Debuggers, q, r \in Procs : Contains(out'[q], d) /\ Contains(out'[r], d) => q = r
    BY <1>2, <2>1 DEF NotedRight
  <2>8. \A d \in Debuggers, q, r \in Procs :
          Contains(passed'[q], d) /\ Contains(passed'[r], d) => q = r
    BY <1>2, <2>2, <2>5 DEF NotedRight
  <2> QED
    BY <1>7, <2>3, <2>6, <2>7, <2>8 DEF NotedRight
<1>10. IsPrefix(passed[p] \o out[p], passed'[p] \o out'[p])
  <2>1. IsPrefix(passed[p] \o out[p], Append(passed[p], h) \o Tail(out[p]))
    BY <1>3, MovedPrefix DEF h
  <2> QED
    BY <1>6, <1>7, <2>1
<1>11. InOrder
  BY <1>2, <1>6, <1>7, <1>10, OrderStays DEF InOrder
<1> QED
  BY <1>8, <1>9, <1>11 DEF DebugInv

LEMMA ProcEventKeeps ==
  ASSUME DebugInv, NEW p \in Procs, ProcEvent(p)
  PROVE  DebugInv' /\ InOrder
<1>1. Contains(list, p) /\ UNCHANGED <<vm, backlog>>
  BY DEF ProcEvent
<1>2. \/ UNCHANGED <<list, out, wantW, passed, dbg>>
      \/ ProcessFree(p)
      \/ wantW[p] /\ vm[p] # "dead" /\ Write(p)
  BY DEF ProcEvent, Write
<1>3. CASE UNCHANGED <<list, out, wantW, passed, dbg>>
  <2>1. ProcsOnce'
    BY <1>1, <1>3 DEF DebugInv, ProcsOnce
  <2> QED
    BY <1>3, <2>1, DebuggersStay
<1> QED
  BY <1>1, <1>2, <1>3, ProcessFreeKeeps, WriteKeeps

\* Some set of numbers that is not empty has a least one.
LEMMA LeastPlace ==
  ASSUME NEW S \in SUBSET Nat, S # {}
  PROVE  Min(S) \in S
<1> DEFINE lt == OpToRel(<, Nat)
<1>1. \A m, n \in Nat : m < n => <<m, n>> \in lt
  BY DEF OpToRel
<1> HIDE DEF lt
<1>2. PICK n \in S : \A m \in S : ~ (<<m, n>> \in lt)
  <2>1. IsWellFoundedOn(lt, Nat)
    BY NatLessThanWellFounded DEF lt
  <2> QED
    BY <2>1, WFMin
<1>3. \A m \in S : ~ (m < n)
  BY <1>1, <1>2
<1>4. \A m \in S : n <= m
  BY <1>3
<1> QED
  BY <1>4 DEF Min

\* A debugger asks for a process.
LEMMA CreateConnectionKeeps ==
  ASSUME DebugInv, NEW d \in Debuggers, NEW pid, CreateConnection(d, pid)
  PROVE  DebugInv' /\ InOrder
<1> DEFINE found == {i \in DOMAIN list : Known(list[i], in) /\ Pid[list[i]] = pid}
           p == list[Min(found)]
<1>1. dbg[d] = "none" /\ UNCHANGED <<vm, backlog, list, passed>>
  BY DEF CreateConnection
<1>2. \/ dbg' = [dbg EXCEPT ![d] = "refused"] /\ UNCHANGED <<out, wantW>>
      \/ /\ found # {}
         /\ dbg' = [dbg EXCEPT ![d] = "waiting"]
         /\ out' = [out EXCEPT ![p] = Append(out[p], d)]
         /\ wantW' = [wantW EXCEPT ![p] = wantW[p] \/ out[p] = <<>>]
  BY DEF CreateConnection
<1>3. ProcsOnce /\ WaitersKept /\ NotedRight /\ DOMAIN list = 1 .. Len(list)
  BY DEF DebugInv, ProcsOnce
<1>4. ProcsOnce'
  BY <1>1, <1>3 DEF ProcsOnce
<1>5. /\ \A q \in Procs : ~ Contains(out[q], d) /\ ~ Contains(passed[q], d)
      /\ DOMAIN dbg = Debuggers
  BY <1>1, <1>3 DEF NotedRight
<1>6. CASE dbg' = [dbg EXCEPT ![d] = "refused"] /\ UNCHANGED <<out, wantW>>
  <2>1. /\ DOMAIN dbg' = Debuggers /\ dbg'[d] = "refused"
        /\ \A e \in Debuggers \ {d} : dbg'[e] = dbg[e]
    BY <1>5, <1>6
  <2>2. NotedRight'
    BY <1>1, <1>3, <1>5, <1>6, <2>1 DEF NotedRight
  <2>3. WaitersKept'
    BY <1>1, <1>3, <1>6 DEF WaitersKept
  <2>4. InOrder
    BY <1>1, <1>3, <1>6, OrderStays DEF InOrder
  <2> QED
    BY <1>4, <2>2, <2>3, <2>4 DEF DebugInv
<1>7. CASE /\ found # {}
           /\ dbg' = [dbg EXCEPT ![d] = "waiting"]
           /\ out' = [out EXCEPT ![p] = Append(out[p], d)]
           /\ wantW' = [wantW EXCEPT ![p] = wantW[p] \/ out[p] = <<>>]
  <2>1. p \in Procs /\ Contains(list, p)
    <3>1. found \in SUBSET Nat /\ found \subseteq 1 .. Len(list)
      BY <1>3
    <3>2. Min(found) \in 1 .. Len(list)
      BY <1>7, <3>1, LeastPlace
    <3>3. p \in Procs
      BY <1>3, <3>2 DEF ProcsOnce
    <3> QED
      BY <3>2, <3>3, Zenon DEF Contains
  <2> HIDE DEF p, found
  <2>2. out[p] \in Seq(Debuggers) /\ Apart(out[p]) /\ passed[p] \in Seq(Debuggers)
    BY <1>3, <2>1 DEF WaitersKept, NotedRight
  <2>3. /\ Append(out[p], d) \in Seq(Debuggers) /\ Append(out[p], d) # <<>>
        /\ \A e : Contains(Append(out[p], d), e) <=> Contains(out[p], e) \/ e = d
        /\ Apart(Append(out[p], d))
    BY <1>5, <2>1, <2>2, AppendContains
  <2>4. /\ out' \in [Procs -> Seq(Debuggers)] /\ out'[p] = Append(out[p], d)
        /\ wantW' \in [Procs -> BOOLEAN] /\ wantW'[p]
        /\ \A q \in Procs \ {p} : out'[q] = out[q] /\ wantW'[q] = wantW[q]
    BY <1>3, <1>7, <2>1, <2>3 DEF WaitersKept
  <2>5. WaitersKept'
    BY <1>1, <1>3, <2>1, <2>3, <2>4 DEF WaitersKept
  <2>6. /\ DOMAIN dbg' = Debuggers /\ dbg'[d] = "waiting"
        /\ \A e \in Debuggers \ {d} : dbg'[e] = dbg[e]
    BY <1>5, <1>7
  <2>7. \A e \in Debuggers, q \in Procs :
          Contains(out'[q], e) <=> Contains(out[q], e) \/ (q = p /\ e = d)
    BY <2>3, <2>4
  <2>8. ASSUME NEW e \in Debuggers
        PROVE  /\ dbg'[e] = "waiting" <=> \E q \in Procs : Contains(out'[q], e)
               /\ dbg'[e] = "passed" <=> \E q \in Procs : Contains(passed'[q], e)
    <3>1. CASE e = d
      BY <1>1, <1>5, <2>1, <2>6, <2>7, <3>1
    <3>2. CASE e # d
      BY <1>1, <1>3, <2>6, <2>7, <3>2 DEF NotedRight
    <3> QED
      BY <3>1, <3>2
  <2>9. \A e \in Debuggers, q, r \in Procs : Contains(out'[q], e) /\ Contains(out'[r], e) => q = r
    BY <1>3, <1>5, <2>7 DEF NotedRight
  <2>10. NotedRight'
    BY <1>1, <1>3, <2>6, <2>8, <2>9 DEF NotedRight
  <2>11. IsPrefix(passed[p] \o out[p], passed'[p] \o out'[p])
    <3>1. IsPrefix(passed[p] \o out[p], passed[p] \o Append(out[p], d))
      BY <2>2, LongerPrefix
    <3> QED
      BY <1>1, <2>4, <3>1
  <2>12. InOrder
    BY <1>1, <1>3, <2>4, <2>11, OrderStays DEF InOrder
  <2> QED
    BY <1>4, <2>5, <2>10, <2>12 DEF DebugInv
<1> QED
  BY <1>2, <1>6, <1>7

LEMMA HostAsksKeeps ==
  ASSUME DebugInv, NEW s \in Streams, OpenTracker(s) \/ OpenList(s) \/ HostReady(s) \/ HostCloses(s)
  PROVE  DebugInv' /\ InOrder
<1>1. UNCHANGED <<vm, backlog, list, out, wantW, passed, dbg>>
  BY DEF OpenTracker, OpenList, HostReady, HostCloses, CloseSocket, procVars
<1>2. ProcsOnce'
  BY <1>1 DEF DebugInv, ProcsOnce
<1> QED
  BY <1>1, <1>2, DebuggersStay

LEMMA DebugSteps == DebugInv /\ [JdwpNext]_jdwpVars => DebugInv' /\ InOrder
<1> SUFFICES ASSUME DebugInv, [JdwpNext]_jdwpVars PROVE DebugInv' /\ InOrder
  OBVIOUS
<1>1. CASE UNCHANGED jdwpVars
  <2>1. UNCHANGED <<vm, backlog, list, out, wantW, passed, dbg>>
    BY <1>1 DEF jdwpVars, procVars
  <2>2. ProcsOnce'
    BY <2>1 DEF DebugInv, ProcsOnce
  <2> QED
    BY <2>1, <2>2, DebuggersStay
<1>2. CASE JdwpNext
  BY <1>2, ConnectKeeps, SayKeeps, ProcEventKeeps, AcceptKeeps, CreateConnectionKeeps,
     HostAsksKeeps DEF JdwpNext
<1> QED
  BY <1>1, <1>2

LEMMA DebugMeans == DebugInv => DebuggersHaveOnePlace
<1> SUFFICES ASSUME DebugInv, NEW d \in Debuggers
             PROVE  LET waits == {p \in Procs : Contains(out[p], d)}
                        given == {p \in Procs : Contains(passed[p], d)}
                    IN /\ dbg[d] = "waiting" <=> \E p \in Procs : waits = {p} /\ Contains(list, p)
                       /\ dbg[d] = "passed" <=> \E p \in Procs : given = {p}
                       /\ Cardinality(waits) + Cardinality(given) <= 1
  BY DEF DebuggersHaveOnePlace
<1> DEFINE waits == {p \in Procs : Contains(out[p], d)}
           given == {p \in Procs : Contains(passed[p], d)}
<1>1. WaitersKept /\ NotedRight
  BY DEF DebugInv
<1>2. \A p \in waits : waits = {p} /\ Contains(list, p)
  <2>1. \A p \in Procs : Contains(out[p], d) => out[p] # <<>>
    BY DEF Contains
  <2> QED
    BY <1>1, <2>1 DEF WaitersKept, NotedRight
<1>3. \A p \in given : given = {p}
  BY <1>1 DEF NotedRight
<1>4. /\ dbg[d] = "waiting" <=> waits # {}
      /\ dbg[d] = "passed" <=> given # {}
  BY <1>1 DEF NotedRight
<1> HIDE DEF waits, given
<1>5. waits = {} \/ given = {}
  BY <1>4
<1>6. /\ Cardinality(waits) \in {0, 1} /\ (waits = {} => Cardinality(waits) = 0)
      /\ Cardinality(given) \in {0, 1} /\ (given = {} => Cardinality(given) = 0)
  <2>1. (waits = {} \/ \E p : waits = {p}) /\ (given = {} \/ \E p : given = {p})
    BY <1>2, <1>3
  <2> QED
    BY <2>1, FS_EmptySet, FS_Singleton
<1>7. Cardinality(waits) + Cardinality(given) <= 1
  BY <1>5, <1>6
<1>8. dbg[d] = "waiting" <=> \E p \in Procs : waits = {p} /\ Contains(list, p)
  <2>1. waits \subseteq Procs
    BY DEF waits
  <2> QED
    BY <1>2, <1>4, <2>1
<1>9. dbg[d] = "passed" <=> \E p \in Procs : given = {p}
  <2>1. given \subseteq Procs
    BY DEF given
  <2> QED
    BY <1>3, <1>4, <2>1
<1> QED
  BY <1>7, <1>8, <1>9 DEF waits, given

\* However many processes connect, speak in pieces and die, and however many debuggers ask
\* for them: each debugger taken is at one place, waits at no process that is gone, and is
\* given in the order it asked
\* (jdwp_process_event, create_jdwp_connection_fd, jdwp_process_free).
THEOREM DebuggersHold ==
  JdwpInit /\ [][JdwpNext]_jdwpVars => []DebuggersHaveOnePlace /\ DebuggersInOrder
<1>1. JdwpInit => DebugInv
  BY DebugStarts
<1>2. DebugInv /\ [JdwpNext]_jdwpVars => DebugInv'
  BY DebugSteps
<1>3. DebugInv => DebuggersHaveOnePlace
  BY DebugMeans
<1>4. DebugInv /\ [JdwpNext]_jdwpVars =>
        [\A p \in Procs : \/ IsPrefix(passed[p] \o out[p], passed'[p] \o out'[p])
                          \/ ~ Contains(list', p)]_jdwpVars
  BY DebugSteps DEF InOrder
<1> QED
  BY <1>1, <1>2, <1>3, <1>4, PTL DEF DebuggersInOrder
=============================================================================

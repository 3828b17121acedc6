---------------------------- MODULE MCHostLayers -----------------------------
(***************************************************************************)
(* The layers under adb's server: those that are there for Windows, and    *)
(* its TCP transports.  A behaviour is one of the table of descriptors, of *)
(* a socket pair, of one wait for many handles, of the event loop over     *)
(* sockets, of the USB devices, or of the TCP transports and those who     *)
(* follow the list of devices.                                             *)
(***************************************************************************)
EXTENDS WinFiles, BipBuffer, WaitForAll, WinEvents, UsbWindows, HostTransports, TLC

\* What is connected to: emulators, found at the start or asked for, and devices.
Kinds ==
  "f1" :> "found" @@ "e1" :> "emulator" @@ "e2" :> "emulator" @@ "d1" :> "device"
  @@ "d2" :> "device" @@ "d3" :> "device"
Serials ==
  "f1" :> "emulator-5554" @@ "e1" :> "emulator-5554" @@ "e2" :> "emulator-5556"
    @@ "d1" :> "10.0.0.2:5555" @@ "d2" :> "10.0.0.2:5555" @@ "d3" :> "10.0.0.3:5555"
AdbPorts ==
  "f1" :> 5555 @@ "e1" :> 5555 @@ "e2" :> 5557 @@ "d1" :> 0 @@ "d2" :> 0 @@ "d3" :> 0

\* Three emulators on two ports; a device twice, with clients that follow; one of each; and
\* three on the list when one is disconnected.
RoundsGiven == {
  [jobs |-> {"f1", "e1", "e2"}, followers |-> {}, drops |-> 0, breaks |-> 1],
  [jobs |-> {"d1", "d2"}, followers |-> {"w1", "w2"}, drops |-> 1, breaks |-> 1],
  [jobs |-> {"f1", "d1"}, followers |-> {}, drops |-> 1, breaks |-> 1],
  [jobs |-> {"d1", "d2", "d3"}, followers |-> {}, drops |-> 1, breaks |-> 0]}

VARIABLE part
vars == <<part, fileVars, bipVars, waitVars, winEventVars, winVars, hostTransportVars>>

Init ==
  /\ part \in {"files", "pair", "wait", "loop", "usb", "transports"}
  /\ FilesInit /\ BipInit /\ WaitInit /\ WinEventInit /\ WinInit /\ HostTransportsInit
  /\ part # "pair" => inLoop = TRUE
  /\ part # "transports" => "e2" \in round.jobs

OfFiles(A) ==
  part = "files" /\ A
    /\ UNCHANGED <<part, bipVars, waitVars, winEventVars, winVars, hostTransportVars>>
OfPair(A) ==
  part = "pair" /\ A
    /\ UNCHANGED <<part, fileVars, waitVars, winEventVars, winVars, hostTransportVars>>
OfWait(A) ==
  part = "wait" /\ A
    /\ UNCHANGED <<part, fileVars, bipVars, winEventVars, winVars, hostTransportVars>>
OfLoop(A) ==
  part = "loop" /\ A
    /\ UNCHANGED <<part, fileVars, bipVars, waitVars, winVars, hostTransportVars>>
OfUsb(A) ==
  part = "usb" /\ A
    /\ UNCHANGED <<part, fileVars, bipVars, waitVars, winEventVars, hostTransportVars>>
OfTransports(A) ==
  part = "transports" /\ A
    /\ UNCHANGED <<part, fileVars, bipVars, waitVars, winEventVars, winVars>>

Next ==
  \/ OfFiles(FilesNext) \/ OfPair(BipNext) \/ OfWait(WaitNext)
  \/ OfLoop(WinEventNext) \/ OfUsb(WinNext)
  \/ OfTransports(HostTransportsNext)

\* Each thread goes on.  Nothing need arrive, be plugged in, be
\* pulled out, be connected or break.
Fairness ==
  /\ WF_bipVars(OfPair(WriterStep)) /\ WF_bipVars(OfPair(ReaderStep))
  /\ WF_waitVars(OfWait(CallerStep))
  /\ (\A c \in ChunkIds : WF_waitVars(OfWait(WaiterStep(c))))
  /\ WF_winEventVars(OfLoop(LoopGoesOn))
  /\ WF_winVars(OfUsb(PollsWindows))
  /\ (\A h \in WinHandles : /\ WF_winVars(OfUsb(ReaderGoesOn(h)))
                            /\ WF_winVars(OfUsb(WriterGoesOn(h)))
                            /\ WF_winVars(OfUsb(HandleEnds(h))))

Spec == Init /\ [][Next]_vars /\ Fairness

\* The host's layers in the end: who waits in a socket pair is woken and told of a close, a wait
\* for many handles ends when one is set, what arrives is read, and an interface that is pulled
\* out is closed, and served when it stays.
HostLayersLive ==
  /\ WritersWoken /\ ReadersTold
  /\ WaitEnds
  /\ DataRead
  /\ PulledIsClosed /\ PresentIsServed
=============================================================================

------------------------------ MODULE MCDevice ------------------------------
(***************************************************************************)
(* The processes of the device side: those of adbd's services, and adbd's  *)
(* own as the application starts them; and adbd's end of the USB cable.  A *)
(* behaviour is one of the three.                                          *)
(***************************************************************************)
EXTENDS ServiceChildren, AdbdProcesses, UsbClient

VARIABLE part
vars == <<part, childVars, processVars, usbClientVars>>

Init ==
  /\ part \in {"services", "application", "usb"}
  /\ ChildrenInit /\ ProcessesInit /\ UsbClientInit
  /\ part # "services" => known = [s \in Frames |-> TRUE]
  /\ part # "usb" => ffs = TRUE /\ there = TRUE

OfServices(A) == part = "services" /\ A /\ UNCHANGED <<part, processVars, usbClientVars>>
OfApplication(A) == part = "application" /\ A /\ UNCHANGED <<part, childVars, usbClientVars>>
OfUsb(A) == part = "usb" /\ A /\ UNCHANGED <<part, childVars, processVars>>

Next == OfServices(ChildrenNext) \/ OfApplication(ProcessesNext) \/ OfUsb(UsbClientNext)

\* Threads go on, and a screencap writes and ends; the system binds, tells and restarts; the
\* USB function is switched on.
\* Shells and daemons may run for ever, and what is asked may never be.
Fairness ==
  /\ (\A s \in Services : WF_childVars(OfServices(ThreadStep(s))))
  /\ (\A s \in Frames : /\ WF_childVars(OfServices(ScreencapWrites(s)))
                        /\ WF_childVars(OfServices(ProcessExits(s))))
  /\ WF_processVars(OfApplication(ServiceStarts)) /\ WF_processVars(OfApplication(Disconnected))
  /\ WF_usbClientVars(OfUsb(OpenerStep)) /\ WF_usbClientVars(OfUsb(KickCloses))
  /\ WF_usbClientVars(OfUsb(FunctionComes))
  /\ (\A i \in 1 .. MaxConns : WF_processVars(OfApplication(Connected(i))))

Spec == Init /\ [][Next]_vars /\ Fairness
=============================================================================

---------------------------- MODULE MCHostCommands ----------------------------
(***************************************************************************)
(* adb's commands and the server they use.  A behaviour is one of several  *)
(* commands and their servers, of what one of them asks a server, of the   *)
(* commands that run something on the device, of sideload, or of a shell.  *)
(***************************************************************************)
EXTENDS AdbServer, HostRequests, AdbCommands, AdbSideload, InteractiveShell, TLC

\* adb commands of two versions.
VersionsGiven == "c1" :> 1 @@ "c2" :> 2 @@ "c3" :> 2

VARIABLE part
vars == <<part, serverVars, hostVars, commandVars, sideloadVars, shellVars>>

Init ==
  /\ part \in {"server", "requests", "commands", "sideload", "shell"}
  /\ ServerInit /\ (part # "server" => server[First] = "none" /\ first = 1)
  /\ HostInit /\ (part # "requests" => \A c \in Askers : kind[c] = "version")
  /\ CommandsInit /\ (part # "commands" => command = "persist" /\ device = "up")
  /\ SideloadInit /\ (part # "sideload" => size = 0 /\ wide /\ exact)
  /\ ShellInit /\ (part # "shell" => typed = <<>>)

OfServer(A) == part = "server" /\ A /\ UNCHANGED <<part, hostVars, commandVars, sideloadVars,
                                                   shellVars>>
OfRequests(A) == part = "requests" /\ A /\ UNCHANGED <<part, serverVars, commandVars,
                                                       sideloadVars, shellVars>>
OfCommands(A) == part = "commands" /\ A /\ UNCHANGED <<part, serverVars, hostVars, sideloadVars,
                                                       shellVars>>
OfSideload(A) == part = "sideload" /\ A /\ UNCHANGED <<part, serverVars, hostVars, commandVars,
                                                       shellVars>>
OfShell(A) == part = "shell" /\ A /\ UNCHANGED <<part, serverVars, hostVars, commandVars,
                                                 sideloadVars>>

Next ==
  \/ OfServer(ServerNext) \/ OfRequests(HostNext) \/ OfCommands(CommandsNext)
  \/ OfSideload(SideloadNext) \/ OfShell(ShellNext)

\* Each process and thread goes on, the device does what it is asked and comes back when it
\* went; it asks for the next block or hangs up.  Nothing need go, be typed or be closed.
Fairness ==
  /\ (\A c \in Clients : WF_serverVars(OfServer(ClientStep(c))))
  /\ (\A s \in Servers : WF_serverVars(OfServer(ServerStep(s))))
  /\ (\A c \in Askers : WF_hostVars(OfRequests(AskerStep(c))))
  /\ WF_commandVars(OfCommands(CommandGoesOn))
  /\ WF_commandVars(OfCommands(DeviceWorks)) /\ WF_commandVars(OfCommands(DeviceComes))
  /\ WF_sideloadVars(OfSideload(HostServes)) /\ WF_sideloadVars(OfSideload(DeviceAsks))
  /\ WF_shellVars(OfShell(SenderStep)) /\ WF_shellVars(OfShell(ShellReturns))

Spec == Init /\ [][Next]_vars /\ Fairness
=============================================================================

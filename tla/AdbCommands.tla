---------------------------- MODULE AdbCommands ----------------------------
(***************************************************************************)
(* adb's commands that run something on the device and install or save     *)
(* something with it (commandline.c), with a device that comes and goes.   *)
(* What they ask of the server is HostRequests', the copying of files      *)
(* FileSync's.                                                             *)
(***************************************************************************)
EXTENDS Integers

CONSTANTS
  Apks,       \* how many install-multiple is given
  MaxLosses   \* bound on how often the device goes

ASSUME CommandAssumption == Apks \in Nat \ {0} /\ MaxLosses \in Nat

\* once: remount, reboot, root and such; exec: exec-in and exec-out; persist: adb persist shell.
Commands == {"shell", "persist", "waitShell", "once", "exec", "uninstall", "backup", "restore",
             "install", "multiple"}
NoCode == 99

VARIABLES
  command,
  place,     \* the request it makes or makes next, or wait, or done
  back,      \* where it goes on after wait
  stream,    \* none, open, or broken by the device's going
  answer,    \* what the device made of the request: none, Success or Failure
  device, losses,
  \* of install: the file on the device (none, part or whole), push's result
  temp, err,
  \* of install-multiple: the session on the device, its apks, the apk it is at
  session, written, apk,
  saved,     \* the file backup makes
  exitCode,  \* or NoCode
  ran,       \* history: the requests a stream was opened for
  cutOff     \* history: the requests whose stream did not open or was broken

commandVars == <<command, place, back, stream, answer, device, losses, temp, err, session, written,
                 apk, saved, exitCode, ran, cutOff>>
deviceVars == <<device, losses>>
madeVars == <<temp, session, written>>

Starts == [shell |-> "shell", persist |-> "shell", waitShell |-> "wait", once |-> "shell",
           exec |-> "shell",
           uninstall |-> "uninstall", backup |-> "backup", restore |-> "restore",
           install |-> "push", multiple |-> "create"]
Streams == {"shell", "uninstall", "backup", "restore", "pm", "rm", "create", "write", "commit",
            "abandon"}

CommandsInit ==
  /\ command \in Commands /\ place = Starts[command] /\ back = "shell"
  /\ stream = "none" /\ answer = "none" /\ device \in {"up", "down"} /\ losses = 0
  /\ temp = "none" /\ err = 0 /\ session = "none" /\ written = {} /\ apk = 1
  /\ saved = "old" /\ exitCode = NoCode /\ ran = {} /\ cutOff = {}

-----------------------------------------------------------------------------
\* The device.

DeviceGoes ==
  /\ device = "up" /\ losses < MaxLosses
  /\ device' = "down" /\ losses' = losses + 1
  /\ stream' = IF stream = "open" THEN "broken" ELSE stream
  /\ UNCHANGED <<command, place, back, answer, madeVars, err, apk, saved, exitCode, ran, cutOff>>

DeviceComes ==
  /\ device = "down" /\ device' = "up"
  /\ UNCHANGED <<command, place, back, stream, answer, losses, madeVars, err, apk, saved,
                 exitCode, ran, cutOff>>

\* pm, or whatever else the request runs, does it or fails.  install-write is told the size, and
\* succeeds when so much came.
DeviceWorks ==
  /\ stream = "open" /\ answer = "none"
  /\ answer' \in {"Success", "Failure"}
  /\ LET done == answer' = "Success"
     IN /\ temp' = IF place = "rm" /\ done THEN "none" ELSE temp
        /\ session' = CASE place = "create" /\ done -> "open"
                        [] place = "commit" /\ done -> "committed"
                        [] place = "abandon" /\ done -> "abandoned"
                        [] OTHER -> session
        /\ written' = IF place = "write" /\ done THEN written \cup {apk} ELSE written
  /\ UNCHANGED <<command, place, back, stream, deviceVars, err, apk, saved, exitCode, ran, cutOff>>

-----------------------------------------------------------------------------
\* A command.  It goes on with a request, or ends.

GoesTo(next) == place' = next /\ UNCHANGED exitCode
ExitsWith(code) == place' = "done" /\ exitCode' = code

\* adb_connect for a request succeeds; backup has made its file by then.
StreamOpens ==
  /\ place \in Streams /\ stream = "none" /\ device = "up"
  /\ stream' = "open" /\ answer' = "none" /\ ran' = ran \cup {place}
  /\ saved' = IF place = "backup" THEN "empty" ELSE saved
  /\ UNCHANGED <<command, place, back, deviceVars, madeVars, err, apk, exitCode, cutOff>>

\* It fails, or for an apk the file cannot be opened.  send_shellcommand waits for the device.
OpenFails ==
  /\ place \in Streams /\ stream = "none" /\ (device = "down" \/ place = "write")
  /\ CASE place \in {"uninstall", "pm", "rm"} -> GoesTo("wait")
       [] place = "shell" /\ command = "persist" -> GoesTo("wait")
       [] place = "write" -> GoesTo("abandon")
       [] OTHER -> ExitsWith(-1)
  /\ back' = place /\ cutOff' = cutOff \cup {place}
  /\ saved' = IF place = "backup" THEN "empty" ELSE saved
  /\ UNCHANGED <<command, stream, answer, deviceVars, madeVars, err, apk, ran>>

\* wait-for-device: it returns when the device is there, or the server does not wait.
WaitReturns ==
  /\ place = "wait"
  /\ IF command = "waitShell" THEN \/ device = "up" /\ GoesTo("shell")
                                   \/ ExitsWith(1)
                              ELSE GoesTo(back)
  /\ UNCHANGED <<command, back, stream, answer, deviceVars, madeVars, err, apk, saved, ran, cutOff>>

\* do_sync_push: the file is there whole, or in part or not, and that is an error.
Pushes ==
  /\ place = "push"
  /\ \/ device = "up" /\ temp' = "whole" /\ err' = 0 /\ GoesTo("pm")
     \/ temp' \in {temp} \cup {"part" : x \in {device} \cap {"up"}} /\ err' = 1 /\ GoesTo("rm")
  /\ UNCHANGED <<command, back, stream, answer, deviceVars, session, written, apk, saved, ran,
                 cutOff>>

\* What follows a request whose output was read to its end (read_and_dump, read_status_line);
\* `told` is the status line, none when it did not come.
Written(told) ==
  CASE told # "Success" -> GoesTo("abandon") /\ UNCHANGED apk
    [] told = "Success" /\ apk < Apks -> GoesTo("write") /\ apk' = apk + 1
    [] OTHER -> GoesTo("commit") /\ UNCHANGED apk
Finalized(told) == ExitsWith(IF told = "Success" THEN 0 ELSE -1) /\ UNCHANGED apk

Follows(told) ==
  CASE place = "write" -> Written(told)
    [] place \in {"commit", "abandon"} -> Finalized(told)
    [] place = "create" -> (IF told = "Success" THEN GoesTo("write")
                                 ELSE ExitsWith(-1)) /\ UNCHANGED apk
    [] place = "pm" -> GoesTo("rm") /\ UNCHANGED apk
    [] place = "rm" -> ExitsWith(err) /\ UNCHANGED apk
    [] place = "shell" /\ command = "persist" -> GoesTo("wait") /\ UNCHANGED apk
    [] OTHER -> ExitsWith(0) /\ UNCHANGED apk

\* Mutant: an error is read on.
ReadsOn ==
  /\ stream = "open" /\ answer # "none"
  /\ Follows(answer)
  /\ stream' = "none" /\ back' = place
  /\ saved' = IF place = "backup" THEN "whole" ELSE saved
  /\ UNCHANGED <<command, answer, deviceVars, madeVars, err, ran, cutOff>>

\* restore does not wait for the device to be done; a stream that was broken may have
\* brought the answer.
ReadsToEnd ==
  \/ /\ stream = "open" /\ (answer # "none" \/ place = "restore")
     /\ Follows(answer)
     /\ stream' = "none" /\ back' = place
     /\ saved' = IF place = "backup" THEN "whole" ELSE saved
     /\ UNCHANGED <<command, answer, deviceVars, madeVars, err, ran, cutOff>>
  \/ /\ stream = "broken"
     /\ \E told \in {answer, "none"} : Follows(told)
     /\ stream' = "none" /\ back' = place /\ cutOff' = cutOff \cup {place}
     /\ saved' = IF place = "backup" THEN "part" ELSE saved
     /\ UNCHANGED <<command, answer, deviceVars, madeVars, err, ran>>

CommandGoesOn == StreamOpens \/ OpenFails \/ WaitReturns \/ Pushes \/ ReadsToEnd
CommandsNext == DeviceGoes \/ DeviceComes \/ DeviceWorks \/ CommandGoesOn

-----------------------------------------------------------------------------
CommandsTypeOK ==
  /\ command \in Commands /\ place \in Streams \cup {"push", "wait", "done"} /\ back \in Streams
  /\ stream \in {"none", "open", "broken"} /\ answer \in {"none", "Success", "Failure"}
  /\ device \in {"up", "down"} /\ losses \in 0 .. MaxLosses /\ temp \in {"none", "part", "whole"}
  /\ err \in {0, 1} /\ session \in {"none", "open", "committed", "abandoned"}
  /\ written \subseteq 1 .. Apks /\ apk \in 1 .. Apks /\ saved \in {"old", "empty", "part", "whole"}
  /\ exitCode \in {-1, 0, 1, NoCode} /\ ran \subseteq Streams /\ cutOff \subseteq Streams
  /\ place = "done" <=> exitCode # NoCode

\* A session is committed only with every apk written, and none of them is committed in part
\* (install_multiple_app).
CommittedWhole ==
  session = "committed" \/ place = "commit" => written = 1 .. Apks /\ session # "abandoned"

\* What an exit code of 0 says: the request reached the device; for install that the file did,
\* whole; for install-multiple that the session was committed, or, after an apk was not
\* written, abandoned (install_multiple_app returns what the last answer says).
ZeroMeans ==
  exitCode = 0 =>
    CASE command = "install" -> err = 0 /\ "pm" \in ran
      [] command = "multiple" ->
         session = "committed" \/ (session = "abandoned" /\ "commit" \notin ran)
      [] OTHER -> Starts[command] \in ran \/ (command = "waitShell" /\ "shell" \in ran)

\* install leaves nothing on the device but what rm was kept from, or failed, to remove;
\* install-multiple leaves a session open only if the answer that told of it, or the connection
\* that was to end it, was lost, or pm failed to end it.
NothingLeft ==
  place = "done" =>
    /\ temp # "none" => "rm" \in cutOff \/ answer = "Failure"
    /\ session = "open" => cutOff \cap {"create", "commit", "abandon"} # {} \/ answer = "Failure"

\* A command ends once the device stays, however often it went before; persist does not.
CommandEnds == command # "persist" ~> place = "done"

\* Installing and backing up (commandline.c): what is committed is whole, an exit of 0 means
\* what it says, and every command ends.
CommandsCorrect ==
  /\ []CommandsTypeOK /\ []CommittedWhole /\ []ZeroMeans /\ []NothingLeft
  /\ CommandEnds
=============================================================================

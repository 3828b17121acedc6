------------------------------- MODULE UsbClient -------------------------------
(***************************************************************************)
(* adbd's end of the USB cable (usb_linux_client.c): one handle, whose     *)
(* files a thread opens again after each transport over it was kicked.     *)
(* AdbTransport has the transports, for which the handle is open or not.   *)
(***************************************************************************)
EXTENDS Integers, FiniteSets

CONSTANTS
  MaxKicks,  \* bound on the transports that end
  MaxGone    \* bound on how often the function is switched off

ASSUME UsbClientAssumption == MaxKicks \in Nat /\ MaxGone \in Nat

\* fd is that of the older driver; control, out and in those of FunctionFS.
UsbFiles == {"fd", "control", "out", "in"}

VARIABLES
  ffs,       \* whether FunctionFS is there
  ends,      \* the descriptors in the handle, -1 when closed
  files,     \* the descriptors that are open
  described, \* the control file has its descriptors and strings
  opener,    \* the thread: waits, checks or sleeps (both with the lock), asleep,
             \* at a file, describes, failed or registers
  kicker,    \* of usb_kick: none or halts
  sessions, kicks,  \* transports registered, and kicked
  there, gone

usbClientVars == <<ffs, ends, files, described, opener, kicker, sessions, kicks, there, gone>>

\* The endpoints the descriptors tell of, at either speed; each is a file once they are written.
Endpoints == {"out", "in"}

EndsOf == IF ffs THEN UsbFiles \ {"fd"} ELSE {"fd"}
FirstEnd == IF ffs THEN "control" ELSE "fd"
LowestFile == CHOOSE f \in 3 .. 9 : f \notin files /\ \A g \in 3 .. f - 1 : g \in files
OpenerGoes(place) == opener' = place

\* usb_ffs_init sets bulk_out twice, which leaves bulk_in at 0.
UsbClientInit ==
  /\ ffs \in BOOLEAN
  /\ ends = [e \in UsbFiles |-> IF e \in (IF ffs THEN {"control", "out"} ELSE {"fd"}) THEN -1
                                     ELSE 0]
  /\ files = {} /\ described = FALSE /\ opener = "waits" /\ kicker = "none"
  /\ sessions = 0 /\ kicks = 0 /\ there \in BOOLEAN /\ gone = 0

-----------------------------------------------------------------------------
\* usb_adb_open_thread and usb_ffs_open_thread.

TakesLock ==
  /\ opener = "waits" /\ OpenerGoes("checks")
  /\ UNCHANGED <<ffs, ends, files, described, kicker, sessions, kicks, there, gone>>

NeedsOpening == \E e \in EndsOf : ends[e] = -1

Checks ==
  /\ opener = "checks"
  /\ OpenerGoes(IF NeedsOpening THEN FirstEnd ELSE "sleeps")
  /\ UNCHANGED <<ffs, ends, files, described, kicker, sessions, kicks, there, gone>>

\* adb_cond_wait gives the lock back.
Sleeps ==
  /\ opener = "sleeps" /\ OpenerGoes("asleep")
  /\ UNCHANGED <<ffs, ends, files, described, kicker, sessions, kicks, there, gone>>

\* init_functionfs skips the control file if it is still open.
KeepsControl ==
  /\ opener = "control" /\ ends["control"] >= 0
  /\ OpenerGoes("out")
  /\ UNCHANGED <<ffs, ends, files, described, kicker, sessions, kicks, there, gone>>

\* A file is opened if the function is on; the endpoints need a described control file.
OpensFile(e) ==
  /\ opener = e /\ (e = "control" => ends[e] < 0) /\ there
  /\ e \in Endpoints => described
  /\ ends' = [ends EXCEPT ![e] = LowestFile] /\ files' = files \cup {LowestFile}
  /\ OpenerGoes(CASE e = "control" -> "describes" [] e = "out" -> "in" [] OTHER -> "registers")
  /\ UNCHANGED <<ffs, described, kicker, sessions, kicks, there, gone>>

FileFails(e) ==
  /\ opener = e /\ (e = "control" => ends[e] < 0)
  /\ ~ there \/ (e \in Endpoints /\ ~ described)
  /\ ends' = [ends EXCEPT ![e] = -1]
  /\ OpenerGoes("failed")
  /\ UNCHANGED <<ffs, files, described, kicker, sessions, kicks, there, gone>>

Describes ==
  /\ opener = "describes"
  /\ described' = there /\ OpenerGoes(IF there THEN "out" ELSE "failed")
  /\ UNCHANGED <<ffs, ends, files, kicker, sessions, kicks, there, gone>>

FailedEnds == {e \in EndsOf : ends[e] > 0}

\* What was opened is closed, and a second later it tries again.
OpenFailed ==
  /\ opener = "failed"
  /\ files' = files \ {ends[e] : e \in FailedEnds}
  /\ ends' = [e \in UsbFiles |-> IF e \in FailedEnds THEN -1 ELSE ends[e]]
  /\ described' = (described /\ ends'["control"] >= 0)
  /\ OpenerGoes(FirstEnd)
  /\ UNCHANGED <<ffs, kicker, sessions, kicks, there, gone>>

Registers ==
  /\ opener = "registers"
  /\ sessions' = sessions + 1 /\ OpenerGoes("waits")
  /\ UNCHANGED <<ffs, ends, files, described, kicker, kicks, there, gone>>

\* usb_kick, once for each transport.  FunctionFS's clears the halts before it takes the lock.
KickStarts ==
  /\ sessions > kicks /\ kicks < MaxKicks /\ kicker = "none"
  /\ kicks' = kicks + 1 /\ kicker' = "halts"
  /\ UNCHANGED <<ffs, ends, files, described, opener, sessions, there, gone>>

\* Mutant: it takes no lock.
KickUnlocked ==
  /\ kicker = "halts" /\ kicker' = "none"
  /\ LET closed == EndsOf \ {"control"}
     IN /\ files' = files \ {ends[e] : e \in closed}
        /\ ends' = [e \in UsbFiles |-> IF e \in closed THEN -1 ELSE ends[e]]
  /\ opener' = IF opener = "asleep" THEN "waits" ELSE opener
  /\ UNCHANGED <<ffs, described, sessions, kicks, there, gone>>

\* It signals the thread; the control file stays open.
KickCloses ==
  /\ kicker = "halts" /\ kicker' = "none" /\ opener \notin {"checks", "sleeps"}
  /\ LET closed == EndsOf \ {"control"}
     IN /\ files' = files \ {ends[e] : e \in closed}
        /\ ends' = [e \in UsbFiles |-> IF e \in closed THEN -1 ELSE ends[e]]
  /\ opener' = IF opener = "asleep" THEN "waits" ELSE opener
  /\ UNCHANGED <<ffs, described, sessions, kicks, there, gone>>

\* The function is switched off and on.
FunctionGoes ==
  /\ there /\ gone < MaxGone
  /\ there' = FALSE /\ gone' = gone + 1
  /\ UNCHANGED <<ffs, ends, files, described, opener, kicker, sessions, kicks>>
FunctionComes ==
  /\ ~ there /\ there' = TRUE
  /\ UNCHANGED <<ffs, ends, files, described, opener, kicker, sessions, kicks, gone>>

OpenerStep ==
  \/ TakesLock \/ Checks \/ Sleeps \/ KeepsControl \/ Describes \/ OpenFailed \/ Registers
  \/ \E e \in UsbFiles : OpensFile(e) \/ FileFails(e)
KickerStep == KickStarts \/ KickCloses
UsbClientNext == OpenerStep \/ KickerStep \/ FunctionGoes \/ FunctionComes

-----------------------------------------------------------------------------
\* Types; and one transport at most has the handle.
UsbClientTypeOK ==
  /\ ends \in [UsbFiles -> {-1, 0} \cup 3 .. 5] /\ described \in BOOLEAN
  /\ opener \in UsbFiles \cup {"waits", "checks", "sleeps", "asleep", "describes", "failed",
                               "registers"}
  /\ kicker \in {"none", "halts"} /\ sessions - kicks \in {0, 1}

\* The open files are those of the handle, each its own, through every failure
\* (init_functionfs).
FilesInHandle ==
  /\ files = {ends[e] : e \in EndsOf} \ {-1, 0}
  /\ \A e, f \in EndsOf : ends[e] > 0 /\ e # f => ends[e] # ends[f]

\* A transport that was not kicked has all its files open, and a control file is described
\* before the endpoints are.
RegisteredWhole ==
  sessions > kicks => /\ \A e \in EndsOf : ends[e] \in files
                      /\ ffs => described

\* After each transport the next is registered, once the function stays on: the signal of
\* the kick is not lost.
Reopens == kicker = "halts" ~> sessions > kicks

\* adbd's own end of USB (usb_linux_client.c): only a handle whose files are all open is
\* registered, and one that was kicked is opened again.
UsbClientCorrect ==
  /\ []UsbClientTypeOK /\ []FilesInHandle /\ []RegisteredWhole
  /\ Reopens
=============================================================================

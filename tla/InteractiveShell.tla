--------------------------- MODULE InteractiveShell ---------------------------
(***************************************************************************)
(* `adb shell' without a command (commandline.c): one thread sends what is *)
(* typed, and looks for the escape that ends the session; another shows    *)
(* what comes from the device, and ends it when nothing more does.         *)
(***************************************************************************)
EXTENDS Naturals, Sequences, SequencesExt

CONSTANTS
  MaxTyped,  \* bound on what is typed
  MaxRead    \* the size of the buffer

ASSUME ShellAssumption == MaxTyped \in Nat /\ MaxRead \in Nat \ {0}

\* A newline or a return, and other characters.
Keys == {"newline", "~", ".", "other"}

VARIABLES
  typed,    \* what is to be typed
  readTo,   \* how much of it was read, and how much of that is looked at
  seenTo,
  escape,   \* how far into one: 1 after a newline, 2 after a ~
  sent,     \* what the device got
  sender,   \* reads, looks, writes or ended
  tty,      \* raw or saved
  output,   \* open or closed by the device
  process   \* runs, escaped (exit(0) in the thread) or returned

shellVars == <<typed, readTo, seenTo, escape, sent, sender, tty, output, process>>

ShellInit ==
  /\ typed \in BoundedSeq(Keys, MaxTyped)
  /\ readTo = 0 /\ seenTo = 0 /\ escape = 0 /\ sent = <<>>
  /\ sender = "reads" /\ tty = "raw" /\ output = "open" /\ process = "runs"

-----------------------------------------------------------------------------
\* stdin_read_thread.

ReadsWith(newState) ==
  /\ process = "runs" /\ sender = "reads" /\ readTo < Len(typed)
  /\ \E n \in 1 .. MaxRead : readTo + n <= Len(typed) /\ readTo' = readTo + n
  /\ sender' = "looks" /\ escape' = newState
  /\ UNCHANGED <<typed, seenTo, sent, tty, output, process>>

NextState(key) ==
  CASE key = "newline" -> 1
    [] key = "~" -> IF escape = 1 THEN 2 ELSE escape
    [] OTHER -> 0

ReadsKeys == ReadsWith(escape)

LooksAtKey ==
  /\ process = "runs" /\ sender = "looks"
  /\ LET key == typed[seenTo + 1]
     IN /\ seenTo' = seenTo + 1
        /\ IF key = "." /\ escape = 2
           THEN process' = "escaped" /\ tty' = "saved" /\ UNCHANGED <<escape, sender>>
           ELSE /\ escape' = NextState(key) /\ UNCHANGED <<process, tty>>
                /\ sender' = IF seenTo + 1 = readTo THEN "writes" ELSE "looks"
  /\ UNCHANGED <<typed, readTo, sent, output>>

\* The write fails when the device has closed the stream; the thread ends.
WritesKeys ==
  /\ process = "runs" /\ sender = "writes"
  /\ \/ sent' = sent \o SubSeq(typed, Len(sent) + 1, readTo) /\ sender' = "reads"
     \/ output = "closed" /\ sender' = "ended" /\ UNCHANGED sent
  /\ UNCHANGED <<typed, readTo, seenTo, escape, tty, output, process>>

\* Nothing more is typed; the device is not told.
KeysEnd ==
  /\ process = "runs" /\ sender = "reads" /\ readTo = Len(typed)
  /\ sender' = "ended"
  /\ UNCHANGED <<typed, readTo, seenTo, escape, sent, tty, output, process>>

\* interactive_shell: read_and_dump ends with the stream.

StreamCloses ==
  /\ output = "open" /\ output' = "closed"
  /\ UNCHANGED <<typed, readTo, seenTo, escape, sent, sender, tty, process>>

\* Mutant: it joins the thread, which waits for a key.
ShellReturnsLast ==
  /\ process = "runs" /\ output = "closed" /\ sender = "ended"
  /\ process' = "returned" /\ tty' = "saved"
  /\ UNCHANGED <<typed, readTo, seenTo, escape, sent, sender, output>>

ShellReturns ==
  /\ process = "runs" /\ output = "closed"
  /\ process' = "returned" /\ tty' = "saved"
  /\ UNCHANGED <<typed, readTo, seenTo, escape, sent, sender, output>>

SenderStep == ReadsKeys \/ LooksAtKey \/ WritesKeys
ShellNext == SenderStep \/ KeysEnd \/ StreamCloses \/ ShellReturns

-----------------------------------------------------------------------------
\* A newline, one ~ or more, and a dot, at the end of what was typed.
EndsInEscape(keys) ==
  /\ Len(keys) > 2 /\ keys[Len(keys)] = "."
  /\ \E i \in 1 .. Len(keys) - 2 :
       keys[i] = "newline" /\ \A j \in i + 1 .. Len(keys) - 1 : keys[j] = "~"

ShellTypeOK ==
  /\ seenTo \in 0 .. readTo /\ readTo \in 0 .. Len(typed) /\ escape \in 0 .. 2
  /\ sender \in {"reads", "looks", "writes", "ended"} /\ tty \in {"raw", "saved"}
  /\ output \in {"open", "closed"} /\ process \in {"runs", "escaped", "returned"}
  /\ sender = "looks" => seenTo < readTo \/ process # "runs"
  /\ sender = "reads" => seenTo = readTo

\* However the keys come in reads, the escape ends the session, and nothing else does
\* (stdin_read_thread).
EscapeEnds ==
  \A n \in 1 .. seenTo :
    EndsInEscape(SubSeq(typed, 1, n)) <=> n = seenTo /\ process = "escaped"

\* The device gets what was typed, in order, and not the dot of an escape.
SentAsTyped ==
  IsPrefix(sent, typed) /\ (\A n \in 1 .. Len(sent) : ~ EndsInEscape(SubSeq(sent, 1, n)))

\* Whichever thread ends the process, the terminal is as it was.
TtyRestored == process # "runs" => tty = "saved"

\* The session ends with the output, whatever is typed (read_and_dump).
ShellEnds == output = "closed" ~> process # "runs"

\* An interactive shell (commandline.c): keys are sent as typed, the escape ends it, and the
\* terminal is given back.
ShellCorrect ==
  /\ []ShellTypeOK /\ []EscapeEnds /\ []SentAsTyped /\ []TtyRestored
  /\ ShellEnds
=============================================================================

------------------------------ MODULE FileSync ------------------------------
(***************************************************************************)
(* The service behind sync: (file_sync_service.c), on its stream.  A       *)
(* message is a record: its id, the file it is about and its data, a       *)
(* sequence of blocks.  The file of an answer is what the peer cannot see: *)
(* it is there to say which request an answer belongs to.                  *)
(*                                                                         *)
(* The service is one thread: it reads a message, acts, and writes what it *)
(* answers (sOut) before it reads again.  svc is where it is:              *)
(*   pc      command, data (in handle_send_file), linkData, linkDone (in   *)
(*           handle_send_link), recv (in do_recv), ended                   *)
(*   file    the file being sent or received                               *)
(*   opened  whether its descriptor is open                                *)
(*   at      how many blocks of it were written, or sent to the client     *)
(***************************************************************************)
EXTENDS Integers, Sequences, FiniteSets, SequencesExt

CONSTANTS
  Files,      \* the regular files and links, by name
  Links,      \* those that are symbolic links on the host
  Owned,      \* those under /system or /vendor, whose owner is changed
  Size,       \* how many blocks each of them has on the host
  OldSize,    \* how many an older one of that name has on the device
  Cap,        \* bound: messages the stream to the service holds
  AnswerCap,  \* bound: answers the stream to the client holds
  MaxFaults   \* bound: steps in which calls to either file system fail

ASSUME SyncAssumption ==
  /\ IsFiniteSet(Files) /\ Files # {} /\ Links \subseteq Files
  /\ Size \in [Files -> Nat] /\ OldSize \in [Files -> Nat]

VARIABLES
  svc,        \* the service, see above
  sOut,       \* what it has still to write
  remote,     \* the files of the device
  stuck,      \* those that the service could not remove when it tried (history)
  toDev,      \* the stream to the service
  toHost,     \* the stream to the client
  link,       \* up, or broken
  clientOpen, \* the client has not closed its end
  faults      \* steps with failed calls so far

svcVars == <<svc, sOut, remote, stuck>>

Absent == [v |-> "none", blocks |-> <<>>]
\* The content of a file: its time stamp, which tells where it comes from (part
\* while it is written: the time is set at the end), and its blocks.
Whole(f) == [v |-> "host", blocks |-> [i \in 1..Size[f] |-> i]]
Old(f) == [v |-> "old", blocks |-> [i \in 1..OldSize[f] |-> Size[f] + i]]
Msg(id, f, data) == [id |-> id, f |-> f, data |-> data]
Fault == faults < MaxFaults /\ faults' = faults + 1
NoFault == UNCHANGED faults

HostGone == link = "broken" \/ ~ clientOpen

\* readx fails: nothing is left and nothing will come.
NothingComes == toDev = <<>> /\ HostGone

\* Only when all is written does the service read.
Reads(id) ==
  /\ sOut = <<>> /\ toDev # <<>> /\ Head(toDev).id = id
  /\ toDev' = Tail(toDev)
  /\ UNCHANGED <<toHost, link, clientOpen>>

Answer(f, ids) == sOut' = [i \in DOMAIN ids |-> Msg(ids[i], f, <<>>)]
Ended == [svc EXCEPT !.pc = "ended", !.opened = FALSE]
Ready == [svc EXCEPT !.pc = "command", !.opened = FALSE]

SvcInit ==
  /\ svc = [pc |-> "command", file |-> CHOOSE f \in Files : TRUE,
            opened |-> FALSE, at |-> 0]
  /\ sOut = <<>> /\ stuck = {}
  /\ toDev = <<>> /\ toHost = <<>> /\ link = "up" /\ clientOpen = TRUE
  /\ faults = 0

\* writex: as much as the stream takes, or an error that ends the service, save
\* for the FAIL of a failed fchown, whose result is not looked at.
SvcWrite ==
  /\ sOut # <<>>
  /\ IF HostGone
       THEN /\ svc' = IF svc.pc = "data" /\ svc.opened THEN svc ELSE Ended
            /\ sOut' = <<>>
            /\ UNCHANGED toHost
       ELSE /\ Len(toHost) < AnswerCap
            /\ toHost' = Append(toHost, Head(sOut)) /\ sOut' = Tail(sOut)
            /\ UNCHANGED svc
  /\ UNCHANGED <<remote, stuck, toDev, link, clientOpen, faults>>

DoStat ==
  /\ svc.pc = "command" /\ Reads("STAT")
  /\ LET f == Head(toDev).f IN sOut' = <<Msg("STAT", f, remote[f])>>
  /\ UNCHANGED <<svc, remote, stuck>> /\ NoFault

\* One DENT per file, in any order, then DONE.
DoList ==
  /\ svc.pc = "command" /\ Reads("LIST")
  /\ \E order \in SetToSeqs({f \in Files : remote[f] # Absent}) :
       sOut' = [i \in DOMAIN order |-> Msg("DENT", order[i], <<>>)]
                 \o <<Msg("DONE", Head(toDev).f, <<>>)>>
  /\ UNCHANGED <<svc, remote, stuck>> /\ NoFault

\* adb_unlink, whose result is not looked at.
UnlinkFails(f) ==
  /\ remote[f] # Absent
  /\ stuck' = stuck \cup {f} /\ UNCHANGED remote /\ Fault
Unlink(f) ==
  \/ remote' = [remote EXCEPT ![f] = Absent] /\ UNCHANGED stuck /\ NoFault
  \/ UnlinkFails(f)

\* What was there is removed and the file is created, with the directories it needs.
Created(f, state) ==
  /\ remote' = [remote EXCEPT ![f] = [v |-> "part", blocks |-> <<>>]] /\ UNCHANGED stuck
  /\ svc' = state
  /\ \/ sOut' = <<>> /\ NoFault
     \/ f \in Owned /\ Answer(f, <<"FAIL">>) /\ Fault

\* mkdirs, or the creation itself, fails: FAIL is answered, for each of them.
CannotCreate(f, state) ==
  /\ remote' = [remote EXCEPT ![f] = Absent] /\ UNCHANGED stuck
  /\ svc' = [state EXCEPT !.opened = FALSE]
  /\ \E n \in {1, 2} : Answer(f, [i \in 1..n |-> "FAIL"])
  /\ Fault

\* What was there cannot be removed: it is opened as it is, without O_TRUNC, or cannot be.
Reopened(f, state) ==
  /\ UnlinkFails(f)
  /\ \/ svc' = state /\ (sOut' = <<>> \/ (f \in Owned /\ Answer(f, <<"FAIL">>)))
     \/ svc' = [state EXCEPT !.opened = FALSE] /\ Answer(f, <<"FAIL">>)

\* do_send: what is there is removed, then the file is opened and its owner
\* changed.  Any of it may fail: FAIL is answered at once and the data that
\* follows is read all the same.
DoSend ==
  LET f == Head(toDev).f
      state == [svc EXCEPT !.file = f, !.at = 0, !.opened = TRUE, !.pc = "data"]
  IN
  /\ svc.pc = "command" /\ Reads("SEND")
  /\ \/ /\ f \in Links /\ Unlink(f)
        /\ svc' = [state EXCEPT !.pc = "linkData", !.opened = FALSE] /\ sOut' = <<>>
     \/ f \notin Links /\ Created(f, state)
     \/ f \notin Links /\ CannotCreate(f, state)
     \/ f \notin Links /\ Reopened(f, state)

\* A file written to from block at on; what is behind the data stays.
Written(file, at, data) ==
  LET n == at + Len(data) IN
  [v |-> "part",
   blocks |-> [i \in 1..(IF n > Len(file.blocks) THEN n ELSE Len(file.blocks)) |->
                 IF i \in (at + 1)..n THEN data[i - at] ELSE file.blocks[i]]]

\* The loop of handle_send_file.  A failed write, which may have written some of
\* its data, removes the file and answers FAIL; what follows is read and dropped.
SendData ==
  LET f == svc.file
      data == Head(toDev).data
  IN
  /\ svc.pc = "data" /\ Reads("DATA")
  /\ \/ /\ svc.opened
        /\ remote' = [remote EXCEPT ![f] = Written(@, svc.at, data)] /\ UNCHANGED stuck
        /\ svc' = [svc EXCEPT !.at = @ + Len(data)]
        /\ sOut' = <<>> /\ NoFault
     \/ ~ svc.opened /\ sOut' = <<>> /\ UNCHANGED <<svc, remote, stuck>> /\ NoFault
     \/ /\ svc.opened
        /\ svc' = [svc EXCEPT !.opened = FALSE]
        /\ \/ remote' = [remote EXCEPT ![f] = Absent] /\ UNCHANGED stuck
           \/ remote' = [remote EXCEPT ![f].v = "part"] /\ stuck' = stuck \cup {f}
        /\ Answer(f, <<"FAIL">>) /\ Fault

\* Mutant: a file that was written is not answered.
SendDoneSilent ==
  /\ svc.pc = "data" /\ Reads("DONE")
  /\ svc' = Ready
  /\ remote' = IF svc.opened THEN [remote EXCEPT ![svc.file].v = "host"] ELSE remote
  /\ sOut' = <<>> /\ UNCHANGED stuck
  /\ NoFault

SendDone ==
  /\ svc.pc = "data" /\ Reads("DONE")
  /\ svc' = Ready
  /\ remote' = IF svc.opened THEN [remote EXCEPT ![svc.file].v = "host"] ELSE remote
  /\ Answer(svc.file, IF svc.opened THEN <<"OKAY">> ELSE <<>>)
  /\ UNCHANGED stuck /\ NoFault

\* handle_send_link: the link is made from one DATA, where nothing is left; an
\* error ends the service.
LinkData ==
  LET f == svc.file IN
  /\ svc.pc = "linkData"
  /\ \/ /\ Reads("DATA") /\ remote[f] = Absent
        /\ svc' = [svc EXCEPT !.pc = "linkDone"]
        /\ remote' = [remote EXCEPT ![f] = [v |-> "host", blocks |-> Head(toDev).data]]
        /\ sOut' = <<>> /\ UNCHANGED stuck /\ NoFault
     \/ /\ Reads("DATA") /\ svc' = Ended /\ Answer(f, <<"FAIL">>)
        /\ UNCHANGED <<remote, stuck>>
        /\ IF remote[f] = Absent THEN Fault ELSE NoFault
     \/ /\ Reads("DONE") /\ svc' = Ended /\ Answer(f, <<"FAIL">>)
        /\ UNCHANGED <<remote, stuck>> /\ NoFault

LinkDone ==
  /\ svc.pc = "linkDone" /\ Reads("DONE")
  /\ svc' = Ready
  /\ Answer(svc.file, <<"OKAY">>)
  /\ UNCHANGED <<remote, stuck>> /\ NoFault

\* do_recv: a file that cannot be opened or read is answered with FAIL and the
\* service goes on.
DoRecv ==
  LET f == Head(toDev).f IN
  /\ svc.pc = "command" /\ Reads("RECV")
  /\ \/ /\ remote[f] # Absent
        /\ svc' = [svc EXCEPT !.pc = "recv", !.file = f, !.at = 0, !.opened = TRUE]
        /\ sOut' = <<>> /\ NoFault
     \/ /\ UNCHANGED svc /\ Answer(f, <<"FAIL">>)
        /\ IF remote[f] = Absent THEN NoFault ELSE Fault
  /\ UNCHANGED <<remote, stuck>>

RecvBlock ==
  LET f == svc.file
      blocks == remote[f].blocks
  IN
  /\ svc.pc = "recv" /\ sOut = <<>>
  /\ \/ /\ svc.at < Len(blocks)
        /\ svc' = [svc EXCEPT !.at = @ + 1]
        /\ sOut' = <<Msg("DATA", f, <<blocks[svc.at + 1]>>)>> /\ NoFault
     \/ /\ svc.at = Len(blocks)
        /\ svc' = Ready /\ Answer(f, <<"DONE">>) /\ NoFault
     \/ /\ svc' = Ready /\ Answer(f, <<"FAIL">>) /\ Fault
  /\ UNCHANGED <<remote, stuck, toDev, toHost, link, clientOpen>>

Quit ==
  /\ svc.pc = "command" /\ Reads("QUIT")
  /\ svc' = Ended /\ sOut' = <<>>
  /\ UNCHANGED <<remote, stuck>> /\ NoFault

\* The stream ends: a file that is being written is removed.
HangUp ==
  /\ svc.pc \in {"command", "data", "linkData", "linkDone"} /\ sOut = <<>> /\ NothingComes
  /\ svc' = Ended
  /\ IF svc.pc = "data" THEN Unlink(svc.file) ELSE UNCHANGED <<remote, stuck, faults>>
  /\ UNCHANGED <<sOut, toDev, toHost, link, clientOpen>>

SvcStep ==
  \/ SvcWrite \/ DoStat \/ DoList \/ DoSend \/ SendData \/ SendDone
  \/ LinkData \/ LinkDone \/ DoRecv \/ RecvBlock \/ Quit \/ HangUp

\* The connection breaks: what is on its way may be lost from any point on.
LinkBreaks ==
  /\ link = "up" /\ link' = "broken"
  /\ \E n \in 0..Len(toDev) : toDev' = SubSeq(toDev, 1, n)
  /\ \E n \in 0..Len(toHost) : toHost' = SubSeq(toHost, 1, n)
  /\ UNCHANGED <<svcVars, clientOpen, faults>>
=============================================================================

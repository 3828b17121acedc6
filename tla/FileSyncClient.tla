--------------------------- MODULE FileSyncClient ---------------------------
(***************************************************************************)
(* adb push, sync and pull (file_sync_client.c) with the service they talk *)
(* to (FileSync).  A job is one command; a directory is the set of files   *)
(* below it.  The client is one thread: cOut is what it has still to       *)
(* write; client is where it is:                                           *)
(*   pc     start, mode, stats, dents, next, file, status, first, data,    *)
(*          quit, exited                                                   *)
(*   todo   the files left (the list of copyinfo)                          *)
(*   same   the files found up to date (flag)                              *)
(*   at     blocks read of the file, or answers read                       *)
(*   code   what the command exits with                                    *)
(***************************************************************************)
EXTENDS FileSync

VARIABLES
  job,     \* what the client was called for: op, the files, attrs for pull -a
  client,  \* the client, see above
  cOut,    \* what it has still to write
  local,   \* the files of the host
  unread   \* files the host could not read to their end (history)

copyVars == <<job, client, cOut, local, unread>>
syncVars == <<svcVars, copyVars, toDev, toHost, link, clientOpen, faults>>

Pushes == {"push", "pushdir", "sync"}
Cur == Head(client.todo)

\* local_build_list: the files of a directory, in the order the host gives them.
LocalLists == SetToSeqs(job.files)

SyncInit ==
  /\ SvcInit
  /\ job \in [op : {"push", "pull"}, files : {{f} : f \in Files}, attrs : BOOLEAN]
           \cup [op : {"pushdir", "sync", "pulldir"}, files : {Files}, attrs : BOOLEAN]
  /\ job.attrs => job.op \notin Pushes
  /\ \E todo \in IF job.op = "pulldir" THEN {<<>>} ELSE LocalLists :
       client = [pc |-> "start", todo |-> todo, same |-> {}, at |-> 0, code |-> -1]
  /\ cOut = <<>>
  /\ local = [f \in Files |-> IF job.op \in Pushes THEN Whole(f) ELSE Absent]
  /\ remote \in {r \in [Files -> UNION {{Absent, Old(f), Whole(f)} : f \in Files}] :
                   \A f \in Files : r[f] \in {Absent, Old(f), Whole(f)}}
  /\ unread = {}

-----------------------------------------------------------------------------
Stays == UNCHANGED <<svcVars, toDev, toHost, link, job>>
Go(pc) == [client EXCEPT !.pc = pc]
Anyfile == CHOOSE f \in Files : TRUE
RequestsOf(id, fs) == [i \in DOMAIN fs |-> Msg(id, fs[i], <<>>)]
ListRequest == <<Msg("LIST", Anyfile, <<>>)>>
Quitting == Go("quit")

\* The command ends; with the process goes its end of the stream.
Exit(code) ==
  /\ client' = [client EXCEPT !.pc = "exited", !.code = code]
  /\ cOut' = <<>>
  /\ clientOpen' = FALSE

Continue(state, out) == client' = state /\ cOut' = out /\ UNCHANGED clientOpen

\* readx of one message, which must have come.
Receives(pc) ==
  /\ client.pc = pc /\ cOut = <<>> /\ toHost # <<>>
  /\ toHost' = Tail(toHost)
  /\ UNCHANGED <<svcVars, toDev, link, job>>

Answered == Head(toHost)

Start ==
  /\ client.pc = "start"
  /\ \/ /\ CASE job.op \in {"push", "pull"} ->
                  Continue(Go("mode"), RequestsOf("STAT", client.todo))
             [] job.op = "sync"    -> Continue(Go("stats"), RequestsOf("STAT", client.todo))
             [] job.op = "pushdir" -> Continue(Go("next"), <<>>)
             [] job.op = "pulldir" -> Continue(Go("dents"), ListRequest)
        /\ NoFault
     \/ job.op \in Pushes /\ Exit(1) /\ Fault
  /\ Stays /\ UNCHANGED <<local, unread>>

\* writex; an error ends the command with 1, whichever part of it was writing.
CWrite ==
  /\ cOut # <<>>
  /\ \/ /\ link = "up" /\ Len(toDev) < Cap
        /\ toDev' = Append(toDev, Head(cOut)) /\ cOut' = Tail(cOut)
        /\ UNCHANGED <<client, clientOpen>>
     \/ /\ svc.pc = "ended" \/ link = "broken"
        /\ IF client.pc = "quit" THEN Exit(0) ELSE Exit(1)
        /\ UNCHANGED toDev
  /\ UNCHANGED <<svcVars, toHost, link, job, local, unread, faults>>

\* sync_readmode, which asks a push whether it is to a directory.
ReadMode ==
  /\ job.op = "push" /\ Receives("mode")
  /\ Continue(Go("next"), <<>>)
  /\ UNCHANGED <<local, unread>> /\ NoFault

\* sync_readtime, and the test of do_sync_pull that the file exists.
ReadTime ==
  /\ job.op = "pull" /\ Receives("mode")
  /\ IF Answered.data = Absent THEN Exit(1) ELSE Continue(Go("next"), <<>>)
  /\ UNCHANGED <<local, unread>> /\ NoFault

\* sync_finish_readtime: all STATs were written before the first answer is read.
FinishReadtime ==
  LET f == client.todo[client.at + 1]
      same == IF Answered.data = Whole(f) THEN client.same \cup {f} ELSE client.same
      state == [client EXCEPT !.at = @ + 1, !.same = same]
  IN
  /\ Receives("stats")
  /\ Continue(IF client.at + 1 = Len(client.todo) THEN [state EXCEPT !.pc = "next"]
              ELSE state, <<>>)
  /\ UNCHANGED <<local, unread>> /\ NoFault

\* sync_ls with sync_ls_build_list_cb, which puts each file before the others.
ReadDent ==
  /\ Receives("dents")
  /\ Continue(IF Answered.id = "DENT" THEN [client EXCEPT !.todo = <<Answered.f>> \o @]
              ELSE Go("next"), <<>>)
  /\ UNCHANGED <<local, unread>> /\ NoFault

\* The loop over the files: the next request, or QUIT.
NextFile ==
  LET left == [client EXCEPT !.todo = Tail(@)] IN
  /\ client.pc = "next"
  /\ CASE client.todo = <<>>   -> Continue(Quitting, <<Msg("QUIT", Anyfile, <<>>)>>)
       [] client.todo # <<>> /\ Cur \in client.same -> Continue(left, <<>>)
       [] OTHER -> IF job.op \in Pushes
                     THEN Continue([Go("file") EXCEPT !.at = 0], <<Msg("SEND", Cur, <<>>)>>)
                     ELSE Continue(Go("first"), <<Msg("RECV", Cur, <<>>)>>)
  /\ Stays /\ UNCHANGED <<local, unread>> /\ NoFault

\* write_data_file and write_data_link.  A file that cannot be opened or read is
\* ended with DONE like any other.
WriteFile ==
  LET blocks == local[Cur].blocks
      k == IF Cur \in Links THEN Len(blocks) ELSE client.at + 1
  IN
  /\ client.pc = "file" /\ cOut = <<>>
  /\ \/ /\ client.at < Len(blocks)
        /\ Continue([client EXCEPT !.at = k],
                    <<Msg("DATA", Cur, SubSeq(blocks, client.at + 1, k))>>)
        /\ UNCHANGED unread /\ NoFault
     \/ /\ client.at = Len(blocks)
        /\ Continue(Go("status"), <<Msg("DONE", Cur, <<>>)>>)
        /\ UNCHANGED unread /\ NoFault
     \/ /\ client.at < Len(blocks)
        /\ Continue(Go("status"), <<Msg("DONE", Cur, <<>>)>>)
        /\ unread' = unread \cup {Cur} /\ Fault
  /\ Stays /\ UNCHANGED local

ReadStatus ==
  /\ Receives("status")
  /\ IF Answered.id = "OKAY" THEN Continue([Go("next") EXCEPT !.todo = Tail(@)], <<>>)
     ELSE Exit(1)
  /\ UNCHANGED <<local, unread>> /\ NoFault

\* set_time_and_mode, with -a: it fails when there is no file.
AttrsFail(there) == job.attrs /\ ~ there

\* The file was received, or refused, and sync_recv returns 0.
Received(there) ==
  IF AttrsFail(there) THEN Exit(1)
  ELSE Continue([Go("next") EXCEPT !.todo = Tail(@)], <<>>)

\* What was there is removed; then mkdirs, whose result is not looked at, and the file cannot
\* be created.
CannotCreateHere ==
  /\ client.pc = "first" /\ Answered.id \in {"DATA", "DONE"}
  /\ local' = [local EXCEPT ![Cur] = Absent]
  /\ Exit(1) /\ Fault

\* sync_recv: the local file is made anew when the first DATA or DONE comes, and
\* removed when FAIL does.  A local error ends the command.
ReadData ==
  LET before == IF client.pc = "first" THEN <<>> ELSE local[Cur].blocks IN
  /\ Receives("first") \/ Receives("data")
  /\ \/ /\ Answered.id = "DATA"
        /\ local' = [local EXCEPT ![Cur] = [v |-> "host", blocks |-> before \o Answered.data]]
        /\ Continue(Go("data"), <<>>) /\ NoFault
     \/ /\ Answered.id = "DONE"
        /\ local' = [local EXCEPT ![Cur] = [v |-> "host", blocks |-> before]]
        /\ Received(TRUE) /\ NoFault
     \/ /\ Answered.id = "FAIL"
        /\ local' = [local EXCEPT ![Cur] = Absent]
        /\ Received(FALSE) /\ NoFault
     \/ CannotCreateHere
     \/ /\ Answered.id = "DATA"
        /\ local' = [local EXCEPT ![Cur] = [v |-> "host", blocks |-> before]]
        /\ Exit(1) /\ Fault
  /\ UNCHANGED unread

\* QUIT is written; its answer is the end of the stream, which nobody awaits.
Leave ==
  /\ client.pc = "quit" /\ cOut = <<>>
  /\ Exit(0)
  /\ Stays /\ UNCHANGED <<local, unread>> /\ NoFault

\* readx fails: the service is gone.
Eof ==
  /\ client.pc \in {"mode", "stats", "dents", "status", "first", "data"}
  /\ cOut = <<>> /\ toHost = <<>>
  /\ link = "broken" \/ (svc.pc = "ended" /\ sOut = <<>>)
  /\ Exit(1)
  /\ Stays /\ UNCHANGED <<local, unread>> /\ NoFault

CopyStep ==
  \/ Start \/ CWrite \/ ReadMode \/ ReadTime \/ FinishReadtime \/ ReadDent \/ NextFile
  \/ WriteFile \/ ReadStatus \/ ReadData \/ Leave \/ Eof

SyncNext ==
  \/ SvcStep /\ UNCHANGED copyVars
  \/ CopyStep
  \/ LinkBreaks /\ UNCHANGED copyVars

-----------------------------------------------------------------------------
\* Every variable has its type.
SyncTypeOK ==
  /\ svc.pc \in {"command", "data", "linkData", "linkDone", "recv", "ended"}
  /\ svc.file \in Files /\ svc.opened \in BOOLEAN
  /\ client.pc \in {"start", "mode", "stats", "dents", "next", "file", "status",
                    "first", "data", "quit", "exited"}
  /\ client.code \in {-1, 0, 1} /\ client.same \subseteq Files
  /\ \A f \in Files : /\ remote[f].v \in {"none", "part", "old", "host"}
                      /\ Len(remote[f].blocks) <= Size[f] \/ Len(remote[f].blocks) <= OldSize[f]
  /\ Len(toDev) <= Cap /\ Len(toHost) <= AnswerCap
  /\ unread \subseteq Files /\ stuck \subseteq Files /\ faults \in 0..MaxFaults

\* A file of the device that was sent, or found up to date: with the host's time
\* and blocks, save that a file the service could not remove may go on behind them.
Copied(f) ==
  /\ remote[f].v = "host" /\ Len(remote[f].blocks) >= Size[f]
  /\ \A i \in 1..Size[f] : remote[f].blocks[i] = i
  /\ Len(remote[f].blocks) = Size[f] \/ f \in stuck

\* A push or sync that exits with 0 has put every file on the device, whole, or
\* found it there, save those it could not read itself.  Where the service could
\* not remove the older file, whose blocks it then writes over, what that file had
\* more of is still there.
PushIsWhole ==
  client.code = 0 /\ job.op \in Pushes => \A f \in job.files \ unread : Copied(f)

\* A file is not left in part: once the service is not writing it, it is as it
\* was, gone, or as the client sent it, save where it could not be removed.
NoPartialFile ==
  \A f \in Files :
    remote[f].v = "part" => (svc.pc = "data" /\ svc.file = f) \/ f \in stuck

\* A pull that exits with 0 leaves each file whole or not at all.
PullIsWhole ==
  client.code = 0 /\ job.op \notin Pushes =>
    \A f \in Files : local[f] # Absent => local[f].blocks = remote[f].blocks

\* What the client reads as the answer about a file is an answer about it: FAIL
\* in the middle of a transfer, or twice, never shifts the answers.
AnswersMatch ==
  cOut = <<>> /\ toHost # <<>> =>
    CASE client.pc \in {"mode", "status", "first", "data"} -> Answered.f = Cur
      [] client.pc = "stats" -> Answered.f = client.todo[client.at + 1]
      [] OTHER -> TRUE

\* Every command ends and so does its service, whatever fails: a FAIL never
\* leaves one waiting for the other.
SyncEnds ==
  client.pc # "start" ~> client.pc = "exited" /\ svc.pc = "ended" /\ sOut = <<>>

\* Copies of files (file_sync_client.c with file_sync_service.c): whole or reported (save what
\* could not be removed, see PushIsWhole), each
\* answer read for its request, and over in the end, whatever call fails and wherever the link
\* breaks.
CopiesCorrect ==
  /\ []SyncTypeOK /\ []PushIsWhole /\ []NoPartialFile /\ []PullIsWhole /\ []AnswersMatch
  /\ SyncEnds
=============================================================================

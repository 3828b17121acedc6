------------------------------ MODULE AdbJdwp ------------------------------
(***************************************************************************)
(* The debuggable processes adbd knows (jdwp_service.c): processes connect *)
(* to the control socket, say their pid and wait for debuggers; the host   *)
(* asks for the list (jdwp), follows it (track-jdwp) or asks for a process *)
(* (jdwp:<pid>).  All of this runs in main, one callback at a time; a      *)
(* packet of the host and what main does with it is one step.              *)
(***************************************************************************)
EXTENDS Integers, Sequences, FiniteSets, SequencesExt

CONSTANTS
  Procs,      \* the processes that may connect
  Pid,        \* their pids; a pid may be used again when its process is dead
  Streams,    \* the streams the host opens for the list
  Debuggers,  \* the connections it opens for a process
  MaxOut,     \* how many of those may wait for one process (MAX_OUT_FDS)
  MaxFirst,   \* how many pids fit in a packet, for the first list
  MaxUpdate   \* and in the smaller buffer of the updates

ASSUME JdwpAssumption == MaxOut \in Nat \ {0} /\ MaxUpdate \in 1..MaxFirst

VARIABLES
  vm,       \* each process: none, running or dead
  said,     \* how much of its pid it has written: 0, 1 or 2 (all)
  backlog,  \* processes not accepted yet
  list,     \* _jdwp_list
  in,       \* how much of its pid was read (in_len)
  out,      \* debuggers waiting for it (out_fds)
  wantW,    \* whether its write events are wanted
  passed,   \* debuggers it was given (history)
  dbg,      \* each debugger: none, waiting, passed, closed or refused
  trackers, \* _jdwp_trackers_list
  sock,     \* each stream: none, track, listed (the list is sent) or closed
  last      \* the list last sent on each stream

procVars == <<in, out, wantW, passed, dbg>>
streamVars == <<trackers, sock, last>>
jdwpVars == <<vm, said, backlog, list, procVars, streamVars>>

JdwpInit ==
  /\ vm = [p \in Procs |-> "none"] /\ said = [p \in Procs |-> 0]
  /\ backlog = <<>> /\ list = <<>>
  /\ in = [p \in Procs |-> 0] /\ out = [p \in Procs |-> <<>>]
  /\ wantW = [p \in Procs |-> FALSE] /\ passed = [p \in Procs |-> <<>>]
  /\ dbg = [d \in Debuggers |-> "none"]
  /\ trackers = {} /\ sock = [s \in Streams |-> "none"]
  /\ last = [s \in Streams |-> <<>>]

\* jdwp_process_list: the known pids of a list, as many as the buffer takes.
Known(p, read) == read[p] = 2
KnownPids(procs, read) ==
  LET known == SelectSeq(procs, LAMBDA p : Known(p, read))
  IN [i \in DOMAIN known |-> Pid[known[i]]]
Listed(procs, read, room) ==
  SubSeq(KnownPids(procs, read), 1, Min({room, Len(KnownPids(procs, read))}))

\* jdwp_process_list_updated: to every tracker, acknowledged or not.
Updated(procs, read) ==
  /\ last' = [s \in Streams |-> IF s \in trackers THEN Listed(procs, read, MaxUpdate)
                                                  ELSE last[s]]
  /\ UNCHANGED <<trackers, sock>>

-----------------------------------------------------------------------------
\* The processes.

Connect(p) ==
  /\ vm[p] = "none"
  /\ \A q \in Procs : vm[q] = "running" => Pid[q] # Pid[p]
  /\ vm' = [vm EXCEPT ![p] = "running"]
  /\ backlog' = Append(backlog, p)
  /\ UNCHANGED <<said, list, procVars, streamVars>>

Say(p) ==
  /\ vm[p] = "running" /\ said[p] < 2
  /\ \E n \in said[p] + 1 .. 2 : said' = [said EXCEPT ![p] = n]
  /\ UNCHANGED <<vm, backlog, list, procVars, streamVars>>

Die(p) ==
  /\ vm[p] = "running"
  /\ vm' = [vm EXCEPT ![p] = "dead"]
  /\ UNCHANGED <<said, backlog, list, procVars, streamVars>>

-----------------------------------------------------------------------------
\* main and its events.

\* jdwp_process_alloc: last on the list, its pid not known.
Alloc(p) == list' = Append(list, p)

\* jdwp_control_event
Accept ==
  /\ backlog # <<>>
  /\ Alloc(Head(backlog))
  /\ backlog' = Tail(backlog)
  /\ UNCHANGED <<vm, said, procVars, streamVars>>

\* jdwp_process_free: off the list, its debuggers closed, the trackers told.
ProcessFree(p) ==
  /\ list' = RemoveAt(list, CHOOSE i \in DOMAIN list : list[i] = p)
  /\ in' = [in EXCEPT ![p] = 0]
  /\ dbg' = [d \in Debuggers |-> IF Contains(out[p], d) THEN "closed" ELSE dbg[d]]
  /\ out' = [out EXCEPT ![p] = <<>>]
  /\ wantW' = [wantW EXCEPT ![p] = FALSE]
  /\ UNCHANGED passed
  /\ Updated(list', in')

\* Mutant: write events are given up after one descriptor.
WriteOnce(p) ==
  IF vm[p] = "dead" THEN ProcessFree(p)
  ELSE /\ passed' = [passed EXCEPT ![p] = Append(@, Head(out[p]))]
       /\ dbg' = [dbg EXCEPT ![Head(out[p])] = "passed"]
       /\ out' = [out EXCEPT ![p] = Tail(@)]
       /\ wantW' = [wantW EXCEPT ![p] = FALSE]
       /\ UNCHANGED <<list, streamVars>>

\* The FDE_WRITE part: the first descriptor is sent; a dead process is found out.
Write(p) ==
  IF vm[p] = "dead" THEN ProcessFree(p)
  ELSE /\ passed' = [passed EXCEPT ![p] = Append(@, Head(out[p]))]
       /\ dbg' = [dbg EXCEPT ![Head(out[p])] = "passed"]
       /\ out' = [out EXCEPT ![p] = Tail(@)]
       /\ wantW' = [wantW EXCEPT ![p] = Len(out[p]) > 1]
       /\ UNCHANGED <<list, streamVars>>

Readable(p) == said[p] > in[p] \/ vm[p] = "dead"

\* jdwp_process_event: the pid first, in pieces as it comes; after it only the end
\* of the stream matters.  Events of both kinds come in one call: the write part
\* is reached when the pid was just completed.
ProcEvent(p) ==
  /\ Contains(list, p)
  /\ \/ /\ Readable(p) /\ ~ Known(p, in)
        /\ IF said[p] = 2
             THEN /\ in' = [in EXCEPT ![p] = 2]
                  /\ UNCHANGED <<list, out, wantW, passed, dbg>>
                  /\ Updated(list, in')
             ELSE IF vm[p] = "dead" THEN ProcessFree(p)
             ELSE /\ in' = [in EXCEPT ![p] = said[p]]
                  /\ UNCHANGED <<list, out, wantW, passed, dbg, streamVars>>
     \/ Readable(p) /\ Known(p, in) /\ vm[p] = "dead" /\ ProcessFree(p)
     \/ /\ wantW[p] /\ Write(p)
        /\ vm[p] # "dead" => UNCHANGED in
  /\ UNCHANGED <<vm, said, backlog>>

\* create_jdwp_connection_fd: the first process listed with that pid.
CreateConnection(d, pid) ==
  LET found == {i \in DOMAIN list : Known(list[i], in) /\ Pid[list[i]] = pid}
      p == list[Min(found)]
  IN
  /\ dbg[d] = "none"
  /\ IF found = {} \/ Len(out[p]) >= MaxOut
       THEN dbg' = [dbg EXCEPT ![d] = "refused"] /\ UNCHANGED <<out, wantW>>
       ELSE /\ dbg' = [dbg EXCEPT ![d] = "waiting"]
            /\ out' = [out EXCEPT ![p] = Append(@, d)]
            /\ wantW' = [wantW EXCEPT ![p] = @ \/ out[p] = <<>>]
  /\ UNCHANGED <<vm, said, backlog, list, in, passed, streamVars>>

-----------------------------------------------------------------------------
\* The streams of the host.

\* OPEN of track-jdwp: the first ready sends the list.
OpenTracker(s) ==
  /\ sock[s] = "none"
  /\ sock' = [sock EXCEPT ![s] = "track"]
  /\ trackers' = trackers \cup {s}
  /\ last' = [last EXCEPT ![s] = Listed(list, in, MaxFirst)]
  /\ UNCHANGED <<vm, said, backlog, list, procVars>>

\* OPEN of jdwp: the list, once.
OpenList(s) ==
  /\ sock[s] = "none"
  /\ sock' = [sock EXCEPT ![s] = "listed"]
  /\ last' = [last EXCEPT ![s] = Listed(list, in, MaxFirst)]
  /\ UNCHANGED <<vm, said, backlog, list, procVars, trackers>>

\* jdwp_tracker_close
Untrack(s) == trackers' = trackers \ {s}

\* jdwp_socket_close, or a tracker's: the peer goes with the socket.
CloseSocket(s) ==
  /\ sock' = [sock EXCEPT ![s] = "closed"]
  /\ Untrack(s)
  /\ UNCHANGED <<vm, said, backlog, list, procVars, last>>

\* READY: nothing for a tracker, which needs no update; the list's second one
\* closes it.
HostReady(s) == sock[s] = "listed" /\ CloseSocket(s)

\* CLOSE, or a WRITE, which neither kind takes.
HostCloses(s) == sock[s] \in {"track", "listed"} /\ CloseSocket(s)

JdwpNext ==
  \/ \E p \in Procs : Connect(p) \/ Say(p) \/ Die(p) \/ ProcEvent(p)
  \/ Accept
  \/ \E d \in Debuggers, p \in Procs : CreateConnection(d, Pid[p])
  \/ \E s \in Streams : OpenTracker(s) \/ OpenList(s) \/ HostReady(s) \/ HostCloses(s)

-----------------------------------------------------------------------------
\* Types, and the room of out_fds (jdwp_service.c: create_jdwp_connection_fd).
JdwpTypeOK ==
  /\ vm \in [Procs -> {"none", "running", "dead"}]
  /\ said \in [Procs -> 0..2] /\ in \in [Procs -> 0..2]
  /\ backlog \in Seq(Procs) /\ list \in Seq(Procs)
  /\ out \in [Procs -> Seq(Debuggers)] /\ \A p \in Procs : Len(out[p]) <= MaxOut
  /\ wantW \in [Procs -> BOOLEAN] /\ passed \in [Procs -> Seq(Debuggers)]
  /\ dbg \in [Debuggers -> {"none", "waiting", "passed", "closed", "refused"}]
  /\ trackers \subseteq Streams /\ sock \in [Streams -> {"none", "track", "listed", "closed"}]
  /\ \A s \in Streams : Len(last[s]) <= MaxFirst

\* A connection taken for a debugger has exactly one place: it waits at one process
\* that is listed, or one process was given it, once; when a process goes, none
\* of those that waited for it is left open with nobody to answer
\* (jdwp_process_free against create_jdwp_connection_fd and the write event).
DebuggersHaveOnePlace ==
  \A d \in Debuggers :
    LET waits == {p \in Procs : Contains(out[p], d)}
        given == {p \in Procs : Contains(passed[p], d)}
    IN /\ dbg[d] = "waiting" <=> \E p \in Procs : waits = {p} /\ Contains(list, p)
       /\ dbg[d] = "passed" <=> \E p \in Procs : given = {p}
       /\ Cardinality(waits) + Cardinality(given) <= 1

\* A process is given its debuggers in the order they asked, none twice, unless it
\* goes and the rest are closed (the shift of out_fds after each is sent).
DebuggersInOrder ==
  [][\A p \in Procs : \/ IsPrefix(passed[p] \o out[p], passed'[p] \o out'[p])
                      \/ ~ Contains(list', p)]_jdwpVars

\* What a tracker was last sent is what is known now, or as much of it as fits: no
\* change is ever missed, though nobody waits for the tracker to be ready, and a
\* stream that is closed is told nothing more (jdwp_process_list_updated).
JdwpTrackersCurrent ==
  /\ trackers = {s \in Streams : sock[s] = "track"}
  /\ \A s \in trackers :
       /\ IsPrefix(last[s], KnownPids(list, in))
       /\ Len(last[s]) >= Min({MaxUpdate, Len(KnownPids(list, in))})

\* A debugger does not wait for ever: its process takes it, or is found dead.
DebuggersServed == \A d \in Debuggers : dbg[d] = "waiting" ~> dbg[d] # "waiting"

\* A process that died, whatever it had said, leaves the list and the backlog.
DeadForgotten ==
  \A p \in Procs :
    vm[p] = "dead" ~> ~ Contains(list, p) /\ ~ Contains(backlog, p)

\* The processes that can be debugged (jdwp_service.c): debuggers are kept, passed on in order
\* and never left waiting at the dead; trackers know what main knows.
JdwpCorrect ==
  /\ []JdwpTypeOK /\ []DebuggersHaveOnePlace /\ []JdwpTrackersCurrent
  /\ DebuggersInOrder /\ DebuggersServed /\ DeadForgotten
=============================================================================

---------------------------- MODULE FdEventLoop ----------------------------
(***************************************************************************)
(* fdevent_loop of fdevent.c run by main, with callbacks that may install, *)
(* set and remove any fdevent, their own included, and the notification of *)
(* a subprocess's exit, which comes from another thread and names a        *)
(* descriptor by its number.  A callback is a sequence of steps between    *)
(* its dispatch and its return; the kernel changes what is ready at any    *)
(* time.                                                                   *)
(***************************************************************************)
EXTENDS FdEvent, Sequences, FiniteSets

CONSTANTS
  Fds,      \* the numbers the kernel gives to descriptors
  ExitFd,   \* the one fdevent_subproc_setup creates
  MaxOps,   \* bound: fdevent calls made by setup and by callbacks
  MaxBad    \* bound: descriptors closed behind the loop's back

ASSUME FdsAssumption ==
  /\ Fds \subseteq Nat \ {0}
  /\ ExitFd \in Fds
  /\ MaxOps \in Nat /\ MaxBad \in Nat

VARIABLES
  loop,     \* the tables, see FdEvent
  ready,    \* what select() would report of each descriptor
  bad,      \* registered descriptors that are closed
  running,  \* the callback main is in: its descriptor and events
  ops,      \* fdevent calls made so far
  badCount, \* descriptors closed behind the loop's back so far
  use,      \* how often each descriptor was installed (history)
  procs,    \* subprocesses running, by descriptor and use
  notices,  \* what their waiter threads wrote to SHELL_EXIT_NOTIFY_FD
  forced,   \* fde->force_eof: 0, or the use whose subprocess set it
  noticed   \* the use that each descriptor was last noticed in (history)

vars == <<loop, ready, bad, running, ops, badCount, use, procs, notices, forced,
          noticed>>

Clients == Fds \ {ExitFd}
Process(f, u) == [fd |-> f, use |-> u]

\* Where main is: before the loop, in the loop between callbacks, or in one.
Callback(f, evs) == [fd |-> f, ev |-> evs]
Setup == Callback(0, {"R"})
Loop  == Callback(0, {})

Tables ==
  [active : SUBSET Fds, pending : SUBSET Fds, plist : SUBSET Fds, n : Nat,
   wanted : [Fds -> SUBSET Events],
   events : [Fds -> SUBSET Events],
   sel    : [Fds -> SUBSET Events]]

\* Every variable has its type.
TypeOK ==
  /\ loop \in Tables
  /\ ready \in [Fds -> SUBSET Events]
  /\ bad \subseteq Fds
  /\ running.fd \in Fds \cup {0} /\ running.ev \subseteq Events
  /\ ops \in 0..MaxOps
  /\ badCount \in 0..MaxBad
  /\ use \in [Fds -> Nat]
  /\ procs \subseteq [fd : Fds, use : Nat]
  /\ notices \in Seq([fd : Fds, use : Nat])
  /\ forced \in [Fds -> Nat]
  /\ noticed \in [Fds -> Nat]

Init ==
  /\ loop = EmptyLoop(Fds)
  /\ ready = [f \in Fds |-> {}]
  /\ bad = {}
  /\ running = Setup
  /\ ops = 0
  /\ badCount = 0
  /\ use = [f \in Fds |-> 0]
  /\ procs = {}
  /\ notices = <<>>
  /\ forced = [f \in Fds |-> 0]
  /\ noticed = [f \in Fds |-> 0]

-----------------------------------------------------------------------------
\* Calls a callback, or main before the loop, makes.

CallsFdevent ==
  /\ running # Loop
  /\ ops < MaxOps
  /\ ops' = ops + 1

\* A descriptor just opened is installed.  It may be the end of a subprocess.
Install(f) ==
  /\ CallsFdevent
  /\ f \in Clients \ loop.active
  /\ loop' = FdInstall(loop, f)
  /\ use' = [use EXCEPT ![f] = @ + 1]
  /\ forced' = [forced EXCEPT ![f] = 0]
  /\ ready' = [ready EXCEPT ![f] = {}]
  /\ \/ UNCHANGED procs
     \/ /\ ExitFd \in loop.active
        /\ procs' = procs \cup {Process(f, use'[f])}
  /\ UNCHANGED <<bad, running, badCount, notices, noticed>>

\* fdevent_remove, which closes the descriptor.
Remove(f) ==
  /\ CallsFdevent
  /\ f \in Clients \cap loop.active
  /\ loop' = FdRemove(loop, f)
  /\ bad' = bad \ {f}
  /\ UNCHANGED <<ready, running, badCount, use, procs, notices, forced,
                 noticed>>

SetEvents(f, evs) ==
  /\ CallsFdevent
  /\ f \in Clients \cap loop.active
  /\ loop' = FdSet(loop, f, evs)
  /\ UNCHANGED <<ready, bad, running, badCount, use, procs, notices, forced,
                 noticed>>

\* main enters the loop, which first creates the fdevent of subprocess exits.
EnterLoop ==
  /\ running = Setup
  /\ loop' = FdAdd(FdInstall(loop, ExitFd), ExitFd, {"R"})
  /\ use' = [use EXCEPT ![ExitFd] = 1]
  /\ running' = Loop
  /\ UNCHANGED <<ready, bad, ops, badCount, procs, notices, forced, noticed>>

Return ==
  /\ running.fd # 0
  /\ running' = Loop
  /\ UNCHANGED <<loop, ready, bad, ops, badCount, use, procs, notices,
                 forced, noticed>>

-----------------------------------------------------------------------------
\* fdevent_process, once the list of pending fdevents is empty.

Known == [ready EXCEPT ![ExitFd] = IF notices = <<>> THEN {} ELSE {"R"}]

Select ==
  LET hits == FdHits(loop, Known, bad) IN
  /\ running = Loop
  /\ loop.plist = {}
  /\ HitSet(hits) # {}
  /\ loop' = FdNotice(loop, hits)
  /\ noticed' = [f \in Fds |->
                   IF f \in HitSet(hits) THEN use[f] ELSE noticed[f]]
  /\ UNCHANGED <<ready, bad, running, ops, badCount, use, procs, notices,
                 forced>>

\* The list is in the order of the descriptors' numbers: fdevent_process adds
\* to it in that order, and only when it is empty.
First(f) ==
  /\ running = Loop
  /\ f \in loop.plist
  /\ \A g \in loop.plist : f <= g

Dispatch(f) ==
  /\ First(f)
  /\ f # ExitFd
  /\ loop' = FdCall(FdDequeue(loop, f), f)
  /\ running' = Callback(f, loop.events[f])
  /\ UNCHANGED <<ready, bad, ops, badCount, use, procs, notices, forced,
                 noticed>>

\* fdevent_subproc_event_func: the descriptor named by the notice gets
\* force_eof if it has an fdevent; when no data is left to read (FIONREAD) its
\* callback is called with FDE_READ here, unless it is pending anyway.
DispatchExit ==
  LET called == FdAdd(FdCall(FdDequeue(loop, ExitFd), ExitFd), ExitFd, {"R"})
      f == Head(notices).fd
      nudged == [called EXCEPT !.events[f] = @ \cup {"R"}]
  IN
  /\ First(ExitFd)
  /\ notices # <<>>
  /\ notices' = Tail(notices)
  /\ \/ /\ f \notin loop.active
        /\ loop' = called
        /\ UNCHANGED <<forced, running>>
     \/ /\ f \in loop.active
        /\ forced' = [forced EXCEPT ![f] = Head(notices).use]
        /\ \/ /\ "R" \in ready[f] /\ f \notin bad   \* data left: select reports it
              /\ loop' = called
              /\ UNCHANGED running
           \/ /\ f \in called.pending      \* its callback is about to be called
              /\ loop' = nudged
              /\ UNCHANGED running
           \/ /\ f \notin called.pending
              /\ loop' = FdCall(nudged, f)
              /\ running' = Callback(f, nudged.events[f])
  /\ UNCHANGED <<ready, bad, ops, badCount, use, procs, noticed>>

-----------------------------------------------------------------------------
\* The kernel and the other threads.

ReadyChanges(f, evs) ==
  /\ f \in Clients \cap loop.active
  /\ ready[f] # evs
  /\ ready' = [ready EXCEPT ![f] = evs]
  /\ UNCHANGED <<loop, bad, running, ops, badCount, use, procs, notices,
                 forced, noticed>>

\* Another thread closes a registered descriptor.
ClosedElsewhere(f) ==
  /\ f \in (Clients \cap loop.active) \ bad
  /\ badCount < MaxBad
  /\ badCount' = badCount + 1
  /\ bad' = bad \cup {f}
  /\ UNCHANGED <<loop, ready, running, ops, use, procs, notices, forced,
                 noticed>>

\* subproc_waiter_service: the subprocess ended, its descriptor is announced.
SubprocessExits(p) ==
  /\ p \in procs
  /\ procs' = procs \ {p}
  /\ notices' = Append(notices, p)
  /\ UNCHANGED <<loop, ready, bad, running, ops, badCount, use, forced,
                 noticed>>

CallbackStep ==
  \/ \E f \in Clients : Install(f) \/ Remove(f)
  \/ \E f \in Clients, evs \in SUBSET Events : SetEvents(f, evs)
LoopStep ==
  \/ EnterLoop
  \/ Return
  \/ Select
  \/ \E f \in Fds : Dispatch(f)
  \/ DispatchExit
EnvStep ==
  \/ \E f \in Clients, evs \in SUBSET Events : ReadyChanges(f, evs)
  \/ \E f \in Clients : ClosedElsewhere(f)
  \/ \E p \in procs : SubprocessExits(p)

Next == CallbackStep \/ LoopStep \/ EnvStep
Spec == Init /\ [][Next]_vars

\* main runs: a callback returns (none of them loops for ever), select returns
\* when something is ready, the list is drained.
FairSpec == Spec /\ WF_vars(LoopStep)

-----------------------------------------------------------------------------
\* The list of pending fdevents holds exactly those with FDE_PENDING, each
\* registered and with an event to deliver: list_pending never leads to an
\* fdevent that fdevent_remove has let go, and none is linked twice.
ListMatchesFlags ==
  /\ loop.plist = loop.pending
  /\ loop.pending \subseteq loop.active
  /\ \A f \in loop.pending : loop.events[f] # {}

\* The select sets hold what the registered fdevents want and nothing of a
\* descriptor without one, so that fdevent_process never meets the "missing
\* fde" it dies of, whatever callbacks did between two rounds.
SelectMatches ==
  \A f \in Fds : loop.sel[f] = IF f \in loop.active THEN loop.wanted[f] ELSE {}

\* The two tables fdevent_process and fdevent_loop read (list_pending, and the select sets)
\* agree with the fdevents they are of, after any sequence of callbacks.
TablesConsistent == ListMatchesFlags /\ SelectMatches

\* select_n is above every registered descriptor, though removals lower it.
SelectCoversAll == \A f \in loop.active : f < loop.n

\* No event is kept for an fdevent that is not pending, so that the callback
\* called later is not told of something that happened to an earlier one.
NoLeftover == \A f \in Fds \ loop.pending : loop.events[f] = {}

\* What is about to be delivered was noticed of this very fdevent, though the
\* callbacks called before it in the round may have closed the descriptor and
\* installed another under its number.
NoticedInThisUse == \A f \in loop.pending \cup loop.plist : noticed[f] = use[f]

\* An event that stays wanted and ready on an open descriptor is delivered
\* again and again, once no callback changes the tables any more.
ReadyIsServed ==
  \A f \in Clients, e \in Events :
    <>[](/\ f \in loop.active /\ e \in loop.wanted[f] /\ e \in ready[f]
         /\ bad = {})
      => []<>(running.fd = f /\ e \in running.ev)

\* Every exit announced by a waiter thread is handled by the loop, unless a
\* closed descriptor makes select() fail, which hides all others.
NoticesAreHandled == notices # <<>> ~> (notices = <<>> \/ bad # {})

\* The loop serves: what is ready, and every exit a waiting thread wrote of.
LoopServes ==
  /\ []TypeOK /\ []SelectCoversAll /\ []NoLeftover
  /\ ReadyIsServed /\ NoticesAreHandled
=============================================================================

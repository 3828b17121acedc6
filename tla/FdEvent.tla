------------------------------ MODULE FdEvent ------------------------------
(***************************************************************************)
(* The tables of fdevent.c and the operations on them.  Descriptors are    *)
(* small integers, as in the code: the table is indexed by them, and       *)
(* select() only looks at those below select_n.  A loop is a record:       *)
(*   active   the descriptors with an fdevent in fd_table                  *)
(*   wanted   the events in fde->state (FDE_EVENTMASK)                     *)
(*   events   fde->events: what was noticed and not yet delivered          *)
(*   pending  those with FDE_PENDING in fde->state                         *)
(*   plist    those on list_pending                                        *)
(*   sel      read_fds and write_fds, per descriptor                       *)
(*   n        select_n                                                     *)
(* FDE_ERROR is left out: no caller in this program asks for it.           *)
(***************************************************************************)
EXTENDS Integers

Events == {"R", "W"}

Descriptors(L) == DOMAIN L.wanted

EmptyLoop(Fds) ==
  [active |-> {}, pending |-> {}, plist |-> {}, n |-> 0,
   wanted |-> [f \in Fds |-> {}],
   events |-> [f \in Fds |-> {}],
   sel    |-> [f \in Fds |-> {}]]

FdRegister(L, f) == [L EXCEPT !.active = @ \cup {f}]
FdUnregister(L, f) == [L EXCEPT !.active = @ \ {f}]
FdConnect(L, f) == [L EXCEPT !.n = IF f >= @ THEN f + 1 ELSE @]

FdInstall(L, f) ==
  LET cleared == [L EXCEPT !.pending = @ \ {f}, !.wanted[f] = {}, !.events[f] = {}]
  IN FdConnect(FdRegister(cleared, f), f)

\* select_n when a descriptor goes: the search still sees it in the table, and
\* stays below the old select_n.
Shrink(L) ==
  CHOOSE m \in 1..L.n :
    /\ \A f \in L.active : f < L.n => f < m
    /\ m = 1 \/ m - 1 \in L.active

FdDisconnect(L, f) == [L EXCEPT !.sel[f] = {}, !.n = Shrink(L)]

\* Mutant: the fdevent stays on list_pending.
FdRemoveKeepsListed(L, f) ==
  [L EXCEPT !.pending = @ \ {f}, !.wanted[f] = {}, !.events[f] = {},
            !.sel[f] = {}, !.n = Shrink(L), !.active = @ \ {f}]

\* Mutant: fdevent_disconnect leaves the select sets alone.
FdRemoveKeepsSelect(L, f) ==
  [L EXCEPT !.plist = @ \ {f}, !.pending = @ \ {f}, !.wanted[f] = {},
            !.events[f] = {}, !.n = Shrink(L), !.active = @ \ {f}]

FdRemove(L, f) ==
  LET unlisted == IF f \in L.pending THEN L.plist \ {f} ELSE L.plist
      base == [L EXCEPT !.plist = unlisted, !.pending = @ \ {f},
                        !.wanted[f] = {}, !.events[f] = {}]
  IN IF f \in L.active THEN FdUnregister(FdDisconnect(base, f), f) ELSE base

\* The select sets, for the events wanted.
FdUpdate(L, f, evs) == [L EXCEPT !.wanted[f] = evs, !.sel[f] = evs]

\* Mutant: an fdevent with nothing left to deliver stays pending.
FdSetKeepsPending(L, f, evs) ==
  IF L.wanted[f] = evs THEN L
  ELSE [L EXCEPT !.wanted[f] = evs,
                 !.sel[f] = IF f \in L.active THEN evs ELSE @,
                 !.events[f] = IF f \in L.pending THEN @ \ evs ELSE @]

\* Mutant: no fdevent_update.
FdSetNoUpdate(L, f, evs) == [L EXCEPT !.wanted[f] = evs]

\* fdevent_set: a pending event that is wanted is dropped (select reports it
\* again), one that is not wanted any more stays.
FdSet(L, f, evs) ==
  LET isPending == f \in L.pending
      left == L.events[f] \ evs
      gone == IF isPending /\ left = {} THEN {f} ELSE {}
      updated == IF f \in L.active THEN FdUpdate(L, f, evs)
                 ELSE [L EXCEPT !.wanted[f] = evs]
  IN IF L.wanted[f] = evs THEN L
     ELSE [updated EXCEPT !.events[f] = IF isPending THEN left ELSE @,
                          !.pending = @ \ gone, !.plist = @ \ gone]

FdAdd(L, f, evs) == FdSet(L, f, L.wanted[f] \cup evs)
FdDel(L, f, evs) == FdSet(L, f, L.wanted[f] \ evs)

-----------------------------------------------------------------------------
\* One round of fdevent_process.  ready is what the kernel knows of each
\* descriptor, bad the descriptors that are closed though still registered.

\* select() fails with EBADF when a descriptor in its sets is not open.
SelectFails(L, bad) == \E f \in bad : f < L.n /\ L.sel[f] # {}

\* The descriptors it looks for after that: registered, and not open.
FdCheck(L, bad) == {f \in bad \cap L.active : f < L.n}

\* What the round notices; after EBADF a read is faked for every bad descriptor.
FdHits(L, ready, bad) ==
  [f \in Descriptors(L) |->
     IF SelectFails(L, bad) THEN IF f \in FdCheck(L, bad) THEN {"R"} ELSE {}
     ELSE IF f < L.n THEN L.sel[f] \cap ready[f] ELSE {}]

HitSet(hits) == {f \in DOMAIN hits : hits[f] # {}}

FdNotice(L, hits) ==
  [L EXCEPT !.events  = [f \in Descriptors(L) |-> @[f] \cup hits[f]],
            !.plist   = @ \cup (HitSet(hits) \ L.pending),
            !.pending = @ \cup HitSet(hits)]

\* fdevent_plist_dequeue takes f off the list, fdevent_call_fdfunc clears its
\* flag and its events before it calls the callback with them.
FdDequeue(L, f) == [L EXCEPT !.plist = @ \ {f}]

FdCall(L, f) == [L EXCEPT !.events[f] = {}, !.pending = @ \ {f}]
=============================================================================

------------------------------ MODULE WinEvents ------------------------------
(***************************************************************************)
(* The event loop on Windows (sysdeps_win32.c) with sockets: it is told of *)
(* what happened to a socket once, by a record and an event that Windows   *)
(* sets, and asks for what it wants of each when it is about to wait.      *)
(***************************************************************************)
EXTENDS Naturals, Sequences, SequencesExt

CONSTANTS
  Sockets,
  MaxArrivals,  \* bound on what arrives and on how often there is room again
  MaxSets       \* bound on the calls of fdevent_set in a callback

ASSUME ArrivalAssumption == Sockets # {} /\ MaxArrivals \in Nat /\ MaxSets \in Nat

Flags == {"FDE_READ", "FDE_WRITE"}

VARIABLES
  \* Windows, of each socket: what arrived and was not read, whether a send would block; the
  \* flags of WSAEventSelect, the record of events, the event object, and whether an arrival
  \* is recorded (it is once, until the next recv)
  data, full, mask, record, event, enabled,
  arrived,        \* history: counted for that bound
  wanted, ready,  \* of its hook; there is one when something is wanted
  pending, events,  \* list_pending, and what each will be told
  stage,          \* where the loop is: prepare, start, wait, reset, peek, peekReset or call
  visits,           \* the hooks the stage has yet to come to
  gotone, cur,    \* whether a hook was ready; the one whose event is being reset, or who is called
  hasHandle,      \* whether the h of its hook is the event, and not an invalid handle
  acts,           \* calls of fdevent_set that the callback may yet make
  written         \* whether it has sent all it was to send, and will not want to send

socketVars == <<data, full, mask, record, event, enabled>>
hookVars == <<wanted, ready>>
pendingVars == <<pending, events>>
loopVars == <<stage, visits, gotone, cur, hasHandle, acts, written>>
winEventVars == <<socketVars, arrived, hookVars, pendingVars, loopVars>>

Put(f, s, v) == [f EXCEPT ![s] = v]
Hooked == {s \in Sockets : wanted[s] # {}}

WinEventInit ==
  /\ data = [s \in Sockets |-> 0] /\ full = [s \in Sockets |-> FALSE]
  /\ mask = [s \in Sockets |-> {}] /\ record = [s \in Sockets |-> {}]
  /\ event = [s \in Sockets |-> FALSE] /\ enabled = [s \in Sockets |-> TRUE] /\ arrived = 0
  /\ wanted = [s \in Sockets |-> {"FDE_READ"}] /\ ready = [s \in Sockets |-> {}]
  /\ pending = <<>> /\ events = [s \in Sockets |-> {}]
  /\ stage = "prepare" /\ visits = Sockets /\ gotone = FALSE /\ cur = CHOOSE s \in Sockets : TRUE
  /\ hasHandle = [s \in Sockets |-> TRUE] /\ acts = 0 /\ written = FALSE

-----------------------------------------------------------------------------
\* Windows.

\* Data arrives, or a connection, or the end of one.
Arrives(s) ==
  /\ arrived < MaxArrivals
  /\ arrived' = arrived + 1 /\ data' = Put(data, s, data[s] + 1)
  /\ IF enabled[s] /\ "FDE_READ" \in mask[s]
       THEN /\ record' = Put(record, s, record[s] \cup {"FDE_READ"})
            /\ event' = Put(event, s, TRUE) /\ enabled' = Put(enabled, s, FALSE)
       ELSE UNCHANGED <<record, event, enabled>>
  /\ UNCHANGED <<full, mask, hookVars, pendingVars, loopVars>>

\* There is room to send again.
Drains(s) ==
  /\ full[s] /\ full' = Put(full, s, FALSE)
  /\ arrived < MaxArrivals /\ arrived' = arrived + 1
  /\ IF "FDE_WRITE" \in mask[s]
       THEN /\ record' = Put(record, s, record[s] \cup {"FDE_WRITE"})
            /\ event' = Put(event, s, TRUE)
       ELSE UNCHANGED <<record, event>>
  /\ UNCHANGED <<data, mask, enabled, hookVars, pendingVars, loopVars>>

\* WSAEventSelect, when the flags are not those of the socket: the record is cleared, and
\* what is the case is recorded anew.  `d` is what there is to read, `f` whether it is full.
Recorded(flags, d, f) ==
  {e \in flags : (e = "FDE_READ" /\ d > 0) \/ (e = "FDE_WRITE" /\ ~ f)}

-----------------------------------------------------------------------------
\* fdevent_process.

\* list_pending is a list from the first that is told to the last.
IsPending(s) == \E i \in 1 .. Len(pending) : pending[i] = s
Enqueue(s)   == pending' = Append(pending, s)
Delist(s)    == \E i \in 1 .. Len(pending) : pending[i] = s /\ pending' = RemoveAt(pending, i)
Dequeue(s)   == pending # <<>> /\ Head(pending) = s /\ pending' = Tail(pending)

\* event_hook_signal: it is told of all it wants, ready or not.
Signals(s, isReady) ==
  IF ~ isReady THEN UNCHANGED pendingVars
  ELSE /\ IF IsPending(s) THEN UNCHANGED pending ELSE Enqueue(s)
       /\ events' = Put(events, s, events[s] \cup wanted[s])

NextStage(s, after) ==
  LET rest == visits \ {s}
  IN IF rest # {} THEN visits' = rest /\ UNCHANGED stage
     ELSE stage' = after /\ visits' = Hooked

\* _event_socket_prepare: the record is taken, the event is left as it is.
Prepares(s) ==
  LET now == record[s] \cap wanted[s]
  IN /\ stage = "prepare" /\ s \in visits
     /\ ready' = Put(ready, s, now) /\ record' = Put(record, s, {})
     /\ Signals(s, now # {})
     /\ gotone' = (gotone \/ now # {})
     /\ NextStage(s, IF gotone' THEN "peek" ELSE "start")
     /\ UNCHANGED <<data, full, mask, event, enabled, arrived, wanted, cur, hasHandle, acts,
                    written>>

\* _event_socket_start.
Selects(s, flags, d, f) ==
  IF flags = mask[s] THEN UNCHANGED <<mask, record, event, enabled>>
  ELSE /\ mask' = Put(mask, s, flags)
       /\ record' = Put(record, s, Recorded(flags, d, f))
       /\ event' = Put(event, s, event[s] \/ Recorded(flags, d, f) # {})
       /\ enabled' = Put(enabled, s, "FDE_READ" \notin Recorded(flags, d, f))

\* Mutant: one that has its handle is not started again.
StartsOnce(s) ==
  /\ stage = "start" /\ s \in visits
  /\ IF hasHandle[s] THEN UNCHANGED <<mask, record, event, enabled>>
     ELSE Selects(s, wanted[s], data[s], full[s])
  /\ hasHandle' = Put(hasHandle, s, TRUE)
  /\ NextStage(s, "wait")
  /\ UNCHANGED <<data, full, arrived, hookVars, pendingVars, gotone, cur, acts, written>>

Starts(s) ==
  /\ stage = "start" /\ s \in visits
  /\ Selects(s, wanted[s], data[s], full[s])
  /\ hasHandle' = Put(hasHandle, s, TRUE)
  /\ NextStage(s, "wait")
  /\ UNCHANGED <<data, full, arrived, hookVars, pendingVars, gotone, cur, acts, written>>

\* WaitForMultipleObjects and _event_socket_check, which takes the record with the event.
Checks(s) ==
  LET now == ready[s] \cup (record[s] \cap wanted[s])
  IN /\ stage = "wait" /\ s \in Hooked /\ event[s]
     /\ ready' = Put(ready, s, now) /\ record' = Put(record, s, {})
     /\ event' = Put(event, s, FALSE)
     /\ IF now # {} THEN stage' = "reset" /\ cur' = s ELSE UNCHANGED <<stage, cur>>
     /\ UNCHANGED <<data, full, mask, enabled, arrived, wanted, pendingVars, visits, gotone,
                    hasHandle, acts, written>>

\* _event_socket_stop of every hook.
Stops == hasHandle' = [s \in Sockets |-> hasHandle[s] /\ s \notin Hooked]

\* ResetEvent after the check; then the hooks are stopped.
Resets ==
  /\ stage = "reset"
  /\ event' = Put(event, cur, FALSE)
  /\ Signals(cur, TRUE)
  /\ stage' = "peek" /\ visits' = Hooked
  /\ Stops
  /\ UNCHANGED <<data, full, mask, record, enabled, arrived, hookVars, gotone, cur, acts, written>>

\* _event_socket_peek: the record is taken, and the event reset after it unless the hook was
\* stopped.
Peeks(s) ==
  LET now == ready[s] \cup (record[s] \cap wanted[s])
  IN /\ stage = "peek" /\ s \in visits
     /\ ready' = Put(ready, s, now) /\ record' = Put(record, s, {})
     /\ IF now # {} THEN stage' = "peekReset" /\ cur' = s /\ UNCHANGED visits
        ELSE NextStage(s, "call") /\ UNCHANGED cur
     /\ UNCHANGED <<data, full, mask, event, enabled, arrived, wanted, pendingVars, gotone,
                    hasHandle, acts, written>>

PeekResets ==
  LET rest == visits \ {cur}
  IN /\ stage = "peekReset"
     /\ event' = Put(event, cur, event[cur] /\ ~ hasHandle[cur])
     /\ Signals(cur, TRUE)
     /\ visits' = rest /\ stage' = IF rest = {} THEN "call" ELSE "peek"
     /\ UNCHANGED <<data, full, mask, record, enabled, arrived, hookVars, gotone, cur, hasHandle,
                    acts, written>>

-----------------------------------------------------------------------------
\* The callbacks.  One reads when it is told to, all there is or less; it may send on any
\* socket, until that would block.  When it is told to send and that does not block it wants
\* to send no more (local_socket_event_func).
Returned == written => "FDE_WRITE" \notin wanted[cur]

CallsBack(s) ==
  /\ stage = "call" /\ Returned /\ Dequeue(s)
  /\ events' = Put(events, s, {})
  /\ cur' = s /\ acts' = MaxSets
  /\ \E blocks \in SUBSET Sockets : full' = [t \in Sockets |-> full[t] \/ t \in blocks]
  /\ written' = ("FDE_WRITE" \in events[s] /\ ~ full'[s])
  /\ IF "FDE_READ" \in events[s]
       THEN \E left \in 0 .. data[s] :
              LET again == left > 0 /\ "FDE_READ" \in mask[s]
              IN /\ left < data[s] \/ data[s] = 0
                 /\ data' = Put(data, s, left) /\ enabled' = Put(enabled, s, ~ again)
                 /\ record' = Put(record, s, IF again THEN record[s] \cup {"FDE_READ"}
                                                  ELSE record[s])
                 /\ event' = Put(event, s, event[s] \/ again)
       ELSE UNCHANGED <<data, enabled, record, event>>
  /\ UNCHANGED <<mask, arrived, hookVars, stage, visits, gotone, hasHandle>>

\* _fh_socket_hook starts the hook, which still wants `before`.
SocketHook(s, before) ==
  /\ Selects(s, before, data[s], full[s])
  /\ hasHandle' = Put(hasHandle, s, TRUE)

\* event_looper_hook: more is wanted than the hook wants.
Hooks(s, before, now) ==
  IF now \subseteq before THEN UNCHANGED <<mask, record, event, enabled, hasHandle>>
  ELSE SocketHook(s, before)

\* event_looper_unhook: a hook that wants nothing is freed, and what was ready with it.
Unhooks(s, before) == ready' = IF before = {} THEN Put(ready, s, {}) ELSE ready

\* fdevent_update: what is no longer wanted goes first.
Updates(s, now) ==
  /\ Unhooks(s, wanted[s] \cap now)
  /\ Hooks(s, wanted[s] \cap now, now)
  /\ wanted' = Put(wanted, s, now)

\* One that is pending forgets the events that are now wanted.
Forgets(s, now) ==
  IF ~ IsPending(s) THEN UNCHANGED pendingVars
  ELSE /\ events' = Put(events, s, events[s] \ now)
       /\ IF events[s] \subseteq now THEN Delist(s) ELSE UNCHANGED pending

\* fdevent_set.  A callback may want less of its own socket, and more of any
\* (local_socket_event_func, and what it calls).
Sets(s, now) ==
  /\ stage = "call" /\ now # wanted[s]
  /\ \/ acts > 0 /\ (s = cur \/ wanted[s] \subseteq now) /\ acts' = acts - 1
     \/ acts = 0 /\ ~ Returned /\ s = cur /\ now = wanted[s] \ {"FDE_WRITE"} /\ UNCHANGED acts
  /\ Updates(s, now)
  /\ Forgets(s, now)
  /\ Hooked' # {}
  /\ UNCHANGED <<data, full, arrived, stage, visits, gotone, cur, written>>

\* fdevent_loop goes on when nothing is pending.
EndsRound ==
  /\ stage = "call" /\ Returned /\ pending = <<>>
  /\ stage' = "prepare" /\ visits' = Hooked /\ gotone' = FALSE /\ acts' = 0 /\ written' = FALSE
  /\ UNCHANGED <<socketVars, arrived, hookVars, pendingVars, cur, hasHandle>>

LoopGoesOn ==
  \/ Resets \/ PeekResets \/ EndsRound
  \/ \E s \in Sockets : ~ Returned /\ Sets(s, wanted[s] \ {"FDE_WRITE"})
  \/ \E s \in Sockets : Prepares(s) \/ Starts(s) \/ Checks(s) \/ Peeks(s) \/ CallsBack(s)

WinEventNext ==
  \/ LoopGoesOn
  \/ \E s \in Sockets : Arrives(s) \/ Drains(s) \/ \E now \in SUBSET Flags : Sets(s, now)

-----------------------------------------------------------------------------
WinEventTypeOK ==
  /\ data \in [Sockets -> Nat] /\ {full, event, enabled, hasHandle} \subseteq [Sockets -> BOOLEAN]
  /\ {mask, record, wanted, ready, events} \subseteq [Sockets -> SUBSET Flags]
  /\ stage \in {"prepare", "start", "wait", "reset", "peek", "peekReset", "call"}
  /\ visits \subseteq Sockets /\ gotone \in BOOLEAN /\ cur \in Sockets /\ acts \in Nat
  /\ \A i, j \in 1 .. Len(pending) : i # j => pending[i] # pending[j]
  /\ \A i \in 1 .. Len(pending) : events[pending[i]] # {}

\* While main waits, the event of every socket is set that has what is wanted of it: no
\* wake-up is lost, although Windows tells of data once and the records are taken by prepare
\* and peek (fdevent_process, _event_socket_start).
WaitsForAll ==
  stage = "wait" =>
    \A s \in Sockets :
      \/ "FDE_READ" \in wanted[s] /\ data[s] > 0
      \/ "FDE_WRITE" \in wanted[s] /\ ~ full[s]
      => event[s]

\* What arrived is read as long as it is wanted, if no socket is busy for ever.
DataRead ==
  \A s \in Sockets : data[s] > 0 /\ "FDE_READ" \in wanted[s]
                       ~> data[s] = 0 \/ "FDE_READ" \notin wanted[s]

\* The event loop over sockets (sysdeps_win32.c): it sleeps on all that is wanted.
WinEventsCorrect == WinEventTypeOK /\ WaitsForAll
=============================================================================

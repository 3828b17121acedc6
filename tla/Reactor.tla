------------------------------ MODULE Reactor ------------------------------
(***************************************************************************)
(* The reactor of linktools (reactor.py): calls are scheduled from any     *)
(* thread, now or after a delay, and one worker runs them.  Time is what   *)
(* is left until each call is due; the worker looks at the clock before it *)
(* takes the lock, and uses what it saw when it has run the call.          *)
(***************************************************************************)
EXTENDS Integers, Sequences, FiniteSets, SequencesExt

CONSTANTS
  Jobs,     \* the calls
  Stops,    \* those of them that are _stop
  Delay     \* the delay of each

ASSUME ReactorAssumption == Stops \subseteq Jobs /\ Delay \in [Jobs -> Nat]

VARIABLES
  call,     \* each call: new, asked (in schedule), put, taken, run
  left,     \* time until it is due
  pending,  \* _pending
  running,  \* _running
  worker,   \* where the worker is: look, take, work, interrupted,
            \* check, wait, stop or ended
  seen,     \* for each call, how long it had to go when the worker last looked
  work,     \* the call it runs, or the stop it schedules
  timer,    \* timeout: how long it may wait; Forever is None
  previous, \* previous_pending_length
  earlier   \* history: calls put when schedule of this one began

callVars == <<call, left, earlier>>
workerVars == <<worker, seen, work, timer, previous>>
reactorVars == <<callVars, pending, running, workerVars>>

Forever == -1
Idle == "none"
Later == 99     \* of a call asked after the worker looked: not due yet

ReactorInit ==
  /\ call = [j \in Jobs |-> "new"] /\ left = Delay
  /\ pending = <<>> /\ running = TRUE
  /\ worker = "look" /\ seen = [j \in Jobs |-> Later] /\ work = Idle
  /\ timer = Forever /\ previous = 0
  /\ earlier = [j \in Jobs |-> {}]

-----------------------------------------------------------------------------
\* Other threads, and the calls themselves.

\* schedule up to the lock: the time is read.
Ask(j) ==
  /\ call[j] = "new"
  /\ call' = [call EXCEPT ![j] = "asked"]
  /\ earlier' = [earlier EXCEPT ![j] = {k \in Jobs : Delay[k] = 0 /\ call[k] = "put"}]
  /\ UNCHANGED <<left, pending, running, workerVars>>

\* Mutant: it is put before the others.
PutFirst(j) ==
  /\ call[j] = "asked" /\ j # work
  /\ call' = [call EXCEPT ![j] = "put"]
  /\ pending' = <<j>> \o pending
  /\ worker' = IF worker = "wait" THEN "look" ELSE worker
  /\ UNCHANGED <<left, earlier, running, seen, work, timer, previous>>

\* schedule under the lock: the call is put, and a worker that waits is notified.
Put(j) ==
  /\ call[j] = "asked" /\ j # work
  /\ call' = [call EXCEPT ![j] = "put"]
  /\ pending' = Append(pending, j)
  /\ worker' = IF worker = "wait" THEN "look" ELSE worker
  /\ UNCHANGED <<left, earlier, running, seen, work, timer, previous>>

\* Time passes for the calls that were asked and for the wait.
Tick ==
  /\ \/ \E j \in Jobs : call[j] \in {"asked", "put"} /\ left[j] > 0
     \/ worker = "wait" /\ timer > 0
  /\ left' = [j \in Jobs |-> IF call[j] \in {"asked", "put"} /\ left[j] > 0
                               THEN left[j] - 1 ELSE left[j]]
  /\ timer' = IF worker = "wait" /\ timer > 0 THEN timer - 1 ELSE timer
  /\ UNCHANGED <<call, earlier, pending, running, worker, seen, work, previous>>

-----------------------------------------------------------------------------
\* The worker.

\* now = time.time(): a call asked later cannot be due by it.
Look ==
  /\ worker = "look"
  /\ seen' = [j \in Jobs |-> IF call[j] \in {"asked", "put"} THEN left[j] ELSE Later]
  /\ worker' = "take" /\ timer' = Forever
  /\ UNCHANGED <<callVars, pending, running, work, previous>>

Least(S) == CHOOSE n \in S : \A m \in S : n <= m

\* Under the lock: the first that is due leaves the queue, and the time to the next
\* one is computed from the clock that was read.
Take ==
  LET due == {i \in DOMAIN pending : seen[pending[i]] = 0} IN
  /\ worker = "take"
  /\ IF due = {} THEN worker' = "check" /\ UNCHANGED <<pending, call, earlier, work>>
     ELSE LET j == pending[Least(due)] IN
          /\ pending' = RemoveAt(pending, Least(due))
          /\ call' = [call EXCEPT ![j] = "taken"]
          /\ earlier' = [earlier EXCEPT ![j] = {}]
          /\ work' = j /\ worker' = "work"
  /\ timer' = IF pending' = <<>> THEN Forever
              ELSE Least({IF seen[j] = Later THEN left[j] ELSE seen[j] : j \in ToSet(pending')})
  /\ previous' = Len(pending')
  /\ seen' = [j \in Jobs |-> Later]
  /\ UNCHANGED <<left, running>>

\* The call returns, or raises; an interrupt has the reactor stop as well.
Work ==
  /\ worker = "work"
  /\ call' = [call EXCEPT ![work] = "run"]
  /\ running' = (running /\ work \notin Stops)
  /\ work' = Idle /\ worker' = "check"
  /\ UNCHANGED <<left, earlier, pending, seen, timer, previous>>

\* KeyboardInterrupt or EOFError: on_error, and the worker itself schedules a stop.
WorkInterrupted ==
  /\ worker = "work" /\ work \notin Stops
  /\ \E s \in Stops :
       /\ call[s] = "new"
       /\ call' = [call EXCEPT ![work] = "run", ![s] = "asked"]
       /\ earlier' = [earlier EXCEPT ![s] = {k \in Jobs : Delay[k] = 0 /\ call[k] = "put"}]
       /\ work' = s
  /\ worker' = "interrupted"
  /\ UNCHANGED <<left, pending, running, seen, timer, previous>>

StopScheduled ==
  /\ worker = "interrupted"
  /\ call' = [call EXCEPT ![work] = "put"]
  /\ pending' = Append(pending, work)
  /\ work' = Idle /\ worker' = "check"
  /\ UNCHANGED <<left, earlier, running, seen, timer, previous>>

\* Mutant: it waits, stopped or not, when nothing was put.
CheckIgnoresStop ==
  /\ worker = "check"
  /\ worker' = IF Len(pending) = previous THEN "wait"
               ELSE IF running THEN "look" ELSE "stop"
  /\ previous' = 0
  /\ UNCHANGED <<callVars, pending, running, seen, work, timer>>

\* Under the lock: it waits unless something was put meanwhile.
Check ==
  /\ worker = "check"
  /\ worker' = IF running /\ Len(pending) = previous THEN "wait"
               ELSE IF running THEN "look" ELSE "stop"
  /\ previous' = 0
  /\ UNCHANGED <<callVars, pending, running, seen, work, timer>>

TimedOut ==
  /\ worker = "wait" /\ timer = 0
  /\ worker' = "look"
  /\ UNCHANGED <<callVars, pending, running, seen, work, timer, previous>>

OnStop ==
  /\ worker = "stop"
  /\ worker' = "ended"
  /\ UNCHANGED <<callVars, pending, running, seen, work, timer, previous>>

WorkerStep ==
  Look \/ Take \/ Work \/ WorkInterrupted \/ StopScheduled \/ Check \/ TimedOut \/ OnStop

ReactorNext ==
  \/ \E j \in Jobs : Ask(j) \/ Put(j)
  \/ Tick
  \/ WorkerStep

-----------------------------------------------------------------------------
\* Types.
ReactorTypeOK ==
  /\ call \in [Jobs -> {"new", "asked", "put", "taken", "run"}]
  /\ \A j \in Jobs : left[j] \in 0..Delay[j] /\ earlier[j] \subseteq Jobs
  /\ ToSet(pending) = {j \in Jobs : call[j] = "put"}
  /\ Len(pending) = Cardinality(ToSet(pending))
  /\ running \in BOOLEAN /\ work \in Jobs \cup {Idle}
  /\ worker \in {"look", "take", "work", "interrupted", "check", "wait", "stop", "ended"}
  /\ timer >= Forever /\ previous \in Nat

Queue == INSTANCE JobQueue WITH
  Delayed <- {j \in Jobs : Delay[j] > 0},
  state <- [j \in Jobs |-> IF call[j] = "taken" THEN "run" ELSE call[j]],
  before <- earlier,
  ended <- worker \in {"stop", "ended"}

\* What schedule promises: every call once, those without a delay in the order they
\* were asked one after the other, none after the end.
ReactorImplements == Queue!Spec

\* Whatever is put while the worker looks, works or goes to sleep is not forgotten:
\* it is run, or the reactor ends first (the comparison of the queue's length before
\* the wait, reactor.py).
JobsRun ==
  (\E j \in Jobs : call[j] = "put") ~> worker = "ended" \/ \A j \in Jobs : call[j] # "put"

\* A stop ends the worker, whoever asked for it.
StopEnds == (\E s \in Stops : call[s] = "put") ~> worker = "ended"

\* The reactor (linktools/reactor.py) is such a queue, and its own list holds what was put,
\* each once.
ReactorCorrect == []ReactorTypeOK /\ ReactorImplements
=============================================================================

------------------------------ MODULE JobQueue ------------------------------
(***************************************************************************)
(* What schedule promises to those who call it: a call that was put runs   *)
(* once, one at a time, and of two calls without a delay the one whose     *)
(* schedule returned before the other's began runs first; after the end    *)
(* nothing runs.                                                           *)
(***************************************************************************)
EXTENDS Naturals

CONSTANTS Jobs, Delayed  \* the calls, and those with a delay

VARIABLES
  state,  \* each one: new, asked (schedule is called), put or run
  before, \* the calls it has to wait for, while it is put
  ended

vars == <<state, before, ended>>

Init == state = [j \in Jobs |-> "new"] /\ before = [j \in Jobs |-> {}] /\ ended = FALSE

AskJob(j) ==
  /\ state[j] = "new"
  /\ state' = [state EXCEPT ![j] = "asked"]
  /\ before' = [before EXCEPT ![j] = {k \in Jobs \ Delayed : state[k] = "put"}]
  /\ UNCHANGED ended

PutJob(j) ==
  /\ state[j] = "asked"
  /\ state' = [state EXCEPT ![j] = "put"]
  /\ UNCHANGED <<before, ended>>

RunJob(j) ==
  /\ state[j] = "put" /\ ~ ended
  /\ j \notin Delayed => \A k \in before[j] : state[k] # "put"
  /\ state' = [state EXCEPT ![j] = "run"]
  /\ before' = [before EXCEPT ![j] = {}]
  /\ UNCHANGED ended

End == ~ ended /\ ended' = TRUE /\ UNCHANGED <<state, before>>

Next == End \/ \E j \in Jobs : AskJob(j) \/ PutJob(j) \/ RunJob(j)

Spec == Init /\ [][Next]_vars
=============================================================================

----------------------------- MODULE ByteQueue -----------------------------
(***************************************************************************)
(* What a direction of a socket pair promises: the bytes written are read  *)
(* in order, each once, and a limited number of them is on the way.        *)
(***************************************************************************)
EXTENDS Integers, Sequences

CONSTANT Room   \* bytes that may be on the way

VARIABLES
  sent,      \* bytes written; they are numbered from 1
  queue,     \* those on the way
  received   \* those read

vars == <<sent, queue, received>>

Init == sent = 0 /\ queue = <<>> /\ received = <<>>

Written(n) == [k \in 1 .. n |-> sent + k]

Write ==
  \E n \in 1 .. Room - Len(queue) :
    /\ queue' = queue \o Written(n)
    /\ sent' = sent + n
    /\ UNCHANGED received

Read ==
  \E n \in 1 .. Len(queue) :
    /\ received' = received \o SubSeq(queue, 1, n)
    /\ queue' = SubSeq(queue, n + 1, Len(queue))
    /\ UNCHANGED sent

Next == Write \/ Read
Spec == Init /\ [][Next]_vars
=============================================================================

----------------------------- MODULE AdbStream -----------------------------
(***************************************************************************)
(* What a stream of adb promises, without packets, buffers, READYs or      *)
(* sockets: two reliable directions between the host and a service, opened *)
(* once, closed once, and complete when the device ends it.  AdbSockets    *)
(* implements it.                                                          *)
(***************************************************************************)
EXTENDS Naturals, Sequences

CONSTANTS
  Streams,   \* the streams the host opens
  MaxUp,     \* bound: chunks the service writes on a stream
  MaxDown    \* bound: chunks the host writes on a stream

VARIABLES
  state,   \* the host's end: none, opening, open, closed, refused
  wrote,   \* chunks the service wrote
  got,     \* the chunks the host has
  sent,    \* chunks the host sent
  served   \* the chunks the service has

vars == <<state, wrote, got, sent, served>>

\* Chunks are numbered as they are written; this is the first n of them.
Upto(n) == [i \in 1..n |-> i]

Init ==
  /\ state = [s \in Streams |-> "none"]
  /\ wrote = [s \in Streams |-> 0] /\ got = [s \in Streams |-> <<>>]
  /\ sent = [s \in Streams |-> 0] /\ served = [s \in Streams |-> <<>>]

\* The host opens, gives up, or is told that the stream exists.
Turn(s, from, to) ==
  /\ state[s] = from
  /\ state' = [state EXCEPT ![s] = to]
  /\ UNCHANGED <<wrote, got, sent, served>>

\* The device refuses or ends the stream; if the host wrote nothing on it, all
\* output of the service has come before.
End(s) ==
  /\ state[s] \in {"opening", "open"}
  /\ sent[s] = 0 => Len(got[s]) = wrote[s]
  /\ state' = [state EXCEPT ![s] = "refused"]
  /\ UNCHANGED <<wrote, got, sent, served>>

\* The service writes until the device has ended the stream on an end of file.
Write(s) ==
  /\ wrote[s] < MaxUp
  /\ ~ (state[s] = "refused" /\ sent[s] = 0)
  /\ wrote' = [wrote EXCEPT ![s] = @ + 1]
  /\ UNCHANGED <<state, got, sent, served>>

DeliverUp(s) ==
  /\ state[s] = "open"
  /\ \E n \in Len(got[s]) + 1 .. wrote[s] : got' = [got EXCEPT ![s] = Upto(n)]
  /\ UNCHANGED <<state, wrote, sent, served>>

Send(s) ==
  /\ state[s] = "open"
  /\ \E n \in sent[s] + 1 .. MaxDown : sent' = [sent EXCEPT ![s] = n]
  /\ UNCHANGED <<state, wrote, got, served>>

DeliverDown(s) ==
  /\ Len(served[s]) < sent[s]
  /\ served' = [served EXCEPT ![s] = Upto(Len(@) + 1)]
  /\ UNCHANGED <<state, wrote, got, sent>>

Next ==
  \E s \in Streams :
    \/ Turn(s, "none", "opening") \/ Turn(s, "opening", "open")
    \/ Turn(s, "open", "closed")
    \/ End(s) \/ Write(s) \/ DeliverUp(s) \/ Send(s) \/ DeliverDown(s)

Spec == Init /\ [][Next]_vars
=============================================================================

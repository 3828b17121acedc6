----------------------------- MODULE SshForward -----------------------------
(***************************************************************************)
(* Port forwarding over ssh (ssh.py): a thread per connection copies       *)
(* between a socket and a channel until either of them ends; stop shuts    *)
(* the acceptor down and closes the channels that are in the list by then. *)
(* forward takes connections of the local host, reverse channels of the    *)
(* remote one; the handlers do the same from there on.                     *)
(***************************************************************************)
EXTENDS Integers, Sequences, FiniteSets, SequencesExt

CONSTANTS
  Tunnels,    \* connections, or channels of a reverse forward
  MaxData,    \* what each side sends
  RecvSize,   \* how much of it one recv returns
  MaxStalls   \* how often a peer stops reading

ASSUME SshAssumption == MaxData \in Nat /\ RecvSize \in Nat \ {0}

Sides == {"sock", "channel"}
Other(side) == IF side = "sock" THEN "channel" ELSE "sock"

VARIABLES
  handler,   \* each one's thread: none, opening, opened, copy, send, closing or gone
  held,      \* data: how much of which side's input the handler has received to send on
  ends,      \* whether its socket and its channel are none, open or closed
  sent,      \* how much each side's peer has sent
  over,      \* whether it has ended
  full,      \* the sides on the way to which is no room, as their peers do not read
  stalls,    \* how often that has been so
  input,     \* what the handler has yet to send on from each side
  output,    \* what it has sent on to each side
  channels,  \* the list of the forward
  stop,      \* no, shutdown (the acceptor has ended) or swept
  reason,    \* history: the side whose end ended the copying, or broken
  cut,       \* history: those that had less sent than was given to send
  missed     \* history: those that were not in the list when stop went through it

peerVars == <<sent, over, full, stalls>>
copyVars == <<held, input, output, reason, cut>>
stopVars == <<channels, stop, missed>>
sshVars == <<handler, ends, peerVars, copyVars, stopVars>>

SshInit ==
  /\ handler = [t \in Tunnels |-> "none"]
  /\ ends = [t \in Tunnels |-> [side \in Sides |-> "none"]]
  /\ sent = [t \in Tunnels |-> [side \in Sides |-> 0]]
  /\ over = [t \in Tunnels |-> [side \in Sides |-> FALSE]]
  /\ full = [t \in Tunnels |-> {}] /\ stalls = 0
  /\ held = [t \in Tunnels |-> [from |-> "sock", n |-> 0]]
  /\ input = [t \in Tunnels |-> [side \in Sides |-> <<>>]]
  /\ output = [t \in Tunnels |-> [side \in Sides |-> <<>>]]
  /\ channels = {} /\ stop = "no"
  /\ reason = [t \in Tunnels |-> "none"] /\ cut = {} /\ missed = {}

-----------------------------------------------------------------------------
\* The peers of both sides.

Sends(t, side) ==
  /\ ends[t][side] = "open" /\ ~ over[t][side] /\ sent[t][side] < MaxData
  /\ sent' = [sent EXCEPT ![t][side] = @ + 1]
  /\ input' = [input EXCEPT ![t][side] = Append(@, sent'[t][side])]
  /\ UNCHANGED <<handler, ends, over, full, stalls, held, output, reason, cut, stopVars>>

Finishes(t, side) ==
  /\ ends[t][side] = "open" /\ ~ over[t][side]
  /\ over' = [over EXCEPT ![t][side] = TRUE]
  /\ UNCHANGED <<handler, ends, sent, full, stalls, copyVars, stopVars>>

\* A peer stops reading until the buffers on the way to it, a channel's window, are full;
\* and reads on, which it need not do.
Stalls(t, side) ==
  /\ ends[t][side] = "open" /\ side \notin full[t] /\ stalls < MaxStalls
  /\ stalls' = stalls + 1
  /\ full' = [full EXCEPT ![t] = @ \cup {side}]
  /\ UNCHANGED <<handler, ends, sent, over, copyVars, stopVars>>

ReadsOn(t, side) ==
  /\ side \in full[t]
  /\ full' = [full EXCEPT ![t] = @ \ {side}]
  /\ UNCHANGED <<handler, ends, sent, over, stalls, copyVars, stopVars>>

-----------------------------------------------------------------------------
\* The handlers.

\* The acceptor starts a thread for a connection, or for a channel.
Accept(t) ==
  /\ handler[t] = "none" /\ stop = "no"
  /\ handler' = [handler EXCEPT ![t] = "opening"]
  /\ \E side \in Sides : ends' = [ends EXCEPT ![t][side] = "open"]
  /\ UNCHANGED <<peerVars, copyVars, stopVars>>

\* The other side is opened; if it cannot be, both are closed.
Opens(t) ==
  /\ handler[t] = "opening"
  /\ \/ /\ handler' = [handler EXCEPT ![t] = "opened"]
        /\ ends' = [ends EXCEPT ![t] = [side \in Sides |-> "open"]]
     \/ /\ handler' = [handler EXCEPT ![t] = "gone"]
        /\ ends' = [ends EXCEPT ![t] = [side \in Sides |-> "closed"]]
  /\ UNCHANGED <<peerVars, copyVars, stopVars>>

\* Mutant: the channel is not put on the list.
RegistersNot(t) ==
  /\ handler[t] = "opened"
  /\ handler' = [handler EXCEPT ![t] = "copy"]
  /\ UNCHANGED <<ends, peerVars, copyVars, stopVars>>

\* with lock: channels.append(channel)
Registers(t) ==
  /\ handler[t] = "opened"
  /\ handler' = [handler EXCEPT ![t] = "copy"]
  /\ channels' = channels \cup {t}
  /\ UNCHANGED <<ends, peerVars, copyVars, stop, missed>>

\* A side is ready if there is something to receive or it has ended; a channel that
\* stop closed has ended.
SideEnded(t, side) == over[t][side] \/ ends[t][side] = "closed"
Ready(t) == {side \in Sides : input[t][side] # <<>> \/ SideEnded(t, side)}
Received(t, side) == SubSeq(input[t][side], 1, IF Len(input[t][side]) < RecvSize
                                                 THEN Len(input[t][side]) ELSE RecvSize)

\* The copying ends.
Ends(t, why) ==
  /\ handler' = [handler EXCEPT ![t] = "closing"]
  /\ reason' = [reason EXCEPT ![t] = why]

\* What a side has is received, to be sent on; its end, or that of a channel that stop
\* closed, ends the copying of both.
Receives(t, side) ==
  /\ handler[t] = "copy" /\ side \in Ready(t)
  /\ IF input[t][side] # <<>>
       THEN /\ handler' = [handler EXCEPT ![t] = "send"]
            /\ held' = [held EXCEPT ![t] = [from |-> side, n |-> Len(Received(t, side))]]
            /\ UNCHANGED reason
       ELSE /\ Ends(t, IF ends[t]["channel"] = "closed" THEN "broken" ELSE side)
            /\ UNCHANGED held
  /\ UNCHANGED <<ends, peerVars, input, output, cut, stopVars>>

\* k of what was received is sent on.  The rest is not sent again.
SendsOn(t, k) ==
  LET side == held[t].from
      data == SubSeq(input[t][side], 1, held[t].n)
  IN /\ handler' = [handler EXCEPT ![t] = "copy"]
     /\ input' = [input EXCEPT ![t][side] = SubSeq(@, held[t].n + 1, Len(@))]
     /\ output' = [output EXCEPT ![t][Other(side)] = @ \o SubSeq(data, 1, k)]
     /\ cut' = IF k < held[t].n THEN cut \cup {t} ELSE cut
     /\ UNCHANGED <<ends, peerVars, held, reason, stopVars>>

\* The send, which waits for room, and with it both directions.  A channel takes no more
\* than its window; one that stop closed takes nothing, an error unless it was waited for.
CopyOne(t) ==
  /\ handler[t] = "send"
  /\ IF ends[t][Other(held[t].from)] = "open"
       THEN /\ Other(held[t].from) \notin full[t]
            /\ \E k \in 1..held[t].n :
                 (held[t].from = "channel" => k = held[t].n) /\ SendsOn(t, k)
       ELSE \/ SendsOn(t, 0)
            \/ Ends(t, "broken") /\ UNCHANGED <<ends, peerVars, held, input, output, cut, stopVars>>

\* A peer resets its side, or the transport is lost, and what the handler does raises.
Breaks(t) ==
  /\ handler[t] \in {"copy", "send"}
  /\ Ends(t, "broken")
  /\ UNCHANGED <<ends, peerVars, held, input, output, cut, stopVars>>

\* finally: both are closed, and the channel leaves the list.
TunnelCloses(t) ==
  /\ handler[t] = "closing"
  /\ handler' = [handler EXCEPT ![t] = "gone"]
  /\ ends' = [ends EXCEPT ![t] = [side \in Sides |-> "closed"]]
  /\ channels' = channels \ {t}
  /\ UNCHANGED <<peerVars, copyVars, stop, missed>>

-----------------------------------------------------------------------------
\* Stoppable.stop

Shutdown ==
  /\ stop = "no" /\ stop' = "shutdown"
  /\ UNCHANGED <<handler, ends, peerVars, copyVars, channels, missed>>

\* Under the lock every channel in the list is closed.
Sweeps ==
  /\ stop = "shutdown" /\ stop' = "swept"
  /\ ends' = [t \in Tunnels |-> IF t \in channels THEN [ends[t] EXCEPT !["channel"] = "closed"]
                                     ELSE ends[t]]
  /\ missed' = {t \in Tunnels : handler[t] \in {"opening", "opened"}}
  /\ UNCHANGED <<handler, peerVars, copyVars, channels>>

HandlerStep(t) ==
  \/ Opens(t) \/ Registers(t) \/ (\E side \in Sides : Receives(t, side)) \/ CopyOne(t)
  \/ TunnelCloses(t)

SshNext ==
  \/ \E t \in Tunnels :
       \/ Accept(t) \/ HandlerStep(t) \/ Breaks(t)
       \/ \E side \in Sides :
            Sends(t, side) \/ Finishes(t, side) \/ Stalls(t, side) \/ ReadsOn(t, side)
  \/ Shutdown \/ Sweeps

-----------------------------------------------------------------------------
\* Types.
SshTypeOK ==
  /\ handler \in [Tunnels -> {"none", "opening", "opened", "copy", "send", "closing", "gone"}]
  /\ held \in [Tunnels -> [from : Sides, n : Nat]] /\ full \in [Tunnels -> SUBSET Sides]
  /\ ends \in [Tunnels -> [Sides -> {"none", "open", "closed"}]]
  /\ channels \subseteq Tunnels /\ missed \subseteq Tunnels /\ stop \in {"no", "shutdown", "swept"}

\* What comes out of a tunnel is what went in, in order and nothing twice; nothing is
\* missing but what a full channel did not take: when one side has ended, all it had
\* sent before has been passed on (ssh.py, the copy loops).
PassedOn ==
  \A t \in Tunnels : \A side \in Sides :
    /\ \A i, k \in DOMAIN output[t][side] : i < k => output[t][side][i] < output[t][side][k]
    /\ (side = "sock" \/ t \notin cut) =>
         /\ \A i \in DOMAIN output[t][side] : output[t][side][i] = i
         /\ reason[t] = Other(side) => Len(output[t][side]) = sent[t][Other(side)]

\* When stop has returned, a channel is open only if its handler had not put it on the
\* list yet; nobody will close that one.
StopCloses ==
  stop = "swept" => \A t \in Tunnels : ends[t]["channel"] = "open" => t \in missed

\* A handler that waits for ever to send to a peer that does not read.
Stuck(t) ==
  /\ handler[t] = "send" /\ Other(held[t].from) \in full[t]
  /\ ends[t][Other(held[t].from)] = "open"

\* The end of either side, or a stop that found the channel, closes both, unless the one
\* thread of both directions waits in a send: to a peer that does not read, not to a
\* channel that stop has closed.
TunnelsEnd ==
  \A t \in Tunnels :
    (\E side \in Sides : over[t][side]) \/ (stop = "swept" /\ t \in channels \ missed)
      ~> (\A side \in Sides : ends[t][side] = "closed") \/ []Stuck(t)

\* Tunnels (linktools/ssh.py): data is passed on as it came, and stop closes those it knows.
TunnelsCorrect == SshTypeOK /\ PassedOn /\ StopCloses
=============================================================================

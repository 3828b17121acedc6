---------------------------- MODULE AdbListeners ----------------------------
(***************************************************************************)
(* The listeners of reverse forwarding (adb.c: listener_list): a service   *)
(* thread of "reverse:" picks the transport, then later, without a lock,   *)
(* installs or removes; main accepts on the listeners, and frees those of  *)
(* a transport that goes offline or away.  A walk of the list is one step, *)
(* though the code's has no lock either: two at once would be undefined.   *)
(***************************************************************************)
EXTENDS Integers, FiniteSets

CONSTANTS
  Transports, Names, Remotes, Threads,
  None,
  MaxInstall, \* listeners ever made
  MaxAsk,     \* requests ever made
  MaxConns    \* connections at a time

ASSUME ListenersAssumption == {MaxInstall, MaxAsk} \subseteq Nat /\ None \notin Transports

VARIABLES
  transport, \* each one: none (not yet), online, offline, gone (freed)
  listeners, \* listener_list: records of id, name, to (connect_to), on (transport)
  disc,      \* each transport's disconnects: the ids of the listeners they are in
  made,      \* ids given out
  asked,     \* requests so far
  thread,    \* each service thread: idle, or its request
  picked,    \* the transport it acquired
  unbound,   \* threads that found the name bound to nothing, and are to bind it
  conns,     \* connections accepted: by which listener, the transport and remote it
             \* was sent to, whether the host has answered, and (history) whether
             \* the transport's sockets had been closed already
  ended,     \* transports whose input thread has closed the sockets left
  late       \* history: listeners tied to a transport that was gone already

threadVars == <<thread, picked, unbound>>
vars == <<transport, listeners, disc, made, asked, threadVars, conns, ended, late>>

Requests ==
  [kind : {"forward", "norebind"}, name : Names, to : Remotes]
    \cup [kind : {"kill"}, name : Names] \cup [kind : {"kill_all"}]
Idle == [kind |-> "idle"]

Init ==
  /\ transport = [t \in Transports |-> "none"]
  /\ listeners = {} /\ disc = [t \in Transports |-> {}] /\ made = 0 /\ asked = 0
  /\ thread = [k \in Threads |-> Idle] /\ picked = [k \in Threads |-> None]
  /\ unbound = {}
  /\ conns = {} /\ ended = {} /\ late = {}

Gone(t) == transport[t] = "gone"
Listed == {t \in Transports : transport[t] \in {"online", "offline"}}
IdsOf(some) == {l.id : l \in some}
Named(name) == {l \in listeners : l.name = name}

\* free_listener, for each of a set: unlinked from both lists.
FreeListeners(ids) ==
  /\ listeners' = {l \in listeners : l.id \notin ids}
  /\ disc' = [t \in Transports |-> disc[t] \ ids]

-----------------------------------------------------------------------------
\* main

Online(t) ==
  /\ transport[t] \in {"none", "offline"} /\ t \notin ended
  /\ transport' = [transport EXCEPT ![t] = "online"]
  /\ UNCHANGED <<listeners, disc, made, asked, ended, threadVars, conns, late>>

\* Mutant: the walk of the disconnects stops at the first, which frees itself.
RunDisconnectsOnce(t) ==
  /\ FreeListeners({id \in disc[t] : id = CHOOSE first \in disc[t] : TRUE})
  /\ conns' = {c \in conns : c.on = t => ~ c.ready}

\* run_transport_disconnects: listener_disconnect, and remote_socket_disconnect for the
\* connections that have a remote socket.
RunDisconnects(t) ==
  /\ FreeListeners(disc[t])
  /\ conns' = {c \in conns : c.on = t => ~ c.ready}

\* The input thread ends: close_all_sockets.
InputThreadEnds(t) ==
  /\ transport[t] = "offline" /\ t \notin ended
  /\ ended' = ended \cup {t}
  /\ conns' = {c \in conns : c.on # t}
  /\ UNCHANGED <<transport, listeners, disc, made, asked, threadVars, late>>

Offline(t) ==
  /\ transport[t] = "online"
  /\ transport' = [transport EXCEPT ![t] = "offline"]
  /\ RunDisconnects(t)
  /\ UNCHANGED <<made, asked, ended, threadVars, late>>

\* transport_registration_func: off the list, the disconnects run again, freed.
Unregister(t) ==
  /\ transport[t] = "offline" /\ t \in ended
  /\ transport' = [transport EXCEPT ![t] = "gone"]
  /\ RunDisconnects(t)
  /\ UNCHANGED <<made, asked, ended, threadVars, late>>

\* connect_to_remote: the OPEN sent for a new socket, whose peer comes with the READY.
ConnectToRemote(l) ==
  [via |-> l.id, on |-> l.on, to |-> l.to, ready |-> FALSE, tardy |-> l.on \in ended]

\* listener_event_func: accept, and open the remote on the listener's transport.
\* On a transport that is gone the code writes to freed memory: not continued.
ListenerEvent(l) ==
  /\ ~ Gone(l.on) /\ Cardinality(conns) < MaxConns
  /\ conns' = conns \cup {ConnectToRemote(l)}
  /\ UNCHANGED <<transport, listeners, disc, made, asked, ended, threadVars, late>>

\* READY of the host: connect_to_remote's socket gets its peer.
ConnectionReady(c) ==
  /\ ~ c.ready /\ transport[c.on] = "online"
  /\ conns' = (conns \ {c}) \cup {[c EXCEPT !.ready = TRUE]}
  /\ UNCHANGED <<transport, listeners, disc, made, asked, ended, threadVars, late>>

ConnectionCloses(c) ==
  /\ conns' = conns \ {c}
  /\ UNCHANGED <<transport, listeners, disc, made, asked, ended, threadVars, late>>

-----------------------------------------------------------------------------
\* The service threads: handle_forward_request.

\* OKAY or FAIL, and the thread ends.
Replies(k) ==
  /\ thread' = [thread EXCEPT ![k] = Idle]
  /\ picked' = [picked EXCEPT ![k] = None]
  /\ unbound' = unbound \ {k}

Ask(k, r) ==
  /\ thread[k] = Idle /\ asked < MaxAsk
  /\ \E t \in Transports : transport[t] = "online"
  /\ asked' = asked + 1
  /\ thread' = [thread EXCEPT ![k] = r]
  /\ UNCHANGED <<transport, listeners, disc, made, ended, picked, unbound, conns, late>>

\* remove_all_listeners
KillAll(k) ==
  /\ thread[k].kind = "kill_all"
  /\ FreeListeners(IdsOf(listeners))
  /\ Replies(k)
  /\ UNCHANGED <<transport, made, asked, ended, conns, late>>

\* acquire_one_transport for any: the only one listed, if it is online.
Acquire(k) ==
  /\ thread[k].kind \in {"forward", "norebind", "kill"} /\ picked[k] = None
  /\ IF \E t \in Transports : Listed = {t} /\ transport[t] = "online"
       THEN picked' = [picked EXCEPT ![k] = CHOOSE t \in Transports : Listed = {t}]
            /\ UNCHANGED <<thread, unbound>>
       ELSE Replies(k)
  /\ UNCHANGED <<transport, listeners, disc, made, asked, ended, conns, late>>

\* remove_listener: the one of that name, whichever its transport.
Kill(k) ==
  /\ thread[k].kind = "kill" /\ picked[k] # None
  /\ FreeListeners(IdsOf(Named(thread[k].name)))
  /\ Replies(k)
  /\ UNCHANGED <<transport, made, asked, ended, conns, late>>

Tied(id, t) == late' = IF Gone(t) THEN late \cup {id} ELSE late \ {id}

\* install_listener on a name that is bound: the remote is replaced, and with the
\* transport the disconnect moves.
Rebind(k, l) ==
  LET t == picked[k]
  IN /\ listeners' = (listeners \ {l}) \cup {[l EXCEPT !.to = thread[k].to, !.on = t]}
     /\ IF l.on = t THEN UNCHANGED <<disc, late>>
        ELSE /\ disc' = [disc EXCEPT ![l.on] = @ \ {l.id}, ![t] = @ \cup {l.id}]
             /\ Tied(l.id, t)

\* Mutant: a request not to rebind is not heeded.
InstallRebinds(k) ==
  /\ thread[k].kind \in {"forward", "norebind"} /\ picked[k] # None /\ k \notin unbound
  /\ IF Named(thread[k].name) = {}
       THEN unbound' = unbound \cup {k} /\ UNCHANGED <<listeners, disc, late, thread, picked>>
       ELSE (\E l \in Named(thread[k].name) : Rebind(k, l)) /\ Replies(k)
  /\ UNCHANGED <<transport, made, asked, ended, conns>>

\* install_listener, the walk: a name that is bound is rebound unless that is not
\* wanted.
Install(k) ==
  /\ thread[k].kind \in {"forward", "norebind"} /\ picked[k] # None /\ k \notin unbound
  /\ IF Named(thread[k].name) = {}
       THEN unbound' = unbound \cup {k} /\ UNCHANGED <<listeners, disc, late, thread, picked>>
     ELSE IF thread[k].kind = "norebind"
       THEN Replies(k) /\ UNCHANGED <<listeners, disc, late>>
     ELSE (\E l \in Named(thread[k].name) : Rebind(k, l)) /\ Replies(k)
  /\ UNCHANGED <<transport, made, asked, ended, conns>>

\* local_name_to_fd gives a socket for a name, tcp or local, only if no other listens on it.
\* It fails also if another program does, or if the name is of no known kind.
CanListen(name) == Named(name) = {}

\* install_listener, the rest: the name is bound, or that fails.
Bind(k) ==
  /\ k \in unbound
  /\ \/ /\ made < MaxInstall
        /\ CanListen(thread[k].name)
        /\ made' = made + 1
        /\ listeners' = listeners \cup {[id |-> made + 1, name |-> thread[k].name,
                                         to |-> thread[k].to, on |-> picked[k]]}
        /\ disc' = [disc EXCEPT ![picked[k]] = @ \cup {made + 1}]
        /\ Tied(made + 1, picked[k])
        /\ Replies(k)
     \/ Replies(k) /\ UNCHANGED <<listeners, disc, made, late>>
  /\ UNCHANGED <<transport, asked, ended, conns>>

Next ==
  \/ \E t \in Transports : Online(t) \/ Offline(t) \/ InputThreadEnds(t) \/ Unregister(t)
  \/ \E l \in listeners : ListenerEvent(l)
  \/ \E c \in conns : ConnectionReady(c) \/ ConnectionCloses(c)
  \/ \E k \in Threads :
       \/ \E r \in Requests : Ask(k, r)
       \/ KillAll(k) \/ Acquire(k) \/ Kill(k) \/ Install(k) \/ Bind(k)

Spec == Init /\ [][Next]_vars

-----------------------------------------------------------------------------
\* Types.
TypeOK ==
  /\ transport \in [Transports -> {"none", "online", "offline", "gone"}]
  /\ listeners \subseteq [id : 1..MaxInstall, name : Names, to : Remotes, on : Transports]
  /\ disc \in [Transports -> SUBSET (1..MaxInstall)]
  /\ made \in 0..MaxInstall /\ asked \in 0..MaxAsk
  /\ thread \in [Threads -> Requests \cup {Idle}]
  /\ picked \in [Threads -> Transports \cup {None}]
  /\ conns \subseteq [via : 1..MaxInstall, on : Transports, to : Remotes, ready : BOOLEAN,
                    tardy : BOOLEAN]
  /\ ended \subseteq Transports
  /\ late \subseteq 1..MaxInstall /\ unbound \subseteq Threads

\* A transport's disconnects are exactly those in the listeners tied to it: going away
\* it frees what is its own and never a listener freed before or tied to another since
\* (free_listener and the rebinding of install_listener).
DisconnectsMatch ==
  \A t \in Transports : disc[t] = IdsOf({l \in listeners : l.on = t})

\* No name is bound twice, though two threads may both have found it unbound, over
\* different transports (only the bind itself can tell the second).
NamesUnique ==
  \A l, m \in listeners : l.name = m.name => l = m

\* No listener outlives its transport but one that a thread tied to it too late,
\* after it had acquired it and it was gone; nor does a connection, but one that was
\* accepted after close_all_sockets and not answered.
GoneTakesAll ==
  /\ \A l \in listeners : Gone(l.on) => l.id \in late
  /\ \A c \in conns : Gone(c.on) => c.tardy /\ ~ c.ready

\* A listener changes, or ends, only by a request that names it or all, or when its
\* own transport goes; and "norebind" never changes one, whatever was bound meanwhile.
KeptUnlessAsked ==
  \A l \in listeners :
    \/ l \in listeners'
    \/ transport[l.on] # transport'[l.on]
    \/ \E k \in Threads :
         /\ thread[k] # Idle /\ thread'[k] = Idle
         /\ \/ thread[k].kind = "kill_all"
            \/ thread[k].kind \in {"kill", "forward"} /\ thread[k].name = l.name

\* A new connection goes where its own listener leads.
ConnsFollow ==
  \A c \in conns' \ conns : ~ c.ready =>
    \E l \in listeners : c.via = l.id /\ c.on = l.on /\ c.to = l.to

\* The listeners (adb.c): one for each name, in the disconnects of its transport as long as
\* both live, and gone with it.
ListenersCorrect ==
  /\ TypeOK /\ DisconnectsMatch /\ NamesUnique /\ GoneTakesAll

\* What a step does to them: none is lost or turned unless that was asked, and connections are
\* made as they say.
ListenersChange == [][KeptUnlessAsked /\ ConnsFollow]_vars
=============================================================================

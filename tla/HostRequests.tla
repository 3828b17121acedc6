----------------------------- MODULE HostRequests -----------------------------
(***************************************************************************)
(* What adb commands ask of the host server: the smart sockets that take   *)
(* the requests apart (sockets.c), the answers (adb.c, services.c), the    *)
(* choice of a transport (transport.c) and the clients that read the       *)
(* answers (adb_client.c).                                                 *)
(***************************************************************************)
EXTENDS Naturals, Sequences, FiniteSets

CONSTANTS
  Askers,      \* adb commands
  Transports,  \* transports, each registered once at most
  Usb,         \* those that are USB devices
  Nobody

ASSUME HostAssumption == Usb \subseteq Transports /\ Nobody \notin Transports

\* What a command asks, and which transport it names: by its kind, or by its serial.
Kinds == {"version", "forward", "wait", "service", "unknown"}
Selectors == {"any", "usb", "local"} \cup Transports

VARIABLES
  list,       \* transport_list
  state,      \* connection_state of each; none before, gone when freed
  kind, sel,  \* what each command asks
  asks,       \* the request it makes: host, switch or service; or its end: ok, failed, fault
  owed,       \* how many more OKAYs it waits for
  got,        \* how much the smart socket has of the request: 0 or 1 part of 2, or 2
  socket,     \* smart, waits (for a thread), opens (at the device), lost or closed
  switched,   \* s->transport
  thread,     \* of wait_for_state: none, polls or found
  found,      \* the transport it looks at
  replies     \* what the client has not read

hostVars == <<list, state, kind, sel, asks, owed, got, socket, switched, thread, found, replies>>
requestVars == <<kind, sel, asks, owed, got, socket, switched, thread, found, replies>>

Set(f, c, v) == [f EXCEPT ![c] = v]
Running(c) == asks[c] \in {"host", "switch", "service"}
\* Statuses that the client reads before the answer to its request is complete.
StatusesOf(k) == IF k \in {"forward", "wait"} THEN 2 ELSE 1

HostInit ==
  /\ list = <<>> /\ state = [t \in Transports |-> "none"]
  /\ kind \in [Askers -> Kinds] /\ sel \in [Askers -> Selectors]
  /\ \A c \in Askers : kind[c] \in {"version", "unknown"} => sel[c] = "any"
  /\ asks = [c \in Askers |-> IF kind[c] = "service" THEN "switch" ELSE "host"]
  /\ owed = [c \in Askers |-> StatusesOf(kind[c])]
  /\ got = [c \in Askers |-> 0] /\ socket = [c \in Askers |-> "smart"]
  /\ switched = [c \in Askers |-> Nobody] /\ thread = [c \in Askers |-> "none"]
  /\ found = [c \in Askers |-> Nobody] /\ replies = [c \in Askers |-> <<>>]

-----------------------------------------------------------------------------
\* acquire_one_transport: what it finds while it holds the lock.

Matches(t, s) ==
  \/ s = t \/ s = "any"
  \/ s = "usb" /\ t \in Usb
  \/ s = "local" /\ t \notin Usb

\* The walk over the list, which ends at the second match.
Walk(s) ==
  LET walk[i \in 1 .. Len(list) + 1, result \in Transports \cup {Nobody}] ==
        CASE i > Len(list) -> [result |-> result, ambiguous |-> FALSE]
          [] i <= Len(list) /\ (state[list[i]] = "noperm" \/ ~ Matches(list[i], s)) ->
               walk[i + 1, result]
          [] OTHER -> IF result = Nobody THEN walk[i + 1, list[i]]
                      ELSE [result |-> Nobody, ambiguous |-> TRUE]
  IN walk[1, Nobody]

\* For CS_ANY: the result is not taken when it is unauthorized or offline.
Acquired(s) ==
  LET t == Walk(s).result
  IN IF t # Nobody /\ state[t] \in {"unauthorized", "offline"} THEN Nobody ELSE t

-----------------------------------------------------------------------------
\* Transports come, change and go; main closes the streams of one that goes, and only
\* those: what has switched to it keeps its pointer.

Appears(t) ==
  /\ state[t] = "none"
  /\ \E first \in {"offline"} \cup {"noperm" : u \in {t} \cap Usb} : state' = Set(state, t, first)
  /\ list' = Append(list, t)
  /\ UNCHANGED requestVars

Changes(t) ==
  /\ \/ state[t] = "offline"
        /\ \E next \in {"device", "unauthorized"} : state' = Set(state, t, next)
     \/ state[t] = "unauthorized" /\ state' = Set(state, t, "device")
     \/ state[t] = "device" /\ state' = Set(state, t, "offline")
  /\ UNCHANGED <<list, requestVars>>

Goes(t) ==
  /\ state[t] \notin {"none", "gone"}
  /\ state' = Set(state, t, "gone")
  /\ list' = SelectSeq(list, LAMBDA u : u # t)
  /\ socket' = [c \in Askers |-> IF socket[c] = "opens" /\ switched[c] = t THEN "closed"
                                      ELSE socket[c]]
  /\ replies' = [c \in Askers |-> IF socket[c] = "opens" /\ switched[c] = t
                                  THEN Append(replies[c], "EOF") ELSE replies[c]]
  /\ UNCHANGED <<kind, sel, asks, owed, got, switched, thread, found>>

-----------------------------------------------------------------------------
\* smart_socket_enqueue and what it calls.

\* A part of the request arrives; what came before is kept.
Fragment(c) ==
  /\ Running(c) /\ socket[c] = "smart" /\ got[c] = 0
  /\ got' = Set(got, c, 1)
  /\ UNCHANGED <<list, state, kind, sel, asks, owed, socket, switched, thread, found, replies>>

\* The socket answers; it closes the client's connection unless it stays for more.
Answer(c, statuses, next) ==
  /\ replies' = Set(replies, c, replies[c] \o (IF next = "closed" THEN Append(statuses, "EOF")
                                                    ELSE statuses))
  /\ socket' = Set(socket, c, next)

\* Mutant: who asks for what the server does not know is not answered.
HandleRestSilently(c) ==
  /\ Answer(c, IF kind[c] = "unknown" THEN <<>> ELSE <<"OKAY">>, "smart")
  /\ UNCHANGED <<switched, thread>>

\* handle_host_request, handle_forward_request and host_service_to_socket.
HandleForward(c) ==
  /\ \E listens \in BOOLEAN :
       Answer(c, IF Acquired(sel[c]) # Nobody /\ listens THEN <<"OKAY", "OKAY">> ELSE <<"FAIL">>,
              "closed")
  /\ UNCHANGED <<switched, thread>>
HandleWait(c) ==
  /\ Answer(c, <<"OKAY">>, "waits")
  /\ thread' = Set(thread, c, "polls") /\ UNCHANGED switched
HandleRest(c) ==
  /\ Answer(c, IF kind[c] = "unknown" THEN <<"FAIL">> ELSE <<"OKAY">>, "closed")
  /\ UNCHANGED <<switched, thread>>

HandleSwitch(c) ==
  /\ switched' = Set(switched, c, IF Acquired(sel[c]) # Nobody THEN Acquired(sel[c])
                                       ELSE switched[c])
  /\ Answer(c, IF Acquired(sel[c]) # Nobody THEN <<"OKAY">> ELSE <<"FAIL">>, "smart")
  /\ UNCHANGED thread

\* A service of the device.  A transport that is freed by now reads as any: the request may
\* be sent nowhere.
HandleService(c) ==
  /\ \/ state[switched[c]] \in {"offline", "gone"} /\ Answer(c, <<"FAIL">>, "closed")
     \/ state[switched[c]] \notin {"offline", "gone"} /\ Answer(c, <<>>, "opens")
     \/ state[switched[c]] = "gone" /\ Answer(c, <<>>, "lost")
  /\ UNCHANGED <<switched, thread>>

Request(c) ==
  /\ Running(c) /\ socket[c] = "smart" /\ got[c] < 2
  /\ got' = Set(got, c, 2)
  /\ CASE asks[c] = "switch" -> HandleSwitch(c)
       [] asks[c] = "service" -> HandleService(c)
       [] asks[c] = "host" /\ kind[c] = "forward" -> HandleForward(c)
       [] asks[c] = "host" /\ kind[c] = "wait" -> HandleWait(c)
       [] OTHER -> HandleRest(c)
  /\ UNCHANGED <<list, state, kind, sel, asks, owed, found>>

\* The device answers the request for a service (local_socket_ready_notify,
\* local_socket_close_notify).
Opens(c) ==
  /\ socket[c] = "opens" /\ state[switched[c]] = "device"
  /\ Answer(c, <<"OKAY">>, "closed") \/ Answer(c, <<"FAIL">>, "closed")
  /\ UNCHANGED <<list, state, kind, sel, asks, owed, got, switched, thread, found>>

-----------------------------------------------------------------------------
\* wait_for_state, in a thread: it looks at the transports under the lock, and at the one
\* it found after it.

Polls(c) ==
  /\ thread[c] = "polls"
  /\ LET w == Walk(sel[c])
     IN CASE w.result # Nobody -> /\ thread' = Set(thread, c, "found")
                                  /\ found' = Set(found, c, w.result)
                                  /\ UNCHANGED <<socket, replies>>
          [] w.ambiguous /\ sel[c] \notin Transports ->
               Answer(c, <<"FAIL">>, "closed")
               /\ thread' = Set(thread, c, "none") /\ UNCHANGED found
          [] OTHER -> UNCHANGED <<socket, replies, thread, found>>
  /\ UNCHANGED <<list, state, kind, sel, asks, owed, got, switched>>

\* The state may be that of a transport freed since, which reads as any.
Looks(c) ==
  /\ thread[c] = "found"
  /\ \/ /\ state[found[c]] \in {"device", "gone"}
        /\ Answer(c, <<"OKAY">>, "closed") /\ thread' = Set(thread, c, "none")
     \/ /\ state[found[c]] # "device"
        /\ thread' = Set(thread, c, "polls") /\ UNCHANGED <<socket, replies>>
  /\ found' = Set(found, c, Nobody)
  /\ UNCHANGED <<list, state, kind, sel, asks, owed, got, switched>>

-----------------------------------------------------------------------------
\* The client: adb_status as often as its request is answered, the switch before the
\* service (adb_connect, adb_command, adb_query, switch_socket_transport).
Reads(c) ==
  /\ Running(c) /\ replies[c] # <<>>
  /\ replies' = Set(replies, c, Tail(replies[c]))
  /\ CASE Head(replies[c]) = "EOF" -> asks' = Set(asks, c, "fault") /\ UNCHANGED <<owed, got>>
       [] Head(replies[c]) = "FAIL" -> asks' = Set(asks, c, "failed") /\ UNCHANGED <<owed, got>>
       [] OTHER -> IF asks[c] = "switch"
                   THEN asks' = Set(asks, c, "service") /\ got' = Set(got, c, 0) /\ UNCHANGED owed
                   ELSE /\ owed' = Set(owed, c, owed[c] - 1) /\ UNCHANGED got
                        /\ asks' = Set(asks, c, IF owed[c] = 1 THEN "ok" ELSE asks[c])
  /\ UNCHANGED <<list, state, kind, sel, socket, switched, thread, found>>

AskerStep(c) == Request(c) \/ Opens(c) \/ Polls(c) \/ Looks(c) \/ Reads(c)

HostNext ==
  \/ \E t \in Transports : Appears(t) \/ Changes(t) \/ Goes(t)
  \/ \E c \in Askers : Fragment(c) \/ AskerStep(c)

-----------------------------------------------------------------------------
HostTypeOK ==
  /\ \A i \in 1 .. Len(list) : list[i] \in Transports /\ state[list[i]] \notin {"none", "gone"}
  /\ state \in [Transports -> {"none", "offline", "device", "noperm", "unauthorized", "gone"}]
  /\ asks \in [Askers -> {"host", "switch", "service", "ok", "failed", "fault"}]
  /\ owed \in [Askers -> 0 .. 2] /\ got \in [Askers -> 0 .. 2]
  /\ socket \in [Askers -> {"smart", "waits", "opens", "lost", "closed"}]
  /\ thread \in [Askers -> {"none", "polls", "found"}]
  /\ \A c \in Askers : thread[c] = "found" <=> found[c] \in Transports

\* Whatever the order of the list, the one transport that matches and may be used is taken,
\* and none when there are more (acquire_one_transport).
ChosenAlone ==
  \A s \in Selectors :
    LET fit == {t \in Transports : state[t] \notin {"none", "gone", "noperm"} /\ Matches(t, s)}
    IN Walk(s) = [result |-> IF Cardinality(fit) = 1 THEN CHOOSE t \in fit : TRUE ELSE Nobody,
                  ambiguous |-> Cardinality(fit) > 1]

\* Server and clients agree on how many statuses answer a request: no client finds the
\* connection closed instead of one, unless the device went as it opened the service, and
\* none is left unread (handle_host_request, adb_command).
StatusForEach ==
  \A c \in Askers :
    /\ asks[c] = "fault" => kind[c] = "service" /\ state[switched[c]] = "gone"
    /\ asks[c] \in {"ok", "failed"} => \A i \in 1 .. Len(replies[c]) : replies[c][i] = "EOF"

\* Who asks is answered; a service only if its device stays and answers (smart_socket_enqueue).
AskersAnswered ==
  \A c \in Askers :
    got[c] = 2 /\ Running(c) /\ kind[c] # "wait"
      ~> ~ Running(c) \/ got[c] = 0 \/ socket[c] = "opens" \/ socket[c] = "lost"

\* A wait ends once the device is there to stay, alone of those it may mean
\* (wait_for_state, acquire_one_transport).
Ready(c) ==
  kind[c] = "wait" /\ Walk(sel[c]).result # Nobody /\ state[Walk(sel[c]).result] = "device"
WaitsEnd == \A c \in Askers : kind[c] = "wait" => []<> (~ Ready(c) \/ ~ Running(c))

\* Requests to the server (adb.c, transport.c, sockets.c): the transport chosen is the only one
\* meant, every request gets its statuses, and waits end.
RequestsCorrect ==
  /\ []HostTypeOK /\ []ChosenAlone /\ []StatusForEach
  /\ AskersAnswered /\ WaitsEnd
=============================================================================

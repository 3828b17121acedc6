------------------------------ MODULE AdbServer ------------------------------
(***************************************************************************)
(* adb commands and the server they share (adb_client.c, adb.c): each asks *)
(* the server for its version, replaces one of another version, starts one *)
(* where there is none, and then makes its request.                        *)
(***************************************************************************)
EXTENDS Naturals, FiniteSets

CONSTANTS
  Clients,    \* adb commands; each launches one server at most, which has its name
  VersionOf,  \* ADB_SERVER_VERSION of each
  StartOnly,  \* those that are `adb start-server`
  First,      \* the server that may run before
  None

ASSUME ServerAssumption == /\ StartOnly \subseteq Clients
                           /\ First \notin Clients /\ None \notin Clients \cup {First}
                           /\ None \notin {"dying", "nofork"}

Servers == Clients \cup {First}
Versions == {VersionOf[c] : c \in Clients}

VARIABLES
  client,   \* start, asked, kill, killing, launch, launched, request, requested, served, failed
  server,   \* none, starts, bound, listens, dying, exited or refused
  first,    \* the version of First
  conn,     \* the server a client last connected to
  \* history: why a client failed, the servers there when it last knew the version (its own
  \* server's OK, or the answer), what
  \* state the holder of the port was in when its own was refused
  why, known, blocker

serverVars == <<client, server, first, conn, why, known, blocker>>

Version(s) == IF s = First THEN first ELSE VersionOf[s]
Holders == {s \in Servers : server[s] \in {"bound", "listens", "dying"}}
There == {s \in Servers : server[s] \notin {"none", "starts"}}
ClientGoes(c, step) == client' = [client EXCEPT ![c] = step]
ServerGoes(s, state) == server' = [server EXCEPT ![s] = state]

ServerInit ==
  /\ client = [c \in Clients |-> "start"]
  /\ first \in Versions
  /\ \E runs \in {"none", "listens"} :
       server = [s \in Servers |-> IF s = First THEN runs ELSE "none"]
  /\ conn = [c \in Clients |-> None] /\ why = [c \in Clients |-> None]
  /\ known = [c \in Clients |-> {}] /\ blocker = [c \in Clients |-> None]

\* _adb_connect: no one listens (-2), or the listener's queue takes the connection.
Connect(c, at, next, refused) ==
  /\ client[c] = at
  /\ IF Holders = {} THEN ClientGoes(c, refused) /\ UNCHANGED conn
     ELSE \E s \in Holders : conn' = [conn EXCEPT ![c] = s] /\ ClientGoes(c, next)

Fails(c, reason) == ClientGoes(c, "failed") /\ why' = [why EXCEPT ![c] = reason]

-----------------------------------------------------------------------------
\* adb_connect.

AsksVersion(c) ==
  /\ Connect(c, "start", "asked", "launch")
  /\ UNCHANGED <<server, first, why, known, blocker>>

\* The server answers, and is out of date or not.
Answered(c) ==
  /\ client[c] = "asked" /\ server[conn[c]] = "listens"
  /\ ClientGoes(c, IF Version(conn[c]) # VersionOf[c] THEN "kill"
             ELSE IF c \in StartOnly THEN "served" ELSE "request")
  /\ known' = [known EXCEPT ![c] = There]
  /\ UNCHANGED <<server, first, conn, why, blocker>>

\* The server exits before it answers: no status, and that is no old server's error.
Unanswered(c) ==
  /\ client[c] \in {"asked", "requested"} /\ server[conn[c]] = "exited"
  /\ Fails(c, "fault")
  /\ UNCHANGED <<server, first, conn, known, blocker>>

\* host:kill goes to whatever server listens now; what comes of it is not looked at.
SendsKill(c) ==
  /\ Connect(c, "kill", "killing", "launch")
  /\ UNCHANGED <<server, first, why, known, blocker>>

Killed(c) ==
  /\ client[c] = "killing"
  /\ \/ server[conn[c]] = "listens" /\ ServerGoes(conn[c], "dying")
     \/ server[conn[c]] = "exited" /\ UNCHANGED server
  /\ ClientGoes(c, "launch")
  /\ UNCHANGED <<first, conn, why, known, blocker>>

\* launch_server, after the two seconds if one was killed.
Launches(c) ==
  /\ client[c] = "launch"
  /\ \/ ServerGoes(c, "starts") /\ ClientGoes(c, "launched") /\ UNCHANGED why
     \/ Fails(c, "nofork") /\ UNCHANGED server
  /\ UNCHANGED <<first, conn, known, blocker>>

\* The pipe brings OK, or its end: the server exits when it cannot bind.
Launched(c) ==
  /\ client[c] = "launched"
  /\ \/ /\ server[c] \in {"listens", "dying", "exited"}
        /\ ClientGoes(c, IF c \in StartOnly THEN "served" ELSE "request")
        /\ UNCHANGED why
     \/ server[c] = "refused" /\ Fails(c, "noack")
  /\ UNCHANGED <<server, first, conn, known, blocker>>

\* After three seconds; the version is not asked again.
Requests(c) ==
  /\ Connect(c, "request", "requested", "failed")
  /\ why' = [why EXCEPT ![c] = IF Holders = {} THEN "gone" ELSE @]
  /\ UNCHANGED <<server, first, known, blocker>>

Served(c) ==
  /\ client[c] = "requested" /\ server[conn[c]] = "listens"
  /\ ClientGoes(c, "served")
  /\ UNCHANGED <<server, first, conn, why, known, blocker>>

-----------------------------------------------------------------------------
\* A server.

\* Mutant: it tries until the port is free.
BindsInTime(s) ==
  /\ server[s] = "starts" /\ Holders = {} /\ ServerGoes(s, "bound")
  /\ UNCHANGED <<client, first, conn, why, known, blocker>>
Binds(s) ==
  /\ server[s] = "starts"
  /\ IF Holders = {} THEN ServerGoes(s, "bound") /\ UNCHANGED blocker
     ELSE /\ ServerGoes(s, "refused")
          /\ \E h \in Holders : blocker' = [blocker EXCEPT ![s] = server[h]]
  /\ UNCHANGED <<client, first, conn, why, known>>

Acks(s) ==
  /\ server[s] = "bound" /\ ServerGoes(s, "listens")
  /\ known' = [known EXCEPT ![s] = There]
  /\ UNCHANGED <<client, first, conn, why, blocker>>

Exits(s) ==
  /\ server[s] = "dying" /\ ServerGoes(s, "exited")
  /\ UNCHANGED <<client, first, conn, why, known, blocker>>

ClientStep(c) ==
  \/ AsksVersion(c) \/ Answered(c) \/ Unanswered(c) \/ SendsKill(c) \/ Killed(c)
  \/ Launches(c) \/ Launched(c) \/ Requests(c) \/ Served(c)
ServerStep(s) == (s # First /\ Binds(s)) \/ Acks(s) \/ Exits(s)

ServerNext == (\E c \in Clients : ClientStep(c)) \/ (\E s \in Servers : ServerStep(s))

-----------------------------------------------------------------------------
Ended(c) == client[c] \in {"served", "failed"}

\* The types, and one process at most has the port (install_listener fails for the others).
ServerTypeOK ==
  /\ client \in [Clients -> {"start", "asked", "kill", "killing", "launch", "launched",
                             "request", "requested", "served", "failed"}]
  /\ server \in [Servers -> {"none", "starts", "bound", "listens", "dying", "exited", "refused"}]
  /\ first \in Versions /\ conn \in [Clients -> Servers \cup {None}]
  /\ Cardinality(Holders) <= 1

\* A server of another version serves a client only when it came after the client last knew
\* what runs (adb_connect: the request goes to whatever listens then).
ServedByItsVersion ==
  \A c \in Clients :
    client[c] = "served" /\ c \notin StartOnly =>
      Version(conn[c]) = VersionOf[c] \/ conn[c] \notin known[c]

\* A command fails only if its server could not be forked, or did not get the port, or one
\* was killed: with no other command at work it fails only when the server it killed is slow.
FailuresExplained ==
  \A c \in Clients :
    client[c] = "failed" =>
      \/ why[c] = "nofork"
      \/ why[c] = "noack" /\ \/ blocker[c] = "dying"
                             \/ \E d \in Clients \ {c} : client[d] \notin {"start", "asked"}
      \/ \E s \in Servers, d \in Clients \ {c} :
           /\ server[s] \in {"dying", "exited"} /\ VersionOf[d] # VersionOf[c]
           /\ why[c] \in {"fault", "gone"}

\* When all commands have ended a server runs, unless one could not be forked or was
\* refused the port by one that was dying: who kills a server starts one (adb_connect).
ServerRemains ==
  (\A c \in Clients : Ended(c)) /\ (\A s \in Servers : server[s] # "dying") =>
    \/ \E c \in Clients : why[c] = "nofork" \/ blocker[c] = "dying"
    \/ \E s \in Servers : server[s] = "listens"

\* Every command ends, whatever the others kill.
CommandsEnd == \A c \in Clients : client[c] \in {"asked", "launched"} ~> Ended(c)

\* Clients and the server they start (adb_client.c, adb.c): served by their own version or
\* failing for a reason, and over in the end.
ServerCorrect ==
  /\ []ServerTypeOK /\ []ServedByItsVersion /\ []FailuresExplained /\ []ServerRemains
  /\ CommandsEnd
=============================================================================

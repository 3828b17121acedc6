------------------------- MODULE HostCommandsProofs -------------------------
(***************************************************************************)
(* Proofs about adb's commands and the server they share (MCHostCommands): *)
(* who gets the server's port, for any clients and versions; what answers  *)
(* a request; what an interactive shell sends; what a command leaves on the*)
(* device; which blocks sideload sends.                                    *)
(***************************************************************************)
EXTENDS AdbServer, HostRequests, AdbCommands, AdbSideload, InteractiveShell,
        FiniteSetTheorems, TLAPS

-----------------------------------------------------------------------------
\* The clients of adb's server (AdbServer).

ServerTypes ==
  /\ client \in [Clients -> {"start", "asked", "kill", "killing", "launch", "launched",
                             "request", "requested", "served", "failed"}]
  /\ server \in [Servers -> {"none", "starts", "bound", "listens", "dying", "exited", "refused"}]
  /\ first \in Versions /\ conn \in [Clients -> Servers \cup {None}]
  /\ why \in [Clients -> {None, "nofork", "noack", "fault", "gone"}]
  /\ known \in [Clients -> SUBSET Servers]
  /\ blocker \in [Clients -> {None, "bound", "listens", "dying"}]

OneHolder == \A s, r \in Holders : s = r

\* The first server is not started by a client.
FirstOK == server[First] \in {"none", "listens", "dying", "exited"}

\* How far a client is and how far its server is, and what is noted of them, go together.
PhaseOK(c) ==
  /\ client[c] \in {"start", "asked", "kill", "killing", "launch"} => server[c] = "none"
  /\ server[c] \in {"starts", "bound"} => client[c] = "launched"
  /\ client[c] \in {"asked", "killing", "requested"} => conn[c] \in Servers
  /\ why[c] = "nofork" => client[c] = "failed"
  /\ blocker[c] = "dying" => server[c] = "refused"

\* Who launches a server found no one to ask, or killed what it asked.
FirstGone(c) ==
  /\ client[c] \in {"launch", "launched"} => server[First] # "listens"
  /\ client[c] = "killing" /\ conn[c] # First => server[First] # "listens"

\* What a client knows of when it goes to make its request is of its version, or over.
KnowsOK(c) ==
  client[c] \in {"request", "requested", "served"} \/ server[c] \in {"listens", "dying", "exited"}
    => \A s \in known[c] : Version(s) = VersionOf[c] \/ server[s] \in {"exited", "refused"}

\* A request went to a server of the client's version, or to one it did not know of.
SentOK(c) ==
  client[c] = "requested" \/ (client[c] = "served" /\ c \notin StartOnly)
    => Version(conn[c]) = VersionOf[c] \/ conn[c] \notin known[c]

\* A server is refused the port by one that is dying, or that another client was about to use.
RefusedOK(c) ==
  server[c] = "refused" => \/ blocker[c] = "dying"
                           \/ \E d \in Clients \ {c} : client[d] \notin {"start", "asked"}

\* A server was there when a client goes to make its request.
WasThere(c) ==
  client[c] \in {"request", "requested"} =>
    \E s \in Servers : server[s] \in {"listens", "dying", "exited"}

\* FailuresExplained, of one client.
FailedOK(c) ==
  client[c] = "failed" =>
    \/ why[c] = "nofork"
    \/ why[c] = "noack" /\ \/ blocker[c] = "dying"
                           \/ \E d \in Clients \ {c} : client[d] \notin {"start", "asked"}
    \/ \E s \in Servers, d \in Clients \ {c} :
         /\ server[s] \in {"dying", "exited"} /\ VersionOf[d] # VersionOf[c]
         /\ why[c] \in {"fault", "gone"}

ClientOK(c) ==
  /\ PhaseOK(c) /\ FirstGone(c) /\ KnowsOK(c) /\ SentOK(c) /\ RefusedOK(c) /\ WasThere(c)
  /\ FailedOK(c)

\* A server is killed only where the clients are of two versions.
KillersDiffer ==
  \/ \E c \in Clients : client[c] \in {"kill", "killing"}
  \/ \E s \in Servers : server[s] \in {"dying", "exited"}
  => \E a, b \in Clients : VersionOf[a] # VersionOf[b]

\* A server is there or about to be, unless one could not be forked or met one that was dying.
ServerToBe ==
  \/ \E c \in Clients : why[c] = "nofork" \/ blocker[c] = "dying"
  \/ \E s \in Servers : server[s] \in {"starts", "bound", "listens"}
  \/ \E c \in Clients : client[c] \in {"kill", "killing", "launch"}
  \/ (\A s \in Servers : server[s] = "none") /\ (\A c \in Clients : client[c] = "start")

ServerInv ==
  /\ ServerTypes /\ OneHolder /\ FirstOK /\ KillersDiffer /\ ServerToBe
  /\ \A c \in Clients : ClientOK(c)

ServerSafe == ServerTypeOK /\ ServedByItsVersion /\ FailuresExplained /\ ServerRemains


\* The server's own progress: it does not go back, and the first server is not started.
Progress ==
  /\ \A s \in Servers : /\ server[s] = "exited" => server'[s] = "exited"
                        /\ server[s] = "refused" => server'[s] = "refused"
                        /\ server[s] = "dying" => server'[s] \in {"dying", "exited"}
                        /\ server[s] = "listens" => server'[s] \in {"listens", "dying"}
  /\ server'[First] = "listens" => server[First] = "listens"
  /\ first' = first

\* A client whose own entries stay, except that its server may go on to its end.
Stays(c) ==
  /\ client'[c] = client[c] /\ conn'[c] = conn[c] /\ why'[c] = why[c]
  /\ known'[c] = known[c] /\ blocker'[c] = blocker[c]
  /\ \/ server'[c] = server[c]
     \/ server[c] \in {"listens", "dying"} /\ server'[c] \in {"dying", "exited"}

\* Who went past asking does not ask again.
AtWork ==
  \A d \in Clients : client[d] \notin {"start", "asked"} => client'[d] \notin {"start", "asked"}

LEMMA ClientServers == /\ \A c \in Clients : c \in Servers /\ c # First
                       /\ First \in Servers
  BY ServerAssumption DEF ServerAssumption, Servers

LEMMA StaysKeeps ==
  ASSUME ServerInv, Progress, AtWork, NEW c \in Clients, Stays(c)
  PROVE  ClientOK(c)'
<1>1. ClientOK(c) /\ c \in Servers /\ First \in Servers /\ known[c] \subseteq Servers
  BY ClientServers DEF ServerInv, ServerTypes
<1>2. PhaseOK(c)'
  BY <1>1 DEF ClientOK, PhaseOK, Stays
<1>3. FirstGone(c)'
  BY <1>1 DEF ClientOK, FirstGone, Stays, Progress
<1>4. KnowsOK(c)'
  BY <1>1 DEF ClientOK, KnowsOK, Stays, Progress, Version
<1>5. SentOK(c)'
  BY <1>1 DEF ClientOK, SentOK, Stays, Progress, Version
<1>6. RefusedOK(c)'
  BY <1>1 DEF ClientOK, RefusedOK, Stays, AtWork
<1>7. WasThere(c)'
  BY <1>1 DEF ClientOK, WasThere, Stays, Progress
<1>8. FailedOK(c)'
  BY <1>1 DEF ClientOK, FailedOK, Stays, Progress, AtWork
<1> QED
  BY <1>2, <1>3, <1>4, <1>5, <1>6, <1>7, <1>8 DEF ClientOK

\* A step of one client that leaves the servers as they are keeps the rest when it keeps what
\* is said of the client.
Alone(c) ==
  /\ UNCHANGED <<server, first, blocker>>
  /\ \A d \in Clients \ {c} : /\ client'[d] = client[d] /\ conn'[d] = conn[d]
                              /\ why'[d] = why[d] /\ known'[d] = known[d]
  /\ client[c] \notin {"start", "asked"} => client'[c] \notin {"start", "asked"}

LEMMA AloneKeeps ==
  ASSUME ServerInv, NEW c \in Clients, Alone(c), ServerTypes', ClientOK(c)',
         KillersDiffer', ServerToBe'
  PROVE  ServerInv'
<1>1. Progress
  BY DEF Alone, Progress
<1>2. AtWork
  BY DEF Alone, AtWork
<1>3. \A d \in Clients \ {c} : Stays(d)
  BY DEF Alone, Stays
<1>4. \A d \in Clients : ClientOK(d)'
  BY <1>1, <1>2, <1>3, StaysKeeps
<1>5. OneHolder' /\ FirstOK'
  BY DEF ServerInv, Alone, OneHolder, Holders, FirstOK
<1> QED
  BY <1>4, <1>5 DEF ServerInv

LEMMA ServersStay ==
  ASSUME ServerInv, NEW c \in Clients, server' = server
  PROVE  /\ c \in Servers /\ c # First /\ First \in Servers
         /\ ClientOK(c) /\ ServerTypes /\ KillersDiffer /\ ServerToBe /\ Holders' = Holders
  BY ClientServers DEF ServerInv, Holders

LEMMA HoldersAre ==
  ASSUME ServerInv
  PROVE  /\ Holders \subseteq Servers
         /\ \A s \in Holders : server[s] \in {"bound", "listens", "dying"}
         /\ \A s \in Servers \ Holders : server[s] \notin {"bound", "listens", "dying"}
  BY DEF Holders

\* adb_connect asks for the version.
LEMMA AsksVersionKeeps ==
  ASSUME ServerInv, NEW c \in Clients, AsksVersion(c)
  PROVE  ServerInv'
<1>1. /\ client[c] = "start" /\ UNCHANGED <<server, first, why, known, blocker>>
      /\ \/ Holders = {} /\ client' = [client EXCEPT ![c] = "launch"] /\ conn' = conn
         \/ \E s \in Holders : /\ conn' = [conn EXCEPT ![c] = s]
                               /\ client' = [client EXCEPT ![c] = "asked"]
  BY DEF AsksVersion, Connect, ClientGoes
<1>2. /\ c \in Servers /\ c # First /\ First \in Servers
      /\ ClientOK(c) /\ ServerTypes /\ KillersDiffer /\ ServerToBe
  BY <1>1, ServersStay
<1>3. ServerTypes'
  BY <1>1, <1>2, HoldersAre DEF ServerTypes
<1>4. Alone(c)
  BY <1>1, <1>2 DEF Alone, ServerTypes
<1>5. \/ Holders = {} /\ client'[c] = "launch"
      \/ client'[c] = "asked" /\ conn'[c] \in Holders
  BY <1>1, <1>2, HoldersAre DEF ServerTypes
<1>6. ClientOK(c)'
  <2>1. PhaseOK(c)'
    BY <1>1, <1>2, <1>5, HoldersAre DEF ClientOK, PhaseOK
  <2>2. FirstGone(c)'
    BY <1>1, <1>2, <1>5, HoldersAre DEF FirstGone
  <2>3. KnowsOK(c)' /\ SentOK(c)' /\ RefusedOK(c)' /\ WasThere(c)' /\ FailedOK(c)'
    BY <1>1, <1>2, <1>5 DEF ClientOK, PhaseOK, KnowsOK, SentOK, RefusedOK, WasThere, FailedOK
  <2> QED
    BY <2>1, <2>2, <2>3 DEF ClientOK
<1>7. KillersDiffer'
  BY <1>1, <1>2, <1>4, <1>5 DEF KillersDiffer, Alone
<1>8. ServerToBe'
  <2>1. CASE client'[c] = "launch"
    BY <2>1 DEF ServerToBe
  <2>2. CASE client'[c] = "asked" /\ conn'[c] \in Holders
    <3>1. ~ \A s \in Servers : server[s] = "none"
      BY <2>2, HoldersAre
    <3>2. \A d \in Clients : client[d] # client'[d] => client[d] = "start"
      BY <1>1, <1>4 DEF Alone
    <3> QED
      BY <1>1, <1>2, <3>1, <3>2 DEF ServerToBe
  <2> QED
    BY <1>5, <2>1, <2>2
<1> QED
  BY <1>3, <1>4, <1>6, <1>7, <1>8, AloneKeeps

\* What a client asked answers with its version.
LEMMA AnsweredKeeps ==
  ASSUME ServerInv, NEW c \in Clients, Answered(c)
  PROVE  ServerInv'
<1> DEFINE next == IF Version(conn[c]) # VersionOf[c] THEN "kill"
                   ELSE IF c \in StartOnly THEN "served" ELSE "request"
<1>1. /\ client[c] = "asked" /\ server[conn[c]] = "listens"
      /\ UNCHANGED <<server, first, conn, why, blocker>>
      /\ client' = [client EXCEPT ![c] = next] /\ known' = [known EXCEPT ![c] = There]
  BY DEF Answered, ClientGoes
<1>2. /\ c \in Servers /\ c # First /\ First \in Servers
      /\ ClientOK(c) /\ ServerTypes /\ KillersDiffer /\ ServerToBe
  BY <1>1, ServersStay
<1>3. /\ next \in {"kill", "served", "request"}
      /\ next # "kill" => Version(conn[c]) = VersionOf[c]
      /\ next = "kill" => Version(conn[c]) # VersionOf[c]
      /\ next = "served" => c \in StartOnly
  OBVIOUS
<1> HIDE DEF next
<1>4. There \subseteq Servers
  BY DEF There
<1>5. ServerTypes'
  BY <1>1, <1>2, <1>3, <1>4 DEF ServerTypes
<1>6. Alone(c)
  BY <1>1, <1>2, <1>3 DEF Alone, ServerTypes
<1>7. client'[c] = next /\ known'[c] = There /\ conn[c] \in Holders
  BY <1>1, <1>2 DEF ServerTypes, ClientOK, PhaseOK, Holders
<1>8. ClientOK(c)'
  <2>1. PhaseOK(c)'
    BY <1>1, <1>2, <1>3, <1>7 DEF ClientOK, PhaseOK
  <2>2. KnowsOK(c)'
    <3>1. server[c] = "none"
      BY <1>1, <1>2 DEF ClientOK, PhaseOK
    <3>2. \A s \in There : s = conn[c] \/ server[s] \in {"exited", "refused"}
      BY <1>2, <1>7 DEF There, Holders, OneHolder, ServerInv, ServerTypes
    <3> QED
      BY <1>1, <1>3, <1>7, <3>1, <3>2 DEF KnowsOK, Version
  <2>3. WasThere(c)'
    BY <1>1, <1>2, <1>7, HoldersAre DEF WasThere
  <2>4. FirstGone(c)' /\ SentOK(c)' /\ RefusedOK(c)' /\ FailedOK(c)'
    BY <1>1, <1>2, <1>3, <1>7 DEF ClientOK, PhaseOK, FirstGone, SentOK, RefusedOK, FailedOK
  <2> QED
    BY <2>1, <2>2, <2>3, <2>4 DEF ClientOK
<1>9. KillersDiffer'
  <2>1. CASE next = "kill"
    <3>1. \E b \in Clients : Version(conn[c]) = VersionOf[b]
      BY <1>2, <1>7 DEF ServerTypes, Version, Versions, Holders, Servers
    <3> QED
      BY <1>3, <2>1, <3>1 DEF KillersDiffer
  <2>2. CASE next # "kill"
    BY <1>1, <1>2, <1>3, <1>6, <1>7, <2>2 DEF KillersDiffer, Alone
  <2> QED
    BY <2>1, <2>2
<1>10. ServerToBe'
  BY <1>1, <1>7, HoldersAre DEF ServerToBe
<1> QED
  BY <1>5, <1>6, <1>8, <1>9, <1>10, AloneKeeps

\* What a client asked exited before it answered.
LEMMA UnansweredKeeps ==
  ASSUME ServerInv, NEW c \in Clients, Unanswered(c)
  PROVE  ServerInv'
<1>1. /\ client[c] \in {"asked", "requested"} /\ server[conn[c]] = "exited"
      /\ UNCHANGED <<server, first, conn, known, blocker>>
      /\ client' = [client EXCEPT ![c] = "failed"] /\ why' = [why EXCEPT ![c] = "fault"]
  BY DEF Unanswered, Fails, ClientGoes
<1>2. /\ c \in Servers /\ c # First /\ First \in Servers
      /\ ClientOK(c) /\ ServerTypes /\ KillersDiffer /\ ServerToBe
  BY <1>1, ServersStay
<1>3. ServerTypes'
  BY <1>1, <1>2 DEF ServerTypes
<1>4. Alone(c) /\ client'[c] = "failed" /\ why'[c] = "fault"
  BY <1>1, <1>2 DEF Alone, ServerTypes
<1>5. ClientOK(c)'
  <2>1. PhaseOK(c)'
    BY <1>1, <1>2, <1>4 DEF ClientOK, PhaseOK
  <2>2. FailedOK(c)'
    <3>1. conn[c] \in Servers
      BY <1>1, <1>2 DEF ClientOK, PhaseOK
    <3>2. \E d \in Clients \ {c} : VersionOf[d] # VersionOf[c]
      BY <1>1, <1>2, <3>1 DEF KillersDiffer
    <3> QED
      BY <1>1, <1>4, <3>1, <3>2 DEF FailedOK
  <2>3. FirstGone(c)' /\ KnowsOK(c)' /\ SentOK(c)' /\ RefusedOK(c)' /\ WasThere(c)'
    BY <1>1, <1>2, <1>4
       DEF ClientOK, FirstGone, KnowsOK, SentOK, RefusedOK, WasThere, Version, Alone
  <2> QED
    BY <2>1, <2>2, <2>3 DEF ClientOK
<1>6. KillersDiffer'
  BY <1>1, <1>2, <1>4 DEF KillersDiffer, Alone
<1>7. ServerToBe'
  BY <1>1, <1>2, <1>4 DEF ServerToBe, Alone, ClientOK, PhaseOK
<1> QED
  BY <1>3, <1>4, <1>5, <1>6, <1>7, AloneKeeps

\* host:kill goes to who listens.
LEMMA SendsKillKeeps ==
  ASSUME ServerInv, NEW c \in Clients, SendsKill(c)
  PROVE  ServerInv'
<1>1. /\ client[c] = "kill" /\ UNCHANGED <<server, first, why, known, blocker>>
      /\ \/ Holders = {} /\ client' = [client EXCEPT ![c] = "launch"] /\ conn' = conn
         \/ \E s \in Holders : /\ conn' = [conn EXCEPT ![c] = s]
                               /\ client' = [client EXCEPT ![c] = "killing"]
  BY DEF SendsKill, Connect, ClientGoes
<1>2. /\ c \in Servers /\ c # First /\ First \in Servers
      /\ ClientOK(c) /\ ServerTypes /\ KillersDiffer /\ ServerToBe
  BY <1>1, ServersStay
<1>3. ServerTypes'
  BY <1>1, <1>2, HoldersAre DEF ServerTypes
<1>4. Alone(c)
  BY <1>1, <1>2 DEF Alone, ServerTypes
<1>5. \/ Holders = {} /\ client'[c] = "launch"
      \/ client'[c] = "killing" /\ conn'[c] \in Holders
  BY <1>1, <1>2, HoldersAre DEF ServerTypes
<1>6. ClientOK(c)'
  <2>1. PhaseOK(c)'
    BY <1>1, <1>2, <1>5, HoldersAre DEF ClientOK, PhaseOK
  <2>2. FirstGone(c)'
    <3>1. server[First] = "listens" => First \in Holders
      BY <1>2 DEF Holders
    <3>2. \A s, r \in Holders : s = r
      BY DEF ServerInv, OneHolder
    <3> QED
      BY <1>1, <1>5, <3>1, <3>2 DEF FirstGone
  <2>3. KnowsOK(c)' /\ SentOK(c)' /\ RefusedOK(c)' /\ WasThere(c)' /\ FailedOK(c)'
    BY <1>1, <1>2, <1>5 DEF ClientOK, PhaseOK, KnowsOK, SentOK, RefusedOK, WasThere, FailedOK
  <2> QED
    BY <2>1, <2>2, <2>3 DEF ClientOK
<1>7. KillersDiffer'
  BY <1>1, <1>2 DEF KillersDiffer
<1>8. ServerToBe'
  BY <1>5 DEF ServerToBe
<1> QED
  BY <1>3, <1>4, <1>6, <1>7, <1>8, AloneKeeps

\* The pipe of its server brings OK, or its end.
LEMMA LaunchedKeeps ==
  ASSUME ServerInv, NEW c \in Clients, Launched(c)
  PROVE  ServerInv'
<1>1. /\ client[c] = "launched" /\ UNCHANGED <<server, first, conn, known, blocker>>
      /\ \/ /\ server[c] \in {"listens", "dying", "exited"} /\ why' = why
            /\ client' = [client EXCEPT ![c] = IF c \in StartOnly THEN "served" ELSE "request"]
         \/ /\ server[c] = "refused" /\ why' = [why EXCEPT ![c] = "noack"]
            /\ client' = [client EXCEPT ![c] = "failed"]
  BY DEF Launched, Fails, ClientGoes
<1>2. /\ c \in Servers /\ c # First /\ First \in Servers
      /\ ClientOK(c) /\ ServerTypes /\ KillersDiffer /\ ServerToBe
  BY <1>1, ServersStay
<1>3. ServerTypes'
  BY <1>1, <1>2 DEF ServerTypes
<1>4. Alone(c)
  BY <1>1, <1>2 DEF Alone, ServerTypes
<1>5. \/ /\ server[c] \in {"listens", "dying", "exited"} /\ why'[c] = why[c]
         /\ client'[c] = "request" \/ (client'[c] = "served" /\ c \in StartOnly)
      \/ server[c] = "refused" /\ why'[c] = "noack" /\ client'[c] = "failed"
  <2>1. c \in DOMAIN client /\ c \in DOMAIN why
    BY <1>2 DEF ServerTypes
  <2>2. CASE c \in StartOnly
    BY <1>1, <2>1, <2>2
  <2>3. CASE c \notin StartOnly
    BY <1>1, <2>1, <2>3
  <2> QED
    BY <2>2, <2>3
<1>6. ClientOK(c)'
  <2>1. PhaseOK(c)'
    BY <1>1, <1>2, <1>5 DEF ClientOK, PhaseOK
  <2>2. KnowsOK(c)'
    BY <1>1, <1>2, <1>5 DEF ClientOK, KnowsOK, Version
  <2>3. WasThere(c)' /\ FirstGone(c)' /\ SentOK(c)'
    BY <1>1, <1>2, <1>5 DEF WasThere, FirstGone, SentOK
  <2>4. RefusedOK(c)' /\ FailedOK(c)'
    <3>1. server[c] = "refused" =>
            \/ blocker[c] = "dying"
            \/ \E d \in Clients \ {c} : client'[d] \notin {"start", "asked"}
      BY <1>2, <1>4 DEF ClientOK, RefusedOK, Alone
    <3> QED
      BY <1>1, <1>5, <3>1 DEF RefusedOK, FailedOK
  <2> QED
    BY <2>1, <2>2, <2>3, <2>4 DEF ClientOK
<1>7. KillersDiffer'
  BY <1>1, <1>2, <1>4, <1>5 DEF KillersDiffer, Alone
<1>8. ServerToBe'
  <2>1. \A d \in Clients : client[d] \in {"kill", "killing", "launch"} => client'[d] = client[d]
    BY <1>1, <1>4 DEF Alone
  <2>2. \A d \in Clients : why[d] = "nofork" => why'[d] = why[d]
    BY <1>1, <1>2, <1>4 DEF Alone, ClientOK, PhaseOK
  <2> QED
    BY <1>1, <1>2, <2>1, <2>2 DEF ServerToBe
<1> QED
  BY <1>3, <1>4, <1>6, <1>7, <1>8, AloneKeeps

\* The request goes to who listens.
LEMMA RequestsKeeps ==
  ASSUME ServerInv, NEW c \in Clients, Requests(c)
  PROVE  ServerInv'
<1>1. /\ client[c] = "request" /\ UNCHANGED <<server, first, known, blocker>>
      /\ \/ /\ Holders = {} /\ client' = [client EXCEPT ![c] = "failed"] /\ conn' = conn
            /\ why' = [why EXCEPT ![c] = "gone"]
         \/ /\ Holders # {} /\ why' = why /\ client' = [client EXCEPT ![c] = "requested"]
            /\ \E s \in Holders : conn' = [conn EXCEPT ![c] = s]
  BY DEF Requests, Connect, ClientGoes, ServerInv, ServerTypes
<1>2. /\ c \in Servers /\ c # First /\ First \in Servers
      /\ ClientOK(c) /\ ServerTypes /\ KillersDiffer /\ ServerToBe
  BY <1>1, ServersStay
<1>3. ServerTypes'
  BY <1>1, <1>2, HoldersAre DEF ServerTypes
<1>4. Alone(c)
  BY <1>1, <1>2 DEF Alone, ServerTypes
<1>5. \/ Holders = {} /\ client'[c] = "failed" /\ why'[c] = "gone"
      \/ client'[c] = "requested" /\ conn'[c] \in Holders /\ why'[c] = why[c]
  BY <1>1, <1>2, HoldersAre DEF ServerTypes
<1>6. ClientOK(c)'
  <2>1. PhaseOK(c)'
    BY <1>1, <1>2, <1>5, HoldersAre DEF ClientOK, PhaseOK
  <2>2. KnowsOK(c)' /\ SentOK(c)'
    <3>1. \A s \in known[c] : Version(s) = VersionOf[c] \/ server[s] \in {"exited", "refused"}
      BY <1>1, <1>2 DEF ClientOK, KnowsOK
    <3>2. \A s \in known[c] : Version(s)' = Version(s)
      BY <1>1 DEF Version
    <3>4. KnowsOK(c)'
      BY <1>1, <3>1, <3>2 DEF KnowsOK
    <3>5. conn'[c] \in Holders /\ conn'[c] \in known[c] => Version(conn'[c]) = VersionOf[c]
      BY <3>1, HoldersAre
    <3>6. SentOK(c)'
      BY <1>1, <1>5, <3>5 DEF SentOK, Version
    <3> QED
      BY <3>4, <3>6
  <2>3. FirstGone(c)' /\ WasThere(c)' /\ RefusedOK(c)'
    BY <1>1, <1>2, <1>4, <1>5 DEF ClientOK, FirstGone, WasThere, RefusedOK, Alone
  <2>4. FailedOK(c)'
    <3>1. Holders = {} => \E s \in Servers : server[s] = "exited"
      BY <1>1, <1>2, HoldersAre DEF ClientOK, WasThere
    <3>2. Holders = {} => \E d \in Clients \ {c} : VersionOf[d] # VersionOf[c]
      BY <1>2, <3>1 DEF KillersDiffer
    <3> QED
      BY <1>1, <1>5, <3>1, <3>2 DEF FailedOK
  <2> QED
    BY <2>1, <2>2, <2>3, <2>4 DEF ClientOK
<1>7. KillersDiffer'
  BY <1>1, <1>2, <1>4, <1>5 DEF KillersDiffer, Alone
<1>8. ServerToBe'
  <2>1. \A d \in Clients : client[d] \in {"kill", "killing", "launch"} => client'[d] = client[d]
    BY <1>1, <1>4 DEF Alone
  <2>2. \A d \in Clients : why[d] = "nofork" => why'[d] = why[d]
    BY <1>1, <1>2, <1>4 DEF Alone, ClientOK, PhaseOK
  <2> QED
    BY <1>1, <1>2, <2>1, <2>2 DEF ServerToBe
<1> QED
  BY <1>3, <1>4, <1>6, <1>7, <1>8, AloneKeeps

\* The request is served.
LEMMA ServedKeeps ==
  ASSUME ServerInv, NEW c \in Clients, Served(c)
  PROVE  ServerInv'
<1>1. /\ client[c] = "requested" /\ server[conn[c]] = "listens"
      /\ UNCHANGED <<server, first, conn, why, known, blocker>>
      /\ client' = [client EXCEPT ![c] = "served"]
  BY DEF Served, ClientGoes
<1>2. /\ c \in Servers /\ c # First /\ First \in Servers
      /\ ClientOK(c) /\ ServerTypes /\ KillersDiffer /\ ServerToBe
  BY <1>1, ServersStay
<1>3. ServerTypes'
  BY <1>1, <1>2 DEF ServerTypes
<1>4. Alone(c) /\ client'[c] = "served"
  BY <1>1, <1>2 DEF Alone, ServerTypes
<1>5. ClientOK(c)'
  <2>1. PhaseOK(c)' /\ FirstGone(c)' /\ WasThere(c)' /\ FailedOK(c)'
    BY <1>1, <1>2, <1>4 DEF ClientOK, PhaseOK, FirstGone, WasThere, FailedOK
  <2>2. KnowsOK(c)' /\ SentOK(c)'
    BY <1>1, <1>2, <1>4 DEF ClientOK, KnowsOK, SentOK, Version
  <2>3. RefusedOK(c)'
    BY <1>1, <1>2, <1>4 DEF ClientOK, RefusedOK, Alone
  <2> QED
    BY <2>1, <2>2, <2>3 DEF ClientOK
<1>6. KillersDiffer'
  BY <1>1, <1>2, <1>4 DEF KillersDiffer, Alone
<1>7. ServerToBe'
  <2>1. \A d \in Clients : client[d] \in {"kill", "killing", "launch"} => client'[d] = client[d]
    BY <1>1, <1>4 DEF Alone
  <2>2. client[c] # "start"
    BY <1>1
  <2> QED
    BY <1>1, <1>2, <2>1, <2>2 DEF ServerToBe
<1> QED
  BY <1>3, <1>4, <1>5, <1>6, <1>7, AloneKeeps

\* launch_server: its own server starts, or cannot be forked.
LEMMA LaunchesKeeps ==
  ASSUME ServerInv, NEW c \in Clients, Launches(c)
  PROVE  ServerInv'
<1>1. /\ client[c] = "launch" /\ UNCHANGED <<first, conn, known, blocker>>
      /\ \/ /\ server' = [server EXCEPT ![c] = "starts"] /\ why' = why
            /\ client' = [client EXCEPT ![c] = "launched"]
         \/ /\ server' = server /\ why' = [why EXCEPT ![c] = "nofork"]
            /\ client' = [client EXCEPT ![c] = "failed"]
  BY DEF Launches, ServerGoes, ClientGoes, Fails
<1>2. /\ c \in Servers /\ c # First /\ First \in Servers
      /\ ClientOK(c) /\ ServerTypes /\ KillersDiffer /\ ServerToBe /\ server[c] = "none"
  BY <1>1, ClientServers DEF ServerInv, ClientOK, PhaseOK
<1>3. ServerTypes'
  BY <1>1, <1>2 DEF ServerTypes
<1>4. \/ server'[c] = "starts" /\ client'[c] = "launched" /\ why'[c] = why[c]
      \/ server'[c] = "none" /\ client'[c] = "failed" /\ why'[c] = "nofork"
  BY <1>1, <1>2 DEF ServerTypes
<1>5. /\ \A s \in Servers \ {c} : server'[s] = server[s]
      /\ \A d \in Clients \ {c} : client'[d] = client[d] /\ why'[d] = why[d]
  BY <1>1, <1>2 DEF ServerTypes
<1>6. Progress /\ AtWork
  BY <1>1, <1>2, <1>4, <1>5 DEF Progress, AtWork
<1>7. ClientOK(c)'
  <2>1. PhaseOK(c)'
    BY <1>1, <1>2, <1>4 DEF ClientOK, PhaseOK
  <2>2. FirstGone(c)'
    BY <1>1, <1>2, <1>4, <1>5 DEF ClientOK, FirstGone
  <2>3. KnowsOK(c)' /\ SentOK(c)' /\ RefusedOK(c)' /\ WasThere(c)' /\ FailedOK(c)'
    BY <1>4 DEF KnowsOK, SentOK, RefusedOK, WasThere, FailedOK
  <2> QED
    BY <2>1, <2>2, <2>3 DEF ClientOK
<1>8. \A d \in Clients : ClientOK(d)'
  <2>1. \A d \in Clients \ {c} : Stays(d)
    BY <1>1, <1>5, ClientServers DEF Stays
  <2> QED
    BY <1>6, <1>7, <2>1, StaysKeeps
<1>9. OneHolder' /\ FirstOK'
  <2>1. Holders' = Holders
    BY <1>2, <1>4, <1>5 DEF Holders
  <2> QED
    BY <1>2, <1>5, <2>1 DEF ServerInv, OneHolder, FirstOK
<1>10. KillersDiffer'
  BY <1>2, <1>4, <1>5 DEF KillersDiffer
<1>11. ServerToBe'
  BY <1>2, <1>4 DEF ServerToBe
<1> QED
  BY <1>3, <1>8, <1>9, <1>10, <1>11 DEF ServerInv

\* The server asked to go goes, or went.
LEMMA KilledKeeps ==
  ASSUME ServerInv, NEW c \in Clients, Killed(c)
  PROVE  ServerInv'
<1>1. /\ client[c] = "killing" /\ UNCHANGED <<first, conn, why, known, blocker>>
      /\ client' = [client EXCEPT ![c] = "launch"]
      /\ \/ server[conn[c]] = "listens" /\ server' = [server EXCEPT ![conn[c]] = "dying"]
         \/ server[conn[c]] = "exited" /\ server' = server
  BY DEF Killed, ServerGoes, ClientGoes
<1>2. /\ c \in Servers /\ c # First /\ First \in Servers
      /\ ClientOK(c) /\ ServerTypes /\ KillersDiffer /\ ServerToBe /\ server[c] = "none"
      /\ conn[c] \in Servers
  BY <1>1, ClientServers DEF ServerInv, ClientOK, PhaseOK
<1>3. ServerTypes'
  BY <1>1, <1>2 DEF ServerTypes
<1>4. /\ client'[c] = "launch"
      /\ \A d \in Clients \ {c} : client'[d] = client[d]
      /\ \A s \in Servers \ {conn[c]} : server'[s] = server[s]
      /\ \/ server[conn[c]] = "listens" /\ server'[conn[c]] = "dying"
         \/ server[conn[c]] = "exited" /\ server'[conn[c]] = "exited"
  BY <1>1, <1>2 DEF ServerTypes
<1>5. Progress /\ AtWork
  BY <1>1, <1>2, <1>4 DEF Progress, AtWork
<1>6. ClientOK(c)'
  <2>1. server'[c] = "none"
    BY <1>2, <1>4
  <2>2. PhaseOK(c)'
    BY <1>1, <1>2, <1>4, <2>1 DEF ClientOK, PhaseOK
  <2>3. FirstGone(c)'
    BY <1>1, <1>2, <1>4 DEF ClientOK, FirstGone
  <2>4. KnowsOK(c)' /\ SentOK(c)' /\ RefusedOK(c)' /\ WasThere(c)' /\ FailedOK(c)'
    BY <1>4, <2>1 DEF KnowsOK, SentOK, RefusedOK, WasThere, FailedOK
  <2> QED
    BY <2>2, <2>3, <2>4 DEF ClientOK
<1>7. \A d \in Clients : ClientOK(d)'
  <2>1. \A d \in Clients \ {c} : Stays(d)
    BY <1>1, <1>2, <1>4, ClientServers DEF Stays
  <2> QED
    BY <1>5, <1>6, <2>1, StaysKeeps
<1>8. OneHolder' /\ FirstOK'
  <2>1. Holders' = Holders
    BY <1>2, <1>4 DEF Holders
  <2> QED
    BY <1>2, <1>4, <2>1 DEF ServerInv, OneHolder, FirstOK
<1>9. KillersDiffer'
  BY <1>1, <1>2 DEF KillersDiffer
<1>10. ServerToBe'
  BY <1>4 DEF ServerToBe
<1> QED
  BY <1>3, <1>7, <1>8, <1>9, <1>10 DEF ServerInv

\* A server binds the port, or exits where another has it.
LEMMA BindsKeeps ==
  ASSUME ServerInv, NEW c \in Clients, Binds(c)
  PROVE  ServerInv'
<1>1. /\ server[c] = "starts" /\ UNCHANGED <<client, first, conn, why, known>>
      /\ \/ Holders = {} /\ server' = [server EXCEPT ![c] = "bound"] /\ blocker' = blocker
         \/ /\ server' = [server EXCEPT ![c] = "refused"]
            /\ \E h \in Holders : blocker' = [blocker EXCEPT ![c] = server[h]]
  BY DEF Binds, ServerGoes
<1>2. /\ c \in Servers /\ c # First /\ First \in Servers
      /\ ClientOK(c) /\ ServerTypes /\ KillersDiffer /\ ServerToBe /\ client[c] = "launched"
  BY <1>1, ClientServers DEF ServerInv, ClientOK, PhaseOK
<1>3. ServerTypes'
  BY <1>1, <1>2, HoldersAre DEF ServerTypes
<1>4. /\ \A s \in Servers \ {c} : server'[s] = server[s]
      /\ \A d \in Clients \ {c} : blocker'[d] = blocker[d]
      /\ \/ Holders = {} /\ server'[c] = "bound" /\ blocker'[c] = blocker[c]
         \/ /\ server'[c] = "refused"
            /\ \E h \in Holders : blocker'[c] = server[h]
  BY <1>1, <1>2 DEF ServerTypes
<1>5. Progress /\ AtWork
  BY <1>1, <1>2, <1>4 DEF Progress, AtWork
<1>6. ClientOK(c)'
  <2>1. PhaseOK(c)'
    BY <1>1, <1>2, <1>4 DEF ClientOK, PhaseOK
  <2>2. FirstGone(c)'
    BY <1>1, <1>2, <1>4 DEF ClientOK, FirstGone
  <2>3. RefusedOK(c)'
    <3> SUFFICES ASSUME server'[c] = "refused", blocker'[c] # "dying"
                 PROVE  \E d \in Clients \ {c} : client[d] \notin {"start", "asked"}
      BY <1>1 DEF RefusedOK
    <3>1. PICK h \in Holders : blocker'[c] = server[h]
      BY <1>4
    <3>2. h \in Servers /\ server[h] \in {"bound", "listens"} /\ h # c
      BY <1>1, <3>1, HoldersAre
    <3>3. h # First
      BY <1>2, <3>2 DEF ClientOK, FirstGone, ServerInv, FirstOK
    <3>4. h \in Clients /\ ClientOK(h)
      BY <3>2, <3>3 DEF Servers, ServerInv
    <3> QED
      BY <3>2, <3>4 DEF ClientOK, PhaseOK
  <2>4. KnowsOK(c)' /\ SentOK(c)' /\ WasThere(c)' /\ FailedOK(c)'
    BY <1>1, <1>2, <1>4 DEF KnowsOK, SentOK, WasThere, FailedOK
  <2> QED
    BY <2>1, <2>2, <2>3, <2>4 DEF ClientOK
<1>7. \A d \in Clients : ClientOK(d)'
  <2>1. \A d \in Clients \ {c} : Stays(d)
    BY <1>1, <1>4, ClientServers DEF Stays
  <2> QED
    BY <1>5, <1>6, <2>1, StaysKeeps
<1>8. OneHolder' /\ FirstOK'
  <2>1. Holders' = IF server'[c] = "bound" THEN {c} ELSE Holders
    BY <1>1, <1>2, <1>4 DEF Holders
  <2> QED
    BY <1>2, <1>4, <2>1 DEF ServerInv, OneHolder, FirstOK
<1>9. KillersDiffer'
  BY <1>1, <1>2, <1>4 DEF KillersDiffer
<1>10. ServerToBe'
  <2>1. CASE server'[c] = "bound"
    BY <1>2, <2>1 DEF ServerToBe
  <2>2. CASE server'[c] = "refused"
    <3>1. PICK h \in Holders : blocker'[c] = server[h]
      BY <1>4, <2>2
    <3>2. h \in Servers /\ h # c /\ server[h] \in {"bound", "listens", "dying"}
      BY <1>1, <3>1, HoldersAre
    <3> QED
      BY <1>4, <3>1, <3>2 DEF ServerToBe
  <2> QED
    BY <1>4, <2>1, <2>2
<1> QED
  BY <1>3, <1>7, <1>8, <1>9, <1>10 DEF ServerInv

\* A server tells its launcher that it listens.
LEMMA AcksKeeps ==
  ASSUME ServerInv, NEW s \in Servers, Acks(s)
  PROVE  ServerInv'
<1>1. /\ server[s] = "bound" /\ UNCHANGED <<client, first, conn, why, blocker>>
      /\ server' = [server EXCEPT ![s] = "listens"] /\ known' = [known EXCEPT ![s] = There]
  BY DEF Acks, ServerGoes
<1>2. s \in Clients /\ s # First
  BY <1>1, ClientServers DEF ServerInv, FirstOK, Servers
<1>3. /\ First \in Servers /\ ClientOK(s) /\ ServerTypes /\ KillersDiffer /\ ServerToBe
      /\ client[s] = "launched"
  BY <1>1, <1>2, ClientServers DEF ServerInv, ClientOK, PhaseOK
<1>4. There \subseteq Servers
  BY DEF There
<1>5. ServerTypes'
  BY <1>1, <1>3, <1>4 DEF ServerTypes
<1>6. /\ \A r \in Servers \ {s} : server'[r] = server[r]
      /\ \A d \in Clients \ {s} : known'[d] = known[d]
      /\ server'[s] = "listens" /\ known'[s] = There
  BY <1>1, <1>2, <1>3 DEF ServerTypes
<1>7. Progress /\ AtWork
  BY <1>1, <1>2, <1>6 DEF Progress, AtWork
<1>8. ClientOK(s)'
  <2>1. PhaseOK(s)' /\ FirstGone(s)'
    BY <1>1, <1>2, <1>3, <1>6 DEF ClientOK, PhaseOK, FirstGone
  <2>2. KnowsOK(s)'
    <3>1. \A r \in There : r = s \/ server[r] \in {"exited", "refused"}
      BY <1>1, <1>3 DEF There, Holders, OneHolder, ServerInv, ServerTypes
    <3> QED
      BY <1>2, <1>4, <1>6, <3>1 DEF KnowsOK, Version
  <2>3. SentOK(s)' /\ RefusedOK(s)' /\ WasThere(s)' /\ FailedOK(s)'
    BY <1>1, <1>3, <1>6 DEF SentOK, RefusedOK, WasThere, FailedOK
  <2> QED
    BY <2>1, <2>2, <2>3 DEF ClientOK
<1>9. \A d \in Clients : ClientOK(d)'
  <2>1. \A d \in Clients \ {s} : Stays(d)
    BY <1>1, <1>6, ClientServers DEF Stays
  <2> QED
    BY <1>7, <1>8, <2>1, StaysKeeps
<1>10. OneHolder' /\ FirstOK'
  <2>1. Holders' = Holders
    BY <1>1, <1>6 DEF Holders
  <2> QED
    BY <1>2, <1>3, <1>6, <2>1 DEF ServerInv, OneHolder, FirstOK
<1>11. KillersDiffer'
  BY <1>1, <1>3, <1>6 DEF KillersDiffer
<1>12. ServerToBe'
  BY <1>6 DEF ServerToBe
<1> QED
  BY <1>5, <1>9, <1>10, <1>11, <1>12 DEF ServerInv

\* A server that was killed exits.
LEMMA ExitsKeeps ==
  ASSUME ServerInv, NEW s \in Servers, Exits(s)
  PROVE  ServerInv'
<1>1. /\ server[s] = "dying" /\ UNCHANGED <<client, first, conn, why, known, blocker>>
      /\ server' = [server EXCEPT ![s] = "exited"]
  BY DEF Exits, ServerGoes
<1>2. First \in Servers /\ ServerTypes /\ KillersDiffer /\ ServerToBe
  BY ClientServers DEF ServerInv
<1>3. ServerTypes'
  BY <1>1, <1>2 DEF ServerTypes
<1>4. (\A r \in Servers \ {s} : server'[r] = server[r]) /\ server'[s] = "exited"
  BY <1>1, <1>2 DEF ServerTypes
<1>5. Progress /\ AtWork
  BY <1>1, <1>2, <1>4 DEF Progress, AtWork
<1>6. \A d \in Clients : ClientOK(d)'
  <2>1. \A d \in Clients : Stays(d)
    BY <1>1, <1>4, ClientServers DEF Stays
  <2> QED
    BY <1>5, <2>1, StaysKeeps
<1>7. OneHolder' /\ FirstOK'
  <2>1. Holders' \subseteq Holders
    BY <1>1, <1>4 DEF Holders
  <2> QED
    BY <1>2, <1>4, <2>1 DEF ServerInv, OneHolder, FirstOK
<1>8. KillersDiffer'
  BY <1>1, <1>2 DEF KillersDiffer
<1>9. ServerToBe'
  BY <1>1, <1>2, <1>4 DEF ServerToBe
<1> QED
  BY <1>3, <1>6, <1>7, <1>8, <1>9 DEF ServerInv

LEMMA ServerStarts == ServerInit => ServerInv
<1> SUFFICES ASSUME ServerInit PROVE ServerInv
  OBVIOUS
<1>1. /\ client = [c \in Clients |-> "start"] /\ first \in Versions
      /\ conn = [c \in Clients |-> None] /\ why = [c \in Clients |-> None]
      /\ known = [c \in Clients |-> {}] /\ blocker = [c \in Clients |-> None]
      /\ \E runs \in {"none", "listens"} :
           server = [s \in Servers |-> IF s = First THEN runs ELSE "none"]
  BY DEF ServerInit
<1>2. /\ \A c \in Clients : server[c] = "none"
      /\ server[First] \in {"none", "listens"} /\ DOMAIN server = Servers
      /\ \A s \in Servers : s # First => server[s] = "none"
  BY <1>1, ClientServers
<1>3. ServerTypes
  BY <1>1 DEF ServerTypes
<1>4. OneHolder /\ FirstOK
  BY <1>2 DEF OneHolder, FirstOK, Holders
<1>5. KillersDiffer
  BY <1>1, <1>2 DEF KillersDiffer
<1>6. ServerToBe
  BY <1>1, <1>2, ClientServers DEF ServerToBe
<1>7. \A c \in Clients : ClientOK(c)
  BY <1>1, <1>2, ServerAssumption
     DEF ServerAssumption, ClientOK, PhaseOK, FirstGone, KnowsOK, SentOK, RefusedOK, WasThere,
         FailedOK
<1> QED
  BY <1>3, <1>4, <1>5, <1>6, <1>7 DEF ServerInv

LEMMA ServerSteps == ServerInv /\ [ServerNext]_serverVars => ServerInv'
<1> SUFFICES ASSUME ServerInv, [ServerNext]_serverVars PROVE ServerInv'
  OBVIOUS
<1>1. CASE UNCHANGED serverVars
  BY <1>1 DEF serverVars, ServerInv, ServerTypes, OneHolder, Holders, FirstOK, KillersDiffer,
     ServerToBe, ClientOK, PhaseOK, FirstGone, KnowsOK, SentOK, RefusedOK, WasThere, FailedOK,
     Version
<1>2. CASE \E c \in Clients : ClientStep(c)
  BY <1>2, AsksVersionKeeps, AnsweredKeeps, UnansweredKeeps, SendsKillKeeps, KilledKeeps,
     LaunchesKeeps, LaunchedKeeps, RequestsKeeps, ServedKeeps DEF ClientStep
<1>3. CASE \E s \in Servers : ServerStep(s)
  BY <1>3, BindsKeeps, AcksKeeps, ExitsKeeps DEF ServerStep, Servers
<1> QED
  BY <1>1, <1>2, <1>3 DEF ServerNext

LEMMA InvIsSafe == ServerInv => ServerSafe
<1> SUFFICES ASSUME ServerInv PROVE ServerSafe
  OBVIOUS
<1>1. ServerTypes /\ OneHolder /\ ServerToBe /\ \A c \in Clients : ClientOK(c)
  BY DEF ServerInv
<1>2. ServerTypeOK
  <2>1. Cardinality(Holders) <= 1
    <3>1. CASE Holders = {}
      BY <3>1, FS_EmptySet
    <3>2. CASE Holders # {}
      <4>1. PICK s \in Holders : Holders = {s}
        BY <1>1, <3>2 DEF OneHolder
      <4> QED
        BY <4>1, FS_Singleton
    <3> QED
      BY <3>1, <3>2
  <2> QED
    BY <1>1, <2>1 DEF ServerTypes, ServerTypeOK
<1>3. ServedByItsVersion
  BY <1>1 DEF ServedByItsVersion, ClientOK, SentOK
<1>4. FailuresExplained
  BY <1>1 DEF FailuresExplained, ClientOK, FailedOK
<1>5. ServerRemains
  <2> SUFFICES ASSUME \A c \in Clients : Ended(c),
                      ~ \E c \in Clients : why[c] = "nofork" \/ blocker[c] = "dying"
               PROVE  \E s \in Servers : server[s] = "listens"
    BY DEF ServerRemains
  <2>1. \A c \in Clients : client[c] \in {"served", "failed"}
    BY DEF Ended
  <2>2. \A c \in Clients : server[c] \notin {"starts", "bound"}
    BY <1>1, <2>1 DEF ClientOK, PhaseOK
  <2>3. server[First] \notin {"starts", "bound"}
    BY DEF ServerInv, FirstOK
  <2>4. \E c \in Clients : TRUE
    BY <1>1 DEF ServerTypes, Versions
  <2> QED
    BY <1>1, <2>1, <2>2, <2>3, <2>4 DEF ServerToBe, Servers
<1> QED
  BY <1>2, <1>3, <1>4, <1>5 DEF ServerSafe

\* Clients of any number and versions and the servers they start: one process at most has the
\* port, a server of another version serves a client only when it came after the client last
\* knew what runs, who fails has a reason, and a server remains (adb_connect, launch_server).
THEOREM ServersHold == ServerInit /\ [][ServerNext]_serverVars => []ServerSafe
<1> QED
  BY ServerStarts, ServerSteps, InvIsSafe, PTL

-----------------------------------------------------------------------------
\* What answers a request (HostRequests).

\* Where a request to the server itself is, and what its client has yet to read.
HostTalk(c) ==
  \/ /\ asks[c] = "host" /\ got[c] < 2 /\ socket[c] = "smart" /\ thread[c] = "none"
     /\ replies[c] = <<>> /\ owed[c] = StatusesOf(kind[c])
  \/ /\ asks[c] = "host" /\ got[c] = 2 /\ socket[c] = "waits" /\ thread[c] \in {"polls", "found"}
     /\ \/ replies[c] = <<"OKAY">> /\ owed[c] = 2
        \/ replies[c] = <<>> /\ owed[c] = 1
  \/ /\ asks[c] = "host" /\ got[c] = 2 /\ socket[c] = "closed" /\ thread[c] = "none"
     /\ \/ replies[c] = <<"FAIL", "EOF">> /\ owed[c] \in 1 .. 2
        \/ replies[c] = <<"OKAY", "EOF">> /\ owed[c] = 1
        \/ replies[c] \in {<<"OKAY", "OKAY", "EOF">>, <<"OKAY", "FAIL", "EOF">>} /\ owed[c] = 2
  \/ /\ asks[c] \in {"ok", "failed"} /\ socket[c] = "closed" /\ thread[c] = "none"
     /\ replies[c] = <<"EOF">>

WentAway(c) == switched[c] \in Transports /\ state[switched[c]] = "gone"

\* Where the request for a service of the device is, after the switch to it.
ServiceTalk(c) ==
  /\ thread[c] = "none"
  /\ \/ /\ asks[c] = "switch" /\ socket[c] = "smart" /\ owed[c] = 1
        /\ \/ got[c] < 2 /\ replies[c] = <<>>
           \/ got[c] = 2 /\ replies[c] \in {<<"OKAY">>, <<"FAIL">>}
     \/ /\ asks[c] = "service" /\ owed[c] = 1 /\ replies[c] = <<>>
        /\ \/ got[c] < 2 /\ socket[c] = "smart"
           \/ got[c] = 2 /\ socket[c] \in {"opens", "lost"}
     \/ /\ asks[c] = "service" /\ owed[c] = 1 /\ got[c] = 2 /\ socket[c] = "closed"
        /\ \/ replies[c] \in {<<"OKAY", "EOF">>, <<"FAIL", "EOF">>}
           \/ replies[c] = <<"EOF">> /\ WentAway(c)
     \/ asks[c] = "failed" /\ socket[c] = "smart" /\ replies[c] = <<>>
     \/ asks[c] \in {"ok", "failed"} /\ socket[c] = "closed" /\ replies[c] = <<"EOF">>
     \/ asks[c] = "fault" /\ socket[c] = "closed" /\ replies[c] = <<>> /\ WentAway(c)

Talk(c) == IF kind[c] = "service" THEN ServiceTalk(c) ELSE HostTalk(c)

HostTypes ==
  /\ kind \in [Askers -> Kinds] /\ DOMAIN state = Transports
  /\ DOMAIN asks = Askers /\ DOMAIN owed = Askers /\ DOMAIN got = Askers
  /\ DOMAIN socket = Askers /\ DOMAIN switched = Askers /\ DOMAIN thread = Askers
  /\ DOMAIN found = Askers /\ DOMAIN replies = Askers

TalkInv == HostTypes /\ \A c \in Askers : Talk(c)

\* A transport that went does not come back.
GoneStays ==
  /\ DOMAIN state' = Transports
  /\ \A t \in Transports : state[t] = "gone" => state'[t] = "gone"

\* Nothing of a client changes.
Silent(c) ==
  /\ asks'[c] = asks[c] /\ owed'[c] = owed[c] /\ got'[c] = got[c] /\ socket'[c] = socket[c]
  /\ switched'[c] = switched[c] /\ thread'[c] = thread[c] /\ replies'[c] = replies[c]

LEMMA SilentKeeps ==
  ASSUME TalkInv, NEW c \in Askers, Silent(c), GoneStays, kind' = kind
  PROVE  Talk(c)'
<1>1. Talk(c) /\ (WentAway(c) => WentAway(c)')
  BY DEF TalkInv, Silent, GoneStays, WentAway
<1>2. CASE kind[c] = "service"
  BY <1>1, <1>2 DEF Talk, ServiceTalk, Silent
<1>3. CASE kind[c] # "service"
  BY <1>1, <1>3 DEF Talk, HostTalk, Silent
<1> QED
  BY <1>2, <1>3

Statuses == {"OKAY", "FAIL", "EOF"}

LEMMA SameStatuses ==
  ASSUME NEW p \in Seq(Statuses), NEW q \in Seq(Statuses), Len(p) = Len(q),
         \A i \in 1 .. Len(p) : p[i] = q[i]
  PROVE  p = q
  OBVIOUS

\* How statuses follow one another.
LEMMA OneMoreStatus ==
  ASSUME NEW a \in Statuses, NEW b \in Statuses
  PROVE  Append(<<a>>, b) = <<a, b>> /\ Append(<<>>, b) = <<b>>
<1>1. <<a>> \in Seq(Statuses) /\ <<b>> \in Seq(Statuses) /\ <<a, b>> \in Seq(Statuses)
  OBVIOUS
<1>2. Append(<<a>>, b) \in Seq(Statuses) /\ Append(<<>>, b) \in Seq(Statuses)
  OBVIOUS
<1>3. /\ Len(Append(<<a>>, b)) = 2 /\ Append(<<a>>, b)[1] = a /\ Append(<<a>>, b)[2] = b
      /\ Len(Append(<<>>, b)) = 1 /\ Append(<<>>, b)[1] = b
  OBVIOUS
<1>4. Append(<<a>>, b) = <<a, b>>
  <2>1. \A i \in 1 .. 2 : Append(<<a>>, b)[i] = <<a, b>>[i]
    BY <1>3
  <2> QED
    BY <1>1, <1>2, <1>3, <2>1, SameStatuses
<1>5. Append(<<>>, b) = <<b>>
  <2>1. \A i \in 1 .. 1 : Append(<<>>, b)[i] = <<b>>[i]
    BY <1>3
  <2> QED
    BY <1>1, <1>2, <1>3, <2>1, SameStatuses
<1> QED
  BY <1>4, <1>5

LEMMA ThirdStatus ==
  ASSUME NEW a \in Statuses, NEW b \in Statuses, NEW c \in Statuses
  PROVE  Append(<<a, b>>, c) = <<a, b, c>> /\ <<a>> \o <<b, c>> = <<a, b, c>>
<1>1. <<a, b>> \in Seq(Statuses) /\ <<a>> \in Seq(Statuses) /\ <<b, c>> \in Seq(Statuses)
      /\ <<a, b, c>> \in Seq(Statuses)
  OBVIOUS
<1>2. Append(<<a, b>>, c) \in Seq(Statuses) /\ <<a>> \o <<b, c>> \in Seq(Statuses)
  BY <1>1
<1>3. /\ Len(Append(<<a, b>>, c)) = 3 /\ Append(<<a, b>>, c)[1] = a /\ Append(<<a, b>>, c)[2] = b
      /\ Append(<<a, b>>, c)[3] = c
  OBVIOUS
<1>4. /\ Len(<<a>> \o <<b, c>>) = 3 /\ (<<a>> \o <<b, c>>)[1] = a
      /\ (<<a>> \o <<b, c>>)[2] = b /\ (<<a>> \o <<b, c>>)[3] = c
  OBVIOUS
<1>5. Append(<<a, b>>, c) = <<a, b, c>>
  <2>1. \A i \in 1 .. 3 : Append(<<a, b>>, c)[i] = <<a, b, c>>[i]
    BY <1>3
  <2> QED
    BY <1>1, <1>2, <1>3, <2>1, SameStatuses
<1>6. <<a>> \o <<b, c>> = <<a, b, c>>
  <2>1. \A i \in 1 .. 3 : (<<a>> \o <<b, c>>)[i] = <<a, b, c>>[i]
    BY <1>4
  <2> QED
    BY <1>1, <1>2, <1>4, <2>1, SameStatuses
<1> QED
  BY <1>5, <1>6

LEMMA Joins ==
  /\ Append(<<"OKAY">>, "EOF") = <<"OKAY", "EOF">> /\ Append(<<"FAIL">>, "EOF") = <<"FAIL", "EOF">>
  /\ Append(<<"OKAY", "OKAY">>, "EOF") = <<"OKAY", "OKAY", "EOF">>
  /\ Append(<<>>, "EOF") = <<"EOF">>
  /\ <<"OKAY">> \o <<"OKAY", "EOF">> = <<"OKAY", "OKAY", "EOF">>
  /\ <<"OKAY">> \o <<"FAIL", "EOF">> = <<"OKAY", "FAIL", "EOF">>
  BY OneMoreStatus, ThirdStatus, Zenon DEF Statuses

LEMMA JoinsNothing ==
  ASSUME NEW r \in Seq(Statuses)
  PROVE  <<>> \o r = r
  OBVIOUS

LEMMA Parts ==
  /\ Head(<<"OKAY">>) = "OKAY" /\ Tail(<<"OKAY">>) = <<>>
  /\ Head(<<"FAIL">>) = "FAIL" /\ Tail(<<"FAIL">>) = <<>>
  /\ Head(<<"EOF">>) = "EOF" /\ Tail(<<"EOF">>) = <<>>
  /\ Head(<<"FAIL", "EOF">>) = "FAIL" /\ Tail(<<"FAIL", "EOF">>) = <<"EOF">>
  /\ Head(<<"OKAY", "EOF">>) = "OKAY" /\ Tail(<<"OKAY", "EOF">>) = <<"EOF">>
  /\ Head(<<"OKAY", "OKAY", "EOF">>) = "OKAY"
  /\ Tail(<<"OKAY", "OKAY", "EOF">>) = <<"OKAY", "EOF">>
  /\ Head(<<"OKAY", "FAIL", "EOF">>) = "OKAY"
  /\ Tail(<<"OKAY", "FAIL", "EOF">>) = <<"FAIL", "EOF">>
  OBVIOUS

\* A step of one client's.
LEMMA OneTalks ==
  ASSUME TalkInv, NEW c \in Askers, HostTypes', kind' = kind, state' = state, Talk(c)',
         \A d \in Askers \ {c} : Silent(d)
  PROVE  TalkInv'
<1>1. GoneStays
  BY DEF TalkInv, HostTypes, GoneStays
<1> QED
  BY <1>1, SilentKeeps DEF TalkInv

\* What the socket answers.
LEMMA Answers ==
  ASSUME TalkInv, NEW c \in Askers, NEW statuses, NEW next, Answer(c, statuses, next)
  PROVE  /\ socket'[c] = next /\ DOMAIN socket' = Askers /\ DOMAIN replies' = Askers
         /\ next = "closed" => replies'[c] = replies[c] \o Append(statuses, "EOF")
         /\ next # "closed" => replies'[c] = replies[c] \o statuses
         /\ \A d \in Askers \ {c} : socket'[d] = socket[d] /\ replies'[d] = replies[d]
<1>1. DOMAIN socket = Askers /\ DOMAIN replies = Askers
  BY DEF TalkInv, HostTypes
<1>2. CASE next = "closed"
  BY <1>1, <1>2 DEF Answer, Set
<1>3. CASE next # "closed"
  BY <1>1, <1>3 DEF Answer, Set
<1> QED
  BY <1>2, <1>3

LEMMA FirstAnswers ==
  ASSUME TalkInv, NEW c \in Askers, NEW statuses \in Seq(Statuses), NEW next,
         Answer(c, statuses, next), replies[c] = <<>>
  PROVE  /\ socket'[c] = next
         /\ replies'[c] = IF next = "closed" THEN Append(statuses, "EOF") ELSE statuses
<1>1. Append(statuses, "EOF") \in Seq(Statuses)
  BY DEF Statuses
<1>2. <<>> \o Append(statuses, "EOF") = Append(statuses, "EOF") /\ <<>> \o statuses = statuses
  BY <1>1, JoinsNothing
<1>3. CASE next = "closed"
  <2>1. socket'[c] = next /\ replies'[c] = replies[c] \o Append(statuses, "EOF")
    BY <1>3, Answers
  <2> QED
    BY <1>2, <1>3, <2>1
<1>4. CASE next # "closed"
  <2>1. socket'[c] = next /\ replies'[c] = replies[c] \o statuses
    BY <1>4, Answers
  <2> QED
    BY <1>2, <1>4, <2>1
<1> QED
  BY <1>3, <1>4

LEMMA AnswersAre ==
  /\ <<"OKAY">> \in Seq(Statuses) /\ <<"FAIL">> \in Seq(Statuses) /\ <<>> \in Seq(Statuses)
  /\ <<"OKAY", "OKAY">> \in Seq(Statuses)
  BY DEF Statuses

LEMMA FragmentKeeps ==
  ASSUME TalkInv, NEW c \in Askers, Fragment(c)
  PROVE  TalkInv'
<1>1. /\ Running(c) /\ got[c] = 0 /\ got' = [got EXCEPT ![c] = 1]
      /\ UNCHANGED <<state, kind, asks, owed, socket, switched, thread, found, replies>>
  BY DEF Fragment, Set
<1>2. HostTypes /\ Talk(c) /\ c \in DOMAIN got
  BY DEF TalkInv, HostTypes
<1>3. HostTypes'
  BY <1>1, <1>2 DEF HostTypes
<1>4. Talk(c)'
  BY <1>1, <1>2 DEF Talk, HostTalk, ServiceTalk, Running, WentAway
<1>5. \A d \in Askers \ {c} : Silent(d)
  BY <1>1, <1>2 DEF Silent, HostTypes
<1> QED
  BY <1>1, <1>3, <1>4, <1>5, OneTalks

\* The request is complete, and the server answers it.
LEMMA RequestKeeps ==
  ASSUME TalkInv, NEW c \in Askers, Request(c)
  PROVE  TalkInv'
<1>1. /\ Running(c) /\ socket[c] = "smart" /\ got[c] < 2 /\ got' = [got EXCEPT ![c] = 2]
      /\ UNCHANGED <<state, kind, asks, owed, found>>
  BY DEF Request, Set
<1>2. HostTypes /\ Talk(c) /\ kind[c] \in Kinds /\ got'[c] = 2
  BY <1>1 DEF TalkInv, HostTypes
<1>3. replies[c] = <<>> /\ thread[c] = "none"
  BY <1>1, <1>2 DEF Talk, HostTalk, ServiceTalk
<1>4. CASE asks[c] = "switch"
  <2>1. HandleSwitch(c) /\ kind[c] = "service" /\ owed[c] = 1
    BY <1>1, <1>2, <1>4 DEF Request, Talk, HostTalk, ServiceTalk
  <2>2. PICK r \in {<<"OKAY">>, <<"FAIL">>} : Answer(c, r, "smart")
    BY <2>1 DEF HandleSwitch
  <2>3. thread' = thread /\ DOMAIN switched' = Askers
        /\ \A d \in Askers \ {c} : switched'[d] = switched[d]
    BY <1>2, <2>1 DEF HandleSwitch, Set, HostTypes
  <2>4. replies'[c] = r /\ socket'[c] = "smart"
    BY <1>3, <2>2, FirstAnswers, AnswersAre, Joins
  <2>5. HostTypes' /\ \A d \in Askers \ {c} : Silent(d)
    BY <1>1, <1>2, <2>2, <2>3, Answers DEF HostTypes, Silent
  <2>6. Talk(c)'
    BY <1>1, <1>2, <1>3, <1>4, <2>1, <2>3, <2>4 DEF Talk, ServiceTalk
  <2> QED
    BY <1>1, <2>5, <2>6, OneTalks
<1>5. CASE asks[c] = "service"
  <2>1. HandleService(c) /\ kind[c] = "service" /\ owed[c] = 1 /\ UNCHANGED <<switched, thread>>
    BY <1>1, <1>2, <1>5 DEF Request, Talk, HostTalk, ServiceTalk, HandleService
  <2>2. \/ Answer(c, <<"FAIL">>, "closed")
        \/ \E next \in {"opens", "lost"} : Answer(c, <<>>, next)
    BY <2>1 DEF HandleService
  <2>3. \/ socket'[c] = "closed" /\ replies'[c] = <<"FAIL", "EOF">>
        \/ socket'[c] \in {"opens", "lost"} /\ replies'[c] = <<>>
    BY <1>3, <2>2, FirstAnswers, AnswersAre, Joins
  <2>4. HostTypes' /\ \A d \in Askers \ {c} : Silent(d)
    BY <1>1, <1>2, <2>1, <2>2, Answers DEF HostTypes, Silent
  <2>5. Talk(c)'
    BY <1>1, <1>2, <1>3, <1>5, <2>1, <2>3 DEF Talk, ServiceTalk
  <2> QED
    BY <1>1, <2>4, <2>5, OneTalks
<1>6. CASE asks[c] = "host"
  <2>1. kind[c] # "service" /\ owed[c] = StatusesOf(kind[c])
    BY <1>1, <1>2, <1>6 DEF Talk, HostTalk, ServiceTalk
  <2>2. CASE kind[c] = "forward"
    <3>1. HandleForward(c)
      BY <1>6, <2>2 DEF Request
    <3>2. PICK r \in {<<"OKAY", "OKAY">>, <<"FAIL">>} : Answer(c, r, "closed")
      BY <3>1 DEF HandleForward
    <3>3. /\ socket'[c] = "closed" /\ UNCHANGED <<switched, thread>>
          /\ replies'[c] \in {<<"OKAY", "OKAY", "EOF">>, <<"FAIL", "EOF">>}
      BY <1>3, <3>1, <3>2, FirstAnswers, AnswersAre, Joins DEF HandleForward
    <3>4. HostTypes' /\ \A d \in Askers \ {c} : Silent(d)
      BY <1>1, <1>2, <3>2, <3>3, Answers DEF HostTypes, Silent
    <3>5. Talk(c)'
      BY <1>1, <1>2, <1>3, <1>6, <2>1, <2>2, <3>3 DEF Talk, HostTalk, StatusesOf
    <3> QED
      BY <1>1, <3>4, <3>5, OneTalks
  <2>3. CASE kind[c] = "wait"
    <3>1. HandleWait(c)
      BY <1>6, <2>3 DEF Request
    <3>2. Answer(c, <<"OKAY">>, "waits") /\ switched' = switched
      BY <3>1 DEF HandleWait
    <3>3. /\ thread'[c] = "polls" /\ DOMAIN thread' = Askers
          /\ \A d \in Askers \ {c} : thread'[d] = thread[d]
      BY <1>2, <3>1 DEF HandleWait, Set, HostTypes
    <3>4. socket'[c] = "waits" /\ replies'[c] = <<"OKAY">>
      BY <1>3, <3>2, FirstAnswers, AnswersAre, Joins
    <3>5. HostTypes' /\ \A d \in Askers \ {c} : Silent(d)
      BY <1>1, <1>2, <3>2, <3>3, Answers DEF HostTypes, Silent
    <3>6. Talk(c)'
      BY <1>1, <1>2, <1>3, <1>6, <2>1, <2>3, <3>3, <3>4 DEF Talk, HostTalk, StatusesOf
    <3> QED
      BY <1>1, <3>5, <3>6, OneTalks
  <2>4. CASE kind[c] \notin {"forward", "wait"}
    <3>1. HandleRest(c)
      BY <1>6, <2>4 DEF Request
    <3>2. PICK r \in {<<"OKAY">>, <<"FAIL">>} : Answer(c, r, "closed")
      BY <3>1 DEF HandleRest
    <3>3. /\ socket'[c] = "closed" /\ UNCHANGED <<switched, thread>>
          /\ replies'[c] \in {<<"OKAY", "EOF">>, <<"FAIL", "EOF">>}
      BY <1>3, <3>1, <3>2, FirstAnswers, AnswersAre, Joins DEF HandleRest
    <3>4. HostTypes' /\ \A d \in Askers \ {c} : Silent(d)
      BY <1>1, <1>2, <3>2, <3>3, Answers DEF HostTypes, Silent
    <3>5. Talk(c)'
      BY <1>1, <1>2, <1>3, <1>6, <2>1, <2>4, <3>3 DEF Talk, HostTalk, StatusesOf
    <3> QED
      BY <1>1, <3>4, <3>5, OneTalks
  <2> QED
    BY <2>2, <2>3, <2>4
<1> QED
  BY <1>1, <1>4, <1>5, <1>6 DEF Running

\* The device answers the request for a service.
LEMMA OpensKeeps ==
  ASSUME TalkInv, NEW c \in Askers, Opens(c)
  PROVE  TalkInv'
<1>1. /\ socket[c] = "opens"
      /\ UNCHANGED <<state, kind, asks, owed, got, switched, thread, found>>
  BY DEF Opens
<1>2. PICK r \in {<<"OKAY">>, <<"FAIL">>} : Answer(c, r, "closed")
  BY DEF Opens
<1>3. HostTypes /\ Talk(c)
  BY DEF TalkInv
<1>4. /\ kind[c] = "service" /\ asks[c] = "service" /\ owed[c] = 1 /\ got[c] = 2
      /\ replies[c] = <<>> /\ thread[c] = "none"
  BY <1>1, <1>3 DEF Talk, HostTalk, ServiceTalk
<1>5. socket'[c] = "closed" /\ replies'[c] \in {<<"OKAY", "EOF">>, <<"FAIL", "EOF">>}
  <2>1. r \in Seq(Statuses)
    BY AnswersAre
  <2>2. socket'[c] = "closed" /\ replies'[c] = Append(r, "EOF")
    BY <1>2, <1>4, <2>1, FirstAnswers
  <2> QED
    BY <2>2, Joins
<1>6. HostTypes' /\ \A d \in Askers \ {c} : Silent(d)
  BY <1>1, <1>2, <1>3, Answers DEF HostTypes, Silent
<1>7. Talk(c)'
  BY <1>1, <1>4, <1>5 DEF Talk, ServiceTalk
<1> QED
  BY <1>1, <1>6, <1>7, OneTalks

\* The thread of a wait answers in the end.
LEMMA WaitAnswers ==
  ASSUME TalkInv, NEW c \in Askers, NEW r \in {<<"OKAY">>, <<"FAIL">>},
         thread[c] \in {"polls", "found"}, Answer(c, r, "closed"),
         UNCHANGED <<state, kind, asks, owed, got, switched>>,
         thread' = [thread EXCEPT ![c] = "none"], DOMAIN found' = Askers
  PROVE  TalkInv'
<1>1. HostTypes /\ Talk(c)
  BY DEF TalkInv
<1>2. /\ kind[c] # "service" /\ asks[c] = "host" /\ got[c] = 2
      /\ \/ replies[c] = <<"OKAY">> /\ owed[c] = 2
         \/ replies[c] = <<>> /\ owed[c] = 1
  BY <1>1 DEF Talk, HostTalk, ServiceTalk
<1>3. Append(r, "EOF") \in {<<"OKAY", "EOF">>, <<"FAIL", "EOF">>}
  BY Joins
<1>4. socket'[c] = "closed" /\ replies'[c] = replies[c] \o Append(r, "EOF")
  BY <1>1 DEF Answer, Set, HostTypes
<1>5. \/ owed[c] = 2 /\ replies'[c] \in {<<"OKAY", "OKAY", "EOF">>, <<"OKAY", "FAIL", "EOF">>}
      \/ owed[c] = 1 /\ replies'[c] \in {<<"OKAY", "EOF">>, <<"FAIL", "EOF">>}
  <2>1. CASE replies[c] = <<"OKAY">> /\ owed[c] = 2
    BY <1>3, <1>4, <2>1, Joins
  <2>2. CASE replies[c] = <<>> /\ owed[c] = 1
    <3>1. Append(r, "EOF") \in Seq(Statuses)
      <4>1. r \in Seq(Statuses) /\ "EOF" \in Statuses
        BY AnswersAre DEF Statuses
      <4> QED
        BY <4>1
    <3> QED
      BY <1>3, <1>4, <2>2, <3>1, JoinsNothing
  <2> QED
    BY <1>2, <2>1, <2>2
<1>6. thread'[c] = "none" /\ DOMAIN thread' = Askers
      /\ \A d \in Askers \ {c} : thread'[d] = thread[d]
  BY <1>1 DEF HostTypes
<1>7. HostTypes' /\ \A d \in Askers \ {c} : Silent(d)
  BY <1>1, <1>6, Answers DEF HostTypes, Silent
<1>8. Talk(c)'
  <2>1. /\ kind'[c] # "service" /\ asks'[c] = "host" /\ got'[c] = 2 /\ socket'[c] = "closed"
        /\ thread'[c] = "none" /\ owed'[c] = owed[c]
    BY <1>2, <1>4, <1>6
  <2>2. HostTalk(c)'
    BY <1>5, <2>1 DEF HostTalk
  <2> QED
    BY <2>1, <2>2 DEF Talk
<1> QED
  BY <1>7, <1>8, OneTalks

\* The thread goes on.
LEMMA WaitGoesOn ==
  ASSUME TalkInv, NEW c \in Askers, NEW next \in {"polls", "found"},
         thread[c] \in {"polls", "found"},
         UNCHANGED <<state, kind, asks, owed, got, socket, switched, replies>>,
         thread' = [thread EXCEPT ![c] = next], DOMAIN found' = Askers
  PROVE  TalkInv'
<1>1. HostTypes /\ Talk(c)
  BY DEF TalkInv
<1>2. thread'[c] = next /\ DOMAIN thread' = Askers
      /\ \A d \in Askers \ {c} : thread'[d] = thread[d]
  BY <1>1 DEF HostTypes
<1>3. HostTypes' /\ \A d \in Askers \ {c} : Silent(d)
  BY <1>1, <1>2 DEF HostTypes, Silent
<1>4. Talk(c)'
  BY <1>1, <1>2 DEF Talk, HostTalk, ServiceTalk
<1> QED
  BY <1>3, <1>4, OneTalks

LEMMA PollsKeeps ==
  ASSUME TalkInv, NEW c \in Askers, Polls(c)
  PROVE  TalkInv'
<1> DEFINE w == Walk(sel[c])
<1>1. /\ thread[c] = "polls" /\ UNCHANGED <<state, kind, sel, asks, owed, got, switched>>
      /\ CASE w.result # Nobody -> /\ thread' = Set(thread, c, "found")
                                   /\ found' = Set(found, c, w.result)
                                   /\ UNCHANGED <<socket, replies>>
           [] w.ambiguous /\ sel[c] \notin Transports ->
                Answer(c, <<"FAIL">>, "closed")
                /\ thread' = Set(thread, c, "none") /\ UNCHANGED found
           [] OTHER -> UNCHANGED <<socket, replies, thread, found>>
  BY DEF Polls
<1> HIDE DEF w
<1>2. \/ /\ thread' = [thread EXCEPT ![c] = "found"] /\ found' = Set(found, c, w.result)
         /\ UNCHANGED <<socket, replies>>
      \/ /\ Answer(c, <<"FAIL">>, "closed") /\ thread' = [thread EXCEPT ![c] = "none"]
         /\ found' = found
      \/ UNCHANGED <<socket, replies, thread, found>>
  BY <1>1 DEF Set
<1>3. DOMAIN found = Askers /\ DOMAIN thread = Askers
  BY DEF TalkInv, HostTypes
<1>4. CASE /\ thread' = [thread EXCEPT ![c] = "found"] /\ found' = Set(found, c, w.result)
           /\ UNCHANGED <<socket, replies>>
  <2>1. DOMAIN found' = Askers
    BY <1>3, <1>4 DEF Set
  <2> QED
    BY <1>1, <1>4, <2>1, WaitGoesOn
<1>5. CASE /\ Answer(c, <<"FAIL">>, "closed") /\ thread' = [thread EXCEPT ![c] = "none"]
           /\ found' = found
  BY <1>1, <1>3, <1>5, WaitAnswers
<1>6. CASE UNCHANGED <<socket, replies, thread, found>>
  <2>1. HostTypes' /\ GoneStays /\ \A d \in Askers : Silent(d)
    BY <1>1, <1>6 DEF TalkInv, HostTypes, GoneStays, Silent
  <2> QED
    BY <1>1, <2>1, SilentKeeps DEF TalkInv
<1> QED
  BY <1>2, <1>4, <1>5, <1>6

LEMMA LooksKeeps ==
  ASSUME TalkInv, NEW c \in Askers, Looks(c)
  PROVE  TalkInv'
<1>1. /\ thread[c] = "found" /\ UNCHANGED <<state, kind, sel, asks, owed, got, switched>>
      /\ \/ Answer(c, <<"OKAY">>, "closed") /\ thread' = [thread EXCEPT ![c] = "none"]
         \/ thread' = [thread EXCEPT ![c] = "polls"] /\ UNCHANGED <<socket, replies>>
  BY DEF Looks, Set
<1>2. DOMAIN found' = Askers
  BY DEF TalkInv, HostTypes, Looks, Set
<1> QED
  BY <1>1, <1>2, WaitAnswers, WaitGoesOn

\* What one status read does to the client.
LEMMA ReadEffect ==
  ASSUME TalkInv, NEW c \in Askers, Reads(c)
  PROVE  /\ Running(c) /\ replies[c] # <<>> /\ HostTypes' /\ replies'[c] = Tail(replies[c])
         /\ UNCHANGED <<state, kind, socket, switched, thread>>
         /\ Head(replies[c]) = "EOF" =>
              asks'[c] = "fault" /\ owed'[c] = owed[c] /\ got'[c] = got[c]
         /\ Head(replies[c]) = "FAIL" =>
              asks'[c] = "failed" /\ owed'[c] = owed[c] /\ got'[c] = got[c]
         /\ Head(replies[c]) = "OKAY" /\ asks[c] = "switch" =>
              asks'[c] = "service" /\ owed'[c] = owed[c] /\ got'[c] = 0
         /\ Head(replies[c]) = "OKAY" /\ asks[c] # "switch" =>
              /\ owed'[c] = owed[c] - 1 /\ got'[c] = got[c]
              /\ asks'[c] = IF owed[c] = 1 THEN "ok" ELSE asks[c]
         /\ \A d \in Askers \ {c} : Silent(d)
<1>1. /\ Running(c) /\ replies[c] # <<>> /\ replies' = [replies EXCEPT ![c] = Tail(replies[c])]
      /\ UNCHANGED <<state, kind, socket, switched, thread, found>>
  BY DEF Reads, Set
<1>2. HostTypes
  BY DEF TalkInv
<1>3. CASE Head(replies[c]) = "EOF"
  <2>1. asks' = [asks EXCEPT ![c] = "fault"] /\ UNCHANGED <<owed, got>>
    BY <1>3 DEF Reads, Set
  <2> QED
    BY <1>1, <1>2, <1>3, <2>1 DEF HostTypes, Silent
<1>4. CASE Head(replies[c]) = "FAIL"
  <2>1. asks' = [asks EXCEPT ![c] = "failed"] /\ UNCHANGED <<owed, got>>
    BY <1>4 DEF Reads, Set
  <2> QED
    BY <1>1, <1>2, <1>4, <2>1 DEF HostTypes, Silent
<1>5. CASE Head(replies[c]) \notin {"EOF", "FAIL"} /\ asks[c] = "switch"
  <2>1. /\ asks' = [asks EXCEPT ![c] = "service"] /\ got' = [got EXCEPT ![c] = 0]
        /\ owed' = owed
    BY <1>5 DEF Reads, Set
  <2> QED
    BY <1>1, <1>2, <1>5, <2>1 DEF HostTypes, Silent
<1>6. CASE Head(replies[c]) \notin {"EOF", "FAIL"} /\ asks[c] # "switch"
  <2>1. /\ owed' = [owed EXCEPT ![c] = owed[c] - 1] /\ got' = got
        /\ asks' = [asks EXCEPT ![c] = IF owed[c] = 1 THEN "ok" ELSE asks[c]]
    BY <1>6 DEF Reads, Set
  <2> QED
    BY <1>1, <1>2, <1>6, <2>1 DEF HostTypes, Silent
<1> QED
  BY <1>3, <1>4, <1>5, <1>6

LEMMA ReadsKeeps ==
  ASSUME TalkInv, NEW c \in Askers, Reads(c)
  PROVE  TalkInv'
<1>1. Talk(c)
  BY DEF TalkInv
<1>2. CASE kind[c] = "service"
  <2>1. ServiceTalk(c) /\ asks[c] \notin {"ok", "failed", "fault", "host"}
    BY <1>1, <1>2, ReadEffect DEF Talk, ServiceTalk, Running
  <2>2. CASE asks[c] = "switch"
    <3>1. /\ replies[c] \in {<<"OKAY">>, <<"FAIL">>} /\ socket[c] = "smart" /\ owed[c] = 1
          /\ thread[c] = "none"
      BY <2>1, <2>2, ReadEffect DEF ServiceTalk
    <3>2. replies'[c] = <<>> /\ thread'[c] = "none" /\ socket'[c] = "smart"
      BY <3>1, ReadEffect, Parts
    <3>3. \/ asks'[c] = "failed"
          \/ asks'[c] = "service" /\ owed'[c] = 1 /\ got'[c] = 0
      BY <2>2, <3>1, ReadEffect, Parts
    <3>4. ServiceTalk(c)'
      BY <3>2, <3>3 DEF ServiceTalk
    <3> QED
      BY <1>2, <3>4, ReadEffect, OneTalks DEF Talk
  <2>3. CASE asks[c] = "service"
    <3>1. /\ socket[c] = "closed" /\ owed[c] = 1 /\ thread[c] = "none"
          /\ \/ replies[c] \in {<<"OKAY", "EOF">>, <<"FAIL", "EOF">>}
             \/ replies[c] = <<"EOF">> /\ WentAway(c)
      BY <2>1, <2>3, ReadEffect DEF ServiceTalk
    <3>2. socket'[c] = "closed" /\ thread'[c] = "none"
      BY <3>1, ReadEffect
    <3>3. CASE replies[c] \in {<<"OKAY", "EOF">>, <<"FAIL", "EOF">>}
      <4>1. replies'[c] = <<"EOF">> /\ asks'[c] \in {"ok", "failed"}
        BY <2>3, <3>1, <3>3, ReadEffect, Parts
      <4>2. ServiceTalk(c)'
        BY <3>2, <4>1 DEF ServiceTalk
      <4> QED
        BY <1>2, <4>2, ReadEffect, OneTalks DEF Talk
    <3>4. CASE replies[c] = <<"EOF">> /\ WentAway(c)
      <4>3. Head(replies[c]) = "EOF" /\ Tail(replies[c]) = <<>>
        BY <3>4, Parts
      <4>1. replies'[c] = <<>> /\ asks'[c] = "fault" /\ WentAway(c)'
        BY <3>4, <4>3, ReadEffect DEF WentAway
      <4>2. ServiceTalk(c)'
        BY <3>2, <4>1 DEF ServiceTalk
      <4> QED
        BY <1>2, <4>2, ReadEffect, OneTalks DEF Talk
    <3> QED
      BY <3>1, <3>3, <3>4
  <2> QED
    BY <2>1, <2>2, <2>3 DEF ServiceTalk
<1>3. CASE kind[c] # "service"
  <2>1. HostTalk(c) /\ asks[c] = "host" /\ replies[c] # <<>>
    BY <1>1, <1>3, ReadEffect DEF Talk, HostTalk, Running
  <2>2. SUFFICES HostTalk(c)'
    BY <1>3, ReadEffect, OneTalks DEF Talk
  <2>3. CASE socket[c] = "waits"
    <3>1. /\ replies[c] = <<"OKAY">> /\ owed[c] = 2 /\ got[c] = 2
          /\ thread[c] \in {"polls", "found"}
      BY <2>1, <2>3 DEF HostTalk
    <3>2. replies'[c] = <<>> /\ owed'[c] = 1 /\ got'[c] = 2 /\ asks'[c] = "host"
      <4>1. Head(replies[c]) = "OKAY" /\ replies'[c] = <<>>
        BY <3>1, ReadEffect, Parts
      <4>2. owed'[c] = owed[c] - 1 /\ got'[c] = got[c] /\ asks'[c] = asks[c]
        BY <2>1, <3>1, <4>1, ReadEffect
      <4> QED
        BY <2>1, <3>1, <4>1, <4>2
    <3>3. socket'[c] = "waits" /\ thread'[c] \in {"polls", "found"}
      BY <2>3, <3>1, ReadEffect
    <3> QED
      BY <3>2, <3>3 DEF HostTalk
  <2>4. CASE socket[c] # "waits"
    <3>1. /\ got[c] = 2 /\ socket[c] = "closed" /\ thread[c] = "none"
          /\ \/ replies[c] = <<"FAIL", "EOF">> /\ owed[c] \in 1 .. 2
             \/ replies[c] = <<"OKAY", "EOF">> /\ owed[c] = 1
             \/ /\ replies[c] \in {<<"OKAY", "OKAY", "EOF">>, <<"OKAY", "FAIL", "EOF">>}
                /\ owed[c] = 2
      BY <2>1, <2>4 DEF HostTalk
    <3>2. socket'[c] = "closed" /\ thread'[c] = "none"
      BY <3>1, ReadEffect
    <3>3. CASE \/ replies[c] = <<"FAIL", "EOF">>
               \/ replies[c] = <<"OKAY", "EOF">> /\ owed[c] = 1
      <4>1. replies'[c] = <<"EOF">> /\ asks'[c] \in {"ok", "failed"}
        BY <2>1, <3>3, ReadEffect, Parts
      <4> QED
        BY <3>2, <4>1 DEF HostTalk
    <3>4. CASE /\ replies[c] \in {<<"OKAY", "OKAY", "EOF">>, <<"OKAY", "FAIL", "EOF">>}
               /\ owed[c] = 2
      <4>1. replies'[c] \in {<<"OKAY", "EOF">>, <<"FAIL", "EOF">>}
        BY <3>4, ReadEffect, Parts
      <4>2. Head(replies[c]) = "OKAY"
        BY <3>4, Parts
      <4>3. owed'[c] = owed[c] - 1 /\ got'[c] = got[c] /\ asks'[c] = asks[c]
        BY <2>1, <3>4, <4>2, ReadEffect
      <4> QED
        BY <2>1, <3>1, <3>2, <3>4, <4>1, <4>3 DEF HostTalk
    <3> QED
      BY <3>1, <3>3, <3>4
  <2> QED
    BY <2>3, <2>4
<1> QED
  BY <1>2, <1>3

\* Transports come and change.
LEMMA TransportKeeps ==
  ASSUME TalkInv, NEW t \in Transports, Appears(t) \/ Changes(t)
  PROVE  TalkInv'
<1>1. /\ UNCHANGED requestVars
      /\ state[t] # "gone" /\ \E next : state' = [state EXCEPT ![t] = next]
  BY DEF Appears, Changes, Set
<1>2. HostTypes' /\ GoneStays /\ \A c \in Askers : Silent(c)
  BY <1>1 DEF TalkInv, HostTypes, GoneStays, Silent, requestVars
<1>3. kind' = kind
  BY <1>1 DEF requestVars
<1> QED
  BY <1>2, <1>3, SilentKeeps DEF TalkInv

\* A transport goes, and main closes the streams that it opens.
LEMMA GoesKeeps ==
  ASSUME TalkInv, NEW t \in Transports, Goes(t)
  PROVE  TalkInv'
<1>1. /\ state' = [state EXCEPT ![t] = "gone"]
      /\ socket' = [c \in Askers |-> IF socket[c] = "opens" /\ switched[c] = t THEN "closed"
                                     ELSE socket[c]]
      /\ replies' = [c \in Askers |-> IF socket[c] = "opens" /\ switched[c] = t
                                      THEN Append(replies[c], "EOF") ELSE replies[c]]
      /\ UNCHANGED <<kind, asks, owed, got, switched, thread, found>>
  BY DEF Goes, Set
<1>2. HostTypes
  BY DEF TalkInv
<1>3. HostTypes' /\ GoneStays /\ state'[t] = "gone"
  BY <1>1, <1>2 DEF HostTypes, GoneStays
<1>4. ASSUME NEW c \in Askers
      PROVE  Talk(c)'
  <2>1. CASE socket[c] = "opens" /\ switched[c] = t
    <3>1. /\ kind[c] = "service" /\ asks[c] = "service" /\ owed[c] = 1 /\ got[c] = 2
          /\ replies[c] = <<>> /\ thread[c] = "none"
      BY <2>1 DEF TalkInv, Talk, HostTalk, ServiceTalk
    <3>2. socket'[c] = "closed" /\ replies'[c] = <<"EOF">>
      <4>1. socket'[c] = "closed" /\ replies'[c] = Append(<<>>, "EOF")
        BY <1>1, <2>1, <3>1
      <4> QED
        BY <4>1, Joins
    <3>3. WentAway(c)'
      BY <1>1, <1>3, <2>1 DEF WentAway
    <3> QED
      BY <1>1, <3>1, <3>2, <3>3 DEF Talk, ServiceTalk
  <2>2. CASE ~ (socket[c] = "opens" /\ switched[c] = t)
    <3>1. Silent(c)
      BY <1>1, <2>2 DEF Silent
    <3> QED
      BY <1>1, <1>3, <3>1, SilentKeeps
  <2> QED
    BY <2>1, <2>2
<1> QED
  BY <1>3, <1>4 DEF TalkInv

LEMMA HostStarts == HostInit => TalkInv
<1> SUFFICES ASSUME HostInit PROVE TalkInv
  OBVIOUS
<1>1. HostTypes
  BY DEF HostInit, HostTypes
<1>2. ASSUME NEW c \in Askers
      PROVE  Talk(c)
  <2>1. /\ kind[c] \in Kinds /\ asks[c] = IF kind[c] = "service" THEN "switch" ELSE "host"
        /\ owed[c] = StatusesOf(kind[c]) /\ got[c] = 0 /\ socket[c] = "smart"
        /\ thread[c] = "none" /\ replies[c] = <<>>
    BY DEF HostInit
  <2>2. kind[c] = "service" => StatusesOf(kind[c]) = 1
    BY DEF StatusesOf
  <2> QED
    BY <2>1, <2>2 DEF Talk, HostTalk, ServiceTalk
<1> QED
  BY <1>1, <1>2 DEF TalkInv

LEMMA HostSteps == TalkInv /\ [HostNext]_hostVars => TalkInv'
<1> SUFFICES ASSUME TalkInv, [HostNext]_hostVars PROVE TalkInv'
  OBVIOUS
<1>1. CASE UNCHANGED hostVars
  <2>1. HostTypes' /\ GoneStays /\ kind' = kind /\ \A c \in Askers : Silent(c)
    BY <1>1 DEF TalkInv, HostTypes, GoneStays, Silent, hostVars
  <2> QED
    BY <2>1, SilentKeeps DEF TalkInv
<1>2. ASSUME NEW t \in Transports, Appears(t) \/ Changes(t) \/ Goes(t)
      PROVE  TalkInv'
  BY <1>2, TransportKeeps, GoesKeeps
<1>3. ASSUME NEW c \in Askers, Fragment(c) \/ AskerStep(c)
      PROVE  TalkInv'
  BY <1>3, FragmentKeeps, RequestKeeps, OpensKeeps, PollsKeeps, LooksKeeps, ReadsKeeps
     DEF AskerStep
<1> QED
  BY <1>1, <1>2, <1>3 DEF HostNext

LEMMA TalkMeans == TalkInv => StatusForEach
<1> SUFFICES ASSUME TalkInv, NEW c \in Askers
             PROVE  /\ asks[c] = "fault" => kind[c] = "service" /\ state[switched[c]] = "gone"
                    /\ asks[c] \in {"ok", "failed"} =>
                         \A i \in 1 .. Len(replies[c]) : replies[c][i] = "EOF"
  BY DEF StatusForEach
<1>1. Talk(c)
  BY DEF TalkInv
<1>2. asks[c] = "fault" => kind[c] = "service" /\ state[switched[c]] = "gone"
  BY <1>1 DEF Talk, HostTalk, ServiceTalk, WentAway
<1>3. asks[c] \in {"ok", "failed"} => replies[c] \in {<<>>, <<"EOF">>}
  BY <1>1 DEF Talk, HostTalk, ServiceTalk
<1> QED
  BY <1>2, <1>3

\* However many commands ask, and whatever transports come, change and go meanwhile, no
\* client finds the connection closed instead of a status, unless the device went as it
\* opened the service, and none that is done leaves a status unread
\* (smart_socket_enqueue, handle_host_request, wait_for_state, adb_command).
THEOREM StatusesHold == HostInit /\ [][HostNext]_hostVars => []StatusForEach
<1>1. HostInit => TalkInv
  BY HostStarts
<1>2. TalkInv /\ [HostNext]_hostVars => TalkInv'
  BY HostSteps
<1>3. TalkInv => StatusForEach
  BY TalkMeans
<1> QED
  BY <1>1, <1>2, <1>3, PTL

-----------------------------------------------------------------------------
\* An interactive shell (InteractiveShell).

\* A newline and one ~ or more end at a place.
Tildes(keys, m) ==
  \E i \in 1 .. m - 1 : keys[i] = "newline" /\ \A j \in i + 1 .. m : keys[j] = "~"

\* A prefix ends in the escape if a dot follows those.
LEMMA PrefixEscapes ==
  ASSUME NEW keys \in Seq(Keys), NEW n \in 1 .. Len(keys)
  PROVE  EndsInEscape(SubSeq(keys, 1, n)) <=> keys[n] = "." /\ Tildes(keys, n - 1)
<1> DEFINE p == SubSeq(keys, 1, n)
<1>1. Len(p) = n /\ \A i \in 1 .. n : p[i] = keys[i]
  OBVIOUS
<1> HIDE DEF p
<1>2. EndsInEscape(p) <=> keys[n] = "." /\ Tildes(keys, n - 1)
  <2>1. ASSUME EndsInEscape(p) PROVE keys[n] = "." /\ Tildes(keys, n - 1)
    <3>1. PICK i \in 1 .. n - 2 : p[i] = "newline" /\ \A j \in i + 1 .. n - 1 : p[j] = "~"
      BY <1>1, <2>1 DEF EndsInEscape
    <3>2. keys[i] = "newline" /\ \A j \in i + 1 .. n - 1 : keys[j] = "~"
      BY <1>1, <3>1
    <3>3. keys[n] = "."
      BY <1>1, <2>1 DEF EndsInEscape
    <3> QED
      BY <3>2, <3>3 DEF Tildes
  <2>2. ASSUME keys[n] = ".", Tildes(keys, n - 1) PROVE EndsInEscape(p)
    <3>1. PICK i \in 1 .. n - 2 : keys[i] = "newline" /\ \A j \in i + 1 .. n - 1 : keys[j] = "~"
      BY <2>2 DEF Tildes
    <3>2. p[i] = "newline" /\ \A j \in i + 1 .. n - 1 : p[j] = "~"
      BY <1>1, <3>1
    <3>3. n > 2 /\ p[n] = "."
      BY <1>1, <2>2, <3>1
    <3> QED
      BY <1>1, <3>2, <3>3 DEF EndsInEscape
  <2> QED
    BY <2>1, <2>2
<1> QED
  BY <1>2 DEF p

\* One key more.
LEMMA NextTilde ==
  ASSUME NEW keys \in Seq(Keys), NEW m \in Nat, m < Len(keys)
  PROVE  Tildes(keys, m + 1) <=>
           keys[m + 1] = "~" /\ (Tildes(keys, m) \/ (m > 0 /\ keys[m] = "newline"))
<1>1. ASSUME Tildes(keys, m + 1)
      PROVE  keys[m + 1] = "~" /\ (Tildes(keys, m) \/ (m > 0 /\ keys[m] = "newline"))
  <2>1. PICK i \in 1 .. m : keys[i] = "newline" /\ \A j \in i + 1 .. m + 1 : keys[j] = "~"
    BY <1>1 DEF Tildes
  <2>2. keys[m + 1] = "~"
    BY <2>1
  <2>3. CASE i = m
    BY <2>1, <2>2, <2>3
  <2>4. CASE i # m
    BY <2>1, <2>2, <2>4 DEF Tildes
  <2> QED
    BY <2>3, <2>4
<1>2. ASSUME keys[m + 1] = "~", Tildes(keys, m) PROVE Tildes(keys, m + 1)
  <2>1. PICK i \in 1 .. m - 1 : keys[i] = "newline" /\ \A j \in i + 1 .. m : keys[j] = "~"
    BY <1>2 DEF Tildes
  <2>2. \A j \in i + 1 .. m + 1 : keys[j] = "~"
    BY <1>2, <2>1
  <2> QED
    BY <2>1, <2>2 DEF Tildes
<1>3. ASSUME keys[m + 1] = "~", m > 0, keys[m] = "newline" PROVE Tildes(keys, m + 1)
  <2>1. m \in 1 .. m /\ \A j \in m + 1 .. m + 1 : keys[j] = "~"
    BY <1>3
  <2> QED
    BY <1>3, <2>1 DEF Tildes
<1> QED
  BY <1>1, <1>2, <1>3

\* What is sent is what was typed up to where it was looked at; while the session goes on,
\* escape says how what was looked at ends.
SentOfTyped ==
  /\ sent \in Seq(Keys) /\ Len(sent) <= seenTo
  /\ \A i \in 1 .. Len(sent) : sent[i] = typed[i]
EscapeIs ==
  process = "runs" =>
    /\ escape = 1 <=> seenTo > 0 /\ typed[seenTo] = "newline"
    /\ escape = 2 <=> Tildes(typed, seenTo)
ShellInv ==
  /\ typed \in Seq(Keys) /\ readTo \in Nat /\ seenTo \in Nat
  /\ ShellTypeOK /\ (sender = "writes" => seenTo = readTo)
  /\ SentOfTyped /\ (process = "escaped" => Len(sent) < seenTo)
  /\ EscapeIs /\ EscapeEnds /\ TtyRestored

LEMMA ShellStarts == ShellInit => ShellInv
<1> SUFFICES ASSUME ShellInit PROVE ShellInv
  OBVIOUS
<1>1. typed \in Seq(Keys)
  <2>1. PICK m \in 0 .. MaxTyped : typed \in [1 .. m -> Keys]
    BY DEF ShellInit, BoundedSeq, SeqOf
  <2> QED
    BY <2>1, ShellAssumption DEF ShellAssumption
<1>2. ShellTypeOK /\ SentOfTyped /\ EscapeEnds /\ TtyRestored
  BY <1>1 DEF ShellInit, ShellTypeOK, SentOfTyped, EscapeEnds, TtyRestored
<1>3. EscapeIs
  <2>1. ~ Tildes(typed, 0)
    BY DEF Tildes
  <2> QED
    BY <2>1 DEF ShellInit, EscapeIs
<1> QED
  BY <1>1, <1>2, <1>3 DEF ShellInv, ShellInit

\* Keys are read.
LEMMA ReadsKeysKeeps ==
  ASSUME ShellInv, ReadsKeys
  PROVE  ShellInv'
<1>1. /\ sender = "reads" /\ sender' = "looks" /\ escape' = escape
      /\ \E n \in 1 .. MaxRead : readTo + n <= Len(typed) /\ readTo' = readTo + n
      /\ UNCHANGED <<typed, seenTo, sent, tty, output, process>>
  BY DEF ReadsKeys, ReadsWith
<1>2. readTo' \in Nat /\ readTo' > readTo /\ readTo' <= Len(typed)
  BY <1>1, ShellAssumption DEF ShellAssumption, ShellInv
<1>3. ShellTypeOK'
  BY <1>1, <1>2 DEF ShellInv, ShellTypeOK
<1>4. SentOfTyped' /\ EscapeIs' /\ EscapeEnds' /\ TtyRestored'
  BY <1>1 DEF ShellInv, SentOfTyped, EscapeIs, EscapeEnds, TtyRestored
<1> QED
  BY <1>1, <1>2, <1>3, <1>4 DEF ShellInv

\* A key is looked at.
LEMMA LooksAtKeyKeeps ==
  ASSUME ShellInv, LooksAtKey
  PROVE  ShellInv'
<1> DEFINE key == typed[seenTo + 1]
           over == key = "." /\ escape = 2
<1>1. /\ process = "runs" /\ sender = "looks" /\ seenTo' = seenTo + 1
      /\ UNCHANGED <<typed, readTo, sent, output>>
      /\ over => process' = "escaped" /\ tty' = "saved" /\ escape' = escape /\ sender' = sender
      /\ ~ over => /\ escape' = NextState(key) /\ process' = process /\ tty' = tty
                   /\ sender' = IF seenTo + 1 = readTo THEN "writes" ELSE "looks"
  BY DEF LooksAtKey
<1>2. /\ typed \in Seq(Keys) /\ readTo \in Nat /\ seenTo \in Nat /\ seenTo < readTo
      /\ readTo <= Len(typed) /\ key \in Keys /\ escape \in 0 .. 2
  BY <1>1 DEF ShellInv, ShellTypeOK
<1>3. /\ escape = 1 <=> seenTo > 0 /\ typed[seenTo] = "newline"
      /\ escape = 2 <=> Tildes(typed, seenTo)
  BY <1>1 DEF ShellInv, EscapeIs
<1>4. EndsInEscape(SubSeq(typed, 1, seenTo + 1)) <=> over
  BY <1>2, <1>3, PrefixEscapes
<1>5. Tildes(typed, seenTo + 1) <=> key = "~" /\ escape \in {1, 2}
  BY <1>2, <1>3, NextTilde
<1> HIDE DEF key, over
<1>6. ShellTypeOK'
  <2>1. NextState(key) \in 0 .. 2
    BY <1>2 DEF NextState
  <2>2. seenTo' \in 0 .. readTo /\ (seenTo + 1 # readTo => seenTo' < readTo)
    BY <1>1, <1>2
  <2> QED
    BY <1>1, <1>2, <2>1, <2>2 DEF ShellInv, ShellTypeOK
<1>7. SentOfTyped' /\ (process' = "escaped" => Len(sent') < seenTo') /\ TtyRestored'
  BY <1>1, <1>2 DEF ShellInv, SentOfTyped, TtyRestored
<1>8. EscapeIs'
  <2> SUFFICES ASSUME ~ over PROVE EscapeIs'
    BY <1>1 DEF EscapeIs
  <2>1. escape' = 1 <=> key = "newline"
    BY <1>1, <1>2 DEF NextState, Keys
  <2>2. escape' = 2 <=> key = "~" /\ escape \in {1, 2}
    BY <1>1, <1>2 DEF NextState, Keys
  <2>3. typed'[seenTo'] = key /\ seenTo' > 0
    BY <1>1, <1>2 DEF key
  <2> QED
    BY <1>1, <1>5, <2>1, <2>2, <2>3 DEF EscapeIs
<1>9. EscapeEnds'
  <2>1. \A n \in 1 .. seenTo : ~ EndsInEscape(SubSeq(typed, 1, n))
    BY <1>1 DEF ShellInv, EscapeEnds
  <2>2. \A n \in 1 .. seenTo' : n = seenTo + 1 \/ n \in 1 .. seenTo
    BY <1>1, <1>2
  <2>3. process' = "escaped" <=> over
    BY <1>1
  <2>4. \A n \in 1 .. seenTo : n # seenTo + 1
    BY <1>2
  <2> QED
    BY <1>1, <1>4, <2>1, <2>2, <2>3, <2>4 DEF EscapeEnds
<1> QED
  BY <1>1, <1>2, <1>6, <1>7, <1>8, <1>9 DEF ShellInv

\* What was read is sent, or cannot be.
LEMMA WritesKeysKeeps ==
  ASSUME ShellInv, WritesKeys
  PROVE  ShellInv'
<1>1. /\ process = "runs" /\ sender = "writes"
      /\ UNCHANGED <<typed, readTo, seenTo, escape, tty, output, process>>
      /\ \/ sent' = sent \o SubSeq(typed, Len(sent) + 1, readTo) /\ sender' = "reads"
         \/ sent' = sent /\ sender' = "ended"
  BY DEF WritesKeys
<1>2. /\ typed \in Seq(Keys) /\ readTo \in Nat /\ seenTo = readTo /\ readTo <= Len(typed)
      /\ sent \in Seq(Keys) /\ Len(sent) <= seenTo
      /\ \A i \in 1 .. Len(sent) : sent[i] = typed[i]
  BY <1>1 DEF ShellInv, ShellTypeOK, SentOfTyped
<1>3. SentOfTyped'
  <2>1. CASE sent' = sent
    BY <1>1, <1>2, <2>1 DEF SentOfTyped
  <2>2. CASE sent' = sent \o SubSeq(typed, Len(sent) + 1, readTo)
    <3> DEFINE more == SubSeq(typed, Len(sent) + 1, readTo)
    <3>1. /\ more \in Seq(Keys) /\ Len(more) = readTo - Len(sent)
          /\ \A i \in 1 .. Len(more) : more[i] = typed[Len(sent) + i]
      BY <1>2
    <3> HIDE DEF more
    <3>2. sent' = sent \o more
      BY <2>2 DEF more
    <3>3. sent' \in Seq(Keys) /\ Len(sent') = readTo
      <4>1. sent \in Seq(Keys) /\ more \in Seq(Keys)
        BY <1>2, <3>1
      <4>2. sent \o more \in Seq(Keys) /\ Len(sent \o more) = Len(sent) + Len(more)
        BY <4>1
      <4> QED
        BY <1>2, <3>1, <3>2, <4>2
    <3>4. \A i \in 1 .. readTo : sent'[i] = typed[i]
      <4> TAKE i \in 1 .. readTo
      <4>1. CASE i <= Len(sent)
        BY <1>2, <3>1, <3>2, <4>1
      <4>2. CASE i > Len(sent)
        <5>1. i - Len(sent) \in 1 .. Len(more) /\ sent'[i] = more[i - Len(sent)]
          BY <1>2, <3>1, <3>2, <4>2
        <5> QED
          BY <1>2, <3>1, <5>1
      <4> QED
        BY <1>2, <4>1, <4>2
    <3> QED
      BY <1>1, <1>2, <3>3, <3>4 DEF SentOfTyped
  <2> QED
    BY <1>1, <2>1, <2>2
<1>4. ShellTypeOK'
  BY <1>1, <1>2 DEF ShellInv, ShellTypeOK
<1>5. EscapeIs' /\ EscapeEnds' /\ TtyRestored'
  BY <1>1 DEF ShellInv, EscapeIs, EscapeEnds, TtyRestored
<1> QED
  BY <1>1, <1>2, <1>3, <1>4, <1>5 DEF ShellInv

LEMMA ShellSteps == ShellInv /\ [ShellNext]_shellVars => ShellInv'
<1> SUFFICES ASSUME ShellInv, [ShellNext]_shellVars PROVE ShellInv'
  OBVIOUS
<1>1. CASE ReadsKeys
  BY <1>1, ReadsKeysKeeps
<1>2. CASE LooksAtKey
  BY <1>2, LooksAtKeyKeeps
<1>3. CASE WritesKeys
  BY <1>3, WritesKeysKeeps
<1>4. CASE KeysEnd \/ StreamCloses \/ ShellReturns \/ UNCHANGED shellVars
  <2>1. /\ UNCHANGED <<typed, readTo, seenTo, escape, sent>>
        /\ \/ UNCHANGED <<tty, process>>
           \/ process = "runs" /\ process' = "returned" /\ tty' = "saved"
        /\ sender' \in {sender, "ended"} /\ output' \in {output, "closed"}
    BY <1>4 DEF KeysEnd, StreamCloses, ShellReturns, shellVars
  <2>2. ShellTypeOK'
    BY <2>1 DEF ShellInv, ShellTypeOK
  <2>3. SentOfTyped' /\ (process' = "escaped" => process = "escaped")
    BY <2>1 DEF ShellInv, SentOfTyped
  <2>4. EscapeIs' /\ EscapeEnds' /\ TtyRestored'
    BY <2>1 DEF ShellInv, EscapeIs, EscapeEnds, TtyRestored
  <2> QED
    BY <2>1, <2>2, <2>3, <2>4 DEF ShellInv
<1> QED
  BY <1>1, <1>2, <1>3, <1>4 DEF ShellNext, SenderStep

LEMMA ShellInvSends == ShellInv => SentAsTyped
<1> SUFFICES ASSUME ShellInv PROVE SentAsTyped
  OBVIOUS
<1>1. /\ typed \in Seq(Keys) /\ sent \in Seq(Keys) /\ Len(sent) <= seenTo /\ seenTo \in Nat
      /\ seenTo <= Len(typed) /\ \A i \in 1 .. Len(sent) : sent[i] = typed[i]
  BY DEF ShellInv, SentOfTyped, ShellTypeOK
<1>2. IsPrefix(sent, typed)
  BY <1>1 DEF IsPrefix
<1>3. ASSUME NEW n \in 1 .. Len(sent), EndsInEscape(SubSeq(sent, 1, n)) PROVE FALSE
  <2>1. SubSeq(sent, 1, n) = SubSeq(typed, 1, n)
    BY <1>1
  <2>2. n \in 1 .. seenTo /\ n = seenTo /\ process = "escaped"
    <3>1. n \in 1 .. seenTo
      BY <1>1
    <3>2. EndsInEscape(SubSeq(typed, 1, n))
      BY <1>3, <2>1, Zenon
    <3> QED
      BY <3>1, <3>2 DEF ShellInv, EscapeEnds
  <2> QED
    BY <1>1, <2>2 DEF ShellInv
<1> QED
  BY <1>2, <1>3 DEF SentAsTyped

\* Whatever is typed and however it comes in reads of whatever size, a newline, ~s and a dot
\* end the session and nothing else that is typed does; the device gets what was typed before,
\* in order, and the terminal is given back (stdin_read_thread, interactive_shell).
THEOREM ShellHolds ==
  ShellInit /\ [][ShellNext]_shellVars
    => [](ShellTypeOK /\ EscapeEnds /\ SentAsTyped /\ TtyRestored)
<1>1. ShellInv => ShellTypeOK /\ EscapeEnds /\ SentAsTyped /\ TtyRestored
  BY ShellInvSends DEF ShellInv
<1> QED
  BY <1>1, ShellStarts, ShellSteps, PTL

-----------------------------------------------------------------------------
\* The commands that run something on the device (AdbCommands).

CommandTypes ==
  /\ command \in Commands /\ place \in Streams \cup {"push", "wait", "done"} /\ back \in Streams
  /\ stream \in {"none", "open", "broken"} /\ answer \in {"none", "Success", "Failure"}
  /\ device \in {"up", "down"} /\ losses \in 0 .. MaxLosses /\ temp \in {"none", "part", "whole"}
  /\ err \in {0, 1} /\ session \in {"none", "open", "committed", "abandoned"}
  /\ written \subseteq 1 .. Apks /\ apk \in 1 .. Apks /\ saved \in {"old", "empty", "part", "whole"}
  /\ exitCode \in {-1, 0, 1, NoCode} /\ ran \subseteq Streams /\ cutOff \subseteq Streams

\* Where each command can be, and what it waits with.
CourseOK ==
  \/ command \in {"shell", "once", "exec"} /\ place \in {"shell", "done"}
  \/ command = "persist" /\ place \in {"shell", "wait"} /\ back = "shell"
  \/ command = "waitShell" /\ place \in {"wait", "shell", "done"}
  \/ /\ command = "uninstall" /\ place \in {"uninstall", "wait", "done"}
     /\ place = "wait" => back = "uninstall"
  \/ command = "backup" /\ place \in {"backup", "done"}
  \/ command = "restore" /\ place \in {"restore", "done"}
  \/ /\ command = "install" /\ place \in {"push", "pm", "rm", "wait", "done"}
     /\ place = "wait" => back \in {"pm", "rm"}
  \/ command = "multiple" /\ place \in {"create", "write", "commit", "abandon", "done"}

\* A stream is of the request the command makes.
StreamOK == stream # "none" => place \in Streams /\ place \in ran

EndOK == place = "done" <=> exitCode # NoCode

\* How far install-multiple is with its session.
Told == stream # "none" /\ answer = "Success"
SessionOK ==
  IF command # "multiple" THEN session = "none"
  ELSE /\ place = "create" => /\ written = {} /\ apk = 1
                              /\ session = IF Told THEN "open" ELSE "none"
       /\ place = "write" => /\ session = "open"
                             /\ written = IF Told THEN 1 .. apk ELSE 1 .. apk - 1
       /\ place = "commit" => /\ written = 1 .. Apks
                              /\ session = IF Told THEN "committed" ELSE "open"
       /\ place = "abandon" => session = IF Told THEN "abandoned" ELSE "open"
       /\ place \in {"create", "write", "abandon"} => "commit" \notin ran
       /\ session = "committed" => written = 1 .. Apks
       /\ place = "done" /\ exitCode = 0 =>
            session = "committed" \/ (session = "abandoned" /\ "commit" \notin ran)
       /\ place = "done" /\ session = "open" =>
            cutOff \cap {"create", "commit", "abandon"} # {} \/ answer = "Failure"

\* How far install is with its file.
FileOK ==
  IF command # "install" THEN temp = "none"
  ELSE /\ place = "pm" => err = 0
       /\ place = "wait" /\ back = "pm" => err = 0
       /\ place = "rm" \/ place = "done" \/ (place = "wait" /\ back = "rm") =>
            err = 1 \/ "pm" \in ran
       /\ place = "rm" /\ Told => temp = "none"
       /\ place = "done" => exitCode = err
       /\ place = "done" /\ temp # "none" => "rm" \in cutOff \/ answer = "Failure"

\* An exit of 0 of the others.
OthersOK ==
  command \notin {"install", "multiple"} /\ exitCode = 0 =>
    Starts[command] \in ran \/ (command = "waitShell" /\ "shell" \in ran)

CommandsInv ==
  CommandTypes /\ CourseOK /\ StreamOK /\ EndOK /\ SessionOK /\ FileOK /\ OthersOK

LEMMA CommandStarts == CommandsInit => CommandsInv
<1> SUFFICES ASSUME CommandsInit PROVE CommandsInv
  OBVIOUS
<1>1. command \in Commands /\ place = Starts[command]
  BY DEF CommandsInit
<1>2. CourseOK
  BY <1>1 DEF CommandsInit, CourseOK, Commands, Starts
<1>3. place \in Streams \cup {"push", "wait"}
  BY <1>1 DEF Commands, Starts, Streams
<1>4. CommandTypes
  BY <1>1, <1>3, CommandAssumption DEF CommandsInit, CommandTypes, Streams, NoCode
<1>5. EndOK /\ StreamOK
  BY <1>3 DEF CommandsInit, EndOK, StreamOK, Streams
<1>6. command = "multiple" => place = "create"
  BY <1>1 DEF Starts
<1>7. command = "install" => place = "push"
  BY <1>1 DEF Starts
<1>8. SessionOK
  BY <1>6 DEF CommandsInit, SessionOK, Told
<1>9. FileOK
  BY <1>7 DEF CommandsInit, FileOK
<1>10. OthersOK
  BY DEF CommandsInit, OthersOK, NoCode
<1> QED
  BY <1>2, <1>4, <1>5, <1>8, <1>9, <1>10 DEF CommandsInv

LEMMA DeviceGoesKeeps ==
  ASSUME CommandsInv, DeviceGoes \/ DeviceComes
  PROVE  CommandsInv'
<1>1. /\ UNCHANGED <<command, place, back, answer, madeVars, err, apk, saved, exitCode, ran,
                     cutOff>>
      /\ (stream' = "none" <=> stream = "none") /\ stream' \in {"none", "open", "broken"}
  BY DEF DeviceGoes, DeviceComes, CommandsInv, CommandTypes
<1>2. device' \in {"up", "down"} /\ losses' \in 0 .. MaxLosses
  BY CommandAssumption DEF DeviceGoes, DeviceComes, CommandsInv, CommandTypes
<1>6. CommandTypes'
  BY <1>1, <1>2 DEF CommandsInv, CommandTypes, madeVars
<1>3. CourseOK' /\ StreamOK' /\ EndOK' /\ OthersOK'
  BY <1>1 DEF CommandsInv, CourseOK, StreamOK, EndOK, OthersOK
<1>4. Told' = Told
  BY <1>1 DEF Told
<1>5. SessionOK' /\ FileOK'
  BY <1>1, <1>4 DEF CommandsInv, SessionOK, FileOK, madeVars
<1> QED
  BY <1>3, <1>5, <1>6 DEF CommandsInv

\* The device does what the request asks, or fails to.
LEMMA DeviceWorksKeeps ==
  ASSUME CommandsInv, DeviceWorks
  PROVE  CommandsInv'
<1> DEFINE done == answer' = "Success"
<1>1. /\ UNCHANGED <<command, place, back, stream, deviceVars, err, apk, saved, exitCode, ran,
                     cutOff>>
      /\ stream = "open" /\ ~ Told /\ (Told' <=> done) /\ answer' \in {"Success", "Failure"}
      /\ temp' = IF place = "rm" /\ done THEN "none" ELSE temp
      /\ session' = CASE place = "create" /\ done -> "open"
                      [] place = "commit" /\ done -> "committed"
                      [] place = "abandon" /\ done -> "abandoned"
                      [] OTHER -> session
      /\ written' = IF place = "write" /\ done THEN written \cup {apk} ELSE written
  BY DEF DeviceWorks, Told
<1>2. CommandTypes /\ CourseOK /\ StreamOK /\ EndOK /\ SessionOK /\ FileOK /\ OthersOK
      /\ place # "done"
  BY <1>1 DEF CommandsInv, StreamOK, Streams
<1> HIDE DEF done
<1>3. session' \in {"none", "open", "committed", "abandoned"} /\ written' \subseteq 1 .. Apks
  BY <1>1, <1>2 DEF CommandTypes
<1>4. CommandTypes'
  BY <1>1, <1>2, <1>3 DEF CommandTypes, deviceVars
<1>5. CourseOK' /\ StreamOK' /\ EndOK' /\ OthersOK'
  BY <1>1, <1>2 DEF CourseOK, StreamOK, EndOK, OthersOK
<1>6. FileOK'
  BY <1>1, <1>2 DEF FileOK
<1>7. CASE command # "multiple"
  <2>1. place \notin {"create", "commit", "abandon"}
    BY <1>2, <1>7 DEF CourseOK
  <2> QED
    BY <1>1, <1>2, <1>4, <1>5, <1>6, <1>7, <2>1 DEF SessionOK, CommandsInv
<1>8. CASE command = "multiple"
  <2>1. CASE place = "create"
    BY <1>1, <1>2, <1>4, <1>5, <1>6, <1>8, <2>1 DEF SessionOK, CommandsInv
  <2>2. CASE place = "write"
    <3>1. apk \in 1 .. Apks /\ written = 1 .. apk - 1
      BY <1>1, <1>2, <1>8, <2>2 DEF SessionOK, CommandTypes
    <3>2. (1 .. apk - 1) \cup {apk} = 1 .. apk
      BY <3>1, CommandAssumption
    <3> QED
      BY <1>1, <1>2, <1>4, <1>5, <1>6, <1>8, <2>2, <3>1, <3>2 DEF SessionOK, CommandsInv
  <2>3. CASE place = "commit"
    BY <1>1, <1>2, <1>4, <1>5, <1>6, <1>8, <2>3 DEF SessionOK, CommandsInv
  <2>4. CASE place = "abandon"
    BY <1>1, <1>2, <1>4, <1>5, <1>6, <1>8, <2>4 DEF SessionOK, CommandsInv
  <2> QED
    BY <1>2, <1>8, <2>1, <2>2, <2>3, <2>4 DEF CourseOK
<1> QED
  BY <1>7, <1>8

LEMMA StreamOpensKeeps ==
  ASSUME CommandsInv, StreamOpens
  PROVE  CommandsInv'
<1>1. /\ place \in Streams /\ stream = "none" /\ stream' = "open" /\ answer' = "none"
      /\ ran' = ran \cup {place} /\ ~ Told /\ ~ Told' /\ saved' \in {"empty", saved}
      /\ UNCHANGED <<command, place, back, deviceVars, madeVars, err, apk, exitCode, cutOff>>
  BY DEF StreamOpens, Told
<1>2. CommandTypes /\ CourseOK /\ StreamOK /\ EndOK /\ SessionOK /\ FileOK /\ OthersOK
      /\ place # "done" /\ exitCode = NoCode
  BY <1>1 DEF CommandsInv, EndOK, Streams
<1>3. CommandTypes'
  BY <1>1, <1>2 DEF CommandTypes, madeVars, deviceVars
<1>4. CourseOK' /\ StreamOK' /\ EndOK' /\ OthersOK'
  BY <1>1, <1>2 DEF CourseOK, StreamOK, EndOK, OthersOK, NoCode
<1>5. SessionOK'
  BY <1>1, <1>2 DEF SessionOK, madeVars
<1>6. FileOK'
  BY <1>1, <1>2 DEF FileOK, madeVars
<1> QED
  BY <1>3, <1>4, <1>5, <1>6 DEF CommandsInv

LEMMA OpenFailsKeeps ==
  ASSUME CommandsInv, OpenFails
  PROVE  CommandsInv'
<1>1. /\ place \in Streams /\ stream = "none" /\ ~ Told /\ ~ Told'
      /\ back' = place /\ cutOff' = cutOff \cup {place} /\ saved' \in {"empty", saved}
      /\ UNCHANGED <<command, stream, answer, deviceVars, madeVars, err, apk, ran>>
  BY DEF OpenFails, Told
<1>2. CommandTypes /\ CourseOK /\ StreamOK /\ EndOK /\ SessionOK /\ FileOK /\ OthersOK
      /\ place # "done" /\ exitCode = NoCode
  BY <1>1 DEF CommandsInv, EndOK, Streams
<1>3. \/ /\ place \in {"uninstall", "pm", "rm"} \/ (place = "shell" /\ command = "persist")
         /\ place' = "wait" /\ exitCode' = exitCode
      \/ place = "write" /\ place' = "abandon" /\ exitCode' = exitCode
      \/ /\ place \notin {"uninstall", "pm", "rm", "write"}
         /\ ~ (place = "shell" /\ command = "persist")
         /\ place' = "done" /\ exitCode' = -1
  BY <1>1 DEF OpenFails, GoesTo, ExitsWith
<1>4. CommandTypes'
  BY <1>1, <1>2, <1>3 DEF CommandTypes, madeVars, deviceVars, Streams
<1>5. CourseOK'
  BY <1>1, <1>2, <1>3 DEF CourseOK, Streams
<1>6. StreamOK' /\ EndOK' /\ OthersOK'
  BY <1>1, <1>2, <1>3 DEF StreamOK, EndOK, OthersOK, NoCode
<1>7. SessionOK'
  BY <1>1, <1>2, <1>3 DEF SessionOK, madeVars, CourseOK, NoCode
<1>8. FileOK'
  BY <1>1, <1>2, <1>3 DEF FileOK, madeVars, CourseOK, Streams
<1> QED
  BY <1>4, <1>5, <1>6, <1>7, <1>8 DEF CommandsInv

LEMMA WaitReturnsKeeps ==
  ASSUME CommandsInv, WaitReturns
  PROVE  CommandsInv'
<1>1. /\ place = "wait"
      /\ \/ place' = "shell" /\ command = "waitShell" /\ exitCode' = exitCode
         \/ place' = "done" /\ command = "waitShell" /\ exitCode' = 1
         \/ place' = back /\ command # "waitShell" /\ exitCode' = exitCode
      /\ UNCHANGED <<command, back, stream, answer, deviceVars, madeVars, err, apk, saved, ran,
                     cutOff>>
  BY DEF WaitReturns, GoesTo, ExitsWith
<1>2. CommandTypes /\ CourseOK /\ StreamOK /\ EndOK /\ SessionOK /\ FileOK /\ OthersOK
      /\ exitCode = NoCode /\ stream = "none" /\ ~ Told'
  BY <1>1 DEF CommandsInv, EndOK, StreamOK, Streams, Told
<1>3. CommandTypes'
  BY <1>1, <1>2 DEF CommandTypes, madeVars, deviceVars, Streams
<1>4. CourseOK'
  BY <1>1, <1>2 DEF CourseOK
<1>5. StreamOK' /\ EndOK' /\ OthersOK'
  BY <1>1, <1>2 DEF StreamOK, EndOK, OthersOK, NoCode, CommandTypes, Streams
<1>6. SessionOK'
  BY <1>1, <1>2 DEF SessionOK, madeVars, CourseOK
<1>7. FileOK'
  BY <1>1, <1>2 DEF FileOK, madeVars, CourseOK
<1> QED
  BY <1>3, <1>4, <1>5, <1>6, <1>7 DEF CommandsInv

LEMMA PushesKeeps ==
  ASSUME CommandsInv, Pushes
  PROVE  CommandsInv'
<1>1. /\ place = "push" /\ exitCode' = exitCode /\ temp' \in {temp, "part", "whole"}
      /\ \/ err' = 0 /\ place' = "pm"
         \/ err' = 1 /\ place' = "rm"
      /\ UNCHANGED <<command, back, stream, answer, deviceVars, session, written, apk, saved,
                     ran, cutOff>>
  BY DEF Pushes, GoesTo
<1>2. CommandTypes /\ CourseOK /\ StreamOK /\ EndOK /\ SessionOK /\ FileOK /\ OthersOK
      /\ exitCode = NoCode /\ stream = "none" /\ ~ Told'
  BY <1>1 DEF CommandsInv, EndOK, StreamOK, Streams, Told
<1>3. command = "install"
  BY <1>1, <1>2 DEF CourseOK
<1>4. CommandTypes'
  BY <1>1, <1>2 DEF CommandTypes, deviceVars, Streams
<1>5. CourseOK' /\ StreamOK' /\ EndOK' /\ OthersOK'
  BY <1>1, <1>2, <1>3 DEF CourseOK, StreamOK, EndOK, OthersOK
<1>6. SessionOK' /\ FileOK'
  BY <1>1, <1>2, <1>3 DEF SessionOK, FileOK
<1> QED
  BY <1>4, <1>5, <1>6 DEF CommandsInv

\* What follows a request whose output was read to its end.
LEMMA WhatFollows ==
  ASSUME CommandTypes, CourseOK, NEW told \in {answer, "none"}, Follows(told), place \in Streams
  PROVE  /\ command = "multiple" =>
              \/ /\ place = "create" /\ told = "Success" /\ place' = "write"
                 /\ exitCode' = exitCode /\ apk' = apk
              \/ /\ place = "create" /\ told # "Success" /\ place' = "done"
                 /\ exitCode' = -1 /\ apk' = apk
              \/ /\ place = "write" /\ told # "Success" /\ place' = "abandon"
                 /\ exitCode' = exitCode /\ apk' = apk
              \/ /\ place = "write" /\ told = "Success" /\ apk < Apks /\ place' = "write"
                 /\ exitCode' = exitCode /\ apk' = apk + 1
              \/ /\ place = "write" /\ told = "Success" /\ ~ apk < Apks /\ place' = "commit"
                 /\ exitCode' = exitCode /\ apk' = apk
              \/ /\ place \in {"commit", "abandon"} /\ place' = "done" /\ apk' = apk
                 /\ exitCode' = IF told = "Success" THEN 0 ELSE -1
         /\ command = "install" =>
              /\ apk' = apk
              /\ \/ place = "pm" /\ place' = "rm" /\ exitCode' = exitCode
                 \/ place = "rm" /\ place' = "done" /\ exitCode' = err
         /\ command = "persist" =>
              place = "shell" /\ place' = "wait" /\ exitCode' = exitCode /\ apk' = apk
         /\ command \notin {"multiple", "install", "persist"} =>
              /\ place = Starts[command] \/ (place = "shell" /\ command = "waitShell")
              /\ place' = "done" /\ exitCode' = 0 /\ apk' = apk
<1>1. CASE command = "multiple"
  <2>1. place \in {"create", "write", "commit", "abandon"}
    BY <1>1 DEF CourseOK, Streams
  <2>2. CASE place = "create"
    BY <1>1, <2>2 DEF Follows, GoesTo, ExitsWith
  <2>3. CASE place = "write"
    BY <1>1, <2>3 DEF Follows, Written, GoesTo
  <2>4. CASE place \in {"commit", "abandon"}
    BY <1>1, <2>4 DEF Follows, Finalized, ExitsWith
  <2> QED
    BY <1>1, <2>1, <2>2, <2>3, <2>4
<1>2. CASE command = "install"
  <2>1. place \in {"pm", "rm"}
    BY <1>2 DEF CourseOK, Streams
  <2> QED
    BY <1>2, <2>1 DEF Follows, GoesTo, ExitsWith
<1>3. CASE command = "persist"
  <2>1. place = "shell"
    BY <1>3 DEF CourseOK, Streams
  <2> QED
    BY <1>3, <2>1 DEF Follows, GoesTo
<1>4. CASE command \notin {"multiple", "install", "persist"}
  <2>1. \/ command \in {"shell", "once", "exec", "waitShell"} /\ place = "shell"
        \/ command \in {"uninstall", "backup", "restore"} /\ place = command
    BY <1>4 DEF CourseOK, Streams
  <2>2. place' = "done" /\ exitCode' = 0 /\ apk' = apk
    BY <1>4, <2>1 DEF Follows, ExitsWith
  <2>3. place = Starts[command] \/ (place = "shell" /\ command = "waitShell")
    BY <2>1 DEF Starts
  <2> QED
    BY <1>4, <2>2, <2>3
<1> QED
  BY <1>1, <1>2, <1>3, <1>4

LEMMA ReadsToEndKeeps ==
  ASSUME CommandsInv, ReadsToEnd
  PROVE  CommandsInv'
<1>1. PICK told \in {answer, "none"} :
        /\ Follows(told)
        /\ \/ /\ stream = "open" /\ told = answer /\ (answer # "none" \/ place = "restore")
              /\ cutOff' = cutOff /\ saved' \in {"whole", saved}
           \/ /\ stream = "broken" /\ cutOff' = cutOff \cup {place} /\ saved' \in {"part", saved}
  BY DEF ReadsToEnd
<1>2. /\ stream # "none" /\ stream' = "none" /\ back' = place /\ ~ Told'
      /\ UNCHANGED <<command, answer, deviceVars, madeVars, err, ran>>
  BY DEF ReadsToEnd, Told
<1>3. CommandTypes /\ CourseOK /\ StreamOK /\ EndOK /\ SessionOK /\ FileOK /\ OthersOK
      /\ exitCode = NoCode /\ place \in Streams /\ place \in ran /\ (told = "Success" => Told)
  BY <1>1, <1>2 DEF CommandsInv, EndOK, StreamOK, Streams, Told
<1>7. cutOff' \subseteq Streams /\ saved' \in {"old", "empty", "part", "whole"}
  BY <1>1, <1>3 DEF CommandTypes
<1>4. CASE command = "multiple"
  <2>1. \/ /\ place = "create" /\ told = "Success" /\ place' = "write"
           /\ exitCode' = exitCode /\ apk' = apk
        \/ /\ place = "create" /\ told # "Success" /\ place' = "done"
           /\ exitCode' = -1 /\ apk' = apk
        \/ /\ place = "write" /\ told # "Success" /\ place' = "abandon"
           /\ exitCode' = exitCode /\ apk' = apk
        \/ /\ place = "write" /\ told = "Success" /\ apk < Apks /\ place' = "write"
           /\ exitCode' = exitCode /\ apk' = apk + 1
        \/ /\ place = "write" /\ told = "Success" /\ ~ apk < Apks /\ place' = "commit"
           /\ exitCode' = exitCode /\ apk' = apk
        \/ /\ place \in {"commit", "abandon"} /\ place' = "done" /\ apk' = apk
           /\ exitCode' = IF told = "Success" THEN 0 ELSE -1
    BY <1>1, <1>3, <1>4, WhatFollows
  <2>2. apk' \in 1 .. Apks
    BY <1>3, <2>1, CommandAssumption DEF CommandTypes
  <2>3. CommandTypes'
    <3>1. place' \in Streams \cup {"push", "wait", "done"} /\ exitCode' \in {-1, 0, 1, NoCode}
      BY <1>3, <2>1 DEF CommandTypes, Streams
    <3> QED
      BY <1>2, <1>3, <1>7, <2>2, <3>1 DEF CommandTypes, madeVars, deviceVars
  <2>4. CourseOK' /\ StreamOK' /\ EndOK' /\ OthersOK' /\ FileOK'
    BY <1>2, <1>3, <1>4, <2>1
       DEF CourseOK, StreamOK, EndOK, OthersOK, FileOK, NoCode, madeVars
  <2>5. CASE place = "create"
    <3>1. written = 1 .. apk - 1
      BY <1>3, <1>4, <2>5 DEF SessionOK
    <3>2. told # "Success" /\ session = "open" => stream = "broken" \/ answer = "Failure"
      BY <1>1, <1>3, <1>4, <2>5 DEF SessionOK, CommandTypes, Told
    <3>3. SessionOK'
      BY <1>1, <1>2, <1>3, <1>4, <2>1, <2>5, <3>1, <3>2 DEF SessionOK, madeVars
    <3> QED
      BY <2>3, <2>4, <3>3 DEF CommandsInv
  <2>6. CASE place = "write"
    <3>1. session = "open" /\ (told = "Success" => written = 1 .. apk)
      BY <1>3, <1>4, <2>6 DEF SessionOK
    <3>2. apk \in 1 .. Apks /\ (~ apk < Apks => apk = Apks) /\ (apk + 1) - 1 = apk
      BY <1>3, CommandAssumption DEF CommandTypes
    <3>3. SessionOK'
      BY <1>1, <1>2, <1>3, <1>4, <2>1, <2>6, <3>1, <3>2 DEF SessionOK, madeVars
    <3> QED
      BY <2>3, <2>4, <3>3 DEF CommandsInv
  <2>7. CASE place \in {"commit", "abandon"}
    <3>1. told # "Success" /\ session = "open" => stream = "broken" \/ answer = "Failure"
      BY <1>1, <1>3, <1>4, <2>7 DEF SessionOK, CommandTypes, Told
    <3>2. SessionOK'
      BY <1>1, <1>2, <1>3, <1>4, <2>1, <2>7, <3>1 DEF SessionOK, madeVars
    <3> QED
      BY <2>3, <2>4, <3>2 DEF CommandsInv
  <2> QED
    BY <2>1, <2>5, <2>6, <2>7
<1>5. CASE command = "install"
  <2>1. /\ apk' = apk
        /\ \/ place = "pm" /\ place' = "rm" /\ exitCode' = exitCode
           \/ place = "rm" /\ place' = "done" /\ exitCode' = err
    BY <1>1, <1>3, <1>5, WhatFollows
  <2>2. CommandTypes'
    <3>1. place' \in Streams \cup {"push", "wait", "done"} /\ exitCode' \in {-1, 0, 1, NoCode}
      BY <1>3, <2>1 DEF CommandTypes, Streams
    <3> QED
      BY <1>2, <1>3, <1>7, <2>1, <3>1 DEF CommandTypes, madeVars, deviceVars
  <2>3. CourseOK' /\ StreamOK' /\ EndOK' /\ OthersOK' /\ SessionOK'
    BY <1>2, <1>3, <1>5, <2>1
       DEF CourseOK, StreamOK, EndOK, OthersOK, SessionOK, NoCode, madeVars, CommandTypes
  <2>4. place = "rm" /\ temp # "none" => stream = "broken" \/ answer = "Failure"
    BY <1>1, <1>3, <1>5 DEF FileOK, CommandTypes, Told
  <2>5. FileOK'
    BY <1>1, <1>2, <1>3, <1>5, <2>1, <2>4 DEF FileOK, madeVars
  <2> QED
    BY <2>2, <2>3, <2>5 DEF CommandsInv
<1>6. CASE command \notin {"multiple", "install"}
  <2>1. /\ apk' = apk
        /\ \/ command = "persist" /\ place' = "wait" /\ exitCode' = exitCode /\ place = "shell"
           \/ /\ command # "persist" /\ place' = "done" /\ exitCode' = 0
              /\ place = Starts[command] \/ (place = "shell" /\ command = "waitShell")
    BY <1>1, <1>3, <1>6, WhatFollows
  <2>2. CommandTypes'
    <3>1. place' \in Streams \cup {"push", "wait", "done"} /\ exitCode' \in {-1, 0, 1, NoCode}
      BY <1>3, <2>1 DEF CommandTypes, Streams
    <3> QED
      BY <1>2, <1>3, <1>7, <2>1, <3>1 DEF CommandTypes, madeVars, deviceVars
  <2>3. CourseOK' /\ StreamOK' /\ EndOK'
    BY <1>2, <1>3, <1>6, <2>1 DEF CourseOK, StreamOK, EndOK, NoCode
  <2>4. OthersOK'
    BY <1>2, <1>3, <1>6, <2>1 DEF OthersOK, NoCode
  <2>5. FileOK' /\ SessionOK'
    BY <1>2, <1>3, <1>6 DEF FileOK, SessionOK, madeVars
  <2> QED
    BY <2>2, <2>3, <2>4, <2>5 DEF CommandsInv
<1> QED
  BY <1>4, <1>5, <1>6

LEMMA CommandSteps == CommandsInv /\ [CommandsNext]_commandVars => CommandsInv'
<1> SUFFICES ASSUME CommandsInv, [CommandsNext]_commandVars PROVE CommandsInv'
  OBVIOUS
<1>1. CASE UNCHANGED commandVars
  BY <1>1 DEF commandVars, madeVars, CommandsInv, CommandTypes, CourseOK, StreamOK, EndOK,
              SessionOK, FileOK, OthersOK, Told
<1>2. CASE CommandsNext
  BY <1>2, DeviceGoesKeeps, DeviceWorksKeeps, StreamOpensKeeps, OpenFailsKeeps,
     WaitReturnsKeeps, PushesKeeps, ReadsToEndKeeps DEF CommandsNext, CommandGoesOn
<1> QED
  BY <1>1, <1>2

LEMMA CommandsMean ==
  CommandsInv => CommandsTypeOK /\ CommittedWhole /\ ZeroMeans /\ NothingLeft
<1> SUFFICES ASSUME CommandsInv
             PROVE  CommandsTypeOK /\ CommittedWhole /\ ZeroMeans /\ NothingLeft
  OBVIOUS
<1>1. CommandTypes /\ CourseOK /\ EndOK /\ SessionOK /\ FileOK /\ OthersOK
  BY DEF CommandsInv
<1>2. CommandsTypeOK
  BY <1>1 DEF CommandsTypeOK, CommandTypes, EndOK
<1>3. CommittedWhole
  BY <1>1 DEF CommittedWhole, SessionOK, CourseOK
<1>4. ZeroMeans
  <2>1. exitCode = 0 => place = "done"
    BY <1>1 DEF EndOK, NoCode
  <2>2. CASE command = "install"
    BY <1>1, <2>1, <2>2 DEF ZeroMeans, FileOK
  <2>3. CASE command = "multiple"
    BY <1>1, <2>1, <2>3 DEF ZeroMeans, SessionOK
  <2>4. CASE command \notin {"install", "multiple"}
    BY <1>1, <2>4 DEF ZeroMeans, OthersOK
  <2> QED
    BY <2>2, <2>3, <2>4
<1>5. NothingLeft
  BY <1>1 DEF NothingLeft, SessionOK, FileOK
<1> QED
  BY <1>2, <1>3, <1>4, <1>5

\* However often the device goes, and however many apks there are: a session is committed
\* with every apk written or not at all, an exit of 0 says what it should, and an install
\* leaves behind only what it was kept from removing
\* (install_app, install_multiple_app, send_shell_command).
THEOREM CommandsHold ==
  CommandsInit /\ [][CommandsNext]_commandVars =>
    [](CommandsTypeOK /\ CommittedWhole /\ ZeroMeans /\ NothingLeft)
<1>1. CommandsInit => CommandsInv
  BY CommandStarts
<1>2. CommandsInv /\ [CommandsNext]_commandVars => CommandsInv'
  BY CommandSteps
<1>3. CommandsInv => CommandsTypeOK /\ CommittedWhole /\ ZeroMeans /\ NothingLeft
  BY CommandsMean
<1> QED
  BY <1>1, <1>2, <1>3, PTL

-----------------------------------------------------------------------------
\* Sideload (AdbSideload).

\* A number below what it wraps at is its own remainder.
LEMMA OwnRemainder ==
  ASSUME NEW n \in Nat, n < Whole
  PROVE  n % Whole = n
  BY SideloadAssumption DEF Whole

\* What is left after wrapping fits.
LEMMA RemainderFits ==
  ASSUME NEW n \in Nat
  PROVE  n % Whole \in Nat /\ n % Whole < Whole
  BY SideloadAssumption DEF Whole

LEMMA AsIntOfAny ==
  ASSUME NEW n \in Nat
  PROVE  AsInt(n) = IF n % Whole > IntMax THEN (n % Whole) - Whole ELSE n % Whole
  BY Zenon DEF AsInt

LEMMA AsIntIs ==
  ASSUME NEW n \in Nat, n < Whole
  PROVE  /\ AsInt(n) = IF n > IntMax THEN n - Whole ELSE n
         /\ AsInt(n) \in Int /\ AsInt(n) <= n
<1>1. n % Whole = n /\ Whole \in Nat
  BY OwnRemainder, SideloadAssumption DEF Whole
<1>2. AsInt(n) = IF n > IntMax THEN n - Whole ELSE n
  BY <1>1, Zenon DEF AsInt
<1>3. IntMax \in Nat
  BY SideloadAssumption
<1> QED
  BY <1>1, <1>2, <1>3

SideloadInv ==
  /\ size \in 0 .. Whole - 1 /\ wide \in BOOLEAN /\ exact \in BOOLEAN
  /\ SideloadTypeOK /\ BlocksRight /\ PastOnlyIfPast
  /\ reason # "none" => host = "done"
  /\ host = "response" \/ reason = "okay" => AsInt(size) <= gotten

LEMMA SizeFits ==
  ASSUME size \in 0 .. Whole - 1
  PROVE  size \in Nat /\ size < Whole
  BY SideloadAssumption DEF Whole

\* What the offset of a block says of it, as wide as its product may be.
LEMMA CutOffsets ==
  ASSUME size \in 0 .. Whole - 1, wide \in BOOLEAN, block \in 0 .. MaxBlocks
  PROVE  /\ CutOffset \in Nat
         /\ CutOffset < size => CutOffset = block * BlockSize \/ block * BlockSize >= Whole
         /\ CutOffset >= size =>
              block * BlockSize >= size \/ (wide /\ block * BlockSize > IntMax)
<1> DEFINE p == block * BlockSize
           rest == p % Whole
<1>1. p \in Nat
  BY SideloadAssumption
<1>2. size \in Nat /\ size < Whole
  BY SizeFits
<1>3. Whole \in Nat /\ Whole >= 4 /\ IntMax \in Nat /\ IntMax < Whole
  BY SideloadAssumption DEF Whole
<1>4. AsInt(p) = IF rest > IntMax THEN rest - Whole ELSE rest
  BY <1>1, AsIntOfAny
<1>5. CutOffset = IF AsInt(p) < 0 THEN AsInt(p) + (IF wide THEN Whole * Whole ELSE Whole)
                  ELSE AsInt(p)
  BY Zenon DEF CutOffset
<1>6. Whole * Whole >= 2 * Whole
  <2>1. (Whole - 2) * Whole >= 0
    BY <1>3
  <2>2. Whole * Whole - 2 * Whole = (Whole - 2) * Whole
    BY <1>3
  <2> QED
    BY <1>3, <2>1, <2>2
<1> DEFINE square == Whole * Whole
<1>7. square \in Nat /\ square >= 2 * Whole
  BY <1>3, <1>6
<1>8. rest \in Nat /\ rest < Whole
  BY <1>1, RemainderFits
<1>9. p < Whole => rest = p
  BY <1>1, OwnRemainder
<1>10. CutOffset = IF rest <= IntMax THEN rest ELSE IF wide THEN rest - Whole + square ELSE rest
  <2> HIDE DEF rest, square
  <2>1. CASE rest <= IntMax
    BY <1>8, <1>3, <1>4, <1>5, <2>1
  <2>2. CASE ~ (rest <= IntMax)
    <3>1. AsInt(p) = rest - Whole /\ AsInt(p) < 0
      BY <1>8, <1>3, <1>4, <2>2
    <3>2. (rest - Whole) + Whole = rest
      BY <1>8, <1>3
    <3> QED
      BY <1>5, <2>2, <3>1, <3>2 DEF square
  <2> QED
    BY <2>1, <2>2
<1> HIDE DEF p, rest, square
<1>11. /\ CutOffset \in Nat
       /\ CutOffset < size => CutOffset = p \/ p >= Whole
       /\ CutOffset >= size => p >= size \/ (wide /\ p > IntMax)
  BY <1>1, <1>2, <1>3, <1>7, <1>8, <1>9, <1>10
<1> QED
  BY <1>11 DEF p

LEMMA Offsets ==
  ASSUME size \in 0 .. Whole - 1, wide \in BOOLEAN, exact \in BOOLEAN,
         block \in 0 .. MaxBlocks
  PROVE  /\ Offset \in Nat
         /\ Offset < size =>
              Offset = block * BlockSize \/ (~ exact /\ block * BlockSize >= Whole)
         /\ Offset >= size =>
              block * BlockSize >= size \/ (wide /\ ~ exact /\ block * BlockSize > IntMax)
<1>1. CASE exact
  <2>1. block * BlockSize \in Nat /\ Offset = block * BlockSize
    BY <1>1, SideloadAssumption DEF Offset
  <2> QED
    BY <1>1, <2>1
<1>2. CASE ~ exact
  <2>1. Offset = CutOffset
    BY <1>2 DEF Offset
  <2> QED
    BY <1>2, <2>1, CutOffsets
<1> QED
  BY <1>1, <1>2

LEMMA SideloadStarts == SideloadInit => SideloadInv
<1> SUFFICES ASSUME SideloadInit PROVE SideloadInv
  OBVIOUS
<1>1. size \in Nat /\ MaxBlocks \in Nat /\ MaxAsked \in Nat
  BY SizeFits, SideloadAssumption DEF SideloadInit
<1>2. SideloadTypeOK
  <2>1. NoBlock \in NoBlock .. MaxBlocks + 1
    BY <1>1 DEF NoBlock
  <2>2. 0 \in 0 .. MaxAsked /\ 0 \in 0 .. size
    BY <1>1
  <2> QED
    BY <2>1, <2>2 DEF SideloadInit, SideloadTypeOK
<1>3. BlocksRight /\ PastOnlyIfPast
  BY DEF SideloadInit, BlocksRight, PastOnlyIfPast
<1> QED
  BY <1>2, <1>3 DEF SideloadInit, SideloadInv

LEMMA AsksKeeps ==
  ASSUME SideloadInv, Asks
  PROVE  SideloadInv'
<1>1. UNCHANGED <<size, wide, exact, host, lastBlock, gotten, result, reason>> /\ host = "command"
  BY DEF Asks
<1>2. block' \in NoBlock .. MaxBlocks + 1 /\ asked' \in 0 .. MaxAsked /\ hungUp' \in BOOLEAN
  <2>1. block \in NoBlock .. MaxBlocks + 1 /\ asked \in 0 .. MaxAsked /\ hungUp \in BOOLEAN
    BY DEF SideloadInv, SideloadTypeOK
  <2>2. MaxBlocks \in Nat /\ MaxAsked \in Nat
    BY SideloadAssumption
  <2>3. /\ 0 .. MaxBlocks \subseteq NoBlock .. MaxBlocks + 1
        /\ MaxBlocks + 1 \in NoBlock .. MaxBlocks + 1
    BY <2>2 DEF NoBlock
  <2>4. asked < MaxAsked => asked + 1 \in 0 .. MaxAsked
    BY <2>1, <2>2
  <2> QED
    BY <2>1, <2>3, <2>4 DEF Asks
<1>3. reason = "none"
  BY <1>1 DEF SideloadInv
<1>4. SideloadTypeOK'
  BY <1>1, <1>2 DEF SideloadInv, SideloadTypeOK
<1>5. BlocksRight' /\ PastOnlyIfPast'
  BY <1>1, <1>3 DEF SideloadInv, BlocksRight, PastOnlyIfPast
<1> QED
  BY <1>1, <1>3, <1>4, <1>5 DEF SideloadInv, AsInt, Whole

\* It ends, for any reason but that the device has the file.
LEMMA EndsKeeps ==
  ASSUME SideloadInv, NEW code \in {-1, 0}, NEW cause \in {"done", "hungUp", "connect"},
         SideloadEndsWith(code, cause), code = 0 => cause = "done",
         UNCHANGED <<size, wide, exact, block, asked, lastBlock, gotten, hungUp>>
  PROVE  SideloadInv'
<1>1. host' = "done" /\ result' = code /\ reason' = cause
  BY DEF SideloadEndsWith
<1>2. SideloadTypeOK'
  BY <1>1 DEF SideloadInv, SideloadTypeOK
<1>3. BlocksRight' /\ PastOnlyIfPast'
  BY <1>1 DEF SideloadInv, BlocksRight, PastOnlyIfPast
<1> QED
  BY <1>1, <1>2, <1>3 DEF SideloadInv

LEMMA ServesBlockKeeps ==
  ASSUME SideloadInv, ServesBlock
  PROVE  SideloadInv'
<1>1. host = "command" /\ UNCHANGED <<size, wide, exact, asked, gotten, hungUp>>
  BY DEF ServesBlock
<1>2. /\ size \in Nat /\ size \in 0 .. Whole - 1 /\ wide \in BOOLEAN /\ exact \in BOOLEAN
      /\ reason = "none" /\ BlockSize \in Nat
  BY <1>1, SizeFits, SideloadAssumption DEF SideloadInv
<1>3. \/ SideloadEndsWith(0, "done") /\ UNCHANGED <<block, lastBlock>>
      \/ SideloadEndsWith(-1, "hungUp") /\ UNCHANGED <<block, lastBlock>>
      \/ /\ block \in 0 .. MaxBlocks /\ PastEnd(Offset)
         /\ SideloadEndsWith(-1, "past") /\ UNCHANGED <<block, lastBlock>>
      \/ /\ block \in 0 .. MaxBlocks /\ ~ PastEnd(Offset)
         /\ lastBlock' = ServedBlock(Offset) /\ block' = NoBlock
         /\ UNCHANGED <<host, result, reason>>
  BY DEF ServesBlock
<1>4. CASE /\ block \in 0 .. MaxBlocks /\ PastEnd(Offset)
           /\ SideloadEndsWith(-1, "past") /\ UNCHANGED <<block, lastBlock>>
  <2>1. host' = "done" /\ result' = -1 /\ reason' = "past"
    BY <1>4 DEF SideloadEndsWith
  <2>2. PastOnlyIfPast'
    BY <1>1, <1>2, <1>4, Offsets DEF PastOnlyIfPast, PastEnd
  <2>3. SideloadTypeOK' /\ BlocksRight'
    BY <1>1, <1>4, <2>1 DEF SideloadInv, SideloadTypeOK, BlocksRight
  <2> QED
    BY <1>1, <2>1, <2>2, <2>3 DEF SideloadInv
<1>5. CASE /\ block \in 0 .. MaxBlocks /\ ~ PastEnd(Offset)
           /\ lastBlock' = ServedBlock(Offset) /\ block' = NoBlock
           /\ UNCHANGED <<host, result, reason>>
  <2>1. /\ Offset \in Nat /\ Offset < size
        /\ Offset = block * BlockSize \/ (~ exact /\ block * BlockSize >= Whole)
    BY <1>2, <1>5, Offsets DEF PastEnd
  <2>2. /\ lastBlock'.block = block /\ lastBlock'.from = Offset
        /\ lastBlock'.upTo = IF Offset + BlockSize > size THEN size ELSE Offset + BlockSize
    BY <1>5 DEF ServedBlock
  <2>3. /\ \/ lastBlock'.from = lastBlock'.block * BlockSize
           \/ ~ exact' /\ lastBlock'.block * BlockSize >= Whole
        /\ lastBlock'.from < size
        /\ lastBlock'.upTo <= size
        /\ lastBlock'.upTo = lastBlock'.from + BlockSize \/ lastBlock'.upTo = size
    <3> DEFINE o == Offset
    <3> HIDE DEF o
    <3>0. exact' = exact
      BY <1>1
    <3>1. IF o + BlockSize > size THEN TRUE ELSE o + BlockSize <= size
      BY <1>2, <2>1 DEF o
    <3> QED
      BY <1>2, <2>1, <2>2, <3>0, <3>1 DEF o
  <2>4. BlocksRight'
    BY <1>1, <2>3 DEF BlocksRight, Whole
  <2>5. SideloadTypeOK' /\ PastOnlyIfPast'
    BY <1>1, <1>2, <1>5, SideloadAssumption
       DEF SideloadInv, SideloadTypeOK, PastOnlyIfPast, NoBlock
  <2> QED
    BY <1>1, <1>2, <1>5, <2>4, <2>5 DEF SideloadInv
<1> QED
  BY <1>1, <1>3, <1>4, <1>5, EndsKeeps

LEMMA SendsChunkKeeps ==
  ASSUME SideloadInv, SendsChunk
  PROVE  SideloadInv'
<1>1. host = "sending" /\ UNCHANGED <<size, wide, exact, block, asked, lastBlock, hungUp>>
  BY DEF SendsChunk
<1>2. /\ size \in Nat /\ gotten \in Nat /\ gotten <= size /\ AsInt(size) \in Int
      /\ AsInt(size) <= size /\ BlockSize \in Nat /\ reason = "none"
  BY <1>1, SizeFits, AsIntIs, SideloadAssumption DEF SideloadInv, SideloadTypeOK
<1>3. \/ /\ AsInt(size) - gotten > 0 /\ UNCHANGED <<host, result, reason>>
         /\ gotten' = IF AsInt(size) - gotten > BlockSize THEN gotten + BlockSize
                      ELSE AsInt(size)
      \/ SideloadEndsWith(-1, "hungUp") /\ UNCHANGED gotten
      \/ /\ ~ AsInt(size) - gotten > 0 /\ host' = "response"
         /\ UNCHANGED <<gotten, result, reason>>
  BY DEF SendsChunk
<1>4. CASE /\ AsInt(size) - gotten > 0 /\ UNCHANGED <<host, result, reason>>
           /\ gotten' = IF AsInt(size) - gotten > BlockSize THEN gotten + BlockSize
                        ELSE AsInt(size)
  <2>1. gotten' \in 0 .. size
    BY <1>2, <1>4
  <2>2. SideloadTypeOK' /\ BlocksRight' /\ PastOnlyIfPast'
    BY <1>1, <1>4, <2>1 DEF SideloadInv, SideloadTypeOK, BlocksRight, PastOnlyIfPast
  <2> QED
    BY <1>1, <1>2, <1>4, <2>2 DEF SideloadInv
<1>5. CASE /\ ~ AsInt(size) - gotten > 0 /\ host' = "response"
           /\ UNCHANGED <<gotten, result, reason>>
  <2>1. AsInt(size)' = AsInt(size) /\ AsInt(size) <= gotten
    BY <1>1, <1>2, <1>5 DEF AsInt, Whole
  <2>2. SideloadTypeOK' /\ BlocksRight' /\ PastOnlyIfPast'
    BY <1>1, <1>2, <1>5 DEF SideloadInv, SideloadTypeOK, BlocksRight, PastOnlyIfPast
  <2> QED
    BY <1>1, <1>2, <1>5, <2>1, <2>2 DEF SideloadInv
<1> QED
  BY <1>1, <1>3, <1>4, <1>5, EndsKeeps

\* The rest goes on or ends.
LEMMA RestKeeps ==
  ASSUME SideloadInv, Connects \/ Downloads \/ Responds
  PROVE  SideloadInv'
<1>1. UNCHANGED <<size, wide, exact, block, asked, lastBlock, gotten, hungUp>>
  BY DEF Connects, Downloads, Responds
<1>2. CASE host' \in {"command", "fallback", "sending"} /\ UNCHANGED <<result, reason>>
           /\ host # "done"
  <2>1. SideloadTypeOK' /\ BlocksRight' /\ PastOnlyIfPast' /\ reason = "none"
    BY <1>1, <1>2 DEF SideloadInv, SideloadTypeOK, BlocksRight, PastOnlyIfPast
  <2> QED
    BY <1>1, <1>2, <2>1 DEF SideloadInv
<1>3. CASE host' = "done" /\ host = "response"
           /\ \/ result' = 0 /\ reason' = "okay"
              \/ result' = -1 /\ reason' = "response"
  <2>1. SideloadTypeOK' /\ BlocksRight' /\ PastOnlyIfPast'
    BY <1>1, <1>3 DEF SideloadInv, SideloadTypeOK, BlocksRight, PastOnlyIfPast
  <2>2. AsInt(size)' = AsInt(size) /\ AsInt(size) <= gotten
    BY <1>1, <1>3 DEF AsInt, SideloadInv
  <2> QED
    BY <1>1, <1>3, <2>1, <2>2 DEF SideloadInv
<1>4. CASE SideloadEndsWith(-1, "connect")
  BY <1>1, <1>4, EndsKeeps
<1>5. CASE Connects
  BY <1>2, <1>5 DEF Connects
<1>6. CASE Downloads
  BY <1>2, <1>4, <1>6 DEF Downloads
<1>7. CASE Responds
  BY <1>3, <1>7 DEF Responds, SideloadEndsWith
<1> QED
  BY <1>5, <1>6, <1>7

LEMMA SideloadSteps == SideloadInv /\ [SideloadNext]_sideloadVars => SideloadInv'
<1> SUFFICES ASSUME SideloadInv, [SideloadNext]_sideloadVars PROVE SideloadInv'
  OBVIOUS
<1>1. CASE UNCHANGED sideloadVars
  BY <1>1 DEF sideloadVars, SideloadInv, SideloadTypeOK, BlocksRight, PastOnlyIfPast, AsInt
<1>2. CASE SideloadNext
  BY <1>2, AsksKeeps, ServesBlockKeeps, SendsChunkKeeps, RestKeeps
     DEF SideloadNext, DeviceAsks, HostServes
<1> QED
  BY <1>1, <1>2

LEMMA SideloadMeans ==
  SideloadInv => SideloadTypeOK /\ BlocksRight /\ PastOnlyIfPast /\ DownloadedWhole
<1> SUFFICES ASSUME SideloadInv, reason = "okay", size <= IntMax PROVE gotten = size
  BY DEF SideloadInv, DownloadedWhole
<1>1. AsInt(size) <= gotten /\ gotten \in 0 .. size /\ size \in Nat /\ size < Whole
  BY SizeFits DEF SideloadInv, SideloadTypeOK
<1>2. AsInt(size) = size
  BY <1>1, AsIntIs, SideloadAssumption
<1> QED
  BY <1>1, <1>2

\* For every size of the file and of a block, every number the device may ask for, however
\* often and in whatever order: each answer is the block asked for and all that there is of it,
\* unless the offset was cut to an int and is past 32 bits; a block that is there is refused
\* only where its offset was cut to an int it is past; and the older service is sent the file
\* whole (adb_sideload_host, adb_download_buffer).
THEOREM SideloadHolds ==
  SideloadInit /\ [][SideloadNext]_sideloadVars =>
    [](SideloadTypeOK /\ BlocksRight /\ PastOnlyIfPast /\ DownloadedWhole)
<1>1. SideloadInit => SideloadInv
  BY SideloadStarts
<1>2. SideloadInv /\ [SideloadNext]_sideloadVars => SideloadInv'
  BY SideloadSteps
<1>3. SideloadInv => SideloadTypeOK /\ BlocksRight /\ PastOnlyIfPast /\ DownloadedWhole
  BY SideloadMeans
<1> QED
  BY <1>1, <1>2, <1>3, PTL
==============================================================================

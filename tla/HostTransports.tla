--------------------------- MODULE HostTransports ---------------------------
(***************************************************************************)
(* How adb's server makes, finds and drops its TCP transports: connect and *)
(* connect_emulator (services.c), the table of emulators                   *)
(* (transport_local.c), the two lists of transports with the pointers they *)
(* are made of (transport.c), and disconnect (adb.c).                      *)
(*                                                                         *)
(* A job makes one transport at most, and stands for it.  It runs in a     *)
(* service thread ("emulator" and "device": connect: with a reply) or in   *)
(* the thread that looks for emulators at the start ("found": no reply).   *)
(* What a transport's two threads exchange with main is AdbTransport's;    *)
(* here they read, end, kick and release.                                  *)
(*                                                                         *)
(* Some orders of steps end in the use of a freed transport.  What the     *)
(* program does then has no bound: the model stops there (undefined) and   *)
(* its properties are about everything before.                             *)
(***************************************************************************)
EXTENDS Integers, FiniteSets, Sequences, SequencesExt

CONSTANTS
  Jobs,            \* the attempts to connect
  Rounds,          \* the jobs and clients of one behaviour, and the bounds on its disconnect
                   \* requests (drops) and on its connections that break (breaks)
  KindOf,          \* "emulator", "device" or "found"
  SerialOf,        \* the serial the attempt registers
  PortOf,          \* the adb port of an emulator
  TableSize,       \* ADB_LOCAL_TRANSPORT_MAX
  Listed, Pending, \* the heads of transport_list and pending_list
  Empty,           \* a null pointer of the table
  Followers,       \* the clients that follow the devices
  Fit              \* how many lines of devices the 1024 bytes of a message take

ASSUME HostTransportsAssumption ==
  /\ IsFiniteSet(Jobs) /\ TableSize \in Nat /\ Fit \in Nat
  /\ Listed # Pending /\ {Listed, Pending, Empty} \cap Jobs = {}
  /\ KindOf \in [Jobs -> {"emulator", "device", "found"}]
  /\ \A r \in Rounds : {r.drops, r.breaks} \subseteq Nat

InOut == {"out", "in"}
Nodes == Jobs \cup {Listed, Pending}
IsEmulator(j) == KindOf[j] # "device"

VARIABLES
  round,        \* the jobs, clients and bounds of the behaviour
  pc,           \* where the job is: idle, check, slots, dial, init, lists, done
  answer,       \* what it told its client
  life,         \* its transport: none, made, pending, listed, dropped, refused, freed
  links,        \* the next and prev pointers of the transports and the two heads
  table,        \* local_transports
  link,         \* its connection: none, up, broken, closed
  conn,         \* connection_state: new (offline until CNXN), device, offline
  kicked, refs, \* the transport's fields
  thread,       \* where each of its two threads is
  posted,       \* SYNC(0,0) of the output thread is on its way to main
  synced,       \* and on its way from main to the input thread
  fdOpen,       \* the threads' end of the socket pair is open
  registration, \* the registration socket
  dropsAsked,   \* disconnect requests (bounds the model)
  broke,        \* connections that broke (bounds the model)
  undefined,    \* a freed transport was used
  trackers,     \* who is in device_tracker_list
  shown         \* the last list sent to the client of each

trackerVars == <<trackers, shown>>
jobVars == <<pc, answer>>
listVars == <<life, links, registration>>
transportVars == <<kicked, refs, thread, posted, synced, fdOpen>>
hostTransportVars == <<jobVars, listVars, table, link, conn, transportVars, dropsAsked, broke,
                       undefined, round, trackerVars>>

-----------------------------------------------------------------------------
(* The clients that follow the list of devices ("track-devices").  All of  *)
(* it runs in main's callbacks.  A tracker is a socket without a           *)
(* descriptor: it has a place in device_tracker_list and, as its peer, the *)
(* local socket of the client, where what is sent waits as long as it must.*)

TrackersInit == trackers = {} /\ shown = [c \in Followers |-> <<>>]

\* list_transports drops the line that does not fit, and what comes after it.
Shown(lines) == SubSeq(lines, 1, IF Len(lines) < Fit THEN Len(lines) ELSE Fit)

\* device_tracker_send to each of some: the last list their clients were sent.
Sent(to, lines) == [c \in Followers |-> IF c \in to THEN Shown(lines) ELSE shown[c]]

\* create_device_tracker; smart_socket_enqueue then makes it ready, and the list is sent.
Track(c, lines) ==
  /\ c \notin trackers
  /\ trackers' = trackers \cup {c}
  /\ shown' = Sent({c}, lines)

\* update_transports.  A client may have gone: the send that fails closes its socket, and with
\* it the tracker.
Update(lines) ==
  \E failed \in SUBSET trackers :
    /\ shown' = [c \in Followers |-> IF c \in failed THEN <<>> ELSE Sent(trackers, lines)[c]]
    /\ trackers' = trackers \ failed

\* device_tracker_close: the local socket reads the end of the client's stream, or the client
\* sent something, which device_tracker_enqueue takes for a reason to close.
Untrack(c) ==
  /\ c \in trackers
  /\ trackers' = trackers \ {c}
  /\ shown' = [shown EXCEPT ![c] = <<>>]

-----------------------------------------------------------------------------
\* The jobs of a behaviour are those of one round; who looks for emulators starts by itself.
HostTransportsInit ==
  /\ TrackersInit
  /\ round \in Rounds
  /\ pc = [j \in Jobs |-> IF j \notin round.jobs THEN "done"
                          ELSE IF KindOf[j] = "found" THEN "dial" ELSE "idle"]
  /\ answer = [j \in Jobs |-> "none"]
  /\ life = [j \in Jobs |-> "none"]
  /\ links = [next |-> [n \in Nodes |-> n], prev |-> [n \in Nodes |-> n]]
  /\ table = [i \in 1 .. TableSize |-> Empty]
  /\ link = [j \in Jobs |-> "none"] /\ conn = [j \in Jobs |-> "new"]
  /\ kicked = [j \in Jobs |-> FALSE] /\ refs = [j \in Jobs |-> 0]
  /\ thread = [j \in Jobs |-> [th \in InOut |-> "off"]]
  /\ posted = [j \in Jobs |-> FALSE] /\ synced = [j \in Jobs |-> FALSE]
  /\ fdOpen = [j \in Jobs |-> FALSE]
  /\ registration = <<>>
  /\ dropsAsked = 0 /\ broke = 0
  /\ undefined = FALSE

-----------------------------------------------------------------------------
(* The lists, and the table.                                               *)

Gone(j) == j \in Jobs /\ life[j] \in {"refused", "freed"}

\* t->next->prev = t->prev; t->prev->next = t->next;
Unlinked(l, t) ==
  [next |-> [l.next EXCEPT ![l.prev[t]] = l.next[t]],
   prev |-> [l.prev EXCEPT ![l.next[t]] = l.prev[t]]]

Appended(l, head, t) ==
  LET last == l.prev[head] IN
    [next |-> [l.next EXCEPT ![last] = t, ![t] = head],
     prev |-> [l.prev EXCEPT ![head] = t, ![t] = last]]

\* What a freed transport points to is nobody's any more.
Forgotten(l, t) == [next |-> [l.next EXCEPT ![t] = t], prev |-> [l.prev EXCEPT ![t] = t]]

\* Where each step of a walk of the list from its head comes; at the head it ends.
Steps(l, head) ==
  LET to[i \in 1 .. Cardinality(Jobs) + 1] ==
        IF i = 1 THEN l.next[head] ELSE IF to[i - 1] = head THEN head ELSE l.next[to[i - 1]]
  IN to

\* The transports that the walk visits.
Walked(l, head) ==
  LET to == Steps(l, head)
  IN SubSeq(to, 1, Cardinality({i \in DOMAIN to : to[i] # head}))

Lines(l, states) ==
  LET walk == Walked(l, Listed)
  IN [i \in 1 .. Len(walk) |-> <<walk[i], states[walk[i]] = "device">>]

\* Mutant: only the transports that main has shown are looked at.
SerialTakenListed(j) == \E t \in ToSet(Walked(links, Listed)) : SerialOf[t] = SerialOf[j]

SerialTaken(j) ==
  \E t \in ToSet(Walked(links, Listed)) \cup ToSet(Walked(links, Pending)) :
    SerialOf[t] = SerialOf[j]

\* find_emulator_transport_by_adb_port_locked stops at the entry with the port; on its way it
\* reads the port of whatever the entries before it point to.
Matching(j) == {i \in 1 .. TableSize : table[i] # Empty /\ PortOf[table[i]] = PortOf[j]}
ReadsFreed(j) ==
  \E i \in 1 .. TableSize : Gone(table[i]) /\ \A k \in Matching(j) : ~Gone(table[k]) => i < k
FreeSlots == {i \in 1 .. TableSize : table[i] = Empty}
FirstOf(S) == CHOOSE i \in S : \A k \in S : i <= k

UseAfterFree ==
  /\ undefined' = TRUE
  /\ UNCHANGED <<jobVars, listVars, table, link, conn, transportVars, dropsAsked, broke,
                 trackerVars>>

-----------------------------------------------------------------------------
(* Connecting.                                                             *)

Answers(j, a) ==
  /\ pc' = [pc EXCEPT ![j] = "done"]
  /\ answer' = [answer EXCEPT ![j] = IF KindOf[j] = "found" THEN "none" ELSE a]

\* connect_device is given a host that is too long, or a port that is no number.
BadHost(j) == KindOf[j] = "device" /\ Answers(j, "malformed")

\* connect_emulator is not given two ports above 0.
BadPorts(j) == KindOf[j] = "emulator" /\ Answers(j, "malformed")

JobStarts(j) ==
  /\ pc[j] = "idle"
  /\ \/ BadHost(j) \/ BadPorts(j)
     \/ /\ pc' = [pc EXCEPT ![j] = IF KindOf[j] = "emulator" THEN "check" ELSE "dial"]
        /\ UNCHANGED answer
  /\ UNCHANGED <<listVars, table, link, conn, transportVars, dropsAsked, broke, undefined,
                 trackerVars>>

\* connect_emulator looks whether the emulator is known.
LooksForEmulator(j) ==
  /\ pc[j] = "check"
  /\ ~ReadsFreed(j)
  /\ IF Matching(j) # {} THEN Answers(j, "already")
     ELSE pc' = [pc EXCEPT ![j] = "slots"] /\ UNCHANGED answer
  /\ UNCHANGED <<listVars, table, link, conn, transportVars, dropsAsked, broke, undefined,
                 trackerVars>>
LookReadsFreed(j) == pc[j] = "check" /\ ReadsFreed(j) /\ UseAfterFree

\* And, the lock taken anew, whether there is a slot.
LooksForSlot(j) ==
  /\ pc[j] = "slots"
  /\ IF FreeSlots = {} THEN Answers(j, "full")
     ELSE pc' = [pc EXCEPT ![j] = "dial"] /\ UNCHANGED answer
  /\ UNCHANGED <<listVars, table, link, conn, transportVars, dropsAsked, broke, undefined,
                 trackerVars>>

Dials(j) ==
  /\ pc[j] = "dial"
  /\ pc' = [pc EXCEPT ![j] = "init"]
  /\ link' = [link EXCEPT ![j] = "up"]
  /\ UNCHANGED <<answer, listVars, table, conn, transportVars, dropsAsked, broke, undefined,
                 trackerVars>>

CannotDial(j) ==
  /\ pc[j] = "dial"
  /\ Answers(j, "unable")
  /\ UNCHANGED <<listVars, table, link, conn, transportVars, dropsAsked, broke, undefined,
                 trackerVars>>

\* register_socket_transport fails: t is freed.  connect_device closes the connection and
\* says so; local_connect_arbitrary_ports leaves it open and returns success.
Refused(j) ==
  /\ life' = [life EXCEPT ![j] = "refused"]
  /\ link' = [link EXCEPT ![j] = IF IsEmulator(j) THEN @ ELSE "closed"]
  /\ Answers(j, IF IsEmulator(j) THEN "connected" ELSE "already")

\* init_socket_transport, under local_transports_lock.
Inits(j) ==
  /\ pc[j] = "init"
  /\ ~(IsEmulator(j) /\ ReadsFreed(j))
  /\ IF ~IsEmulator(j)
     THEN pc' = [pc EXCEPT ![j] = "lists"] /\ life' = [life EXCEPT ![j] = "made"]
          /\ UNCHANGED <<answer, table, link>>
     ELSE IF Matching(j) # {} \/ FreeSlots = {} THEN Refused(j) /\ UNCHANGED table
     ELSE /\ table' = [table EXCEPT ![FirstOf(FreeSlots)] = j]
          /\ pc' = [pc EXCEPT ![j] = "lists"] /\ life' = [life EXCEPT ![j] = "made"]
          /\ UNCHANGED <<answer, link>>
  /\ UNCHANGED <<links, registration, conn, transportVars, dropsAsked, broke, undefined,
                 trackerVars>>
InitReadsFreed(j) == pc[j] = "init" /\ IsEmulator(j) /\ ReadsFreed(j) /\ UseAfterFree

\* Then the lists, under transport_lock.  A transport refused here stays in the table.
Enlists(j) ==
  /\ pc[j] = "lists"
  /\ IF SerialTaken(j)
     THEN Refused(j) /\ UNCHANGED <<links, registration>>
     ELSE /\ links' = Appended(links, Pending, j)
          /\ life' = [life EXCEPT ![j] = "pending"]
          /\ registration' = Append(registration, <<j, "add">>)
          /\ Answers(j, "connected")
          /\ UNCHANGED link
  /\ UNCHANGED <<table, conn, transportVars, dropsAsked, broke, undefined, trackerVars>>

-----------------------------------------------------------------------------
(* The transport's connection and threads.                                 *)

Breaks(j) ==
  /\ link[j] = "up" /\ pc[j] = "done" /\ ~Gone(j)
  /\ broke < round.breaks /\ broke' = broke + 1
  /\ link' = [link EXCEPT ![j] = "broken"]
  /\ UNCHANGED <<jobVars, listVars, table, conn, transportVars, dropsAsked, undefined,
                 trackerVars>>

MovesTo(j, th, place) == thread' = [thread EXCEPT ![j][th] = place]

\* output_thread reads no more, and posts SYNC(0,0).
OutEnds(j) ==
  /\ thread[j]["out"] = "run" /\ link[j] # "up"
  /\ MovesTo(j, "out", "kick")
  /\ posted' = [posted EXCEPT ![j] = TRUE]
  /\ UNCHANGED <<jobVars, listVars, table, link, conn, kicked, refs, synced, fdOpen,
                 dropsAsked, broke,
                 undefined, trackerVars>>

\* input_thread reads SYNC(0,0), or that either half of the socket pair is closed.
InEnds(j) ==
  /\ thread[j]["in"] = "run" /\ (synced[j] \/ ~fdOpen[j])
  /\ MovesTo(j, "in", "kick")
  /\ UNCHANGED <<jobVars, listVars, table, link, conn, kicked, refs, posted, synced, fdOpen,
                 dropsAsked, broke, undefined, trackerVars>>

\* kick_transport's test and set.
Kicks(j, th) ==
  /\ thread[j][th] = "kick" /\ ~Gone(j)
  /\ kicked' = [kicked EXCEPT ![j] = TRUE]
  /\ MovesTo(j, th, IF kicked[j] THEN "unref" ELSE "call")
  /\ UNCHANGED <<jobVars, listVars, table, link, conn, refs, posted, synced, fdOpen,
                 dropsAsked, broke,
                 undefined, trackerVars>>

\* remote_kick.
Kick(j) ==
  /\ link' = [link EXCEPT ![j] = "closed"]
  /\ table' = [i \in 1 .. TableSize |-> IF table[i] = j THEN Empty ELSE table[i]]

CallsKick(j, th) ==
  /\ thread[j][th] = "call" /\ ~Gone(j)
  /\ Kick(j)
  /\ MovesTo(j, th, "unref")
  /\ UNCHANGED <<jobVars, listVars, conn, kicked, refs, posted, synced, fdOpen, dropsAsked,
                 broke,
                 undefined, trackerVars>>

\* transport_unref: the reference that is the last closes and has the transport removed.  Who
\* releases one has shown to the kick before.
Unref(j) ==
  /\ refs' = [refs EXCEPT ![j] = @ - 1]
  /\ IF refs[j] # 1 THEN UNCHANGED <<fdOpen, registration>>
     ELSE /\ fdOpen' = [fdOpen EXCEPT ![j] = FALSE]
          /\ registration' = Append(registration, <<j, "remove">>)

Unrefs(j, th) ==
  /\ thread[j][th] = "unref" /\ ~Gone(j)
  /\ Unref(j)
  /\ MovesTo(j, th, "done")
  /\ UNCHANGED <<jobVars, life, links, table, link, conn, kicked, posted, synced, dropsAsked,
                 broke, undefined, trackerVars>>

ThreadUsesFreed(j, th) == thread[j][th] \in {"kick", "call", "unref"} /\ Gone(j) /\ UseAfterFree

-----------------------------------------------------------------------------
(* Main.                                                                   *)

\* transport_registration_func, the threads started and the transport moved.
RegistrationOf(j) == registration # <<>> /\ Head(registration) = <<j, "add">>
Registers(j) ==
  LET moved == Appended(Unlinked(links, j), Listed, j) IN
    /\ RegistrationOf(j) /\ ~Gone(links.prev[Listed])
    /\ registration' = Tail(registration)
    /\ links' = moved
    /\ life' = [life EXCEPT ![j] = "listed"]
    /\ refs' = [refs EXCEPT ![j] = 2]
    /\ thread' = [thread EXCEPT ![j] = [th \in InOut |-> "run"]]
    /\ fdOpen' = [fdOpen EXCEPT ![j] = TRUE]
    /\ Update(Lines(moved, conn))
    /\ UNCHANGED <<jobVars, table, link, conn, kicked, posted, synced, dropsAsked, broke,
                   undefined>>
RegistersFreed(j) == RegistrationOf(j) /\ Gone(links.prev[Listed]) /\ UseAfterFree

\* handle_packet: CNXN, and parse_banner.
Online(j) ==
  /\ life[j] \in {"listed", "dropped"} /\ conn[j] = "new" /\ thread[j]["out"] = "run"
  /\ link[j] = "up"
  /\ conn' = [conn EXCEPT ![j] = "device"]
  /\ Update(Lines(links, conn'))
  /\ UNCHANGED <<jobVars, listVars, table, link, transportVars, dropsAsked, broke, undefined>>

\* handle_packet: SYNC(0,0).  Trackers are not told.
Offline(j) ==
  /\ posted[j] /\ life[j] \in {"listed", "dropped"}
  /\ posted' = [posted EXCEPT ![j] = FALSE]
  /\ synced' = [synced EXCEPT ![j] = TRUE]
  /\ conn' = [conn EXCEPT ![j] = "offline"]
  /\ UNCHANGED <<jobVars, listVars, table, link, kicked, refs, thread, fdOpen, dropsAsked,
                 broke,
                 undefined, trackerVars>>

RemovalOf(j) == registration # <<>> /\ Head(registration) = <<j, "remove">>

\* Unlinked with the pointers the transport has, whatever unlinked it before; and the list
\* that update_transports then walks.
LinksWithout(j) == Forgotten(Unlinked(links, j), j)
LeadsToFreed(j) ==
  \/ Gone(links.next[j]) \/ Gone(links.prev[j])
  \/ \E t \in ToSet(Walked(LinksWithout(j), Listed)) : t = j \/ Gone(t)

\* transport_registration_func, the removal.
Removes(j) ==
  /\ RemovalOf(j) /\ ~LeadsToFreed(j)
  /\ registration' = Tail(registration)
  /\ links' = LinksWithout(j)
  /\ life' = [life EXCEPT ![j] = "freed"]
  /\ fdOpen' = [fdOpen EXCEPT ![j] = FALSE]
  /\ posted' = [posted EXCEPT ![j] = FALSE]
  /\ conn' = [conn EXCEPT ![j] = "new"]
  /\ synced' = [synced EXCEPT ![j] = FALSE]
  /\ Update(Lines(links', conn))
  /\ UNCHANGED <<jobVars, table, link, kicked, refs, thread, dropsAsked, broke, undefined>>
RemovesFreed(j) == RemovalOf(j) /\ LeadsToFreed(j) /\ UseAfterFree

\* unregister_transport.
Drops(j) ==
  /\ links' = Unlinked(links, j)
  /\ life' = [life EXCEPT ![j] = "dropped"]
  /\ kicked' = [kicked EXCEPT ![j] = TRUE]
  /\ IF kicked[j] THEN UNCHANGED <<table, link>> ELSE Kick(j)
  /\ Unref(j)

\* find_transport takes a serial with a port, which no emulator has; and
\* unregister_all_tcp_transports looks at adb_port.
Droppable(j) == ~IsEmulator(j)

\* disconnect: of one serial, or of all, which is one after the other.
DropAsked(j) ==
  /\ dropsAsked < round.drops /\ j \in ToSet(Walked(links, Listed)) /\ Droppable(j)
Disconnects(j) ==
  /\ DropAsked(j) /\ ~Gone(links.prev[j])
  /\ dropsAsked' = dropsAsked + 1
  /\ Drops(j)
  /\ UNCHANGED <<jobVars, conn, thread, posted, synced, broke, undefined, trackerVars>>
DisconnectsFreed(j) == DropAsked(j) /\ Gone(links.prev[j]) /\ UseAfterFree

Follows(c) ==
  /\ c \in round.followers /\ Track(c, Lines(links, conn))
  /\ UNCHANGED <<jobVars, listVars, table, link, conn, transportVars, dropsAsked, broke,
                 undefined>>
Unfollows(c) ==
  /\ Untrack(c)
  /\ UNCHANGED <<jobVars, listVars, table, link, conn, transportVars, dropsAsked, broke,
                 undefined>>

-----------------------------------------------------------------------------
JobGoesOn(j) ==
  \/ LooksForEmulator(j) \/ LooksForSlot(j) \/ Dials(j) \/ CannotDial(j) \/ Inits(j) \/ Enlists(j)
  \/ LookReadsFreed(j) \/ InitReadsFreed(j)
ThreadGoesOn(j, th) ==
  \/ th = "out" /\ OutEnds(j)
  \/ th = "in" /\ InEnds(j)
  \/ Kicks(j, th) \/ CallsKick(j, th) \/ Unrefs(j, th) \/ ThreadUsesFreed(j, th)
MainGoesOn(j) ==
  Registers(j) \/ RegistersFreed(j) \/ Removes(j) \/ RemovesFreed(j) \/ Offline(j)

HostTransportsNext ==
  /\ ~undefined /\ UNCHANGED round
  /\ \/ \E j \in Jobs : \/ JobStarts(j) \/ JobGoesOn(j) \/ Breaks(j) \/ Online(j)
                        \/ MainGoesOn(j) \/ Disconnects(j) \/ DisconnectsFreed(j)
                        \/ \E th \in InOut : ThreadGoesOn(j, th)
     \/ \E c \in Followers : Follows(c) \/ Unfollows(c)

-----------------------------------------------------------------------------
Dying(j) == life[j] \in {"listed", "dropped"} /\ link[j] # "up"
NoneDropped == dropsAsked = 0

HostTransportsTypeOK ==
  /\ round \in Rounds /\ dropsAsked \in 0 .. round.drops
  /\ pc \in [Jobs -> {"idle", "check", "slots", "dial", "init", "lists", "done"}]
  /\ answer \in [Jobs -> {"none", "malformed", "already", "full", "unable", "connected"}]
  /\ life \in [Jobs -> {"none", "made", "pending", "listed", "dropped", "refused", "freed"}]
  /\ links \in [next : [Nodes -> Nodes], prev : [Nodes -> Nodes]]
  /\ table \in [1 .. TableSize -> Jobs \cup {Empty}]
  /\ link \in [Jobs -> {"none", "up", "broken", "closed"}]
  /\ conn \in [Jobs -> {"new", "device", "offline"}]
  /\ kicked \in [Jobs -> BOOLEAN] /\ refs \in [Jobs -> -round.drops .. 2]
  /\ thread \in [Jobs -> [InOut -> {"off", "run", "kick", "call", "unref", "done"}]]
  /\ posted \in [Jobs -> BOOLEAN] /\ synced \in [Jobs -> BOOLEAN] /\ fdOpen \in [Jobs -> BOOLEAN]
  /\ registration \in Seq(Jobs \X {"add", "remove"})
  /\ trackers \subseteq Followers

\* The check of connect_emulator and the registration are under a lock taken each time anew;
\* still no two emulators on one port are in the table, or being registered, at once.
OnePerPort ==
  \A i, k \in 1 .. TableSize :
    i # k /\ table[i] # Empty /\ table[k] # Empty => PortOf[table[i]] # PortOf[table[k]]

\* A transport that was removed has left the table, so its port can be connected to again.
RemovedLeavesTable == \A i \in 1 .. TableSize : table[i] # Empty => life[table[i]] # "freed"

\* pending_list holds the transports that main has not shown yet, whatever is disconnected.
PendingWhole == ToSet(Walked(links, Pending)) = {j \in Jobs : life[j] = "pending"}

\* However often a transport is unlinked, a walk of transport_list ends, and meets none that
\* was freed: main reads the list at once after it frees one.
WalkEnds ==
  /\ Steps(links, Listed)[Cardinality(Jobs) + 1] = Listed
  /\ \A t \in ToSet(Walked(links, Listed)) : life[t] \in {"listed", "dropped"}

\* Unless something was disconnected, a transport is freed when both its threads are done,
\* the list holds those that are registered, in both directions, and no two transports of one
\* serial are on the lists, however many threads register.  A disconnect ends that: what it
\* unlinked is unlinked once more when it is removed, which can take another from the list.
FreedAfterThreads ==
  NoneDropped => \A j \in Jobs : life[j] = "freed" => \A th \in InOut : thread[j][th] = "done"
ListsWhole ==
  NoneDropped =>
    LET forth == Walked(links, Listed)
        back == [next |-> links.prev, prev |-> links.next]
    IN /\ ToSet(forth) = {j \in Jobs : life[j] = "listed"}
       /\ Walked(back, Listed) = Reverse(forth)
OnePerSerial ==
  NoneDropped =>
    \A j, k \in Jobs :
      j # k /\ {life[j], life[k]} \subseteq {"pending", "listed"} => SerialOf[j] # SerialOf[k]

\* Who follows the devices has been sent the list as it is, unless a transport of it is on
\* its way out, whose removal sends the next.
TrackersCurrent ==
  \A c \in trackers :
    undefined \/ shown[c] = Shown(Lines(links, conn)) \/ \E j \in Jobs : Dying(j)

\* Every entry of the table is a transport that exists.
TableLive == \A i \in 1 .. TableSize : ~Gone(table[i])

\* The TCP transports of the server and those who follow them (transport_local.c, transport.c,
\* services.c, adb.c), up to the first use of a transport that was freed.
HostTransportsCorrect ==
  /\ HostTransportsTypeOK /\ OnePerPort /\ RemovedLeavesTable /\ PendingWhole /\ WalkEnds
  /\ FreedAfterThreads /\ ListsWhole /\ OnePerSerial /\ TrackersCurrent
=============================================================================

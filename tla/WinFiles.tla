------------------------------ MODULE WinFiles ------------------------------
(***************************************************************************)
(* The table of descriptors adb keeps on Windows (sysdeps_win32.c): taken  *)
(* under a lock, given back without one, by threads that open and close    *)
(* files, sockets and socket pairs.                                        *)
(***************************************************************************)
EXTENDS Naturals, FiniteSets

CONSTANTS
  Threads,
  MaxFiles   \* WIN32_MAX_FHS

ASSUME FilesAssumption == MaxFiles \in Nat \ {0}

Entries == 0 .. MaxFiles - 1

\* The calls that open a descriptor, and the class of what they open.
Calls == {"adb_open", "adb_creat", "socket_loopback_client", "socket_loopback_server",
          "socket_network_client", "socket_inaddr_any_server", "adb_socket_accept",
          "adb_socketpair"}
ClassOf(c) ==
  IF c \in {"adb_open", "adb_creat"} THEN "file"
  ELSE IF c = "adb_socketpair" THEN "pair" ELSE "socket"

VARIABLES
  fh_count,       \* _win32_fh_count
  clazz, isUsed,  \* the class of each entry, or none, and the entries that are used
  holds,          \* the descriptors of each thread, open
  call,           \* the call it is in, or none
  asked,          \* how many descriptors the call has still to allocate
  opens,          \* those it allocated: it opens what they are for
  shuts,          \* those it closes, which it has yet to come to or is at
  stores,         \* how far it is with the one it closes: 0, 1 (used cleared)
  lost,           \* those that were leaked
  crashed         \* NULL was closed

fileVars == <<fh_count, clazz, isUsed, holds, call, asked, opens, shuts, stores, lost, crashed>>
tableVars == <<fh_count, clazz, isUsed>>
Taking(f, u, v) == [f EXCEPT ![u] = v]

FilesInit ==
  /\ fh_count = 0 /\ clazz = [s \in Entries |-> "none"] /\ isUsed = {}
  /\ holds = [u \in Threads |-> {}] /\ call = [u \in Threads |-> "none"]
  /\ asked = [u \in Threads |-> 0] /\ opens = [u \in Threads |-> {}]
  /\ shuts = [u \in Threads |-> {}] /\ stores = [u \in Threads |-> 0]
  /\ lost = {} /\ crashed = FALSE

Idle(u) == ~ crashed /\ call[u] = "none" /\ shuts[u] = {}

\* _fh_from_int: what a descriptor stands for, read without the lock.
Resolves(s) == s < fh_count /\ s \in isUsed

\* A call for one descriptor or, adb_socketpair, for two; accept looks at its server's first.
Begins(u) ==
  /\ Idle(u)
  /\ \E c \in Calls :
       /\ c = "adb_socket_accept" => \E s \in holds[u] : Resolves(s) /\ clazz[s] = "socket"
       /\ call' = Taking(call, u, c)
       /\ asked' = Taking(asked, u, IF c = "adb_socketpair" THEN 2 ELSE 1)
  /\ UNCHANGED <<tableVars, holds, opens, shuts, stores, lost, crashed>>

\* Mutant: a used entry is not told by its class.
FreeUnused == IF fh_count < MaxFiles THEN {fh_count} ELSE Entries \ isUsed

\* The entry _fh_alloc takes: one never taken while there is one, then the first without a
\* class.
Free == IF fh_count < MaxFiles THEN {fh_count} ELSE {s \in Entries : clazz[s] = "none"}

\* _fh_alloc, under the lock.
Allocates(u) ==
  /\ ~ crashed /\ asked[u] > 0
  /\ \E s \in Free :
       /\ \A t \in Free : s <= t
       /\ clazz' = Taking(clazz, s, ClassOf(call[u])) /\ isUsed' = isUsed \cup {s}
       /\ opens' = Taking(opens, u, opens[u] \cup {s})
  /\ fh_count' = IF fh_count < MaxFiles THEN fh_count + 1 ELSE fh_count
  /\ asked' = Taking(asked, u, asked[u] - 1)
  /\ UNCHANGED <<holds, call, shuts, stores, lost, crashed>>

\* There is none: -1 is returned.  adb_socketpair asks for both before it looks at either, and
\* closes what it got and the NULL.
AllocatesNone(u) ==
  /\ ~ crashed /\ asked[u] > 0 /\ Free = {}
  /\ IF call[u] = "adb_socketpair" THEN crashed' = TRUE /\ UNCHANGED <<call, asked>>
     ELSE call' = Taking(call, u, "none") /\ asked' = Taking(asked, u, 0) /\ UNCHANGED crashed
  /\ UNCHANGED <<tableVars, holds, opens, shuts, stores, lost>>

\* What a descriptor is for is opened, or is not.
Returns(u, c) ==
  /\ ~ crashed /\ call[u] = c /\ asked[u] = 0
  /\ call' = Taking(call, u, "none") /\ opens' = Taking(opens, u, {})
  /\ UNCHANGED <<tableVars, stores, asked, crashed>>

Keeps(u)  == holds' = Taking(holds, u, holds[u] \cup opens[u]) /\ UNCHANGED <<shuts, lost>>
Closes(u) == shuts' = Taking(shuts, u, opens[u]) /\ UNCHANGED <<holds, lost>>
Loses(u)  == lost' = lost \cup opens[u] /\ UNCHANGED <<holds, shuts>>

OpensFile(u)        == Returns(u, "adb_open") /\ (Keeps(u) \/ Closes(u))
CreatesFile(u)      == Returns(u, "adb_creat") /\ (Keeps(u) \/ Closes(u))
ConnectsLoopback(u) == Returns(u, "socket_loopback_client") /\ (Keeps(u) \/ Closes(u))
\* The one that forgets its entry, when it gets no socket.
ListensLoopback(u)  ==
  Returns(u, "socket_loopback_server") /\ (Keeps(u) \/ Closes(u) \/ Loses(u))
ConnectsNetwork(u)  == Returns(u, "socket_network_client") /\ (Keeps(u) \/ Closes(u))
ListensAny(u)       == Returns(u, "socket_inaddr_any_server") /\ (Keeps(u) \/ Closes(u))
Accepts(u)          == Returns(u, "adb_socket_accept") /\ (Keeps(u) \/ Closes(u))
Pairs(u)            == Returns(u, "adb_socketpair") /\ (Keeps(u) \/ Closes(u))

Opened(u) ==
  \/ OpensFile(u) \/ CreatesFile(u) \/ ConnectsLoopback(u) \/ ListensLoopback(u)
  \/ ConnectsNetwork(u) \/ ListensAny(u) \/ Accepts(u) \/ Pairs(u)

\* adb_close of a descriptor that resolves to an entry that is used.
AdbClose(u) ==
  /\ Idle(u)
  /\ \E s \in holds[u] :
       /\ holds' = Taking(holds, u, holds[u] \ {s})
       /\ shuts' = IF Resolves(s) THEN Taking(shuts, u, {s}) ELSE shuts
  /\ UNCHANGED <<tableVars, call, asked, opens, stores, lost, crashed>>

\* _fh_close, without the lock: after the class has closed what it is for, used is cleared,
\* and then the class.
ClearsUsed(u) ==
  /\ ~ crashed /\ stores[u] = 0
  /\ \E s \in shuts[u] : s \in isUsed /\ isUsed' = isUsed \ {s}
  /\ stores' = Taking(stores, u, 1)
  /\ UNCHANGED <<fh_count, clazz, holds, call, asked, opens, shuts, lost, crashed>>

ClearsClass(u) ==
  /\ ~ crashed /\ stores[u] = 1
  /\ \E s \in shuts[u] \ isUsed :
       clazz' = Taking(clazz, s, "none") /\ shuts' = Taking(shuts, u, shuts[u] \ {s})
  /\ stores' = Taking(stores, u, 0)
  /\ UNCHANGED <<fh_count, isUsed, holds, call, asked, opens, lost, crashed>>

FilesNext ==
  \E u \in Threads :
    \/ Begins(u) \/ Allocates(u) \/ AllocatesNone(u) \/ Opened(u)
    \/ AdbClose(u) \/ ClearsUsed(u) \/ ClearsClass(u)

FilesSpec == FilesInit /\ [][FilesNext]_fileVars

-----------------------------------------------------------------------------
FilesTypeOK ==
  /\ fh_count \in 0 .. MaxFiles /\ clazz \in [Entries -> {"none", "file", "socket", "pair"}]
  /\ isUsed \subseteq Entries /\ lost \subseteq Entries
  /\ {holds, opens, shuts} \subseteq [Threads -> SUBSET Entries]
  /\ call \in [Threads -> Calls \cup {"none"}]
  /\ stores \in [Threads -> {0, 1}] /\ asked \in [Threads -> 0 .. 2] /\ crashed \in BOOLEAN

\* An entry has one owner while its class is set, and none when it is not: none is given out
\* twice, though it is given back without the lock, and none is lost but by
\* socket_loopback_server (_fh_alloc, _fh_close).
EntriesOwned ==
  LET owned == {o \in Threads \X Entries : o[2] \in holds[o[1]] \cup opens[o[1]] \cup shuts[o[1]]}
  IN /\ \A o, p \in owned : o[2] = p[2] => o = p
     /\ {s \in Entries : clazz[s] # "none"} = {o[2] : o \in owned} \cup lost
     /\ lost \cap {o[2] : o \in owned} = {}
     /\ \A u \in Threads : holds[u] \cup opens[u] \subseteq isUsed

\* The table of descriptors (sysdeps_win32.c): an entry is one file's until that file is
\* closed.
FilesCorrect ==
  /\ FilesTypeOK /\ EntriesOwned
=============================================================================

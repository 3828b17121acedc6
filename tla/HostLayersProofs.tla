-------------------------- MODULE HostLayersProofs --------------------------
(***************************************************************************)
(* The layers of adb's host on Windows (sysdeps_win32.c, usb_windows.c),   *)
(* proved for any number of threads, entries, handles, interfaces and      *)
(* sockets and for buffers of any size; and the server's TCP transports    *)
(* (transport.c, transport_local.c), for any attempts to connect, tables   *)
(* of emulators, disconnects and clients that follow the devices.          *)
(***************************************************************************)
EXTENDS WinFiles, WaitForAll, UsbWindows, BipBuffer, WinEvents, HostTransports, SequenceTheorems,
        FiniteSetTheorems, WellFoundedInduction, TLAPS

-----------------------------------------------------------------------------
(* WinFiles: the table of descriptors.                                     *)

Owns(u) == holds[u] \cup opens[u] \cup shuts[u]

FilesTypes ==
  /\ fh_count \in 0 .. MaxFiles /\ clazz \in [Entries -> {"none", "file", "socket", "pair"}]
  /\ isUsed \subseteq Entries /\ lost \subseteq Entries
  /\ holds \in [Threads -> SUBSET Entries] /\ opens \in [Threads -> SUBSET Entries]
  /\ shuts \in [Threads -> SUBSET Entries]
  /\ call \in [Threads -> Calls \cup {"none"}]
  /\ stores \in [Threads -> {0, 1}] /\ asked \in [Threads -> 0 .. 2] /\ crashed \in BOOLEAN

\* Who has a descriptor has it for one thing, and no one else has it or lost it.
OwnedOnce ==
  /\ \A u, v \in Threads, s \in Entries : s \in Owns(u) /\ s \in Owns(v) => u = v
  /\ \A u \in Threads : /\ Owns(u) \cap lost = {}
                        /\ holds[u] \cap opens[u] = {} /\ holds[u] \cap shuts[u] = {}
                        /\ opens[u] \cap shuts[u] = {}

\* An entry has a class as long as it is owned or lost.
ClassWhileOwned ==
  \A s \in Entries : clazz[s] # "none" <=> s \in lost \/ \E u \in Threads : s \in Owns(u)

\* Entries from _win32_fh_count on were never taken, and what a thread has open is used.
UsedTaken ==
  /\ \A s \in isUsed : s < fh_count
  /\ \A s \in Entries : clazz[s] # "none" => s < fh_count
  /\ \A u \in Threads : holds[u] \cup opens[u] \subseteq isUsed

\* A thread closes before it calls again.
ClosesFirstThenCalls == \A u \in Threads : call[u] # "none" => shuts[u] = {}

FilesInv == FilesTypes /\ OwnedOnce /\ ClassWhileOwned /\ UsedTaken /\ ClosesFirstThenCalls

LEMMA FilesInitInv == FilesInit => FilesInv
<1> SUFFICES ASSUME FilesInit PROVE FilesInv
  OBVIOUS
<1>1. FilesTypes
  <2>1. fh_count \in 0 .. MaxFiles
    BY FilesAssumption DEF FilesInit
  <2>2. /\ holds \in [Threads -> SUBSET Entries] /\ opens \in [Threads -> SUBSET Entries]
        /\ shuts \in [Threads -> SUBSET Entries] /\ isUsed \subseteq Entries
        /\ lost \subseteq Entries
    BY DEF FilesInit
  <2>3. clazz \in [Entries -> {"none", "file", "socket", "pair"}] /\ crashed \in BOOLEAN
    BY DEF FilesInit
  <2>4. call \in [Threads -> Calls \cup {"none"}] /\ stores \in [Threads -> {0, 1}]
    BY DEF FilesInit
  <2>5. asked \in [Threads -> 0 .. 2]
    BY DEF FilesInit
  <2> QED
    BY <2>1, <2>2, <2>3, <2>4, <2>5 DEF FilesTypes
<1>2. \A u \in Threads : Owns(u) = {}
  BY DEF FilesInit, Owns
<1>3. OwnedOnce
  BY <1>2 DEF FilesInit, OwnedOnce
<1>4. ClassWhileOwned
  BY <1>2 DEF FilesInit, ClassWhileOwned
<1>5. UsedTaken /\ ClosesFirstThenCalls
  BY DEF FilesInit, UsedTaken, ClosesFirstThenCalls
<1> QED
  BY <1>1, <1>3, <1>4, <1>5 DEF FilesInv

LEMMA FilesInvOwned == FilesInv => FilesCorrect
<1> SUFFICES ASSUME FilesInv PROVE FilesTypeOK /\ EntriesOwned
  BY DEF FilesCorrect
<1>1. FilesTypeOK
  BY DEF FilesInv, FilesTypes, FilesTypeOK
<1>2. EntriesOwned
  <2> DEFINE owned == 
       {o \in Threads \X Entries : o[2] \in holds[o[1]] \cup opens[o[1]] \cup shuts[o[1]]}
  <2>1. \A o : o \in owned <=> \E u \in Threads, s \in Entries : o = <<u, s>> /\ s \in Owns(u)
    BY DEF Owns
  <2>2. \A u \in Threads, s \in Entries : s \in Owns(u) => <<u, s>> \in owned
    BY <2>1
  <2> HIDE DEF owned
  <2>3. \A o, p \in owned : o[2] = p[2] => o = p
    BY <2>1 DEF FilesInv, OwnedOnce
  <2>4. \A s : s \in {o[2] : o \in owned} <=> s \in Entries /\ \E u \in Threads : s \in Owns(u)
    <3>1. \A o \in owned : o[2] \in Entries /\ \E u \in Threads : o[2] \in Owns(u)
      BY <2>1
    <3>2. ASSUME NEW s \in Entries, NEW u \in Threads, s \in Owns(u)
          PROVE  \E o \in owned : s = o[2]
      <4>1. <<u, s>> \in owned /\ <<u, s>>[2] = s
        BY <2>2, <3>2
      <4> QED
        BY <4>1
    <3> QED
      BY <3>1, <3>2
  <2> DEFINE taken == {o[2] : o \in owned}
  <2>5. {s \in Entries : clazz[s] # "none"} = taken \cup lost
    <3>1. \A s : s \in taken <=> s \in Entries /\ \E u \in Threads : s \in Owns(u)
      BY <2>4
    <3> HIDE DEF taken
    <3>2. lost \subseteq Entries
      BY DEF FilesInv, FilesTypes
    <3>3. \A s \in Entries : clazz[s] # "none" <=> s \in taken \/ s \in lost
      BY <3>1 DEF FilesInv, ClassWhileOwned
    <3>4. \A s \in taken : s \in Entries
      BY <3>1
    <3> QED
      BY <3>2, <3>3, <3>4
  <2>6. lost \cap {o[2] : o \in owned} = {}
    BY <2>4 DEF FilesInv, OwnedOnce
  <2> QED
    BY <2>3, <2>5, <2>6 DEF owned, EntriesOwned, FilesInv, UsedTaken
<1> QED
  BY <1>1, <1>2

LEMMA BeginsKeeps == ASSUME FilesInv, NEW u \in Threads, Begins(u) PROVE FilesInv'
<1>1. PICK c \in Calls : /\ call' = Taking(call, u, c)
                         /\ asked' = Taking(asked, u, IF c = "adb_socketpair" THEN 2 ELSE 1)
  BY DEF Begins
<1>2. UNCHANGED <<fh_count, clazz, isUsed, holds, opens, shuts, stores, lost, crashed>>
  BY DEF Begins, tableVars
<1>3. shuts[u] = {}
  BY DEF Begins, Idle
<1>4. FilesTypes'
  BY <1>1, <1>2 DEF FilesInv, FilesTypes, Taking
<1>5. ClosesFirstThenCalls'
  BY <1>1, <1>2, <1>3 DEF FilesInv, FilesTypes, ClosesFirstThenCalls, Taking
<1> QED
  BY <1>2, <1>4, <1>5 DEF FilesInv, OwnedOnce, ClassWhileOwned, UsedTaken, Owns

LEMMA AllocatesKeeps == ASSUME FilesInv, NEW u \in Threads, Allocates(u) PROVE FilesInv'
<1>1. PICK s \in Free : /\ clazz' = Taking(clazz, s, ClassOf(call[u])) /\ isUsed' = isUsed \cup {s}
                        /\ opens' = Taking(opens, u, opens[u] \cup {s})
  BY DEF Allocates
<1>2. /\ UNCHANGED <<holds, call, shuts, stores, lost, crashed>>
      /\ fh_count' = IF fh_count < MaxFiles THEN fh_count + 1 ELSE fh_count
      /\ asked' = Taking(asked, u, asked[u] - 1) /\ asked[u] > 0
  BY DEF Allocates
<1>3. s \in Entries /\ clazz[s] = "none" /\ s < fh_count' /\ fh_count <= fh_count'
  BY <1>1, <1>2, FilesAssumption DEF Free, Entries, FilesInv, FilesTypes, UsedTaken
<1>4. ClassOf(call[u]) \in {"file", "socket", "pair"}
  BY DEF ClassOf
<1>5. /\ clazz' = [clazz EXCEPT ![s] = ClassOf(call[u])]
      /\ opens' = [opens EXCEPT ![u] = opens[u] \cup {s}]
      /\ asked' = [asked EXCEPT ![u] = asked[u] - 1]
  BY <1>1, <1>2 DEF Taking
<1>6. s \notin lost /\ \A v \in Threads : s \notin Owns(v)
  BY <1>3 DEF FilesInv, ClassWhileOwned
<1>7. FilesTypes'
  <2>1. asked' \in [Threads -> 0 .. 2]
    BY <1>2, <1>5 DEF FilesInv, FilesTypes
  <2>2. fh_count' \in 0 .. MaxFiles
    BY <1>2, FilesAssumption DEF FilesInv, FilesTypes
  <2>3. clazz' \in [Entries -> {"none", "file", "socket", "pair"}]
    BY <1>4, <1>5 DEF FilesInv, FilesTypes
  <2>4. opens' \in [Threads -> SUBSET Entries] /\ isUsed' \subseteq Entries
    <3>1. opens[u] \cup {s} \in SUBSET Entries /\ isUsed \cup {s} \subseteq Entries
      BY <1>3 DEF FilesInv, FilesTypes
    <3>2. opens \in [Threads -> SUBSET Entries] /\ isUsed' = isUsed \cup {s}
      BY <1>1 DEF FilesInv, FilesTypes
    <3>3. [opens EXCEPT ![u] = opens[u] \cup {s}] \in [Threads -> SUBSET Entries]
      BY <3>1, <3>2
    <3> QED
      BY <1>5, <3>1, <3>2, <3>3
  <2> QED
    BY <1>2, <2>1, <2>2, <2>3, <2>4 DEF FilesInv, FilesTypes
<1>8. \A v \in Threads : Owns(v)' = IF v = u THEN Owns(v) \cup {s} ELSE Owns(v)
  BY <1>2, <1>5 DEF FilesInv, FilesTypes, Owns
<1>9. OwnedOnce'
  BY <1>2, <1>5, <1>6, <1>8 DEF FilesInv, FilesTypes, OwnedOnce, Owns
<1>10. ClassWhileOwned'
  <2>1. \A e \in Entries : clazz'[e] = IF e = s THEN ClassOf(call[u]) ELSE clazz[e]
    BY <1>5 DEF FilesInv, FilesTypes
  <2> QED
    BY <1>2, <1>3, <1>4, <1>8, <2>1 DEF FilesInv, ClassWhileOwned
<1>11. UsedTaken'
  <2>1. \A e \in Entries : e # s => clazz'[e] = clazz[e]
    BY <1>5 DEF FilesInv, FilesTypes
  <2>2. \A e \in Entries : e \in Int
    BY DEF Entries
  <2>3. fh_count \in Int /\ fh_count' \in Int
    BY <1>7 DEF FilesInv, FilesTypes
  <2>4. \A e \in isUsed' : e < fh_count'
    BY <1>1, <1>3, <2>2, <2>3 DEF FilesInv, FilesTypes, UsedTaken
  <2>5. \A e \in Entries : clazz'[e] # "none" => e < fh_count'
    BY <1>3, <2>1, <2>2, <2>3 DEF FilesInv, FilesTypes, UsedTaken
  <2>6. \A v \in Threads : holds'[v] \cup opens'[v] \subseteq isUsed'
    <3>1. \A v \in Threads : holds[v] \cup opens[v] \subseteq isUsed
      BY DEF FilesInv, UsedTaken
    <3>2. \A v \in Threads : opens'[v] = IF v = u THEN opens[u] \cup {s} ELSE opens[v]
      BY <1>5 DEF FilesInv, FilesTypes
    <3> QED
      BY <1>1, <1>2, <3>1, <3>2
  <2> QED
    BY <2>4, <2>5, <2>6 DEF UsedTaken
<1> QED
  BY <1>2, <1>7, <1>9, <1>10, <1>11 DEF FilesInv, ClosesFirstThenCalls

LEMMA AllocatesNoneKeeps == ASSUME FilesInv, NEW u \in Threads, AllocatesNone(u) PROVE FilesInv'
<1>1. UNCHANGED <<fh_count, clazz, isUsed, holds, opens, shuts, stores, lost>>
  BY DEF AllocatesNone, tableVars
<1>2. /\ call' \in [Threads -> Calls \cup {"none"}] /\ asked' \in [Threads -> 0 .. 2]
      /\ crashed' \in BOOLEAN
      /\ \A v \in Threads : call'[v] \in {call[v], "none"}
  <2>1. /\ call \in [Threads -> Calls \cup {"none"}] /\ asked \in [Threads -> 0 .. 2]
        /\ crashed \in BOOLEAN
    BY DEF FilesInv, FilesTypes
  <2>2. CASE call[u] = "adb_socketpair"
    BY <2>1, <2>2 DEF AllocatesNone
  <2>3. CASE call[u] # "adb_socketpair"
    <3>1. call' = [call EXCEPT ![u] = "none"] /\ asked' = [asked EXCEPT ![u] = 0]
          /\ UNCHANGED crashed
      BY <2>3 DEF AllocatesNone, Taking
    <3> QED
      BY <2>1, <3>1
  <2> QED
    BY <2>2, <2>3
<1> QED
  BY <1>1, <1>2 DEF FilesInv, FilesTypes, OwnedOnce, ClassWhileOwned, UsedTaken, Owns,
     ClosesFirstThenCalls

LEMMA OpenedKeeps == ASSUME FilesInv, NEW u \in Threads, Opened(u) PROVE FilesInv'
<1>1. \E c \in Calls : Returns(u, c)
  BY DEF Opened, OpensFile, CreatesFile, ConnectsLoopback, ListensLoopback, ConnectsNetwork,
         ListensAny, Accepts, Pairs, Calls
<1>2. Keeps(u) \/ Closes(u) \/ Loses(u)
  BY DEF Opened, OpensFile, CreatesFile, ConnectsLoopback, ListensLoopback, ConnectsNetwork,
         ListensAny, Accepts, Pairs
<1>3. /\ UNCHANGED <<fh_count, clazz, isUsed, stores, asked, crashed>>
      /\ call' = [call EXCEPT ![u] = "none"] /\ opens' = [opens EXCEPT ![u] = {}]
      /\ call[u] # "none"
  BY <1>1 DEF Returns, tableVars, Taking, Calls
<1>4. shuts[u] = {}
  BY <1>3 DEF FilesInv, ClosesFirstThenCalls
<1>5. CASE Keeps(u)
  <2>1. holds' = [holds EXCEPT ![u] = holds[u] \cup opens[u]] /\ UNCHANGED <<shuts, lost>>
    BY <1>5 DEF Keeps, Taking
  <2>2. \A v \in Threads : Owns(v)' = Owns(v)
    BY <1>3, <2>1 DEF Owns, FilesInv, FilesTypes
  <2>3. FilesTypes' /\ UsedTaken' /\ ClosesFirstThenCalls'
    BY <1>3, <2>1 DEF FilesInv, FilesTypes, UsedTaken, ClosesFirstThenCalls
  <2>4. OwnedOnce' /\ ClassWhileOwned'
    BY <1>3, <2>1, <2>2 DEF FilesInv, FilesTypes, OwnedOnce, ClassWhileOwned, Owns
  <2> QED
    BY <2>3, <2>4 DEF FilesInv
<1>6. CASE Closes(u)
  <2>1. shuts' = [shuts EXCEPT ![u] = opens[u]] /\ UNCHANGED <<holds, lost>>
    BY <1>6 DEF Closes, Taking
  <2>2. \A v \in Threads : Owns(v)' = Owns(v)
    BY <1>3, <1>4, <2>1 DEF Owns, FilesInv, FilesTypes
  <2>3. FilesTypes' /\ UsedTaken' /\ ClosesFirstThenCalls'
    BY <1>3, <2>1 DEF FilesInv, FilesTypes, UsedTaken, ClosesFirstThenCalls
  <2>4. OwnedOnce' /\ ClassWhileOwned'
    BY <1>3, <2>1, <2>2 DEF FilesInv, FilesTypes, OwnedOnce, ClassWhileOwned, Owns
  <2> QED
    BY <2>3, <2>4 DEF FilesInv
<1>7. CASE Loses(u)
  <2>1. lost' = lost \cup opens[u] /\ UNCHANGED <<holds, shuts>>
    BY <1>7 DEF Loses
  <2>2. \A v \in Threads : Owns(v)' = IF v = u THEN Owns(v) \ opens[u] ELSE Owns(v)
    BY <1>3, <2>1 DEF Owns, FilesInv, FilesTypes, OwnedOnce
  <2>3. FilesTypes' /\ UsedTaken' /\ ClosesFirstThenCalls'
    BY <1>3, <2>1 DEF FilesInv, FilesTypes, UsedTaken, ClosesFirstThenCalls
  <2>4. OwnedOnce'
    BY <1>3, <2>1, <2>2 DEF FilesInv, FilesTypes, OwnedOnce, Owns
  <2>5. \A s : s \in opens[u] => s \in Owns(u)
    BY DEF Owns
  <2>6. ClassWhileOwned'
    BY <1>3, <2>1, <2>2, <2>5 DEF FilesInv, FilesTypes, ClassWhileOwned
  <2> QED
    BY <2>3, <2>4, <2>6 DEF FilesInv
<1> QED
  BY <1>2, <1>5, <1>6, <1>7

LEMMA AdbCloseKeeps == ASSUME FilesInv, NEW u \in Threads, AdbClose(u) PROVE FilesInv'
<1>1. PICK s \in holds[u] : /\ holds' = [holds EXCEPT ![u] = holds[u] \ {s}]
                            /\ shuts' = IF Resolves(s) THEN [shuts EXCEPT ![u] = {s}] ELSE shuts
  BY DEF AdbClose, Taking
<1>2. UNCHANGED <<fh_count, clazz, isUsed, call, asked, opens, stores, lost, crashed>>
  BY DEF AdbClose, tableVars
<1>3. Resolves(s)
  BY <1>1 DEF Resolves, FilesInv, UsedTaken
<1>4. shuts[u] = {} /\ call[u] = "none"
  BY DEF AdbClose, Idle
<1>5. shuts' = [shuts EXCEPT ![u] = {s}] /\ s \in Entries
  BY <1>1, <1>3 DEF FilesInv, FilesTypes
<1>6. \A v \in Threads : Owns(v)' = Owns(v)
  BY <1>1, <1>2, <1>4, <1>5 DEF Owns, FilesInv, FilesTypes
<1>7. FilesTypes' /\ UsedTaken' /\ ClosesFirstThenCalls'
  BY <1>1, <1>2, <1>4, <1>5 DEF FilesInv, FilesTypes, UsedTaken, ClosesFirstThenCalls
<1>8. OwnedOnce' /\ ClassWhileOwned'
  BY <1>1, <1>2, <1>5, <1>6 DEF FilesInv, FilesTypes, OwnedOnce, ClassWhileOwned, Owns
<1> QED
  BY <1>7, <1>8 DEF FilesInv

LEMMA ClearsUsedKeeps == ASSUME FilesInv, NEW u \in Threads, ClearsUsed(u) PROVE FilesInv'
<1>1. PICK s \in shuts[u] : s \in isUsed /\ isUsed' = isUsed \ {s}
  BY DEF ClearsUsed
<1>2. /\ UNCHANGED <<fh_count, clazz, holds, call, asked, opens, shuts, lost, crashed>>
      /\ stores' = [stores EXCEPT ![u] = 1]
  BY DEF ClearsUsed, Taking
<1>3. s \in Entries /\ \A v \in Threads : s \notin holds[v] /\ s \notin opens[v]
  BY <1>1 DEF FilesInv, FilesTypes, OwnedOnce, Owns
<1>4. FilesTypes' /\ UsedTaken' /\ ClosesFirstThenCalls'
  BY <1>1, <1>2, <1>3 DEF FilesInv, FilesTypes, UsedTaken, ClosesFirstThenCalls
<1>5. OwnedOnce' /\ ClassWhileOwned'
  BY <1>2 DEF FilesInv, OwnedOnce, ClassWhileOwned, Owns
<1> QED
  BY <1>4, <1>5 DEF FilesInv

LEMMA ClearsClassKeeps == ASSUME FilesInv, NEW u \in Threads, ClearsClass(u) PROVE FilesInv'
<1>1. PICK s \in shuts[u] \ isUsed : /\ clazz' = [clazz EXCEPT ![s] = "none"]
                                     /\ shuts' = [shuts EXCEPT ![u] = shuts[u] \ {s}]
  BY DEF ClearsClass, Taking
<1>2. /\ UNCHANGED <<fh_count, isUsed, holds, call, asked, opens, lost, crashed>>
      /\ stores' = [stores EXCEPT ![u] = 0]
  BY DEF ClearsClass, Taking
<1>3. s \in Entries /\ s \in Owns(u)
  BY <1>1 DEF FilesInv, FilesTypes, Owns
<1>4. \A v \in Threads : Owns(v)' = IF v = u THEN Owns(v) \ {s} ELSE Owns(v)
  BY <1>1, <1>2 DEF Owns, FilesInv, FilesTypes, OwnedOnce
<1>5. FilesTypes' /\ ClosesFirstThenCalls'
  BY <1>1, <1>2 DEF FilesInv, FilesTypes, ClosesFirstThenCalls
<1>6. UsedTaken'
  BY <1>1, <1>2 DEF FilesInv, FilesTypes, UsedTaken
<1>7. OwnedOnce'
  BY <1>1, <1>2, <1>4 DEF FilesInv, FilesTypes, OwnedOnce
<1>8. ClassWhileOwned'
  <2>1. \A e \in Entries : clazz'[e] = IF e = s THEN "none" ELSE clazz[e]
    BY <1>1 DEF FilesInv, FilesTypes
  <2>2. s \notin lost /\ \A v \in Threads : v # u => s \notin Owns(v)
    BY <1>3 DEF FilesInv, OwnedOnce
  <2> QED
    BY <1>2, <1>3, <1>4, <2>1, <2>2 DEF FilesInv, ClassWhileOwned
<1> QED
  BY <1>5, <1>6, <1>7, <1>8 DEF FilesInv

\* An entry of the table is one descriptor's until that is closed, and no two threads are given
\* the same, though _fh_close stores without the lock that _fh_alloc takes.
THEOREM FilesHold == FilesSpec => []FilesCorrect
<1>1. FilesInv /\ [FilesNext]_fileVars => FilesInv'
  <2> SUFFICES ASSUME FilesInv, [FilesNext]_fileVars PROVE FilesInv'
    OBVIOUS
  <2>1. CASE UNCHANGED fileVars
    BY <2>1 DEF fileVars, FilesInv, FilesTypes, OwnedOnce, ClassWhileOwned, UsedTaken, Owns,
       ClosesFirstThenCalls
  <2>2. CASE FilesNext
    BY <2>2, BeginsKeeps, AllocatesKeeps, AllocatesNoneKeeps, OpenedKeeps, AdbCloseKeeps,
       ClearsUsedKeeps, ClearsClassKeeps DEF FilesNext
  <2> QED
    BY <2>1, <2>2
<1> QED
  BY <1>1, FilesInitInv, FilesInvOwned, PTL DEF FilesSpec

-----------------------------------------------------------------------------
(* WaitForAll: the wait for more handles than Windows takes.               *)

Past(c) == waiter[c] \in {"woken", "told", "ended"}

\* The answer, and what a thread was woken by, is a handle that is set.
WokenBySet ==
  /\ sig_index # Unset => sig_index \in set
  /\ \A c \in ChunkIds : Past(c) /\ woken[c] > 0 => woken[c] - 1 + First(c) \in set

\* The event has a reason: a thread that could not be started, or an answer.
EventHasReason ==
  /\ \A c \in ChunkIds : waiter[c] \in {"told", "ended"} /\ woken[c] > 0 => sig_index # Unset
  /\ \A c \in ChunkIds : Past(c) /\ woken[c] = 0 => main_event
  /\ main_event => unstarted \/ sig_index # Unset
  /\ caller \in {"join", "done"} => main_event

\* The threads that were started are those the caller joins, in order.
JoinsStarted ==
  /\ \A c \in ChunkIds : waiter[c] # "none" => c < chunks
  /\ caller = "start" => at <= chunks /\ \A c \in ChunkIds : waiter[c] # "none" => c < at
  /\ caller = "join" => \A c \in ChunkIds : c < at /\ waiter[c] # "none" => waiter[c] = "ended"
  /\ caller = "done" => \A c \in ChunkIds : waiter[c] \in {"none", "ended"}

WaitInv == WaitTypeOK /\ WokenBySet /\ EventHasReason /\ JoinsStarted

LEMMA ChunkPlaces ==
  /\ Chunks \in Nat /\ Indices \subseteq Int /\ ChunkIds \subseteq Int /\ Unset \notin Indices
  /\ \A c \in ChunkIds : First(c) \in Int /\ Count(c) \in 0 .. ChunkSize
<1>1. Handles \in Nat /\ Handles > 0 /\ ChunkSize \in Nat /\ ChunkSize > 0
  BY WaitAssumption
<1>2. Chunks \in Nat
  BY <1>1 DEF Chunks
<1>3. \A c \in ChunkIds : First(c) \in Int
  BY <1>1, <1>2 DEF First, ChunkIds
<1>4. Handles % ChunkSize \in 0 .. ChunkSize - 1
  BY <1>1
<1>5. \A c \in ChunkIds : Count(c) \in 0 .. ChunkSize
  BY <1>1, <1>4 DEF Count
<1>6. Indices \subseteq Int /\ Unset \notin Indices
  BY <1>1 DEF Indices, Unset
<1>7. ChunkIds \subseteq Int
  BY <1>2 DEF ChunkIds
<1> QED
  BY <1>2, <1>3, <1>5, <1>6, <1>7

LEMMA WaitInitInv == WaitInit => WaitInv
<1> SUFFICES ASSUME WaitInit PROVE WaitInv
  OBVIOUS
<1>1. WaitTypeOK
  <2>1. 0 \in 0 .. ChunkSize /\ 0 \in 0 .. Chunks /\ Chunks \in 0 .. Chunks
    BY ChunkPlaces, WaitAssumption
  <2> QED
    BY <2>1 DEF WaitInit, WaitTypeOK
<1>2. WokenBySet /\ EventHasReason /\ JoinsStarted
  BY ChunkPlaces DEF WaitInit, WokenBySet, EventHasReason, JoinsStarted, Past
<1> QED
  BY <1>1, <1>2 DEF WaitInv

LEMMA CallerKeeps == ASSUME WaitInv, CallerStep \/ CannotStart PROVE WaitInv'
<1> USE ChunkPlaces DEF WaitInv
<1>1. CASE StartsThread
  <2>1. /\ caller = "start" /\ at < chunks /\ at' = at + 1
        /\ waiter' = [waiter EXCEPT ![at] = "waits"]
        /\ UNCHANGED <<set, main_event, sig_index, woken, caller, chunks, unstarted>>
    BY <1>1 DEF StartsThread
  <2>2. at \in ChunkIds /\ waiter[at] = "none" /\ at + 1 <= chunks
    BY <2>1 DEF WaitTypeOK, ChunkIds, JoinsStarted
  <2>3. WaitTypeOK'
    BY <2>1, <2>2 DEF WaitTypeOK
  <2>4. \A c \in ChunkIds : waiter'[c] = IF c = at THEN "waits" ELSE waiter[c]
    BY <2>1 DEF WaitTypeOK
  <2>5. WokenBySet' /\ EventHasReason'
    BY <2>1, <2>4 DEF WokenBySet, EventHasReason, Past
  <2>6. JoinsStarted'
    BY <2>1, <2>2, <2>4 DEF WaitTypeOK, JoinsStarted
  <2> QED
    BY <2>3, <2>5, <2>6
<1>2. CASE AllStarted
  BY <1>2 DEF AllStarted, WaitTypeOK, WokenBySet, EventHasReason, JoinsStarted, Past
<1>3. CASE CallerWoken
  <2>1. 0 \in 0 .. Chunks /\ \A c \in ChunkIds : ~ (c < 0)
    BY DEF ChunkIds
  <2> QED
    BY <1>3, <2>1 DEF CallerWoken, WaitTypeOK, WokenBySet, EventHasReason, JoinsStarted, Past
<1>4. CASE Joins
  <2>1. /\ caller = "join"
        /\ UNCHANGED <<set, main_event, sig_index, waiter, woken, chunks, unstarted>>
    BY <1>4 DEF Joins
  <2>2. CASE at < chunks
    <3>1. waiter[at] = "ended" /\ at' = at + 1 /\ UNCHANGED caller
      BY <1>4, <2>2 DEF Joins
    <3>2. \A c \in ChunkIds : c < at + 1 => c < at \/ c = at
      BY DEF WaitTypeOK
    <3>3. at + 1 \in 0 .. Chunks
      BY <2>2 DEF WaitTypeOK
    <3> QED
      BY <2>1, <3>1, <3>2, <3>3 DEF WaitTypeOK, WokenBySet, EventHasReason, JoinsStarted, Past
  <2>3. CASE ~ (at < chunks)
    <3>1. caller' = "done" /\ UNCHANGED at
      BY <1>4, <2>3 DEF Joins
    <3>2. \A c \in ChunkIds : waiter[c] # "none" => c < at
      BY <2>3 DEF WaitTypeOK, JoinsStarted
    <3> QED
      BY <2>1, <3>1, <3>2 DEF WaitTypeOK, WokenBySet, EventHasReason, JoinsStarted, Past
  <2> QED
    BY <2>2, <2>3
<1>5. CASE CannotStart
  BY <1>5 DEF CannotStart, WaitTypeOK, WokenBySet, EventHasReason, JoinsStarted, Past
<1> QED
  BY <1>1, <1>2, <1>3, <1>4, <1>5 DEF CallerStep

LEMMA SignalKeeps == ASSUME WaitInv, NEW h \in Indices, Signal(h) PROVE WaitInv'
  BY DEF Signal, WaitInv, WaitTypeOK, WokenBySet, EventHasReason, JoinsStarted, Past

LEMMA WaiterKeeps == ASSUME WaitInv, NEW c \in ChunkIds, WaiterStep(c) PROVE WaitInv'
<1> USE ChunkPlaces DEF WaitInv
<1>1. CASE Wakes(c)
  <2>1. /\ waiter[c] = "waits" /\ waiter' = [waiter EXCEPT ![c] = "woken"]
        /\ UNCHANGED <<set, main_event, sig_index, caller, at, chunks, unstarted>>
    BY <1>1 DEF Wakes
  <2>2. PICK w \in 0 .. ChunkSize : /\ woken' = [woken EXCEPT ![c] = w]
                                    /\ w = 0 => main_event
                                    /\ w > 0 => w - 1 + First(c) \in set
    <3>1. CASE main_event /\ woken' = [woken EXCEPT ![c] = 0]
      <4>1. 0 \in 0 .. ChunkSize /\ ~ (0 > 0)
        BY WaitAssumption
      <4> QED
        BY <3>1, <4>1
    <3>2. ASSUME NEW h \in set \cap HandlesOf(c), woken' = [woken EXCEPT ![c] = 1 + h - First(c)]
          PROVE  \E w \in 0 .. ChunkSize : /\ woken' = [woken EXCEPT ![c] = w]
                                           /\ w = 0 => main_event
                                           /\ w > 0 => w - 1 + First(c) \in set
      <4>1. h \in Int /\ h >= First(c) /\ h <= First(c) + Count(c) - 1
        BY DEF HandlesOf
      <4>2. 1 + h - First(c) \in 1 .. ChunkSize /\ (1 + h - First(c)) - 1 + First(c) = h
        <5>1. First(c) \in Int /\ Count(c) \in 0 .. ChunkSize /\ ChunkSize \in Nat
          BY WaitAssumption
        <5> HIDE DEF WaitInv
        <5> QED
          BY ONLY <4>1, <5>1
      <4>3. 1 + h - First(c) \in 0 .. ChunkSize /\ 1 + h - First(c) # 0
        BY <4>2, WaitAssumption
      <4> QED
        BY <3>2, <4>2, <4>3
    <3> QED
      BY <1>1, <3>1, <3>2 DEF Wakes
  <2>3. WaitTypeOK'
    BY <2>1, <2>2 DEF WaitTypeOK
  <2>4. \A d \in ChunkIds : /\ waiter'[d] = IF d = c THEN "woken" ELSE waiter[d]
                            /\ woken'[d] = IF d = c THEN w ELSE woken[d]
    BY <2>1, <2>2 DEF WaitTypeOK
  <2>5. WokenBySet'
    BY <2>1, <2>2, <2>4 DEF WokenBySet, Past
  <2>6. EventHasReason'
    BY <2>1, <2>2, <2>4 DEF EventHasReason, Past
  <2>7. JoinsStarted'
    BY <2>1, <2>4 DEF JoinsStarted
  <2> QED
    BY <2>3, <2>5, <2>6, <2>7
<1>2. CASE Reports(c)
  <2>1. /\ waiter[c] = "woken" /\ waiter' = [waiter EXCEPT ![c] = "told"]
        /\ UNCHANGED <<set, main_event, woken, caller, at, chunks, unstarted>>
    BY <1>2 DEF Reports
  <2>2. \A d \in ChunkIds : waiter'[d] = IF d = c THEN "told" ELSE waiter[d]
    BY <2>1 DEF WaitTypeOK
  <2>3. woken[c] \in Int /\ set \subseteq Indices
    BY WaitAssumption DEF WaitTypeOK
  <2>4. CASE woken[c] > 0 /\ sig_index = Unset
    <3>1. sig_index' = woken[c] - 1 + First(c) /\ sig_index' \in set
      BY <1>2, <2>1, <2>4 DEF Reports, WokenBySet, Past
    <3>2. sig_index' # Unset
      BY <2>3, <3>1
    <3>3. WaitTypeOK'
      BY <2>1, <2>3, <3>1 DEF WaitTypeOK
    <3>4. WokenBySet' /\ EventHasReason' /\ JoinsStarted'
      BY <2>1, <2>2, <3>1, <3>2 DEF WokenBySet, EventHasReason, JoinsStarted, Past
    <3> QED
      BY <3>3, <3>4
  <2>5. CASE ~ (woken[c] > 0 /\ sig_index = Unset)
    <3>1. sig_index' = sig_index
      BY <1>2, <2>5 DEF Reports
    <3>2. WaitTypeOK'
      BY <2>1, <3>1 DEF WaitTypeOK
    <3>3. WokenBySet' /\ EventHasReason' /\ JoinsStarted'
      BY <2>1, <2>2, <2>3, <2>5, <3>1 DEF WokenBySet, EventHasReason, JoinsStarted, Past
    <3> QED
      BY <3>2, <3>3
  <2> QED
    BY <2>4, <2>5
<1>3. CASE Tells(c)
  <2>1. /\ waiter[c] = "told" /\ waiter' = [waiter EXCEPT ![c] = "ended"] /\ main_event' = TRUE
        /\ UNCHANGED <<set, sig_index, woken, caller, at, chunks, unstarted>>
    BY <1>3 DEF Tells
  <2>2. \A d \in ChunkIds : waiter'[d] = IF d = c THEN "ended" ELSE waiter[d]
    BY <2>1 DEF WaitTypeOK
  <2>3. woken[c] > 0 \/ woken[c] = 0
    BY WaitAssumption DEF WaitTypeOK
  <2>4. unstarted \/ sig_index # Unset
    BY <2>1, <2>3 DEF EventHasReason, Past
  <2>5. WaitTypeOK'
    BY <2>1 DEF WaitTypeOK
  <2> QED
    BY <2>1, <2>2, <2>4, <2>5 DEF WokenBySet, EventHasReason, JoinsStarted, Past
<1> QED
  BY <1>1, <1>2, <1>3 DEF WaiterStep

\* Whatever the number of handles and the size of a chunk, _wait_for_all answers with a handle
\* that is set, unless a thread could not be started, and frees nothing a thread still uses.
THEOREM WaitHolds == WaitSpec => []WaitCorrect
<1>1. WaitInv /\ [WaitNext]_waitVars => WaitInv'
  <2> SUFFICES ASSUME WaitInv, [WaitNext]_waitVars PROVE WaitInv'
    OBVIOUS
  <2>1. CASE UNCHANGED waitVars
    BY <2>1 DEF waitVars, WaitInv, WaitTypeOK, WokenBySet, EventHasReason, JoinsStarted, Past
  <2>2. CASE WaitNext
    BY <2>2, CallerKeeps, SignalKeeps, WaiterKeeps DEF WaitNext
  <2> QED
    BY <2>1, <2>2
<1>2. WaitInv => WaitCorrect
  BY DEF WaitInv, WokenBySet, EventHasReason, JoinsStarted, WaitCorrect, AnswerIsSet, FreedUnused
<1> QED
  BY <1>1, <1>2, WaitInitInv, PTL DEF WaitSpec

-----------------------------------------------------------------------------
(* UsbWindows: the handles of the interfaces.                              *)

HandleSteps == {"none", "idle", "calls", "failed", "leaves", "gone"}

WinTypes ==
  /\ present \subseteq Interfaces /\ enum \subseteq Interfaces
  /\ opened \in 0 .. MaxHandles /\ opening \in 0 .. opened
  /\ of \in [WinHandles -> Interfaces \cup {NoInterface}]
  /\ interface_name \in [WinHandles -> Interfaces \cup {NoInterface}]
  /\ live \in [WinHandles -> BOOLEAN] /\ linked \in [WinHandles -> BOOLEAN]
  /\ pipes \in [WinHandles -> BOOLEAN]
  /\ reads \in [WinHandles -> HandleSteps] /\ writes \in [WinHandles -> HandleSteps]

\* A handle that has its pipes has the name of its interface, and one that was kicked neither;
\* who has pipes is found by known_device, unless find_devices is yet to register it.
NamedWhileOpen ==
  \A h \in WinHandles :
    /\ interface_name[h] = IF pipes[h] THEN of[h] ELSE NoInterface
    /\ pipes[h] => of[h] # NoInterface /\ (linked[h] \/ h = opening)

\* Threads run for a handle in the list only.
RunsWhileLinked ==
  \A h \in WinHandles :
    /\ ~ linked[h] => reads[h] = "none" /\ writes[h] = "none"
    /\ (h = opening \/ h > opened) => ~ linked[h]

WinInv == WinTypes /\ NamedWhileOpen /\ RunsWhileLinked /\ OneHandleEach

LEMMA HandlesAreNumbers == WinHandles \subseteq Nat \ {0} /\ MaxHandles \in Nat
  BY WindowsAssumption DEF WinHandles

LEMMA WinInitInv == WinInit => WinInv
<1> SUFFICES ASSUME WinInit PROVE WinInv
  OBVIOUS
<1>1. opened \in 0 .. MaxHandles /\ opening \in 0 .. opened
  BY HandlesAreNumbers DEF WinInit
<1>2. WinTypes
  BY <1>1 DEF WinInit, WinTypes, HandleSteps
<1>3. NamedWhileOpen /\ RunsWhileLinked /\ OneHandleEach
  BY DEF WinInit, NamedWhileOpen, RunsWhileLinked, OneHandleEach, Usable
<1> QED
  BY <1>2, <1>3 DEF WinInv

\* The threads of a handle move, and may kick it: it has no pipes any more.
LEMMA MovesKeep ==
  ASSUME WinInv, NEW h \in WinHandles,
         UNCHANGED <<present, enum, opened, opening, of, live, linked>>,
         Cleaned(h) \/ UNCHANGED <<interface_name, pipes>>,
         linked[h] \/ UNCHANGED <<reads, writes>>,
         \E r, w \in HandleSteps : /\ reads' = [reads EXCEPT ![h] = r]
                             /\ writes' = [writes EXCEPT ![h] = w]
  PROVE  WinInv'
<1>1. \A g \in WinHandles : /\ pipes'[g] => pipes[g]
                            /\ interface_name'[g] =
                                 IF pipes'[g] THEN interface_name[g] ELSE NoInterface
  <2>1. CASE Cleaned(h)
    BY <2>1 DEF Cleaned, With, WinInv, WinTypes, NamedWhileOpen
  <2>2. CASE UNCHANGED <<interface_name, pipes>>
    BY <2>2 DEF WinInv, NamedWhileOpen
  <2> QED
    BY <2>1, <2>2
<1>2. /\ interface_name' \in [WinHandles -> Interfaces \cup {NoInterface}]
      /\ pipes' \in [WinHandles -> BOOLEAN]
  BY DEF Cleaned, With, WinInv, WinTypes
<1>3. reads' \in [WinHandles -> HandleSteps] /\ writes' \in [WinHandles -> HandleSteps]
  BY DEF WinInv, WinTypes
<1>4. WinTypes'
  BY <1>2, <1>3 DEF WinInv, WinTypes
<1>5. NamedWhileOpen'
  BY <1>1 DEF WinInv, NamedWhileOpen
<1>6. \A g \in WinHandles : ~ linked[g] => reads'[g] = reads[g] /\ writes'[g] = writes[g]
  BY DEF WinInv, WinTypes
<1>7. RunsWhileLinked'
  BY <1>6 DEF WinInv, RunsWhileLinked
<1>8. \A g \in WinHandles : Usable(g)' => Usable(g)
  BY <1>1 DEF Usable
<1>9. OneHandleEach'
  BY <1>8 DEF WinInv, OneHandleEach
<1> QED
  BY <1>4, <1>5, <1>7, <1>9 DEF WinInv

LEMMA ThreadsKeep ==
  ASSUME WinInv, NEW h \in WinHandles,
         \/ ReadCalls(h) \/ WriteCalls(h) \/ CallSucceeds(h) \/ ReadCallFails(h)
         \/ WriteCallFails(h) \/ MainKicks(h) \/ ReadsEnd(h) \/ WritesEnd(h) \/ Leaves(h)
  PROVE  WinInv'
<1>1. reads[h] # "none" \/ writes[h] # "none" => linked[h]
  BY DEF WinInv, RunsWhileLinked
<1>2. /\ reads = [reads EXCEPT ![h] = reads[h]] /\ reads[h] \in HandleSteps
      /\ writes = [writes EXCEPT ![h] = writes[h]] /\ writes[h] \in HandleSteps
  BY DEF WinInv, WinTypes
<1>3. {"idle", "calls", "failed", "leaves", "gone"} \subseteq HandleSteps
  BY DEF HandleSteps
<1>4. UNCHANGED <<present, enum, opened, opening, of, live, linked>>
  BY DEF ReadCalls, WriteCalls, CallSucceeds, ReadCallFails, WriteCallFails, MainKicks, ReadsEnd,
         WritesEnd, Leaves, handleVars
<1>5. Cleaned(h) \/ UNCHANGED <<interface_name, pipes>>
  BY DEF ReadCalls, WriteCalls, CallSucceeds, ReadCallFails, WriteCallFails, MainKicks, ReadsEnd,
         WritesEnd, Leaves, handleVars, KicksIfInvalid
<1>6. linked[h]
  BY <1>1 DEF ReadCalls, WriteCalls, CallSucceeds, ReadCallFails, WriteCallFails, MainKicks,
              ReadsEnd, WritesEnd, Leaves
<1>7. \E r, w \in HandleSteps : /\ reads' = [reads EXCEPT ![h] = r]
                          /\ writes' = [writes EXCEPT ![h] = w]
  <2>1. CASE ReadCalls(h) \/ ReadCallFails(h) \/ ReadsEnd(h)
    BY <1>2, <1>3, <2>1 DEF ReadCalls, ReadCallFails, ReadsEnd, With
  <2>2. CASE WriteCalls(h) \/ WriteCallFails(h) \/ WritesEnd(h)
    BY <1>2, <1>3, <2>2 DEF WriteCalls, WriteCallFails, WritesEnd, With
  <2>3. CASE MainKicks(h)
    BY <1>2, <2>3 DEF MainKicks
  <2>4. CASE CallSucceeds(h) \/ Leaves(h)
    BY <1>2, <1>3, <2>4 DEF CallSucceeds, Leaves, With
  <2> QED
    BY <2>1, <2>2, <2>3, <2>4
<1> QED
  BY <1>4, <1>5, <1>6, <1>7, MovesKeep

LEMMA CloseHandleKeeps == ASSUME WinInv, NEW h \in WinHandles, CloseHandle(h) PROVE WinInv'
<1>1. /\ UNCHANGED <<present, enum, opened, opening, of, live>>
      /\ linked' = [linked EXCEPT ![h] = FALSE]
      /\ interface_name' = [interface_name EXCEPT ![h] = NoInterface]
      /\ pipes' = [pipes EXCEPT ![h] = FALSE]
      /\ reads' = [reads EXCEPT ![h] = "none"] /\ writes' = [writes EXCEPT ![h] = "none"]
  BY DEF CloseHandle, Cleaned, With
<1>2. "none" \in HandleSteps
  BY DEF HandleSteps
<1>3. WinTypes'
  BY <1>1, <1>2 DEF WinInv, WinTypes
<1>4. \A g \in WinHandles : IF g = h THEN /\ ~ linked'[g] /\ ~ pipes'[g]
                                          /\ interface_name'[g] = NoInterface
                                          /\ reads'[g] = "none" /\ writes'[g] = "none"
                            ELSE /\ linked'[g] = linked[g] /\ pipes'[g] = pipes[g]
                                 /\ interface_name'[g] = interface_name[g]
                                 /\ reads'[g] = reads[g] /\ writes'[g] = writes[g]
  BY <1>1 DEF WinInv, WinTypes
<1>5. NamedWhileOpen'
  BY <1>1, <1>4 DEF WinInv, NamedWhileOpen
<1>6. RunsWhileLinked'
  BY <1>1, <1>4 DEF WinInv, RunsWhileLinked
<1>7. OneHandleEach'
  BY <1>1, <1>4 DEF WinInv, OneHandleEach, Usable
<1> QED
  BY <1>3, <1>5, <1>6, <1>7 DEF WinInv

LEMMA FindsNewKeeps == ASSUME WinInv, NEW i \in Interfaces, FindsNew(i) PROVE WinInv'
<1> USE HandlesAreNumbers
<1>1. /\ opening = 0 /\ ~ Known(i) /\ enum' \subseteq Interfaces
      /\ UNCHANGED <<present, linked, reads, writes>>
  BY DEF FindsNew, WinInv, WinTypes
<1>2. CASE ~ (i \in present /\ opened < MaxHandles)
  <2>1. UNCHANGED <<opened, opening, of, live, interface_name, pipes>>
    BY <1>2 DEF FindsNew
  <2>2. WinTypes'
    BY <1>1, <2>1 DEF WinInv, WinTypes
  <2> QED
    BY <1>1, <2>1, <2>2 DEF WinInv, NamedWhileOpen, RunsWhileLinked, OneHandleEach, Usable
<1>3. CASE i \in present /\ opened < MaxHandles
  <2> DEFINE h == opened + 1
  <2>1. /\ opened' = h /\ opening' = h /\ of' = [of EXCEPT ![h] = i]
        /\ live' = [live EXCEPT ![h] = TRUE]
        /\ interface_name' = [interface_name EXCEPT ![h] = i]
        /\ pipes' = [pipes EXCEPT ![h] = TRUE]
    BY <1>3 DEF FindsNew, With
  <2>2. h \in WinHandles /\ h \in 0 .. MaxHandles /\ h \in 0 .. h /\ h > opened
    BY <1>3 DEF WinInv, WinTypes, WinHandles
  <2>3. ~ linked[h] /\ reads[h] = "none" /\ writes[h] = "none"
    BY <2>2 DEF WinInv, RunsWhileLinked
  <2>4. \A g \in WinHandles : g > h => g > opened /\ g # h
    BY DEF WinInv, WinTypes
  <2>5. i # NoInterface
    BY InterfaceAssumption
  <2> HIDE DEF h
  <2>6. \A g \in WinHandles :
          /\ of'[g] = IF g = h THEN i ELSE of[g]
          /\ live'[g] = IF g = h THEN TRUE ELSE live[g]
          /\ interface_name'[g] = IF g = h THEN i ELSE interface_name[g]
          /\ pipes'[g] = IF g = h THEN TRUE ELSE pipes[g]
    BY <2>1, <2>2 DEF WinInv, WinTypes
  <2>7. WinTypes'
    BY <1>1, <2>1, <2>2 DEF WinInv, WinTypes
  <2>8. NamedWhileOpen'
    <3> SUFFICES ASSUME NEW g \in WinHandles
                 PROVE  /\ interface_name'[g] = IF pipes'[g] THEN of'[g] ELSE NoInterface
                        /\ pipes'[g] => of'[g] # NoInterface /\ (linked'[g] \/ g = opening')
      BY DEF NamedWhileOpen
    <3>1. CASE g = h
      BY <2>1, <2>5, <2>6, <3>1
    <3>2. CASE g # h
      <4>1. g # opening
        BY <1>1
      <4> QED
        BY <1>1, <2>6, <3>2, <4>1 DEF WinInv, NamedWhileOpen
    <3> QED
      BY <3>1, <3>2
  <2>9. RunsWhileLinked'
    BY <1>1, <2>1, <2>3, <2>4 DEF WinInv, RunsWhileLinked
  <2>10. \A g \in WinHandles : Usable(g) => of[g] # i
    BY <1>1 DEF WinInv, NamedWhileOpen, Known, Usable
  <2>11. \A g \in WinHandles : g # h /\ Usable(g)' => Usable(g) /\ of'[g] = of[g]
    BY <2>6 DEF Usable
  <2>12. OneHandleEach'
    BY <2>2, <2>6, <2>10, <2>11 DEF WinInv, OneHandleEach
  <2> QED
    BY <2>7, <2>8, <2>9, <2>12 DEF WinInv
<1> QED
  BY <1>2, <1>3

LEMMA RegistersNewKeeps == ASSUME WinInv, RegistersNew PROVE WinInv'
<1> DEFINE h == opening
<1> USE HandlesAreNumbers
<1>1. /\ h # 0 /\ opening' = 0 /\ UNCHANGED <<present, enum, opened, of, live>>
  BY DEF RegistersNew
<1>2. h \in WinHandles /\ 0 \in 0 .. opened /\ 0 \notin WinHandles
  BY <1>1 DEF WinInv, WinTypes, WinHandles
<1>3. ~ linked[h] /\ reads[h] = "none" /\ writes[h] = "none" /\ ~ (h > opened)
  BY <1>2 DEF WinInv, WinTypes, RunsWhileLinked
<1>4. CASE RegisterNewDevice(h) /\ UNCHANGED <<interface_name, pipes>>
           /\ reads' = With(reads, h, "idle") /\ writes' = With(writes, h, "idle")
  <2>1. /\ linked' = [linked EXCEPT ![h] = TRUE] /\ reads' = [reads EXCEPT ![h] = "idle"]
        /\ writes' = [writes EXCEPT ![h] = "idle"]
    BY <1>4 DEF RegisterNewDevice, With
  <2>2. "idle" \in HandleSteps
    BY DEF HandleSteps
  <2>3. WinTypes'
    BY <1>1, <1>2, <1>4, <2>1, <2>2 DEF WinInv, WinTypes
  <2>4. \A g \in WinHandles : IF g = h THEN linked'[g]
                              ELSE /\ linked'[g] = linked[g] /\ reads'[g] = reads[g]
                                   /\ writes'[g] = writes[g]
    BY <2>1 DEF WinInv, WinTypes
  <2>5. NamedWhileOpen'
    BY <1>1, <1>4, <2>4 DEF WinInv, NamedWhileOpen
  <2>6. RunsWhileLinked'
    BY <1>1, <1>2, <1>3, <2>4 DEF WinInv, RunsWhileLinked
  <2>7. OneHandleEach'
    BY <1>1, <1>4 DEF WinInv, OneHandleEach, Usable
  <2> QED
    BY <2>3, <2>5, <2>6, <2>7 DEF WinInv
<1>5. CASE Cleaned(h) /\ UNCHANGED <<linked, reads, writes>>
  <2>1. /\ interface_name' = [interface_name EXCEPT ![h] = NoInterface]
        /\ pipes' = [pipes EXCEPT ![h] = FALSE]
    BY <1>5 DEF Cleaned, With
  <2>2. WinTypes'
    BY <1>1, <1>2, <1>5, <2>1 DEF WinInv, WinTypes
  <2>3. \A g \in WinHandles : IF g = h THEN ~ pipes'[g] /\ interface_name'[g] = NoInterface
                              ELSE /\ pipes'[g] = pipes[g]
                                   /\ interface_name'[g] = interface_name[g]
    BY <2>1 DEF WinInv, WinTypes
  <2>4. NamedWhileOpen'
    BY <1>1, <1>5, <2>3 DEF WinInv, NamedWhileOpen
  <2>5. RunsWhileLinked'
    BY <1>1, <1>2, <1>5 DEF WinInv, RunsWhileLinked
  <2>6. OneHandleEach'
    BY <1>1, <2>3 DEF WinInv, OneHandleEach, Usable
  <2> QED
    BY <2>2, <2>4, <2>5, <2>6 DEF WinInv
<1> QED
  BY <1>4, <1>5 DEF RegistersNew

LEMMA PlugsKeep ==
  ASSUME WinInv, NEW i \in Interfaces, PlugIn(i) \/ PullOut(i) \/ SkipsKnown(i)
  PROVE  WinInv'
<1>1. /\ present' \subseteq Interfaces /\ enum' \subseteq Interfaces
      /\ UNCHANGED <<opened, opening, of, linked, interface_name, pipes, reads, writes>>
      /\ live' = live \/ live' = [h \in WinHandles |-> live[h] /\ of[h] # i]
  BY DEF WinInv, WinTypes, PlugIn, PullOut, SkipsKnown, handleVars
<1>2. live' \in [WinHandles -> BOOLEAN] /\ \A h \in WinHandles : live'[h] => live[h]
  BY <1>1 DEF WinInv, WinTypes
<1>3. WinTypes'
  BY <1>1, <1>2 DEF WinInv, WinTypes
<1>4. OneHandleEach'
  BY <1>1, <1>2 DEF WinInv, OneHandleEach, Usable
<1> QED
  BY <1>1, <1>3, <1>4 DEF WinInv, NamedWhileOpen, RunsWhileLinked

\* However many interfaces come and go, no two handles that can be used are of one interface,
\* and a handle is out of the list, to be freed, only when no thread runs for it.
THEOREM UsbWindowsHolds == WinSpec => []UsbWindowsCorrect
<1>1. WinInv /\ [WinNext]_winVars => WinInv'
  <2> SUFFICES ASSUME WinInv, [WinNext]_winVars PROVE WinInv'
    OBVIOUS
  <2>1. CASE UNCHANGED winVars
    BY <2>1 DEF winVars, handleVars, WinInv, WinTypes, NamedWhileOpen, RunsWhileLinked,
                OneHandleEach, Usable
  <2>2. CASE Enumerates
    <3>1. present' \subseteq Interfaces /\ enum' \subseteq Interfaces
      BY <2>2 DEF Enumerates, WinInv, WinTypes
    <3> QED
      BY <2>2, <3>1 DEF Enumerates, handleVars, WinInv, WinTypes, NamedWhileOpen, RunsWhileLinked,
                        OneHandleEach, Usable
  <2>3. CASE WinNext
    BY <2>2, <2>3, ThreadsKeep, CloseHandleKeeps, FindsNewKeeps, RegistersNewKeeps, PlugsKeep
       DEF WinNext, PollsWindows
  <2> QED
    BY <2>1, <2>3
<1>2. WinInv => UsbWindowsCorrect
  <2> SUFFICES ASSUME WinInv PROVE UsbWindowsCorrect
    OBVIOUS
  <2>1. WinTypeOK
    BY DEF WinInv, WinTypes, WinTypeOK, HandleSteps, NamedWhileOpen
  <2> QED
    BY <2>1 DEF WinInv, UsbWindowsCorrect, FreedWhenLeft, RunsWhileLinked
<1> QED
  BY <1>1, <1>2, WinInitInv, PTL DEF WinSpec

-----------------------------------------------------------------------------
(* BipBuffer: a direction of a socket pair.                                *)

\* The bytes in regions s .. e and 0 .. b of f.
Held(s, e, b, f) == [k \in 1 .. e - s |-> f[s + k - 1]] \o [k \in 1 .. b |-> f[k - 1]]

IsHeld(h, s, e, b, f) ==
  /\ h \in Seq(Nat) /\ Len(h) = e - s + b
  /\ \A k \in 1 .. e - s : h[k] = f[s + k - 1]
  /\ \A k \in 1 .. b : h[e - s + k] = f[k - 1]

LEMMA HeldAt ==
  ASSUME NEW s \in Nat, NEW e \in Nat, NEW b \in Nat, NEW f \in [Slots -> Nat],
         s <= e, e <= BufferSize, b <= BufferSize
  PROVE  IsHeld(Held(s, e, b, f), s, e, b, f)
<1> DEFINE a == [k \in 1 .. e - s |-> f[s + k - 1]]
           c == [k \in 1 .. b |-> f[k - 1]]
<1>1. BufferSize \in Nat /\ e - s \in Nat /\ b \in Nat
  BY BipAssumption
<1>2. \A k \in 1 .. e - s : f[s + k - 1] \in Nat
  BY <1>1 DEF Slots
<1>3. \A k \in 1 .. b : f[k - 1] \in Nat
  BY <1>1 DEF Slots
<1>4. a \in Seq(Nat) /\ Len(a) = e - s /\ \A k \in 1 .. e - s : a[k] = f[s + k - 1]
  BY <1>1, <1>2
<1>5. c \in Seq(Nat) /\ Len(c) = b /\ \A k \in 1 .. b : c[k] = f[k - 1]
  BY <1>1, <1>3
<1> HIDE DEF a, c
<1>6. /\ a \o c \in Seq(Nat) /\ Len(a \o c) = Len(a) + Len(c)
      /\ \A k \in 1 .. Len(a) + Len(c) : (a \o c)[k] = IF k <= Len(a) THEN a[k] ELSE c[k - Len(a)]
  BY <1>4, <1>5, ConcatProperties, Zenon
<1>7. ASSUME NEW k \in 1 .. e - s PROVE (a \o c)[k] = f[s + k - 1]
  <2>1. k \in 1 .. Len(a) + Len(c) /\ k <= Len(a)
    BY <1>1, <1>4, <1>5
  <2> QED
    BY <1>4, <1>6, <2>1
<1>8. ASSUME NEW k \in 1 .. b PROVE (a \o c)[e - s + k] = f[k - 1]
  <2> DEFINE n == e - s + k
  <2>1. n \in 1 .. Len(a) + Len(c) /\ ~ (n <= Len(a)) /\ n - Len(a) = k
    BY <1>1, <1>4, <1>5
  <2> HIDE DEF n
  <2>2. (a \o c)[n] = IF n <= Len(a) THEN a[n] ELSE c[n - Len(a)]
    BY <1>6, <2>1, Zenon
  <2>3. (a \o c)[n] = c[k]
    BY <2>1, <2>2, Zenon
  <2>4. c[k] = f[k - 1]
    BY <1>5
  <2> QED
    BY <2>3, <2>4 DEF n
<1>9. Held(s, e, b, f) = a \o c
  BY DEF Held, a, c
<1> DEFINE h == a \o c
<1>10. /\ h \in Seq(Nat) /\ Len(h) = e - s + b
       /\ \A k \in 1 .. e - s : h[k] = f[s + k - 1]
       /\ \A k \in 1 .. b : h[e - s + k] = f[k - 1]
  BY <1>4, <1>5, <1>6, <1>7, <1>8
<1> HIDE DEF h
<1>11. IsHeld(h, s, e, b, f)
  BY <1>10 DEF IsHeld
<1> QED
  BY <1>9, <1>11 DEF h

\* The n bytes numbered from t + 1 on.
Run(t, n) == [k \in 1 .. n |-> t + k]

LEMMA RunAt ==
  ASSUME NEW t \in Nat, NEW n \in Nat
  PROVE  Run(t, n) \in Seq(Nat) /\ Len(Run(t, n)) = n /\ \A k \in 1 .. n : Run(t, n)[k] = t + k
  BY DEF Run

\* g is f with the n bytes after t put from e on, and the m bytes after those from b on.
Filled(f, g, e, b, n, m, t) ==
  \A j \in Slots : /\ j >= e /\ j < e + n => g[j] = t + 1 + (j - e)
                   /\ j >= b /\ j < b + m => g[j] = t + n + 1 + (j - b)
                   /\ ~ (j >= e /\ j < e + n) /\ ~ (j >= b /\ j < b + m) => g[j] = f[j]

FillsBehind(s, e, b, n, m, t, f, g) ==
  Held(s, e + n, b + m, g) = Held(s, e, b, f) \o Run(t, n + m)

\* n bytes put behind region A, and m behind region B, are behind those that were there.
LEMMA HeldFilled ==
  ASSUME NEW s \in Nat, NEW e \in Nat, NEW b \in Nat, NEW n \in Nat, NEW m \in Nat, NEW t \in Nat,
         NEW f \in [Slots -> Nat], NEW g \in [Slots -> Nat],
         s <= e, e + n <= BufferSize, b + m <= s, b > 0 => n = 0,
         Filled(f, g, e, b, n, m, t)
  PROVE  FillsBehind(s, e, b, n, m, t, f, g)
<1> DEFINE old == Held(s, e, b, f)
           new == Held(s, e + n, b + m, g)
           w == Run(t, n + m)
<1>1. BufferSize \in Nat /\ b <= BufferSize /\ e <= BufferSize /\ b + m <= BufferSize
      /\ n + m \in Nat /\ e - s \in Nat /\ s <= e + n
  BY BipAssumption
<1>2. /\ old \in Seq(Nat) /\ Len(old) = e - s + b
      /\ \A k \in 1 .. e - s : old[k] = f[s + k - 1]
      /\ \A k \in 1 .. b : old[e - s + k] = f[k - 1]
  <2>1. s <= e /\ e <= BufferSize /\ b <= BufferSize
    BY <1>1
  <2>2. IsHeld(Held(s, e, b, f), s, e, b, f)
    BY <2>1, HeldAt
  <2> QED
    BY <2>2 DEF IsHeld
<1>3. /\ new \in Seq(Nat) /\ Len(new) = e + n - s + (b + m)
      /\ \A k \in 1 .. e + n - s : new[k] = g[s + k - 1]
      /\ \A k \in 1 .. b + m : new[e + n - s + k] = g[k - 1]
  <2>1. /\ e + n \in Nat /\ b + m \in Nat
        /\ s <= e + n /\ e + n <= BufferSize /\ b + m <= BufferSize
    BY <1>1
  <2> DEFINE u == e + n
             v == b + m
  <2> HIDE DEF u, v
  <2>2. u \in Nat /\ v \in Nat /\ s <= u /\ u <= BufferSize /\ v <= BufferSize
    BY <2>1 DEF u, v
  <2>3. IsHeld(Held(s, u, v, g), s, u, v, g)
    BY <2>2, HeldAt
  <2> QED
    BY <2>3 DEF u, v, IsHeld
<1>4. w \in Seq(Nat) /\ Len(w) = n + m /\ \A k \in 1 .. n + m : w[k] = t + k
  BY <1>1, RunAt
<1> HIDE DEF old, new, w
<1>5. /\ old \o w \in Seq(Nat) /\ Len(old \o w) = Len(old) + Len(w)
      /\ \A k \in 1 .. Len(old) + Len(w) :
           (old \o w)[k] = IF k <= Len(old) THEN old[k] ELSE w[k - Len(old)]
  BY <1>2, <1>4, ConcatProperties, Zenon
<1>6. \A k \in 1 .. e - s + b : (old \o w)[k] = old[k]
  <2> SUFFICES ASSUME NEW k \in 1 .. e - s + b PROVE (old \o w)[k] = old[k]
    OBVIOUS
  <2>1. k \in 1 .. Len(old) + Len(w) /\ k <= Len(old)
    BY <1>1, <1>2, <1>4
  <2> QED
    BY <1>5, <2>1
<1>7. \A k \in 1 .. n + m : (old \o w)[e - s + b + k] = t + k
  <2> SUFFICES ASSUME NEW k \in 1 .. n + m PROVE (old \o w)[e - s + b + k] = t + k
    OBVIOUS
  <2> DEFINE p == e - s + b + k
  <2>1. p \in 1 .. Len(old) + Len(w) /\ ~ (p <= Len(old)) /\ p - Len(old) = k
    BY <1>1, <1>2, <1>4
  <2>2. (old \o w)[p] = w[p - Len(old)]
    BY <1>5, <2>1
  <2> QED
    BY <1>4, <2>1, <2>2
<1>8. ASSUME NEW k \in 1 .. e - s PROVE new[k] = (old \o w)[k]
  <2>1. s + k - 1 \in Slots /\ ~ (s + k - 1 >= e) /\ ~ (s + k - 1 < b + m)
    BY <1>1 DEF Slots
  <2>2. k \in 1 .. e + n - s /\ k \in 1 .. e - s + b
    BY <1>1
  <2>3. g[s + k - 1] = f[s + k - 1]
    BY <2>1 DEF Filled
  <2>4. new[k] = g[s + k - 1] /\ (old \o w)[k] = f[s + k - 1]
    BY <1>2, <1>3, <1>6, <2>2
  <2> QED
    BY <2>3, <2>4
<1>9. ASSUME NEW k \in 1 .. n PROVE new[e - s + k] = (old \o w)[e - s + k]
  <2>1. b = 0
    OBVIOUS
  <2> DEFINE p == e - s + k
  <2>2. p \in 1 .. e + n - s /\ k \in 1 .. n + m /\ p = e - s + b + k
    BY <1>1, <2>1
  <2>3. new[p] = g[s + p - 1] /\ (old \o w)[p] = t + k
    BY <1>3, <1>7, <2>2
  <2>4. /\ s + p - 1 \in Slots /\ s + p - 1 >= e /\ s + p - 1 < e + n
        /\ t + 1 + ((s + p - 1) - e) = t + k
    BY <1>1 DEF Slots
  <2> HIDE DEF p
  <2>5. g[s + p - 1] = t + 1 + ((s + p - 1) - e)
    BY <2>4 DEF Filled
  <2> QED
    BY <2>3, <2>4, <2>5 DEF p
<1>10. ASSUME NEW k \in 1 .. b PROVE new[e + n - s + k] = (old \o w)[e + n - s + k]
  <2>1. n = 0
    OBVIOUS
  <2>2. k - 1 \in Slots /\ ~ (k - 1 >= e) /\ ~ (k - 1 >= b)
    BY <1>1 DEF Slots
  <2>3. k \in 1 .. b + m /\ e - s + k \in 1 .. e - s + b /\ e + n - s + k = e - s + k
    BY <1>1, <2>1
  <2>4. new[e + n - s + k] = g[k - 1] /\ (old \o w)[e - s + k] = f[k - 1]
    BY <1>2, <1>3, <1>6, <2>3
  <2>5. g[k - 1] = f[k - 1]
    BY <2>2 DEF Filled
  <2> QED
    BY <2>3, <2>4, <2>5
<1>11. ASSUME NEW k \in 1 .. m
       PROVE  new[e + n - s + (b + k)] = (old \o w)[e + n - s + (b + k)]
  <2>1. b + k \in 1 .. b + m /\ n + k \in 1 .. n + m
        /\ e + n - s + (b + k) = e - s + b + (n + k)
    BY <1>1
  <2>2. (old \o w)[e - s + b + (n + k)] = t + (n + k)
    BY <1>7, <2>1
  <2>3. new[e + n - s + (b + k)] = g[b + k - 1]
    <3> DEFINE p == b + k
    <3>1. p \in 1 .. b + m
      BY <2>1
    <3> HIDE DEF p
    <3>2. new[e + n - s + p] = g[p - 1]
      BY <1>3, <3>1, Zenon
    <3> QED
      BY <3>2 DEF p
  <2>4. /\ b + k - 1 \in Slots /\ b + k - 1 >= b /\ b + k - 1 < b + m
        /\ t + n + 1 + ((b + k - 1) - b) = t + (n + k)
    BY <1>1 DEF Slots
  <2>5. g[b + k - 1] = t + n + 1 + ((b + k - 1) - b)
    BY <2>4 DEF Filled
  <2> QED
    BY <2>1, <2>2, <2>3, <2>4, <2>5
<1>12. ASSUME NEW k \in 1 .. Len(new) PROVE new[k] = (old \o w)[k]
  <2>1. k \in Nat /\ k > 0 /\ k <= e + n - s + (b + m)
    BY <1>1, <1>3
  <2>2. CASE k <= e - s
    <3>1. k \in 1 .. e - s
      BY <1>1, <2>1, <2>2
    <3> QED
      BY <1>8, <3>1
  <2>3. CASE k > e - s /\ k <= e + n - s
    <3>1. k - (e - s) \in 1 .. n /\ e - s + (k - (e - s)) = k
      BY <1>1, <2>1, <2>3
    <3> QED
      BY <1>9, <3>1
  <2>4. CASE k > e + n - s /\ k <= e + n - s + b
    <3>1. k - (e + n - s) \in 1 .. b /\ e + n - s + (k - (e + n - s)) = k
      BY <1>1, <2>1, <2>4
    <3> QED
      BY <1>10, <3>1
  <2>5. CASE k > e + n - s + b
    <3>1. /\ k - (e + n - s) - b \in 1 .. m
          /\ e + n - s + (b + (k - (e + n - s) - b)) = k
      BY <1>1, <2>1, <2>5
    <3> QED
      BY <1>11, <3>1
  <2>6. \/ k <= e - s
        \/ k > e - s /\ k <= e + n - s
        \/ k > e + n - s /\ k <= e + n - s + b
        \/ k > e + n - s + b
    BY <2>1
  <2> QED
    BY <2>2, <2>3, <2>4, <2>5, <2>6
<1>13. Len(new) = Len(old \o w)
  BY <1>1, <1>2, <1>3, <1>4, <1>5
<1>14. new = old \o w
  BY <1>3, <1>5, <1>12, <1>13, SeqEqual
<1> QED
  BY <1>14 DEF old, new, w, FillsBehind

\* What the regions and flags are, and how many bytes they hold.
BufferTypes ==
  /\ a_start \in 0 .. BufferSize /\ a_end \in 0 .. BufferSize /\ b_end \in 0 .. BufferSize
  /\ buff \in [Slots -> Nat] /\ sent \in Nat /\ got \in Seq(Nat)
  /\ can_write \in BOOLEAN /\ can_read \in BOOLEAN
  /\ evt_write \in BOOLEAN /\ evt_read \in BOOLEAN

BufferInv ==
  BufferTypes /\ Regions /\ FlagsRight /\ Len(got) + (a_end - a_start) + b_end = sent

LEMMA BufferNumbers ==
  BufferInv => /\ BufferSize \in Nat \ {0} /\ a_start \in Nat /\ a_end \in Nat /\ b_end \in Nat
               /\ sent \in Nat /\ a_start <= a_end /\ a_end <= BufferSize /\ b_end <= a_start
               /\ b_end > 0 => a_end = BufferSize
               /\ a_start = a_end => a_start = 0
               /\ can_read <=> a_start < a_end
               /\ can_write <=> b_end < a_start \/ a_end < BufferSize
  BY BipAssumption DEF BufferInv, BufferTypes, Regions, FlagsRight

LEMMA ContentHeld ==
  /\ Content = Held(a_start, a_end, b_end, buff)
  /\ Content' = Held(a_start', a_end', b_end', buff')
  BY DEF Content, Held

LEMMA ContentIsHeld ==
  ASSUME BufferInv PROVE IsHeld(Content, a_start, a_end, b_end, buff)
<1>1. /\ a_start \in Nat /\ a_end \in Nat /\ b_end \in Nat /\ buff \in [Slots -> Nat]
      /\ a_start <= a_end /\ a_end <= BufferSize /\ b_end <= BufferSize
  BY BufferNumbers DEF BufferInv, BufferTypes
<1>2. IsHeld(Held(a_start, a_end, b_end, buff), a_start, a_end, b_end, buff)
  BY <1>1, HeldAt
<1> QED
  BY <1>2, ContentHeld

\* bip_buffer_write puts at least a byte in, behind those that are there.
LEMMA FillWrites ==
  ASSUME BufferInv, can_write, NEW len \in Nat \ {0}, Fill(len), UNCHANGED got
  PROVE  /\ BufferInv' /\ todo' \in Nat /\ can_read' /\ fills' = fills + 1
         /\ \E n \in 1 .. BufferSize - Len(Content) :
              Content' = Content \o Run(sent, n) /\ sent' = sent + n
<1> DEFINE n == ToA(len)
           m == ToB(len)
<1>1. /\ BufferSize \in Nat \ {0} /\ len \in Nat \ {0}
      /\ a_start \in Nat /\ a_end \in Nat /\ b_end \in Nat /\ sent \in Nat
      /\ a_start <= a_end /\ a_end <= BufferSize /\ b_end <= a_start
      /\ b_end > 0 => a_end = BufferSize
      /\ a_start = a_end => a_start = 0
      /\ b_end < a_start \/ a_end < BufferSize
  BY BufferNumbers
<1>2. /\ n \in Nat /\ a_end + n <= BufferSize /\ n <= len
      /\ n < len => a_end + n = BufferSize
      /\ a_end < BufferSize => n > 0
      /\ a_end = BufferSize => n = 0
  BY <1>1 DEF ToA, Least
<1>3. FillsAll(len) <=> a_start = 0 /\ a_end < BufferSize /\ a_end + n = BufferSize
  BY DEF FillsAll
<1> HIDE DEF n
<1>4. /\ m \in Nat /\ b_end + m <= a_start /\ n + m <= len
      /\ m > 0 => a_end + n = BufferSize
      /\ n = 0 => m > 0
  <2>1. m = IF FillsAll(len) THEN 0 ELSE Least(a_start - b_end, len - n)
    BY DEF ToB, n
  <2> HIDE DEF m
  <2> QED
    BY <1>1, <1>2, <1>3, <2>1 DEF Least
<1>5. /\ a_end' = a_end + n /\ b_end' = b_end + m /\ a_start' = a_start
      /\ sent' = sent + n + m /\ todo' = len - (n + m) /\ fills' = fills + 1
      /\ can_write' = ~ (FillsAll(len) \/ (m > 0 /\ b_end' = a_start))
      /\ can_read' = TRUE /\ evt_read' = (evt_read \/ ~ can_read)
      /\ evt_write' = (evt_write /\ can_write')
  BY DEF Fill, n
<1>6. buff' = [k \in Slots |->
        CASE k \in a_end .. a_end + n - 1 -> sent + 1 + (k - a_end)
          [] k \in b_end .. b_end + m - 1 -> sent + n + 1 + (k - b_end)
          [] OTHER -> buff[k]]
  BY DEF Fill, n
<1> HIDE DEF m
<1>7. buff' \in [Slots -> Nat] /\ Filled(buff, buff', a_end, b_end, n, m, sent)
  <2> DEFINE put(k) == CASE k \in a_end .. a_end + n - 1 -> sent + 1 + (k - a_end)
                         [] k \in b_end .. b_end + m - 1 -> sent + n + 1 + (k - b_end)
                         [] OTHER -> buff[k]
  <2>1. buff' = [k \in Slots |-> put(k)]
    BY <1>6
  <2>2. ASSUME NEW k \in Slots
        PROVE  /\ put(k) \in Nat
               /\ k >= a_end /\ k < a_end + n => put(k) = sent + 1 + (k - a_end)
               /\ k >= b_end /\ k < b_end + m => put(k) = sent + n + 1 + (k - b_end)
               /\ ~ (k >= a_end /\ k < a_end + n) /\ ~ (k >= b_end /\ k < b_end + m)
                    => put(k) = buff[k]
    <3>1. k \in Nat /\ buff[k] \in Nat
      <4>1. buff \in [Slots -> Nat]
        BY DEF BufferInv, BufferTypes
      <4>2. k \in Nat
        BY DEF Slots
      <4> QED
        BY <4>1, <4>2
    <3>2. CASE k \in a_end .. a_end + n - 1
      <4>1. put(k) = sent + 1 + (k - a_end) /\ ~ (k < b_end + m)
        BY <1>1, <1>4, <3>1, <3>2
      <4> QED
        BY <1>1, <1>2, <3>1, <3>2, <4>1
    <3>3. CASE k \in b_end .. b_end + m - 1
      <4>1. k \notin a_end .. a_end + n - 1
        BY <1>1, <1>4, <3>1, <3>3
      <4>2. put(k) = sent + n + 1 + (k - b_end)
        BY <3>3, <4>1
      <4> QED
        BY <1>1, <1>2, <1>4, <3>1, <3>3, <4>1, <4>2
    <3>4. CASE k \notin a_end .. a_end + n - 1 /\ k \notin b_end .. b_end + m - 1
      <4>1. put(k) = buff[k]
        BY <3>4
      <4> QED
        BY <1>1, <1>2, <1>4, <3>1, <3>4, <4>1
    <3> QED
      BY <3>2, <3>3, <3>4
  <2> HIDE DEF put
  <2>3. buff' \in [Slots -> Nat] /\ \A k \in Slots : buff'[k] = put(k)
    BY <2>1, <2>2
  <2> QED
    BY <2>2, <2>3 DEF Filled
<1>8. /\ can_write' \in BOOLEAN /\ can_read' \in BOOLEAN
      /\ evt_write' \in BOOLEAN /\ evt_read' \in BOOLEAN
  BY <1>5 DEF BufferInv, BufferTypes
<1>9. Regions'
  BY <1>1, <1>2, <1>4, <1>5 DEF Regions
<1>10. FlagsRight'
  <2>1. a_start < a_end + n
    BY <1>1, <1>2, <1>4
  <2>2. (FillsAll(len) \/ (m > 0 /\ b_end + m = a_start))
          <=> ~ (b_end + m < a_start \/ a_end + n < BufferSize)
    BY <1>1, <1>2, <1>3, <1>4
  <2>3. can_read' <=> a_start' < a_end'
    BY <1>5, <2>1
  <2>4. can_write' <=> (b_end' < a_start' \/ a_end' < BufferSize)
    BY <1>5, <2>2
  <2> QED
    BY <2>3, <2>4 DEF FlagsRight
<1>11. Len(got') + (a_end' - a_start') + b_end' = sent'
  <2>1. Len(got) \in Nat /\ Len(got) + (a_end - a_start) + b_end = sent
    BY DEF BufferInv, BufferTypes
  <2> QED
    BY <1>1, <1>2, <1>4, <1>5, <2>1
<1>12. BufferTypes' /\ todo' \in Nat
  BY <1>1, <1>2, <1>4, <1>5, <1>7, <1>8 DEF BufferTypes, BufferInv
<1>13. Content' = Content \o Run(sent, n + m)
  <2>1. buff \in [Slots -> Nat] /\ n \in Nat /\ m \in Nat /\ (b_end > 0 => n = 0)
    BY <1>1, <1>2, <1>4 DEF BufferInv, BufferTypes
  <2>2. FillsBehind(a_start, a_end, b_end, n, m, sent, buff, buff')
    <3>1. a_start \in Nat /\ a_end \in Nat /\ b_end \in Nat /\ sent \in Nat
      BY <1>1
    <3>2. n \in Nat /\ m \in Nat /\ buff \in [Slots -> Nat] /\ buff' \in [Slots -> Nat]
      BY <1>7, <2>1
    <3>3. a_start <= a_end
      BY <1>1
    <3>4. a_end + n <= BufferSize
      BY <1>2
    <3>5. b_end + m <= a_start
      BY <1>4
    <3>6. b_end > 0 => n = 0
      BY <2>1
    <3>7. Filled(buff, buff', a_end, b_end, n, m, sent)
      BY <1>7
    <3> QED
      BY ONLY <3>1, <3>2, <3>3, <3>4, <3>5, <3>6, <3>7, HeldFilled, Zenon
  <2> QED
    BY <1>5, <2>2, ContentHeld DEF FillsBehind
<1>14. n + m \in 1 .. BufferSize - Len(Content) /\ sent' = sent + (n + m)
  <2>1. Len(Content) = a_end - a_start + b_end
    BY ContentIsHeld DEF IsHeld
  <2> QED
    BY <1>1, <1>2, <1>4, <1>5, <2>1
<1> QED
  BY <1>5, <1>9, <1>10, <1>11, <1>12, <1>13, <1>14 DEF BufferInv

\* The bytes of one read: the first n, which are of region A or all of it and m of region B.
DrainsFirst(s, e, b, f, n, m) ==
  [k \in 1 .. n |-> f[s + k - 1]] \o [k \in 1 .. m |-> f[k - 1]] =
    SubSeq(Held(s, e, b, f), 1, n + m)

LEMMA HeldDrained ==
  ASSUME NEW s \in Nat, NEW e \in Nat, NEW b \in Nat, NEW f \in [Slots -> Nat], NEW n \in Nat,
         NEW m \in Nat, s <= e, e <= BufferSize, b <= BufferSize, s + n <= e, m <= b,
         m > 0 => s + n = e
  PROVE  DrainsFirst(s, e, b, f, n, m)
<1> DEFINE h == Held(s, e, b, f)
           sub == SubSeq(h, 1, n + m)
           d == Held(s, s + n, m, f)
<1>1. IsHeld(h, s, e, b, f)
  BY HeldAt
<1>2. IsHeld(d, s, s + n, m, f)
  <2> DEFINE u == s + n
  <2> HIDE DEF u
  <2>1. u \in Nat /\ s <= u /\ u <= BufferSize /\ m <= BufferSize
    BY BipAssumption DEF u
  <2>2. IsHeld(Held(s, u, m, f), s, u, m, f)
    BY <2>1, HeldAt
  <2> QED
    BY <2>2 DEF u
<1>3. d = [k \in 1 .. n |-> f[s + k - 1]] \o [k \in 1 .. m |-> f[k - 1]]
  <2>1. s + n - s = n
    OBVIOUS
  <2> QED
    BY <2>1 DEF Held
<1> HIDE DEF h, d
<1>4. \A k \in 1 .. n + m : k \in 1 .. Len(h)
  BY <1>1 DEF IsHeld
<1>5. /\ sub \in Seq(Nat) /\ Len(sub) = n + m /\ \A k \in 1 .. n + m : sub[k] = h[k]
  <2>1. h \in Seq(Nat) /\ n + m \in Nat /\ n + m <= Len(h)
    BY <1>1 DEF IsHeld
  <2> QED
    BY <2>1
<1> HIDE DEF sub
<1>6. d \in Seq(Nat) /\ Len(d) = n + m
  BY <1>2 DEF IsHeld
<1>7. ASSUME NEW k \in 1 .. n + m PROVE d[k] = h[k]
  <2>1. CASE k <= n
    <3>1. k \in 1 .. s + n - s /\ k \in 1 .. e - s
      BY <2>1
    <3>2. d[k] = f[s + k - 1]
      BY <1>2, <3>1 DEF IsHeld
    <3>3. h[k] = f[s + k - 1]
      BY <1>1, <3>1 DEF IsHeld
    <3> QED
      BY <3>2, <3>3
  <2>2. CASE k > n
    <3>1. k - n \in 1 .. m /\ k - n \in 1 .. b /\ s + n - s + (k - n) = k /\ e - s + (k - n) = k
      BY <2>2
    <3> DEFINE p == k - n
    <3> HIDE DEF p
    <3>2. p \in 1 .. m /\ p \in 1 .. b
      BY <3>1 DEF p
    <3> DEFINE x == s + n - s
               y == e - s
    <3>3. \A q \in 1 .. m : d[x + q] = f[q - 1]
      BY <1>2 DEF IsHeld
    <3>4. \A q \in 1 .. b : h[y + q] = f[q - 1]
      BY <1>1 DEF IsHeld
    <3>5. x + p = k /\ y + p = k
      BY <3>1 DEF p
    <3> HIDE DEF x, y
    <3>6. d[x + p] = f[p - 1] /\ h[y + p] = f[p - 1]
      BY <3>2, <3>3, <3>4
    <3> QED
      BY <3>5, <3>6
  <2> QED
    BY <2>1, <2>2
<1>8. \A k \in 1 .. Len(d) : d[k] = sub[k]
  BY <1>5, <1>6, <1>7
<1>9. d = sub
  BY <1>5, <1>6, <1>8, SeqEqual
<1> QED
  BY <1>3, <1>9 DEF sub, h, DrainsFirst

\* What is left when the first n of h were read.
IsRest(r, h, n) == r = SubSeq(h, n + 1, Len(h))

LEMMA RestOf ==
  ASSUME NEW h \in Seq(Nat), NEW n \in Nat, n <= Len(h)
  PROVE  /\ SubSeq(h, n + 1, Len(h)) \in Seq(Nat) /\ Len(SubSeq(h, n + 1, Len(h))) = Len(h) - n
         /\ \A k \in 1 .. Len(h) - n : SubSeq(h, n + 1, Len(h))[k] = h[n + k]
<1> DEFINE m == Len(h)
<1>1. m \in Nat /\ \A i \in 1 .. m : h[i] \in Nat
  OBVIOUS
<1> SUFFICES /\ SubSeq(h, n + 1, m) \in Seq(Nat) /\ Len(SubSeq(h, n + 1, m)) = m - n
             /\ \A k \in 1 .. m - n : SubSeq(h, n + 1, m)[k] = h[n + k]
  OBVIOUS
<1> HIDE DEF m
<1>2. /\ n + 1 \in Int /\ m \in Int /\ n <= m
      /\ (IF n + 1 <= m THEN m - (n + 1) + 1 ELSE 0) = m - n
      /\ m - (n + 1) + 1 = m - n
      /\ \A k \in 1 .. m - n : (n + 1) + k - 1 = n + k
  BY <1>1 DEF m
<1>3. \A i \in n + 1 .. m : h[i] \in Nat
  BY <1>1
<1>4. /\ SubSeq(h, n + 1, m) \in Seq(Nat)
      /\ Len(SubSeq(h, n + 1, m)) = IF n + 1 <= m THEN m - (n + 1) + 1 ELSE 0
      /\ \A k \in 1 .. m - (n + 1) + 1 : SubSeq(h, n + 1, m)[k] = h[(n + 1) + k - 1]
  BY <1>2, <1>3, SubSeqProperties, SMTT(60)
<1> QED
  BY <1>2, <1>4, SMTT(60)

LEMMA RestAt ==
  ASSUME NEW h \in Seq(Nat), NEW r \in Seq(Nat), NEW n \in Nat, n + Len(r) = Len(h),
         \A k \in 1 .. Len(r) : r[k] = h[n + k]
  PROVE  IsRest(r, h, n)
<1> DEFINE sub == SubSeq(h, n + 1, Len(h))
<1>1. Len(r) \in Nat /\ Len(h) \in Nat
  OBVIOUS
<1>2. /\ sub \in Seq(Nat) /\ Len(sub) = Len(r) /\ \A k \in 1 .. Len(r) : sub[k] = h[n + k]
  <2>1. n <= Len(h) /\ Len(h) - n = Len(r)
    BY <1>1
  <2> QED
    BY <2>1, RestOf, SMTT(30)
<1> HIDE DEF sub
<1>3. r = sub
  BY <1>2, SeqEqual
<1> QED
  BY <1>3 DEF sub, IsRest

\* Region A is read in part, or all of it and m bytes of B, which is then region A.
LEMMA RestOfA ==
  ASSUME NEW s \in Nat, NEW e \in Nat, NEW b \in Nat, NEW f \in [Slots -> Nat], NEW n \in Nat,
         s + n <= e, e <= BufferSize, b <= BufferSize
  PROVE  IsRest(Held(s + n, e, b, f), Held(s, e, b, f), n)
<1> DEFINE h == Held(s, e, b, f)
           u == s + n
           r == Held(u, e, b, f)
           l == e - s
           i == e - u
<1>1. u \in Nat /\ u <= e /\ s <= e /\ i \in Nat /\ l \in Nat /\ l = n + i
  OBVIOUS
<1>2. IsHeld(h, s, e, b, f)
  BY <1>1, HeldAt
<1>3. IsHeld(r, u, e, b, f)
  <2> HIDE DEF u
  <2> QED
    BY <1>1, HeldAt
<1>4. h \in Seq(Nat) /\ Len(h) = l + b /\ r \in Seq(Nat) /\ Len(r) = i + b
  BY <1>2, <1>3 DEF IsHeld
<1>5. /\ \A k \in 1 .. l : h[k] = f[s + k - 1]
      /\ \A k \in 1 .. b : h[l + k] = f[k - 1]
      /\ \A k \in 1 .. i : r[k] = f[u + k - 1]
      /\ \A k \in 1 .. b : r[i + k] = f[k - 1]
  BY <1>2, <1>3, Zenon DEF IsHeld
<1>6. \A k \in 1 .. i : u + k - 1 = s + (n + k) - 1 /\ n + k \in 1 .. l
  BY <1>1
<1> HIDE DEF h, r, u, l, i
<1>7. ASSUME NEW k \in 1 .. Len(r) PROVE r[k] = h[n + k]
  <2>1. CASE k <= i
    <3>1. k \in 1 .. i
      BY <1>1, <2>1
    <3>2. n + k \in 1 .. l /\ u + k - 1 = s + (n + k) - 1
      BY <1>6, <3>1
    <3>3. r[k] = f[u + k - 1]
      BY <1>5, <3>1
    <3> DEFINE p == n + k
    <3> HIDE DEF p
    <3>4. p \in 1 .. l /\ u + k - 1 = s + p - 1
      BY <3>2 DEF p
    <3>5. h[p] = f[s + p - 1]
      BY <1>5, <3>4
    <3> QED
      BY <3>3, <3>4, <3>5 DEF p
  <2>2. CASE k > i
    <3> DEFINE p == k - i
    <3>1. p \in 1 .. b /\ i + p = k /\ l + p = n + k
      BY <1>1, <1>4, <2>2
    <3> HIDE DEF p
    <3>2. r[i + p] = f[p - 1] /\ h[l + p] = f[p - 1]
      BY <1>5, <3>1
    <3> QED
      BY <3>1, <3>2
  <2> QED
    BY <1>1, <2>1, <2>2
<1>8. n + Len(r) = Len(h)
  BY <1>1, <1>4
<1>9. IsRest(r, h, n)
  BY <1>4, <1>7, <1>8, RestAt
<1> QED
  BY <1>9 DEF h, r, u

LEMMA RestOfB ==
  ASSUME NEW s \in Nat, NEW e \in Nat, NEW b \in Nat, NEW f \in [Slots -> Nat], NEW m \in Nat,
         s <= e, e <= BufferSize, b <= BufferSize, m <= b
  PROVE  IsRest(Held(m, b, 0, f), Held(s, e, b, f), (e - s) + m)
<1> DEFINE h == Held(s, e, b, f)
           r == Held(m, b, 0, f)
           l == e - s
           i == b - m
<1>1. i \in Nat /\ l \in Nat /\ l + m \in Nat
  OBVIOUS
<1>2. IsHeld(h, s, e, b, f)
  BY HeldAt
<1>3. IsHeld(r, m, b, 0, f)
  BY BipAssumption, HeldAt
<1>4. h \in Seq(Nat) /\ Len(h) = l + b /\ r \in Seq(Nat) /\ Len(r) = i
  BY <1>2, <1>3 DEF IsHeld
<1>5. /\ \A k \in 1 .. b : h[l + k] = f[k - 1]
      /\ \A k \in 1 .. i : r[k] = f[m + k - 1]
  BY <1>2, <1>3, Zenon DEF IsHeld
<1>6. (l + m) + Len(r) = Len(h)
  BY <1>1, <1>4
<1>7. \A k \in 1 .. i : m + k \in 1 .. b /\ l + (m + k) = (l + m) + k
  BY <1>1
<1> HIDE DEF h, r, l, i
<1>8. ASSUME NEW k \in 1 .. Len(r) PROVE r[k] = h[(l + m) + k]
  <2> DEFINE p == m + k
  <2>1. k \in 1 .. i
    BY <1>4
  <2>2. p \in 1 .. b /\ l + p = (l + m) + k /\ p - 1 = m + k - 1
    BY <1>7, <2>1
  <2> HIDE DEF p
  <2>3. h[l + p] = f[p - 1] /\ r[k] = f[m + k - 1]
    BY <1>5, <2>1, <2>2
  <2> QED
    BY <2>2, <2>3
<1> DEFINE q == l + m
<1> HIDE DEF q
<1>9. q \in Nat /\ q + Len(r) = Len(h) /\ \A k \in 1 .. Len(r) : r[k] = h[q + k]
  BY <1>1, <1>6, <1>8 DEF q
<1>10. IsRest(r, h, q)
  BY <1>4, <1>9, RestAt
<1> QED
  BY <1>10 DEF h, r, l, q

\* bip_buffer_read takes at least a byte, those that came first.
LEMMA DrainReads ==
  ASSUME BufferInv, can_read, NEW len \in Nat \ {0}, Drain(len), UNCHANGED sent
  PROVE  /\ BufferInv' /\ Len(Taken(len)) \in 1 .. len
         /\ \E n \in 1 .. Len(Content) :
              /\ got' = got \o SubSeq(Content, 1, n)
              /\ Content' = SubSeq(Content, n + 1, Len(Content))
<1> DEFINE n == FromA(len)
           m == FromB(len)
<1>1. /\ BufferSize \in Nat \ {0} /\ len \in Nat \ {0}
      /\ a_start \in Nat /\ a_end \in Nat /\ b_end \in Nat /\ sent \in Nat
      /\ a_start <= a_end /\ a_end <= BufferSize /\ b_end <= a_start
      /\ b_end > 0 => a_end = BufferSize
      /\ a_start < a_end
      /\ buff \in [Slots -> Nat]
  BY BufferNumbers DEF BufferInv, BufferTypes
<1>2. n \in Nat /\ n > 0 /\ n <= len /\ a_start + n <= a_end
  BY <1>1 DEF FromA, Least
<1>3. EmptiesA(len) <=> a_start + n = a_end
  BY <1>1, <1>2 DEF EmptiesA
<1> HIDE DEF n
<1>4. /\ m \in Nat /\ m <= b_end /\ n + m <= len
      /\ m > 0 => a_start + n = a_end
  <2>1. m = IF EmptiesA(len) THEN Least(b_end, len - n) ELSE 0
    BY DEF FromB, n
  <2> HIDE DEF m
  <2> QED
    BY <1>1, <1>2, <1>3, <2>1 DEF Least
<1> DEFINE empty == EmptiesA(len) /\ m = b_end
<1>5. /\ got' = got \o Taken(len)
      /\ a_start' = IF ~ EmptiesA(len) THEN a_start + n ELSE IF empty THEN 0 ELSE m
      /\ a_end' = IF ~ EmptiesA(len) THEN a_end ELSE IF empty THEN 0 ELSE b_end
      /\ b_end' = IF EmptiesA(len) THEN 0 ELSE b_end
      /\ can_read' = ~ empty /\ evt_read' = (evt_read /\ ~ empty)
      /\ can_write' = TRUE /\ evt_write' = (evt_write \/ ~ can_write)
      /\ buff' = buff
  BY DEF Drain, n
<1>6. Taken(len) = [k \in 1 .. n |-> buff[a_start + k - 1]] \o [k \in 1 .. m |-> buff[k - 1]]
  BY DEF Taken, n
<1> HIDE DEF m
<1>7. /\ a_start' \in 0 .. BufferSize /\ a_end' \in 0 .. BufferSize /\ b_end' \in 0 .. BufferSize
      /\ Regions'
  BY <1>1, <1>2, <1>3, <1>4, <1>5 DEF Regions
<1>8. FlagsRight'
  <2>1. CASE ~ EmptiesA(len)
    <3>1. a_start + n < a_end /\ b_end < a_start + n
      BY <1>1, <1>2, <1>3, <2>1
    <3> QED
      BY <1>5, <2>1, <3>1 DEF FlagsRight
  <2>2. CASE empty
    <3>1. a_start' = 0 /\ a_end' = 0 /\ b_end' = 0 /\ can_read' = FALSE /\ can_write' = TRUE
      BY <1>5, <2>2
    <3>2. 0 < BufferSize /\ ~ (0 < 0)
      BY <1>1
    <3> QED
      BY <3>1, <3>2 DEF FlagsRight
  <2>3. CASE EmptiesA(len) /\ ~ empty
    <3>1. m < b_end /\ b_end < BufferSize
      BY <1>1, <1>4, <2>3
    <3> QED
      BY <1>5, <2>3, <3>1 DEF FlagsRight
  <2> QED
    BY <2>1, <2>2, <2>3
<1>9. IsHeld(Content, a_start, a_end, b_end, buff)
  BY ContentIsHeld
<1>10. Taken(len) = SubSeq(Content, 1, n + m)
  <2>1. DrainsFirst(a_start, a_end, b_end, buff, n, m)
    <3>1. b_end <= BufferSize
      BY <1>1
    <3> QED
      BY <1>1, <1>2, <1>4, <3>1, HeldDrained, Zenon
  <2> QED
    BY <1>6, <2>1, ContentHeld DEF DrainsFirst
<1>11. n + m \in 1 .. Len(Content) /\ Content \in Seq(Nat) /\ Len(Content) \in Nat
       /\ Len(Content) = a_end - a_start + b_end
  BY <1>1, <1>2, <1>4, <1>9 DEF IsHeld
<1>12. Taken(len) \in Seq(Nat) /\ Len(Taken(len)) = n + m
  <2> DEFINE c == Content
             l == n + m
  <2>1. c \in Seq(Nat) /\ l \in 1 .. Len(c) /\ Taken(len) = SubSeq(c, 1, l)
    BY <1>10, <1>11
  <2> HIDE DEF c, l
  <2>2. Taken(len) \in Seq(Nat) /\ Len(Taken(len)) = l
    BY <2>1
  <2> QED
    BY <2>2 DEF l
<1>13. IsRest(Content', Content, n + m)
  <2>1. b_end <= BufferSize
    BY <1>1
  <2>2. CASE ~ EmptiesA(len)
    <3>1. m = 0 /\ n + m = n
      BY <1>2, <1>3, <1>4, <2>2
    <3>2. IsRest(Held(a_start + n, a_end, b_end, buff), Held(a_start, a_end, b_end, buff), n)
      BY <1>1, <1>2, <2>1, RestOfA, Zenon
    <3> QED
      BY <1>5, <2>2, <3>1, <3>2, ContentHeld
  <2>3. CASE EmptiesA(len)
    <3>1. IsRest(Held(m, b_end, 0, buff), Held(a_start, a_end, b_end, buff), (a_end - a_start) + m)
      BY <1>1, <1>4, <2>1, RestOfB, Zenon
    <3>2. (a_end - a_start) + m = n + m
      BY <1>1, <1>2, <1>3, <1>4, <2>3
    <3>3. Content' = Held(m, b_end, 0, buff)
      <4>1. CASE ~ empty
        BY <1>5, <2>3, <4>1, ContentHeld
      <4>2. CASE empty
        <5>1. Content' = Held(0, 0, 0, buff) /\ m = b_end
          BY <1>5, <2>3, <4>2, ContentHeld
        <5>2. m - m = 0 /\ 0 - 0 = 0 /\ 1 .. 0 = {}
          BY <1>4
        <5>3. [k \in 1 .. m - m |-> buff[m + k - 1]] = [k \in 1 .. 0 - 0 |-> buff[0 + k - 1]]
          BY <5>2
        <5> QED
          BY <5>1, <5>3 DEF Held
      <4> QED
        BY <4>1, <4>2
    <3> QED
      BY <3>1, <3>2, <3>3, ContentHeld
  <2> QED
    BY <2>2, <2>3
<1>14. got' \in Seq(Nat) /\ Len(got') = Len(got) + (n + m)
  BY <1>5, <1>12, ConcatProperties DEF BufferInv, BufferTypes
<1>15. BufferTypes'
  <2>1. /\ can_write' \in BOOLEAN /\ can_read' \in BOOLEAN
        /\ evt_write' \in BOOLEAN /\ evt_read' \in BOOLEAN
    BY <1>5 DEF BufferInv, BufferTypes
  <2> QED
    BY <1>1, <1>5, <1>7, <1>14, <2>1 DEF BufferTypes
<1>16. Len(got') + (a_end' - a_start') + b_end' = sent'
  <2>1. Len(got) \in Nat /\ Len(got) + (a_end - a_start) + b_end = sent
    BY DEF BufferInv, BufferTypes
  <2>2. (a_end' - a_start') + b_end' = (a_end - a_start) + b_end - (n + m)
    <3>1. CASE ~ EmptiesA(len)
      <4>1. m = 0
        BY <1>3, <1>4, <3>1
      <4>2. a_start' = a_start + n /\ a_end' = a_end /\ b_end' = b_end
        BY <1>5, <3>1
      <4> QED
        BY <1>1, <1>2, <4>1, <4>2
    <3>2. CASE EmptiesA(len)
      <4>1. a_end - a_start = n
        BY <1>1, <1>2, <1>3, <3>2
      <4>2. b_end' = 0 /\ a_end' - a_start' = b_end - m
        <5>1. CASE empty
          <6>1. a_start' = 0 /\ a_end' = 0 /\ b_end' = 0 /\ m = b_end
            BY <1>5, <5>1
          <6> QED
            BY <1>1, <6>1
        <5>2. CASE ~ empty
          BY <1>5, <3>2, <5>2
        <5> QED
          BY <5>1, <5>2
      <4> QED
        BY <1>1, <1>2, <1>4, <4>1, <4>2
    <3> QED
      BY <3>1, <3>2
  <2>3. a_start' \in Int /\ a_end' \in Int /\ b_end' \in Int
    BY <1>7
  <2>4. n + m \in Int /\ a_start \in Int /\ a_end \in Int /\ b_end \in Int
    BY <1>1, <1>2, <1>4
  <2>5. Len(got') = Len(got) + (n + m) /\ sent' = sent
    BY <1>14
  <2> DEFINE g == Len(got)  p == a_end - a_start  q == a_end' - a_start'  k == n + m
             b == b_end  c == b_end'  z == sent
  <2>6. g \in Int /\ p \in Int /\ q \in Int /\ k \in Int /\ b \in Int /\ c \in Int
    BY <2>1, <2>3, <2>4
  <2>7. g + p + b = z /\ q + c = p + b - k /\ Len(got') = g + k /\ sent' = z
    BY <2>1, <2>2, <2>5
  <2> HIDE DEF g, p, q, k, b, c, z
  <2>8. (g + k) + q + c = z
    BY <2>6, <2>7
  <2>9. Len(got') + q + c = sent'
    BY <2>7, <2>8, Zenon
  <2> QED
    BY <2>9, Zenon DEF q, c
<1>17. BufferInv'
  BY <1>7, <1>8, <1>15, <1>16 DEF BufferInv
<1>18. Len(Taken(len)) \in 1 .. len
  BY <1>1, <1>2, <1>4, <1>12
<1>19. /\ got' = got \o SubSeq(Content, 1, n + m)
       /\ Content' = SubSeq(Content, (n + m) + 1, Len(Content))
  BY <1>5, <1>10, <1>13 DEF IsRest
<1> QED
  BY <1>11, <1>17, <1>18, <1>19

PastClose(e) == step[e] \in {"wakeReader", "wakeWriter", "drop", "dropped", "gone"}

StepTypes ==
  /\ closed \in BOOLEAN /\ inLoop \in BOOLEAN /\ failed \in BOOLEAN /\ todo \in Nat
  /\ step \in [Ends -> {"run", "test", "sleep", "close", "wakeReader", "wakeWriter", "drop",
                        "dropped", "gone"}]
  /\ avail \in 0 .. Payload /\ used \in Nat /\ freed \in Nat /\ fills \in Nat
  /\ seen \in [Ends -> Nat]

\* The pair is closed by an end that does not write or read again; a reader that was told of
\* a close was told of the writer's.
ClosedByEnd ==
  /\ closed <=> PastClose("writer") \/ PastClose("reader")
  /\ failed => PastClose("writer") /\ step["reader"] \notin {"run", "test", "sleep"}

\* main is only called once there was a write or a close; when it found nothing to read, a
\* first write is what it had read.
WriteSeen ==
  /\ can_read \/ evt_read => fills >= 1 \/ closed
  /\ inLoop /\ (avail > 0 \/ step["reader"] \in {"test", "sleep"}) => fills >= 1 \/ closed
  /\ inLoop /\ fills <= 1 /\ (step["reader"] \in {"test", "sleep"} \/ failed) => ~ can_read

\* pair->used by the ends that are gone: either may have read it before the other stored.
UsedByGone ==
  /\ step["writer"] # "gone" /\ step["reader"] # "gone" => used = 2 /\ freed = 0
  /\ ~ (step["writer"] = "gone" <=> step["reader"] = "gone") => used = 1 /\ freed = 0
  /\ step["writer"] = "gone" /\ step["reader"] = "gone" => used \in 0 .. 1 /\ freed = 1 - used
  /\ \A e \in Ends : step[e] = "dropped" => seen[e] \in used .. 2

BipInv == BufferInv /\ StepTypes /\ ClosedByEnd /\ WriteSeen /\ UsedByGone

LEMMA BipInitInv == BipInit => BipInv
<1> SUFFICES ASSUME BipInit PROVE BipInv
  OBVIOUS
<1>1. BufferSize \in Nat \ {0} /\ Payload \in Nat \ {0}
  BY BipAssumption
<1>2. BufferInv
  <2>1. /\ buff \in [Slots -> Nat] /\ got \in Seq(Nat) /\ Len(got) = 0
    BY DEF BipInit
  <2>2. a_start = 0 /\ a_end = 0 /\ b_end = 0 /\ sent = 0 /\ can_write = TRUE
        /\ can_read = FALSE /\ evt_write = TRUE /\ evt_read = FALSE
    BY DEF BipInit
  <2>3. BufferTypes
    <3>1. 0 \in 0 .. BufferSize
      BY <1>1
    <3>2. 0 \in Nat /\ TRUE \in BOOLEAN /\ FALSE \in BOOLEAN
      OBVIOUS
    <3> QED
      BY <2>1, <2>2, <3>1, <3>2, Zenon DEF BufferTypes
  <2>4. Regions /\ FlagsRight
    BY <1>1, <2>2 DEF Regions, FlagsRight
  <2> QED
    BY <2>1, <2>2, <2>3, <2>4 DEF BufferInv
<1>3. StepTypes
  <2>1. step = [e \in Ends |-> "run"] /\ seen = [e \in Ends |-> 0]
    BY DEF BipInit
  <2>2. /\ closed = FALSE /\ inLoop \in BOOLEAN /\ failed = FALSE /\ todo = 0 /\ avail = 0
        /\ used = 2 /\ freed = 0 /\ fills = 0
    BY DEF BipInit
  <2>3. 0 \in 0 .. Payload /\ 0 \in Nat /\ 2 \in Nat
    BY <1>1
  <2>4. step \in [Ends -> {"run", "test", "sleep", "close", "wakeReader", "wakeWriter", "drop",
                          "dropped", "gone"}]
    BY <2>1
  <2>5. seen \in [Ends -> Nat]
    BY <2>1
  <2> QED
    BY <2>2, <2>3, <2>4, <2>5, Zenon DEF StepTypes
<1>4. step["writer"] = "run" /\ step["reader"] = "run"
  BY DEF BipInit, Ends
<1>5. ClosedByEnd /\ WriteSeen
  BY <1>4 DEF BipInit, ClosedByEnd, WriteSeen, PastClose
<1>6. UsedByGone
  BY <1>4 DEF BipInit, UsedByGone, Ends
<1> QED
  BY <1>2, <1>3, <1>5, <1>6 DEF BipInv

LEMMA WriteKeeps ==
  ASSUME BipInv, Write
  PROVE  /\ BipInv'
         /\ \E n \in 1 .. BufferSize - Len(Content) :
              Content' = Content \o Run(sent, n) /\ sent' = sent + n
         /\ UNCHANGED got
<1>1. PICK len \in 1 .. MaxLen : Fill(len)
  BY DEF Write
<1>2. /\ UNCHANGED <<closed, used, seen, freed, step, inLoop, avail, got, failed>>
      /\ step["writer"] = "run" /\ can_write
  BY DEF Write, closeVars, readerVars, At
<1>3. len \in Nat \ {0}
  BY <1>1
<1>4. /\ BufferInv' /\ todo' \in Nat /\ can_read' /\ fills' = fills + 1
      /\ \E n \in 1 .. BufferSize - Len(Content) :
           Content' = Content \o Run(sent, n) /\ sent' = sent + n
  BY <1>1, <1>2, <1>3, FillWrites DEF BipInv
<1>5. fills \in Nat
  BY DEF BipInv, StepTypes
<1>6. StepTypes' /\ ClosedByEnd' /\ UsedByGone'
  BY <1>2, <1>4 DEF BipInv, StepTypes, ClosedByEnd, PastClose, UsedByGone
<1>7. WriteSeen'
  <2>1. inLoop /\ (step["reader"] \in {"test", "sleep"} \/ failed) => ~ closed /\ ~ failed
    BY <1>2 DEF BipInv, ClosedByEnd, PastClose
  <2>2. inLoop /\ (step["reader"] \in {"test", "sleep"} \/ failed) => fills >= 1
    BY <2>1 DEF BipInv, WriteSeen
  <2>3. fills + 1 >= 1 /\ (fills >= 1 => ~ (fills + 1 <= 1))
    BY <1>5
  <2> QED
    BY <1>2, <1>4, <2>2, <2>3 DEF WriteSeen
<1> QED
  BY <1>2, <1>4, <1>6, <1>7 DEF BipInv

LEMMA ReadKeeps ==
  ASSUME BipInv, Read
  PROVE  /\ BipInv'
         /\ \E n \in 1 .. Len(Content) :
              /\ got' = got \o SubSeq(Content, 1, n)
              /\ Content' = SubSeq(Content, n + 1, Len(Content))
         /\ UNCHANGED sent
<1> DEFINE len == IF inLoop THEN avail ELSE Payload
<1>1. /\ Drain(len) /\ avail' = IF inLoop THEN avail - Len(Taken(len)) ELSE avail
      /\ UNCHANGED <<closed, used, seen, freed, step, todo, inLoop, sent, fills, failed>>
      /\ step["reader"] = "run" /\ can_read /\ (inLoop => avail > 0)
  BY DEF Read, closeVars, At
<1>2. len \in Nat \ {0} /\ avail \in 0 .. Payload /\ Payload \in Nat /\ (inLoop => len = avail)
  BY <1>1, BipAssumption DEF BipInv, StepTypes
<1> HIDE DEF len
<1>3. /\ BufferInv' /\ Len(Taken(len)) \in 1 .. len
      /\ \E n \in 1 .. Len(Content) :
           /\ got' = got \o SubSeq(Content, 1, n)
           /\ Content' = SubSeq(Content, n + 1, Len(Content))
  BY <1>1, <1>2, DrainReads DEF BipInv
<1>4. avail' \in 0 .. Payload
  BY <1>1, <1>2, <1>3
<1>5. StepTypes' /\ ClosedByEnd' /\ UsedByGone'
  BY <1>1, <1>4 DEF BipInv, StepTypes, ClosedByEnd, PastClose, UsedByGone
<1>6. fills >= 1 \/ closed
  BY <1>1 DEF BipInv, WriteSeen
<1>7. ~ failed
  BY <1>1 DEF BipInv, ClosedByEnd
<1>8. WriteSeen'
  BY <1>1, <1>6, <1>7 DEF WriteSeen
<1> QED
  BY <1>1, <1>3, <1>5, <1>8 DEF BipInv

LEMMA BufferStays ==
  ASSUME BufferInv, UNCHANGED <<indexVars, sent, got>>,
         evt_write' \in BOOLEAN, evt_read' \in BOOLEAN
  PROVE  BufferInv'
  BY DEF BufferInv, BufferTypes, Regions, FlagsRight, indexVars

\* An end goes from one step to another, neither of which counts for pair->used.
LEMMA UsedStays ==
  ASSUME BipInv, NEW e \in Ends, NEW x, Goes(e, x), x \notin {"dropped", "gone"},
         step[e] # "gone", UNCHANGED <<used, seen, freed>>
  PROVE  UsedByGone'
<1>1. step' = [step EXCEPT ![e] = x]
  BY DEF Goes
<1>2. \A f \in Ends : step'[f] = IF f = e THEN x ELSE step[f]
  BY <1>1 DEF BipInv, StepTypes
<1>3. /\ \A f \in Ends : step'[f] = "gone" <=> step[f] = "gone"
      /\ \A f \in Ends : step'[f] = "dropped" => step[f] = "dropped"
  BY <1>2
<1>4. "writer" \in Ends /\ "reader" \in Ends
  BY DEF Ends
<1> QED
  BY <1>3, <1>4 DEF BipInv, UsedByGone

LEMMA WaitsKeep ==
  ASSUME BipInv, WriteWaits \/ WriteTests \/ WriteWakes
  PROVE  BipInv' /\ UNCHANGED <<indexVars, sent, got>>
<1>1. PICK x \in {"test", "sleep", "close", "run"} : Goes("writer", x)
  BY DEF WriteWaits, WriteTests, WriteWakes
<1>2. /\ UNCHANGED <<indexVars, evt_write, evt_read, closed, used, seen, freed, todo, inLoop, sent,
                     fills, avail, got, failed>>
      /\ step["writer"] \in {"run", "test", "sleep"}
  BY DEF WriteWaits, WriteTests, WriteWakes, closeVars, readerVars, At
<1>3. step' = [step EXCEPT !["writer"] = x] /\ "writer" \in Ends /\ "reader" \in Ends
  BY <1>1 DEF Goes, Ends
<1>4. step'["writer"] = x /\ step'["reader"] = step["reader"]
  BY <1>3 DEF BipInv, StepTypes
<1>5. BufferInv'
  BY <1>2, BufferStays DEF BipInv, BufferInv, BufferTypes
<1>6. StepTypes'
  BY <1>2, <1>3 DEF BipInv, StepTypes
<1>7. ClosedByEnd' /\ WriteSeen'
  BY <1>2, <1>4 DEF BipInv, ClosedByEnd, WriteSeen, PastClose, indexVars
<1>8. UsedByGone'
  BY <1>1, <1>2, <1>3, UsedStays
<1> QED
  BY <1>2, <1>5, <1>6, <1>7, <1>8 DEF BipInv

LEMMA ReaderWaitsKeep ==
  ASSUME BipInv, ReadWaits \/ ReadTests \/ ReadWakes \/ LoopSignals
  PROVE  BipInv' /\ UNCHANGED <<indexVars, sent, got>>
<1>1. /\ UNCHANGED <<indexVars, evt_write, evt_read, closed, used, seen, freed, todo, inLoop, sent,
                     fills, got>>
  BY DEF ReadWaits, ReadTests, ReadWakes, LoopSignals, closeVars, readerVars
<1>2. BufferInv'
  BY <1>1, BufferStays DEF BipInv, BufferInv, BufferTypes
<1>3. "writer" \in Ends /\ "reader" \in Ends
  BY DEF Ends
<1>4. CASE ReadWaits
  <2>1. /\ step' = [step EXCEPT !["reader"] = "test"] /\ step["reader"] = "run" /\ ~ can_read
        /\ (inLoop => avail > 0) /\ UNCHANGED <<avail, failed>>
    BY <1>4 DEF ReadWaits, Goes, At, readerVars
  <2>2. step'["reader"] = "test" /\ step'["writer"] = step["writer"]
    BY <1>3, <2>1 DEF BipInv, StepTypes
  <2>3. StepTypes'
    BY <1>1, <1>3, <2>1 DEF BipInv, StepTypes
  <2>4. ClosedByEnd'
    BY <1>1, <2>1, <2>2 DEF BipInv, ClosedByEnd, PastClose
  <2>5. WriteSeen'
    BY <1>1, <2>1, <2>2 DEF BipInv, WriteSeen, indexVars
  <2>6. UsedByGone'
    <3>1. Goes("reader", "test") /\ step["reader"] # "gone" /\ "test" \notin {"dropped", "gone"}
      BY <2>1 DEF Goes
    <3>2. UNCHANGED <<used, seen, freed>>
      BY <1>1
    <3> QED
      BY <1>3, <3>1, <3>2, UsedStays, Zenon
  <2> QED
    BY <1>1, <1>2, <2>3, <2>4, <2>5, <2>6 DEF BipInv
<1>5. CASE (ReadTests \/ ReadWakes) /\ closed
  <2>1. /\ step' = [step EXCEPT !["reader"] = "close"] /\ step["reader"] \in {"test", "sleep"}
        /\ failed' = TRUE /\ UNCHANGED avail
    BY <1>5 DEF ReadTests, ReadWakes, ReadFails, Goes, At
  <2>2. step'["reader"] = "close" /\ step'["writer"] = step["writer"]
    BY <1>3, <2>1 DEF BipInv, StepTypes
  <2>3. StepTypes'
    BY <1>1, <1>3, <2>1 DEF BipInv, StepTypes
  <2>4. ClosedByEnd'
    BY <1>1, <1>5, <2>1, <2>2 DEF BipInv, ClosedByEnd, PastClose
  <2>5. WriteSeen'
    BY <1>1, <2>1, <2>2 DEF BipInv, WriteSeen, indexVars
  <2>6. UsedByGone'
    <3>1. Goes("reader", "close") /\ step["reader"] # "gone" /\ "close" \notin {"dropped", "gone"}
      BY <2>1 DEF Goes
    <3>2. UNCHANGED <<used, seen, freed>>
      BY <1>1
    <3> QED
      BY <1>3, <3>1, <3>2, UsedStays, Zenon
  <2> QED
    BY <1>1, <1>2, <2>3, <2>4, <2>5, <2>6 DEF BipInv
<1>6. CASE (ReadTests \/ ReadWakes) /\ ~ closed
  <2>1. PICK x \in {"run", "sleep"} : step' = [step EXCEPT !["reader"] = x]
    BY <1>6 DEF ReadTests, ReadWakes, Goes
  <2>2. step["reader"] \in {"test", "sleep"} /\ UNCHANGED <<avail, failed>>
    BY <1>6 DEF ReadTests, ReadWakes, At
  <2>3. step'["reader"] = x /\ step'["writer"] = step["writer"]
    BY <1>3, <2>1 DEF BipInv, StepTypes
  <2>4. StepTypes'
    BY <1>1, <1>3, <2>1, <2>2 DEF BipInv, StepTypes
  <2>5. ClosedByEnd'
    BY <1>1, <2>1, <2>2, <2>3 DEF BipInv, ClosedByEnd, PastClose
  <2>6. WriteSeen'
    BY <1>1, <2>1, <2>2, <2>3 DEF BipInv, WriteSeen, indexVars
  <2>7. UsedByGone'
    BY <1>1, <1>3, <2>1, <2>2, UsedStays DEF Goes
  <2> QED
    BY <1>1, <1>2, <2>4, <2>5, <2>6, <2>7 DEF BipInv
<1>7. CASE LoopSignals
  <2>1. /\ avail' = Payload /\ UNCHANGED <<step, failed>> /\ (can_read \/ evt_read)
    BY <1>7 DEF LoopSignals
  <2>2. StepTypes'
    BY <1>1, <2>1, BipAssumption DEF BipInv, StepTypes
  <2>3. ClosedByEnd' /\ WriteSeen' /\ UsedByGone'
    BY <1>1, <2>1 DEF BipInv, ClosedByEnd, PastClose, WriteSeen, UsedByGone, indexVars
  <2> QED
    BY <1>1, <1>2, <2>2, <2>3 DEF BipInv
<1> QED
  BY <1>4, <1>5, <1>6, <1>7

LEMMA CloseKeeps ==
  ASSUME BipInv, NEW e \in Ends, Close(e) \/ CloseStep(e)
  PROVE  BipInv' /\ UNCHANGED <<indexVars, sent, got>>
<1>1. Ends = {"writer", "reader"} /\ "writer" \in Ends /\ "reader" \in Ends
  BY DEF Ends
<1>2. UNCHANGED <<indexVars, todo, inLoop, sent, fills, avail, got, failed>>
  BY DEF Close, CloseStep, CloseWakesReader, CloseWakesWriter, DropLoads, DropStores, readerVars
<1>3. evt_write' \in BOOLEAN /\ evt_read' \in BOOLEAN
  BY DEF Close, CloseStep, CloseWakesReader, CloseWakesWriter, DropLoads, DropStores, BipInv,
         BufferInv, BufferTypes
<1>4. BufferInv'
  BY <1>2, <1>3, BufferStays DEF BipInv
<1>5. CASE Close(e)
  <2>1. /\ closed' = TRUE /\ step' = [step EXCEPT ![e] = "wakeReader"]
        /\ UNCHANGED <<evt_write, evt_read, used, seen, freed>>
        /\ step[e] \in {"close", "run"}
    BY <1>5 DEF Close, Goes, At
  <2>2. \A f \in Ends : step'[f] = IF f = e THEN "wakeReader" ELSE step[f]
    BY <2>1 DEF BipInv, StepTypes
  <2>3. StepTypes'
    BY <1>2, <2>1 DEF BipInv, StepTypes
  <2>4. ClosedByEnd'
    BY <1>1, <1>2, <2>1, <2>2 DEF BipInv, ClosedByEnd, PastClose
  <2>5. WriteSeen'
    BY <1>1, <1>2, <2>1, <2>2 DEF BipInv, WriteSeen, indexVars
  <2>6. UsedByGone'
    <3>1. Goes(e, "wakeReader") /\ step[e] # "gone" /\ "wakeReader" \notin {"dropped", "gone"}
      BY <2>1 DEF Goes
    <3>2. UNCHANGED <<used, seen, freed>>
      BY <2>1
    <3> QED
      BY <3>1, <3>2, UsedStays, Zenon
  <2> QED
    BY <1>2, <1>4, <2>3, <2>4, <2>5, <2>6 DEF BipInv
<1>6. CASE CloseWakesReader(e) \/ CloseWakesWriter(e) \/ DropLoads(e)
  <2>1. PICK x \in {"wakeWriter", "drop", "dropped"} : step' = [step EXCEPT ![e] = x]
    BY <1>6 DEF CloseWakesReader, CloseWakesWriter, DropLoads, Goes
  <2>2. /\ step[e] \in {"wakeReader", "wakeWriter", "drop"} /\ UNCHANGED <<closed, used, freed>>
    BY <1>6 DEF CloseWakesReader, CloseWakesWriter, DropLoads, At, closeVars
  <2>3. \A f \in Ends : step'[f] = IF f = e THEN x ELSE step[f]
    BY <2>1 DEF BipInv, StepTypes
  <2>4. closed
    BY <1>1, <2>2 DEF BipInv, ClosedByEnd, PastClose
  <2>5. seen' = seen \/ seen' = [seen EXCEPT ![e] = used]
    BY <1>6 DEF CloseWakesReader, CloseWakesWriter, DropLoads, closeVars
  <2>6. StepTypes'
    <3>1. seen' \in [Ends -> Nat]
      BY <2>5 DEF BipInv, StepTypes
    <3> QED
      BY <1>2, <2>1, <2>2, <3>1 DEF BipInv, StepTypes
  <2>7. ClosedByEnd'
    BY <1>1, <1>2, <2>1, <2>2, <2>3, <2>4 DEF BipInv, ClosedByEnd, PastClose
  <2>8. WriteSeen'
    BY <1>1, <1>2, <2>1, <2>2, <2>3, <2>4 DEF BipInv, WriteSeen, indexVars
  <2>9. UsedByGone'
    <3>1. CASE ~ DropLoads(e)
      <4>1. x \in {"wakeWriter", "drop"} /\ UNCHANGED seen
        <5>1. step'[e] \in {"wakeWriter", "drop"} /\ UNCHANGED seen
          BY <1>6, <3>1, <2>1, <1>1 DEF CloseWakesReader, CloseWakesWriter, Goes, closeVars,
             BipInv, StepTypes
        <5> QED
          BY <2>3, <5>1
      <4> QED
        BY <2>1, <2>2, <4>1, UsedStays DEF Goes
    <3>2. CASE DropLoads(e)
      <4>1. seen' = [seen EXCEPT ![e] = used] /\ step' = [step EXCEPT ![e] = "dropped"]
        BY <3>2 DEF DropLoads, Goes
      <4>2. \A f \in Ends : /\ seen'[f] = IF f = e THEN used ELSE seen[f]
                            /\ step'[f] = IF f = e THEN "dropped" ELSE step[f]
        BY <4>1 DEF BipInv, StepTypes
      <4>3. used \in used .. 2
        BY <1>1, <2>2 DEF BipInv, StepTypes, UsedByGone
      <4> QED
        BY <1>1, <2>2, <4>2, <4>3 DEF BipInv, UsedByGone
    <3> QED
      BY <3>1, <3>2
  <2> QED
    BY <1>2, <1>4, <2>6, <2>7, <2>8, <2>9 DEF BipInv
<1>7. CASE DropStores(e)
  <2>1. /\ step[e] = "dropped" /\ step' = [step EXCEPT ![e] = "gone"]
        /\ used' = seen[e] - 1 /\ freed' = IF used' = 0 THEN freed + 1 ELSE freed
        /\ UNCHANGED <<evt_write, evt_read, closed, seen>>
    BY <1>7 DEF DropStores, Goes, At
  <2>2. \A f \in Ends : step'[f] = IF f = e THEN "gone" ELSE step[f]
    BY <2>1 DEF BipInv, StepTypes
  <2>3. /\ seen[e] \in used .. 2 /\ freed = 0
        /\ IF \E f \in Ends : step[f] = "gone" THEN used = 1 ELSE used = 2
    BY <1>1, <2>1 DEF BipInv, UsedByGone
  <2>4. used' \in 0 .. 1 /\ freed' = 1 - used'
    BY <2>1, <2>3
  <2>5. StepTypes'
    <3>1. used' \in Nat /\ freed' \in Nat
      <4>1. \A u \in 0 .. 1 : u \in Nat /\ 1 - u \in Nat
        OBVIOUS
      <4> QED
        BY <2>4, <4>1, Zenon
    <3>2. step' \in [Ends -> {"run", "test", "sleep", "close", "wakeReader", "wakeWriter", "drop",
                              "dropped", "gone"}]
      BY <2>1 DEF BipInv, StepTypes
    <3> QED
      BY <1>2, <2>1, <3>1, <3>2 DEF BipInv, StepTypes
  <2>6. ClosedByEnd'
    BY <1>1, <1>2, <2>1, <2>2 DEF BipInv, ClosedByEnd, PastClose
  <2>7. WriteSeen'
    BY <1>1, <1>2, <2>1, <2>2 DEF BipInv, WriteSeen, indexVars
  <2>8. UsedByGone'
    <3>1. CASE \E f \in Ends : step[f] = "gone"
      <4>1. \A f \in Ends : step'[f] = "gone"
        BY <1>1, <2>1, <2>2, <3>1
      <4> QED
        BY <1>1, <2>4, <4>1 DEF UsedByGone
    <3>2. CASE ~ \E f \in Ends : step[f] = "gone"
      <4>1. used' = 1 /\ freed' = 0
        BY <2>1, <2>3, <3>2
      <4>2. \A f \in Ends :
              f # e => step'[f] # "gone" /\ (step'[f] = "dropped" => seen[f] \in 1 .. 2)
        BY <2>2, <2>3, <3>2 DEF BipInv, UsedByGone
      <4>3. step'[e] = "gone"
        BY <2>2
      <4> QED
        BY <1>1, <2>1, <4>1, <4>2, <4>3 DEF UsedByGone
    <3> QED
      BY <3>1, <3>2
  <2> QED
    BY <1>2, <1>4, <2>5, <2>6, <2>7, <2>8 DEF BipInv
<1> QED
  BY <1>5, <1>6, <1>7 DEF CloseStep

LEMMA BipSteps ==
  ASSUME BipInv, [BipNext]_bipVars
  PROVE  /\ BipInv'
         /\ Write \/ Read \/ UNCHANGED <<indexVars, sent, got>>
<1>1. CASE UNCHANGED bipVars
  BY <1>1 DEF bipVars, indexVars, closeVars, readerVars, BipInv, BufferInv, BufferTypes, Regions,
     FlagsRight, StepTypes, ClosedByEnd, PastClose, WriteSeen, UsedByGone
<1>2. CASE BipNext
  <2>1. "writer" \in Ends /\ "reader" \in Ends
    BY DEF Ends
  <2> QED
    BY <1>2, <2>1, WriteKeeps, ReadKeeps, WaitsKeep, ReaderWaitsKeep, CloseKeeps
       DEF BipNext, WriterStep, ReaderStep
<1> QED
  BY <1>1, <1>2

LEMMA BipInvAlways == BipSpec => []BipInv
<1>1. BipInv /\ [BipNext]_bipVars => BipInv'
  BY BipSteps
<1> QED
  BY <1>1, BipInitInv, PTL DEF BipSpec

\* Whatever the size of the buffer and the lengths of the writes: the regions and flags agree,
\* main reads a first write whole before it is told of a close, and the pair is freed once at
\* most, by the last to leave it.
THEOREM PairHolds == BipSpec => []PairCorrect
<1>1. BipInv => PairCorrect
  <2> SUFFICES ASSUME BipInv PROVE PairCorrect
    OBVIOUS
  <2>1. BipTypeOK
    BY DEF BipInv, BufferInv, BufferTypes, StepTypes, BipTypeOK
  <2>2. OneWriteWhole
    <3> SUFFICES ASSUME inLoop, failed, fills <= 1 PROVE Len(got) = sent
      BY DEF OneWriteWhole
    <3>1. ~ can_read
      BY DEF BipInv, WriteSeen
    <3>2. a_start = 0 /\ a_end = 0 /\ b_end = 0
      BY <3>1, BufferNumbers DEF BipInv
    <3>3. Len(got) \in Nat /\ Len(got) + (a_end - a_start) + b_end = sent
      BY DEF BipInv, BufferInv, BufferTypes
    <3> QED
      BY <3>2, <3>3
  <2>3. FreedByLast
    BY DEF FreedByLast, BipInv, UsedByGone, StepTypes, Ends
  <2> QED
    BY <2>1, <2>2, <2>3 DEF PairCorrect, BipInv, BufferInv
<1> QED
  BY <1>1, BipInvAlways, PTL

\* A direction of a socket pair is a queue of bytes: every one that is written is read once and
\* in order, with no more than BIP_BUFFER_SIZE of them on the way.
THEOREM PairImplementsQueue == BipSpec => ImplementsQueue
<1>1. BipInit => Bytes!Init
  <2> SUFFICES ASSUME BipInit PROVE Content = <<>>
    BY DEF Bytes!Init, BipInit
  <2>1. IsHeld(Content, 0, 0, 0, buff)
    BY BipInitInv, ContentIsHeld DEF BipInv, BipInit
  <2> QED
    BY <2>1, EmptySeq DEF IsHeld
<1>2. BipInv /\ [BipNext]_bipVars => [Bytes!Next]_(Bytes!vars)
  <2> SUFFICES ASSUME BipInv, [BipNext]_bipVars PROVE [Bytes!Next]_(Bytes!vars)
    OBVIOUS
  <2>1. CASE Write
    BY <2>1, WriteKeeps DEF Bytes!Next, Bytes!Write, Bytes!Written, Run
  <2>2. CASE Read
    BY <2>2, ReadKeeps DEF Bytes!Next, Bytes!Read
  <2>3. CASE UNCHANGED <<indexVars, sent, got>>
    BY <2>3, ContentHeld DEF Bytes!vars, indexVars
  <2> QED
    BY <2>1, <2>2, <2>3, BipSteps
<1> QED
  BY <1>1, <1>2, BipInvAlways, PTL DEF BipSpec, ImplementsQueue, Bytes!Spec

-----------------------------------------------------------------------------
(* WinEvents: the loop over sockets.                                       *)

WinEventSpec == WinEventInit /\ [][WinEventNext]_winEventVars

WinEventTypes ==
  /\ data \in [Sockets -> Nat]
  /\ full \in [Sockets -> BOOLEAN] /\ event \in [Sockets -> BOOLEAN]
  /\ enabled \in [Sockets -> BOOLEAN] /\ hasHandle \in [Sockets -> BOOLEAN]
  /\ mask \in [Sockets -> SUBSET Flags] /\ record \in [Sockets -> SUBSET Flags]
  /\ wanted \in [Sockets -> SUBSET Flags] /\ ready \in [Sockets -> SUBSET Flags]
  /\ events \in [Sockets -> SUBSET Flags] /\ pending \in Seq(Sockets)
  /\ stage \in {"prepare", "start", "wait", "reset", "peek", "peekReset", "call"}
  /\ visits \subseteq Sockets /\ gotone \in BOOLEAN /\ cur \in Sockets /\ acts \in Nat
  /\ written \in BOOLEAN

\* What is pending is there once, and is told of all that is wanted.
PendingOK ==
  /\ \A i, j \in 1 .. Len(pending) : i # j => pending[i] # pending[j]
  /\ \A s \in Sockets : IsPending(s) => wanted[s] # {} /\ wanted[s] \subseteq events[s]

\* Data that Windows does not tell of was told.
ToldOnce == \A s \in Sockets : enabled[s] \/ data[s] > 0

\* A callback runs, or ran last, and may set events.
Called == stage = "call" /\ (acts > 0 \/ written)
StagesOK ==
  /\ stage # "call" => visits \subseteq Hooked /\ acts = 0 /\ ~ written
  /\ stage \in {"reset", "peekReset"} => cur \in Hooked
  /\ (stage = "prepare" /\ ~ gotone) \/ stage \in {"start", "wait", "reset"} => pending = <<>>
  /\ stage = "start" => \A s \in Hooked : s \in visits \/ mask[s] = wanted[s]
  /\ stage = "wait" => \A s \in Hooked : mask[s] = wanted[s]
  /\ Called => ~ IsPending(cur)

\* What is the case of a socket is recorded and its event set.
Fine(s, e) ==
  (e = "FDE_READ" /\ data[s] > 0) \/ (e = "FDE_WRITE" /\ ~ full[s]) => event[s] /\ e \in record[s]

\* No wake-up is lost: it will be told, or asked again, or what it wants is recorded.
Noticed(s) ==
  \/ IsPending(s) \/ (stage \in {"reset", "peekReset"} /\ cur = s)
  \/ mask[s] # wanted[s] \/ \A e \in wanted[s] : Fine(s, e)
NoticedBack(s) ==
  \A e \in mask[s] \cap wanted[s] : Fine(s, e) \/ (e = "FDE_WRITE" /\ written)
NoneLost == \A s \in Sockets : IF Called /\ s = cur THEN NoticedBack(s) ELSE Noticed(s)

WinEventInv == WinEventTypes /\ PendingOK /\ ToldOnce /\ StagesOK /\ NoneLost

\* A list gets one more, or loses one.
Distinct(q) == \A i, j \in 1 .. Len(q) : i # j => q[i] # q[j]
InList(q, s) == \E i \in 1 .. Len(q) : q[i] = s

LEMMA ListGrows ==
  ASSUME NEW S, NEW q \in Seq(S), NEW s \in S, Distinct(q), ~ InList(q, s)
  PROVE  /\ Append(q, s) \in Seq(S) /\ Distinct(Append(q, s))
         /\ \A t : InList(Append(q, s), t) <=> InList(q, t) \/ t = s
<1> DEFINE p == Append(q, s)
           n == Len(q)
<1>1. n \in Nat /\ p \in Seq(S) /\ Len(p) = n + 1 /\ p[n + 1] = s /\ \A i \in 1 .. n : p[i] = q[i]
  OBVIOUS
<1> HIDE DEF p, n
<1>2. \A i \in 1 .. n + 1 : i \in 1 .. n \/ i = n + 1
  BY <1>1
<1>3. \A i \in 1 .. n : i \in 1 .. n + 1
  BY <1>1
<1>4. n + 1 \in 1 .. n + 1
  BY <1>1
<1>5. (\A i, j \in 1 .. n : i # j => q[i] # q[j]) /\ (\A i \in 1 .. n : q[i] # s)
  BY DEF Distinct, InList, n
<1>6. \A i, j \in 1 .. n + 1 : i # j => p[i] # p[j]
  BY <1>1, <1>2, <1>5
<1>7. ASSUME NEW t PROVE (\E i \in 1 .. n + 1 : p[i] = t) <=> (\E i \in 1 .. n : q[i] = t) \/ t = s
  BY <1>1, <1>2, <1>3, <1>4
<1>8. Distinct(p) /\ \A t : InList(p, t) <=> InList(q, t) \/ t = s
  BY <1>1, <1>6, <1>7 DEF Distinct, InList, n
<1> QED
  BY <1>1, <1>8 DEF p

LEMMA ListShrinks ==
  ASSUME NEW S, NEW q \in Seq(S), Distinct(q), NEW i \in 1 .. Len(q)
  PROVE  /\ RemoveAt(q, i) \in Seq(S) /\ Distinct(RemoveAt(q, i))
         /\ \A t : InList(RemoveAt(q, i), t) <=> InList(q, t) /\ t # q[i]
<1> DEFINE n == Len(q)
           a == SubSeq(q, 1, i - 1)
           b == SubSeq(q, i + 1, n)
           p == a \o b
<1>1. n \in Nat /\ i \in 1 .. n /\ i \in Nat
  OBVIOUS
<1>2. /\ a \in Seq(S) /\ Len(a) = i - 1
      /\ \A k \in 1 .. i - 1 : a[k] = q[k]
  BY <1>1
<1>3. /\ b \in Seq(S) /\ Len(b) = n - i
      /\ \A k \in 1 .. n - i : b[k] = q[k + i]
  <2>1. \A k \in 1 .. n - i : b[k] = q[(i + 1) + k - 1] /\ (i + 1) + k - 1 = k + i
    BY <1>1
  <2>2. b \in Seq(S) /\ Len(b) = n - i
    BY <1>1
  <2> QED
    BY <2>1, <2>2
<1> HIDE DEF a, b
<1>4. /\ p \in Seq(S) /\ Len(p) = Len(a) + Len(b)
      /\ \A k \in 1 .. Len(a) + Len(b) : p[k] = IF k <= Len(a) THEN a[k] ELSE b[k - Len(a)]
  BY <1>2, <1>3, ConcatProperties
<1> HIDE DEF n, p
<1>5. Len(p) = n - 1
  BY <1>1, <1>2, <1>3, <1>4
<1>6. \A k \in 1 .. n - 1 : p[k] = q[IF k < i THEN k ELSE k + 1]
  <2> SUFFICES ASSUME NEW k \in 1 .. n - 1 PROVE p[k] = q[IF k < i THEN k ELSE k + 1]
    OBVIOUS
  <2>1. CASE k < i
    <3>1. k \in 1 .. (i - 1) + (n - i) /\ k <= i - 1 /\ k \in 1 .. i - 1
      BY <1>1, <2>1
    <3> QED
      BY <1>2, <1>3, <1>4, <2>1, <3>1
  <2>2. CASE ~ (k < i)
    <3>1. k \in 1 .. (i - 1) + (n - i) /\ ~ (k <= i - 1) /\ k - (i - 1) \in 1 .. n - i
          /\ (k - (i - 1)) + i = k + 1
      BY <1>1, <2>2
    <3> QED
      BY <1>2, <1>3, <1>4, <2>2, <3>1
  <2> QED
    BY <2>1, <2>2
<1> DEFINE from(k) == IF k < i THEN k ELSE k + 1
<1>7. \A k \in 1 .. n - 1 : from(k) \in 1 .. n /\ from(k) # i
  BY <1>1
<1>8. \A k, m \in 1 .. n - 1 : k # m => from(k) # from(m)
  BY <1>1
<1>9. \A m \in 1 .. n : m # i => \E k \in 1 .. n - 1 : from(k) = m
  <2> SUFFICES ASSUME NEW m \in 1 .. n, m # i PROVE \E k \in 1 .. n - 1 : from(k) = m
    OBVIOUS
  <2>1. CASE m < i
    <3>1. m \in 1 .. n - 1 /\ from(m) = m
      BY <1>1, <2>1
    <3> QED
      BY <3>1
  <2>2. CASE ~ (m < i)
    <3>1. m - 1 \in 1 .. n - 1 /\ from(m - 1) = m
      BY <1>1, <2>2
    <3> QED
      BY <3>1
  <2> QED
    BY <2>1, <2>2
<1>10. \A k \in 1 .. n - 1 : p[k] = q[from(k)]
  BY <1>6
<1> HIDE DEF from
<1>11. \A j, k \in 1 .. n : j # k => q[j] # q[k]
  BY DEF Distinct, n
<1>12. \A k, m \in 1 .. n - 1 : k # m => p[k] # p[m]
  BY <1>7, <1>8, <1>10, <1>11
<1>13. ASSUME NEW t
       PROVE  (\E k \in 1 .. n - 1 : p[k] = t) <=> (\E k \in 1 .. n : q[k] = t) /\ t # q[i]
  BY <1>1, <1>7, <1>9, <1>10, <1>11
<1>14. Distinct(p) /\ \A t : InList(p, t) <=> InList(q, t) /\ t # q[i]
  BY <1>5, <1>12, <1>13 DEF Distinct, InList, n
<1>15. RemoveAt(q, i) = p
  BY DEF RemoveAt, p, a, b, n
<1> QED
  BY <1>4, <1>14, <1>15

LEMMA ListHead ==
  ASSUME NEW S, NEW q \in Seq(S), Distinct(q), q # <<>>
  PROVE  /\ Tail(q) \in Seq(S) /\ Distinct(Tail(q)) /\ Head(q) \in S /\ InList(q, Head(q))
         /\ \A t : InList(Tail(q), t) <=> InList(q, t) /\ t # Head(q)
<1> DEFINE n == Len(q)
           p == Tail(q)
<1>1. n \in Nat /\ n > 0 /\ p \in Seq(S) /\ Len(p) = n - 1 /\ Head(q) = q[1] /\ q[1] \in S
      /\ \A k \in 1 .. n - 1 : p[k] = q[k + 1]
  OBVIOUS
<1> HIDE DEF n, p
<1>2. \A k \in 1 .. n - 1 : k + 1 \in 1 .. n /\ k + 1 # 1
  BY <1>1
<1>3. \A k, m \in 1 .. n - 1 : k # m => k + 1 # m + 1
  BY <1>1
<1>4. \A m \in 1 .. n : m # 1 => m - 1 \in 1 .. n - 1 /\ (m - 1) + 1 = m
  BY <1>1
<1>5. 1 \in 1 .. n /\ \A j, k \in 1 .. n : j # k => q[j] # q[k]
  BY <1>1 DEF Distinct, n
<1>6. \A k, m \in 1 .. n - 1 : k # m => p[k] # p[m]
  BY <1>1, <1>2, <1>3, <1>5
<1>7. ASSUME NEW t
      PROVE  (\E k \in 1 .. n - 1 : p[k] = t) <=> (\E k \in 1 .. n : q[k] = t) /\ t # q[1]
  <2>1. ASSUME NEW m \in 1 .. n, q[m] = t, t # q[1] PROVE \E k \in 1 .. n - 1 : p[k] = t
    <3>1. m # 1
      BY <2>1
    <3>2. p[m - 1] = t
      BY <1>1, <1>4, <2>1, <3>1
    <3> QED
      BY <1>4, <3>1, <3>2
  <2>2. ASSUME NEW k \in 1 .. n - 1, p[k] = t PROVE (\E m \in 1 .. n : q[m] = t) /\ t # q[1]
    BY <1>1, <1>2, <1>5, <2>2
  <2> QED
    BY <2>1, <2>2
<1>8. Distinct(p) /\ (\A t : InList(p, t) <=> InList(q, t) /\ t # Head(q)) /\ InList(q, q[1])
  BY <1>1, <1>5, <1>6, <1>7 DEF Distinct, InList, n
<1> QED
  BY <1>1, <1>8 DEF p

LEMMA IsPendingIs == \A s : IsPending(s) <=> InList(pending, s)
  BY DEF IsPending, InList

LEMMA WinEventStarts ==
  ASSUME WinEventInit
  PROVE  WinEventInv
<1>1. cur \in Sockets
  BY ArrivalAssumption DEF WinEventInit, ArrivalAssumption
<1>2. /\ wanted = [s \in Sockets |-> {"FDE_READ"}] /\ pending = <<>> /\ Len(pending) = 0
      /\ mask = [s \in Sockets |-> {}] /\ enabled = [s \in Sockets |-> TRUE]
      /\ stage = "prepare" /\ visits = Sockets /\ gotone = FALSE /\ acts = 0 /\ written = FALSE
  BY DEF WinEventInit
<1>3. Hooked = Sockets
  BY <1>2 DEF Hooked
<1>4. WinEventTypes
  BY <1>1, EmptySeq DEF WinEventInit, WinEventTypes, Flags
<1>5. \A s \in Sockets : ~ IsPending(s)
  BY <1>2 DEF IsPending
<1>6. PendingOK /\ ToldOnce
  BY <1>2, <1>5 DEF PendingOK, ToldOnce
<1>7. StagesOK
  BY <1>2, <1>3 DEF StagesOK, Called
<1>8. NoneLost
  BY <1>2 DEF NoneLost, Called, Noticed
<1> QED
  BY <1>4, <1>6, <1>7, <1>8 DEF WinEventInv

\* What WSAEventSelect does to a socket.
LEMMA SelectsDoes ==
  ASSUME WinEventTypes, ToldOnce, NEW s \in Sockets, NEW flags \in SUBSET Flags,
         Selects(s, flags, data[s], full[s]), UNCHANGED <<data, full>>
  PROVE  /\ mask' \in [Sockets -> SUBSET Flags] /\ record' \in [Sockets -> SUBSET Flags]
         /\ event' \in [Sockets -> BOOLEAN] /\ enabled' \in [Sockets -> BOOLEAN]
         /\ ToldOnce' /\ mask'[s] = flags
         /\ \A t \in Sockets : t # s => /\ mask'[t] = mask[t]
                                        /\ \A e : Fine(t, e) => Fine(t, e)'
         /\ mask[s] # flags => \A e \in flags : Fine(s, e)'
         /\ mask[s] = flags => \A e : Fine(s, e) => Fine(s, e)'
<1>1. /\ mask \in [Sockets -> SUBSET Flags] /\ record \in [Sockets -> SUBSET Flags]
      /\ event \in [Sockets -> BOOLEAN] /\ enabled \in [Sockets -> BOOLEAN]
      /\ data \in [Sockets -> Nat]
  BY DEF WinEventTypes
<1>2. CASE mask[s] = flags
  <2>1. UNCHANGED <<mask, record, event, enabled>>
    BY <1>2 DEF Selects
  <2> QED
    BY <1>1, <1>2, <2>1 DEF ToldOnce, Fine
<1>3. CASE mask[s] # flags
  <2> DEFINE R == Recorded(flags, data[s], full[s])
  <2>1. /\ mask' = [mask EXCEPT ![s] = flags] /\ record' = [record EXCEPT ![s] = R]
        /\ event' = [event EXCEPT ![s] = (event[s] \/ R # {})]
        /\ enabled' = [enabled EXCEPT ![s] = ("FDE_READ" \notin R)]
    BY <1>3 DEF Selects, Put
  <2>2. /\ R \in SUBSET Flags /\ ("FDE_READ" \in R => data[s] > 0)
        /\ \A e \in flags :
             (e = "FDE_READ" /\ data[s] > 0) \/ (e = "FDE_WRITE" /\ ~ full[s]) => e \in R
    BY DEF Recorded
  <2> HIDE DEF R
  <2>3. /\ mask'[s] = flags /\ record'[s] = R /\ (event'[s] <=> event[s] \/ R # {})
        /\ (enabled'[s] <=> "FDE_READ" \notin R)
        /\ \A t \in Sockets : t # s => /\ mask'[t] = mask[t] /\ record'[t] = record[t]
                                       /\ event'[t] = event[t] /\ enabled'[t] = enabled[t]
    BY <1>1, <2>1
  <2>4. /\ mask' \in [Sockets -> SUBSET Flags] /\ record' \in [Sockets -> SUBSET Flags]
        /\ event' \in [Sockets -> BOOLEAN] /\ enabled' \in [Sockets -> BOOLEAN]
    BY <1>1, <2>1, <2>2
  <2>5. ToldOnce'
    BY <2>2, <2>3 DEF ToldOnce
  <2>6. \A e \in flags : Fine(s, e)'
    BY <2>2, <2>3 DEF Fine
  <2>7. \A t \in Sockets : t # s => \A e : Fine(t, e) => Fine(t, e)'
    BY <2>3 DEF Fine
  <2> QED
    BY <1>3, <2>3, <2>4, <2>5, <2>6, <2>7
<1> QED
  BY <1>2, <1>3

\* A hook is told of all it wants.
LEMMA SignalsTells ==
  ASSUME WinEventTypes, PendingOK, NEW s \in Hooked, Signals(s, TRUE), UNCHANGED wanted
  PROVE  /\ pending' \in Seq(Sockets) /\ events' \in [Sockets -> SUBSET Flags]
         /\ PendingOK' /\ IsPending(s)'
         /\ \A t : IsPending(t) => IsPending(t)'
<1>1. /\ pending \in Seq(Sockets) /\ events \in [Sockets -> SUBSET Flags]
      /\ wanted \in [Sockets -> SUBSET Flags] /\ s \in Sockets /\ wanted[s] # {}
      /\ Distinct(pending)
  BY DEF WinEventTypes, Hooked, PendingOK, Distinct
<1>2. /\ pending' = IF IsPending(s) THEN pending ELSE Append(pending, s)
      /\ events' = [events EXCEPT ![s] = events[s] \cup wanted[s]]
  BY DEF Signals, Enqueue, Put
<1>3. /\ pending' \in Seq(Sockets) /\ Distinct(pending')
      /\ \A t : InList(pending', t) <=> InList(pending, t) \/ t = s
  <2>1. CASE IsPending(s)
    BY <1>1, <1>2, <2>1, IsPendingIs
  <2>2. CASE ~ IsPending(s)
    BY <1>1, <1>2, <2>2, IsPendingIs, ListGrows
  <2> QED
    BY <2>1, <2>2
<1>4. \A t : IsPending(t)' <=> IsPending(t) \/ t = s
  BY <1>3 DEF IsPending, InList
<1>5. /\ events' \in [Sockets -> SUBSET Flags] /\ wanted[s] \subseteq events'[s]
      /\ \A t \in Sockets : t # s => events'[t] = events[t]
  BY <1>1, <1>2
<1>6. PendingOK'
  BY <1>1, <1>3, <1>4, <1>5 DEF PendingOK, Distinct
<1> QED
  BY <1>3, <1>4, <1>5, <1>6

LEMMA NextStageDoes ==
  ASSUME NEW s, NEW after, NextStage(s, after)
  PROVE  \/ visits' = visits \ {s} /\ stage' = stage
         \/ visits' = Hooked /\ stage' = after /\ visits \subseteq {s}
  BY DEF NextStage

\* Once a callback has returned the wake-ups of its socket count as those of any other.
LEMMA AllNoticed ==
  ASSUME NoneLost, stage = "call" => Returned
  PROVE  \A t \in Sockets : Noticed(t)
  BY DEF NoneLost, Called, NoticedBack, Noticed, Returned

\* What Windows does: the records of what is asked for grow.
LEMMA ArrivalsKeep ==
  ASSUME WinEventInv, UNCHANGED <<mask, hookVars, pendingVars, loopVars>>,
         data' \in [Sockets -> Nat], full' \in [Sockets -> BOOLEAN],
         record' \in [Sockets -> SUBSET Flags],
         event' \in [Sockets -> BOOLEAN], enabled' \in [Sockets -> BOOLEAN], ToldOnce',
         \A t \in Sockets : \A e \in mask[t] : Fine(t, e) => Fine(t, e)'
  PROVE  WinEventInv'
<1>1. UNCHANGED <<mask, wanted, ready, pending, events, stage, visits, gotone, cur, hasHandle,
                  acts, written>>
  BY DEF hookVars, pendingVars, loopVars
<1>2. WinEventTypes'
  BY <1>1 DEF WinEventInv, WinEventTypes
<1>3. \A t : IsPending(t)' <=> IsPending(t)
  BY <1>1 DEF IsPending
<1>4. PendingOK'
  BY <1>1, <1>3 DEF WinEventInv, PendingOK
<1>5. Hooked' = Hooked /\ (Called' <=> Called)
  BY <1>1 DEF Hooked, Called
<1>6. StagesOK'
  BY <1>1, <1>3, <1>5 DEF WinEventInv, StagesOK
<1>7. ASSUME NEW t \in Sockets, Noticed(t) PROVE Noticed(t)'
  BY <1>1, <1>3, <1>7 DEF Noticed
<1>8. ASSUME NEW t \in Sockets, NoticedBack(t) PROVE NoticedBack(t)'
  BY <1>1, <1>8 DEF NoticedBack
<1>9. NoneLost'
  BY <1>1, <1>5, <1>7, <1>8 DEF WinEventInv, NoneLost
<1> QED
  BY <1>2, <1>4, <1>6, <1>9 DEF WinEventInv

LEMMA ArrivesKeeps ==
  ASSUME WinEventInv, NEW s \in Sockets, Arrives(s)
  PROVE  WinEventInv'
<1>1. /\ data \in [Sockets -> Nat] /\ full \in [Sockets -> BOOLEAN]
      /\ record \in [Sockets -> SUBSET Flags] /\ event \in [Sockets -> BOOLEAN]
      /\ enabled \in [Sockets -> BOOLEAN]
  BY DEF WinEventInv, WinEventTypes
<1>2. /\ data' = [data EXCEPT ![s] = data[s] + 1]
      /\ UNCHANGED <<full, mask, hookVars, pendingVars, loopVars>>
  BY DEF Arrives, Put
<1>3. data' \in [Sockets -> Nat] /\ data'[s] > 0 /\ \A t \in Sockets \ {s} : data'[t] = data[t]
  BY <1>1, <1>2
<1>4. CASE enabled[s] /\ "FDE_READ" \in mask[s]
  <2>1. /\ record' = [record EXCEPT ![s] = record[s] \cup {"FDE_READ"}]
        /\ event' = [event EXCEPT ![s] = TRUE] /\ enabled' = [enabled EXCEPT ![s] = FALSE]
    BY <1>4 DEF Arrives, Put
  <2>2. /\ record' \in [Sockets -> SUBSET Flags] /\ event' \in [Sockets -> BOOLEAN]
        /\ enabled' \in [Sockets -> BOOLEAN] /\ event'[s] /\ "FDE_READ" \in record'[s]
        /\ \A t \in Sockets : record[t] \subseteq record'[t] /\ (event[t] => event'[t])
        /\ \A t \in Sockets \ {s} : enabled'[t] = enabled[t]
    BY <1>1, <2>1 DEF Flags
  <2>3. ToldOnce'
    BY <1>3, <2>2 DEF WinEventInv, ToldOnce
  <2>4. \A t \in Sockets : \A e \in mask[t] : Fine(t, e) => Fine(t, e)'
    BY <1>2, <1>3, <2>2 DEF Fine
  <2> QED
    BY <1>1, <1>2, <1>3, <2>2, <2>3, <2>4, ArrivalsKeep
<1>5. CASE ~ (enabled[s] /\ "FDE_READ" \in mask[s])
  <2>1. UNCHANGED <<record, event, enabled>>
    BY <1>5 DEF Arrives
  <2>2. ToldOnce'
    BY <1>3, <2>1 DEF WinEventInv, ToldOnce
  <2>3. "FDE_READ" \in mask[s] => data[s] > 0
    BY <1>5 DEF WinEventInv, ToldOnce
  <2>4. \A t \in Sockets : \A e \in mask[t] : Fine(t, e) => Fine(t, e)'
    BY <1>2, <1>3, <2>1, <2>3 DEF Fine
  <2> QED
    BY <1>1, <1>2, <1>3, <2>1, <2>2, <2>4, ArrivalsKeep
<1> QED
  BY <1>4, <1>5

LEMMA DrainsKeeps ==
  ASSUME WinEventInv, NEW s \in Sockets, Drains(s)
  PROVE  WinEventInv'
<1>1. /\ data \in [Sockets -> Nat] /\ full \in [Sockets -> BOOLEAN]
      /\ record \in [Sockets -> SUBSET Flags] /\ event \in [Sockets -> BOOLEAN]
      /\ enabled \in [Sockets -> BOOLEAN]
  BY DEF WinEventInv, WinEventTypes
<1>2. /\ full' = [full EXCEPT ![s] = FALSE]
      /\ UNCHANGED <<data, mask, enabled, hookVars, pendingVars, loopVars>>
  BY DEF Drains, Put
<1>3. /\ full' \in [Sockets -> BOOLEAN] /\ \A t \in Sockets \ {s} : full'[t] = full[t]
      /\ data' = data /\ enabled' = enabled /\ ToldOnce'
  BY <1>1, <1>2 DEF WinEventInv, ToldOnce
<1>4. CASE "FDE_WRITE" \in mask[s]
  <2>1. /\ record' = [record EXCEPT ![s] = record[s] \cup {"FDE_WRITE"}]
        /\ event' = [event EXCEPT ![s] = TRUE]
    BY <1>4 DEF Drains, Put
  <2>2. /\ record' \in [Sockets -> SUBSET Flags] /\ event' \in [Sockets -> BOOLEAN]
        /\ event'[s] /\ "FDE_WRITE" \in record'[s]
        /\ \A t \in Sockets : record[t] \subseteq record'[t] /\ (event[t] => event'[t])
    BY <1>1, <2>1 DEF Flags
  <2>3. \A t \in Sockets : \A e \in mask[t] : Fine(t, e) => Fine(t, e)'
    BY <1>3, <2>2 DEF Fine
  <2> QED
    BY <1>1, <1>2, <1>3, <2>2, <2>3, ArrivalsKeep
<1>5. CASE "FDE_WRITE" \notin mask[s]
  <2>1. UNCHANGED <<record, event>>
    BY <1>5 DEF Drains
  <2>2. \A t \in Sockets : \A e \in mask[t] : Fine(t, e) => Fine(t, e)'
    BY <1>3, <1>5, <2>1 DEF Fine
  <2> QED
    BY <1>1, <1>2, <1>3, <2>1, <2>2, ArrivalsKeep
<1> QED
  BY <1>4, <1>5

LEMMA PreparesKeeps ==
  ASSUME WinEventInv, NEW s \in Sockets, Prepares(s)
  PROVE  WinEventInv'
<1> DEFINE now == record[s] \cap wanted[s]
<1>1. WinEventTypes /\ PendingOK /\ ToldOnce /\ StagesOK
  BY DEF WinEventInv
<1>2. /\ stage = "prepare" /\ s \in visits /\ s \in Hooked
      /\ ready' = [ready EXCEPT ![s] = now] /\ record' = [record EXCEPT ![s] = {}]
      /\ Signals(s, now # {}) /\ gotone' = (gotone \/ now # {})
      /\ NextStage(s, IF gotone' THEN "peek" ELSE "start")
      /\ UNCHANGED <<data, full, mask, event, enabled, wanted, cur, hasHandle, acts, written>>
  BY <1>1 DEF Prepares, Put, StagesOK
<1>3. /\ ready' \in [Sockets -> SUBSET Flags] /\ record' \in [Sockets -> SUBSET Flags]
      /\ \A t \in Sockets \ {s} : record'[t] = record[t]
  BY <1>1, <1>2 DEF WinEventTypes
<1>4. Hooked' = Hooked /\ Hooked \subseteq Sockets
  BY <1>2 DEF Hooked
<1>5. /\ pending' \in Seq(Sockets) /\ events' \in [Sockets -> SUBSET Flags] /\ PendingOK'
      /\ \A t : IsPending(t) => IsPending(t)'
      /\ now # {} => IsPending(s)'
      /\ now = {} => pending' = pending
  <2>1. CASE now # {}
    BY <1>1, <1>2, <2>1, SignalsTells
  <2>2. CASE now = {}
    <3>1. UNCHANGED pendingVars
      BY <1>2, <2>2 DEF Signals
    <3> QED
      BY <1>1, <1>2, <2>2, <3>1 DEF pendingVars, WinEventTypes, PendingOK, IsPending
  <2> QED
    BY <2>1, <2>2
<1>6. \/ visits' = visits \ {s} /\ stage' = "prepare"
      \/ visits' = Hooked /\ stage' = IF gotone' THEN "peek" ELSE "start"
  BY <1>2, NextStageDoes
<1>7. WinEventTypes'
  <2>1. visits \subseteq Sockets /\ gotone' \in BOOLEAN
    BY <1>1, <1>2 DEF WinEventTypes
  <2> QED
    BY <1>1, <1>2, <1>3, <1>4, <1>5, <1>6, <2>1 DEF WinEventTypes
<1>8. ToldOnce'
  BY <1>1, <1>2 DEF ToldOnce
<1>9. ~ gotone' => pending' = <<>>
  BY <1>1, <1>2, <1>5 DEF StagesOK
<1>10. visits \subseteq Hooked /\ acts = 0 /\ ~ written
  BY <1>1, <1>2 DEF StagesOK
<1>11. StagesOK'
  BY <1>2, <1>4, <1>6, <1>9, <1>10 DEF StagesOK, Called
<1>12. ASSUME NEW t \in Sockets PROVE Noticed(t)'
  <2>1. Noticed(t)
    BY <1>2, AllNoticed DEF WinEventInv
  <2>2. CASE t = s /\ now # {}
    BY <1>5, <2>2 DEF Noticed
  <2>3. CASE t = s /\ now = {}
    <3>1. ASSUME NEW e \in wanted[t], Fine(t, e) PROVE Fine(t, e)'
      BY <1>2, <2>3, <3>1 DEF Fine
    <3> QED
      BY <1>2, <1>5, <2>1, <3>1 DEF Noticed
  <2>4. CASE t # s
    <3>1. ASSUME NEW e \in wanted[t], Fine(t, e) PROVE Fine(t, e)'
      BY <1>2, <1>3, <2>4, <3>1 DEF Fine
    <3> QED
      BY <1>2, <1>5, <2>1, <3>1 DEF Noticed
  <2> QED
    BY <2>2, <2>3, <2>4
<1>13. NoneLost'
  BY <1>6, <1>12 DEF NoneLost, Called
<1> QED
  BY <1>5, <1>7, <1>8, <1>11, <1>13 DEF WinEventInv

LEMMA StartsKeeps ==
  ASSUME WinEventInv, NEW s \in Sockets, Starts(s)
  PROVE  WinEventInv'
<1>1. WinEventTypes /\ PendingOK /\ ToldOnce /\ StagesOK
  BY DEF WinEventInv
<1>2. /\ stage = "start" /\ s \in visits /\ Selects(s, wanted[s], data[s], full[s])
      /\ hasHandle' = [hasHandle EXCEPT ![s] = TRUE] /\ NextStage(s, "wait")
      /\ UNCHANGED <<data, full, wanted, ready, pending, events, gotone, cur, acts, written>>
  BY DEF Starts, Put, hookVars, pendingVars
<1>3. /\ pending = <<>> /\ visits \subseteq Hooked /\ acts = 0 /\ ~ written
      /\ \A t \in Hooked : t \in visits \/ mask[t] = wanted[t]
  BY <1>1, <1>2 DEF StagesOK
<1>4. Hooked' = Hooked /\ Hooked \subseteq Sockets /\ \A t : IsPending(t)' <=> IsPending(t)
  BY <1>2 DEF Hooked, IsPending
<1>5. wanted[s] \in SUBSET Flags
  BY <1>1 DEF WinEventTypes
<1>6. /\ mask' \in [Sockets -> SUBSET Flags] /\ record' \in [Sockets -> SUBSET Flags]
      /\ event' \in [Sockets -> BOOLEAN] /\ enabled' \in [Sockets -> BOOLEAN]
      /\ ToldOnce' /\ mask'[s] = wanted[s]
      /\ \A t \in Sockets : t # s => /\ mask'[t] = mask[t]
                                     /\ \A e : Fine(t, e) => Fine(t, e)'
      /\ mask[s] # wanted[s] => \A e \in wanted[s] : Fine(s, e)'
      /\ mask[s] = wanted[s] => \A e : Fine(s, e) => Fine(s, e)'
  BY <1>1, <1>2, <1>5, SelectsDoes
<1>7. \/ visits' = visits \ {s} /\ stage' = "start"
      \/ visits' = Hooked /\ stage' = "wait" /\ visits \subseteq {s}
  BY <1>2, NextStageDoes
<1>8. WinEventTypes'
  <2>1. hasHandle' \in [Sockets -> BOOLEAN] /\ visits' \subseteq Sockets
    BY <1>1, <1>2, <1>4, <1>7 DEF WinEventTypes
  <2> QED
    BY <1>1, <1>2, <1>6, <1>7, <2>1 DEF WinEventTypes
<1>9. PendingOK'
  BY <1>1, <1>2, <1>4 DEF PendingOK
<1>10. StagesOK'
  BY <1>2, <1>3, <1>4, <1>6, <1>7 DEF StagesOK, Called
<1>11. ASSUME NEW t \in Sockets PROVE Noticed(t)'
  <2>1. Noticed(t)
    BY <1>2, AllNoticed DEF WinEventInv
  <2>2. CASE t = s
    <3>1. IsPending(s) \/ \A e \in wanted[s] : Fine(s, e)'
      BY <1>2, <1>6, <2>1, <2>2 DEF Noticed
    <3> QED
      BY <1>2, <1>4, <2>2, <3>1 DEF Noticed
  <2>3. CASE t # s
    <3>1. mask'[t] = mask[t] /\ \A e : Fine(t, e) => Fine(t, e)'
      BY <1>6, <2>3
    <3> QED
      BY <1>2, <1>4, <2>1, <3>1 DEF Noticed
  <2> QED
    BY <2>2, <2>3
<1>12. NoneLost'
  BY <1>7, <1>11 DEF NoneLost, Called
<1> QED
  BY <1>6, <1>8, <1>9, <1>10, <1>12 DEF WinEventInv

\* A record is taken: what was in it is ready, and will be told of.
LEMMA TakesKeeps ==
  ASSUME WinEventInv, NEW s \in Hooked, stage # "call", ~ (stage \in {"reset", "peekReset"}),
         ready' = [ready EXCEPT ![s] = ready[s] \cup (record[s] \cap wanted[s])],
         record' = [record EXCEPT ![s] = {}], event' \in [Sockets -> BOOLEAN],
         \A t \in Sockets \ {s} : event'[t] = event[t],
         UNCHANGED <<data, full, mask, enabled, wanted, pendingVars, gotone, hasHandle, acts,
                     written>>,
         \/ ready[s] \cup (record[s] \cap wanted[s]) = {} /\ ~ (stage' \in {"reset", "peekReset"})
         \/ cur' = s /\ stage' \in {"reset", "peekReset"}
  PROVE  /\ ready' \in [Sockets -> SUBSET Flags] /\ record' \in [Sockets -> SUBSET Flags]
         /\ PendingOK' /\ ToldOnce' /\ NoneLost' /\ Hooked' = Hooked /\ ~ Called'
<1>1. WinEventTypes /\ PendingOK /\ ToldOnce /\ StagesOK
  BY DEF WinEventInv
<1>2. s \in Sockets /\ Hooked' = Hooked /\ pending' = pending /\ events' = events
  BY DEF Hooked, pendingVars
<1>3. /\ ready' \in [Sockets -> SUBSET Flags] /\ record' \in [Sockets -> SUBSET Flags]
      /\ \A t \in Sockets \ {s} : record'[t] = record[t]
  BY <1>1, <1>2 DEF WinEventTypes
<1>4. \A t : IsPending(t)' <=> IsPending(t)
  BY <1>2 DEF IsPending
<1>5. PendingOK' /\ ToldOnce'
  BY <1>1, <1>2, <1>4 DEF PendingOK, ToldOnce
<1>6. ~ Called'
  BY <1>1 DEF StagesOK, Called
<1>7. ASSUME NEW t \in Sockets PROVE Noticed(t)'
  <2>1. IsPending(t) \/ mask[t] # wanted[t] \/ \A e \in wanted[t] : Fine(t, e)
    BY AllNoticed DEF WinEventInv, Noticed
  <2>2. CASE t # s
    <3>1. ASSUME NEW e \in wanted[t], Fine(t, e) PROVE Fine(t, e)'
      BY <1>3, <2>2, <3>1 DEF Fine
    <3> QED
      BY <1>2, <1>4, <2>1, <3>1 DEF Noticed
  <2>3. CASE t = s /\ stage' \in {"reset", "peekReset"}
    BY <2>3 DEF Noticed
  <2>4. CASE t = s /\ ~ (stage' \in {"reset", "peekReset"})
    <3>1. record[s] \cap wanted[s] = {}
      BY <2>4
    <3>2. ASSUME NEW e \in wanted[t], Fine(t, e) PROVE Fine(t, e)'
      BY <2>4, <3>1, <3>2 DEF Fine
    <3> QED
      BY <1>2, <1>4, <2>1, <3>2 DEF Noticed
  <2> QED
    BY <2>2, <2>3, <2>4
<1>8. NoneLost'
  BY <1>6, <1>7 DEF NoneLost
<1> QED
  BY <1>2, <1>3, <1>5, <1>6, <1>8

LEMMA ChecksKeeps ==
  ASSUME WinEventInv, NEW s \in Sockets, Checks(s)
  PROVE  WinEventInv'
<1> DEFINE now == ready[s] \cup (record[s] \cap wanted[s])
<1>1. WinEventTypes /\ PendingOK /\ ToldOnce /\ StagesOK
  BY DEF WinEventInv
<1>2. /\ stage = "wait" /\ s \in Hooked
      /\ ready' = [ready EXCEPT ![s] = now] /\ record' = [record EXCEPT ![s] = {}]
      /\ event' = [event EXCEPT ![s] = FALSE]
      /\ IF now # {} THEN stage' = "reset" /\ cur' = s ELSE UNCHANGED <<stage, cur>>
      /\ UNCHANGED <<data, full, mask, enabled, wanted, pendingVars, visits, gotone, hasHandle,
                     acts, written>>
  BY DEF Checks, Put
<1>3. event' \in [Sockets -> BOOLEAN] /\ \A t \in Sockets \ {s} : event'[t] = event[t]
  BY <1>1, <1>2 DEF WinEventTypes
<1>4. \/ now = {} /\ stage' = "wait" /\ cur' = cur
      \/ cur' = s /\ stage' = "reset"
  BY <1>2
<1>5. /\ ready' \in [Sockets -> SUBSET Flags] /\ record' \in [Sockets -> SUBSET Flags]
      /\ PendingOK' /\ ToldOnce' /\ NoneLost' /\ Hooked' = Hooked /\ ~ Called'
  BY <1>2, <1>3, <1>4, TakesKeeps
<1>6. WinEventTypes'
  BY <1>1, <1>2, <1>3, <1>4, <1>5 DEF WinEventTypes, pendingVars
<1>7. StagesOK'
  BY <1>1, <1>2, <1>4, <1>5 DEF StagesOK, pendingVars
<1> QED
  BY <1>5, <1>6, <1>7 DEF WinEventInv

LEMMA PeeksKeeps ==
  ASSUME WinEventInv, NEW s \in Sockets, Peeks(s)
  PROVE  WinEventInv'
<1> DEFINE now == ready[s] \cup (record[s] \cap wanted[s])
<1>1. WinEventTypes /\ PendingOK /\ ToldOnce /\ StagesOK
  BY DEF WinEventInv
<1>2. /\ stage = "peek" /\ s \in visits
      /\ ready' = [ready EXCEPT ![s] = now] /\ record' = [record EXCEPT ![s] = {}]
      /\ IF now # {} THEN stage' = "peekReset" /\ cur' = s /\ UNCHANGED visits
         ELSE NextStage(s, "call") /\ UNCHANGED cur
      /\ UNCHANGED <<data, full, mask, event, enabled, wanted, pendingVars, gotone, hasHandle,
                     acts, written>>
  BY DEF Peeks, Put
<1>3. /\ s \in Hooked /\ visits \subseteq Hooked /\ acts = 0 /\ ~ written
      /\ event' \in [Sockets -> BOOLEAN] /\ \A t \in Sockets \ {s} : event'[t] = event[t]
  BY <1>1, <1>2 DEF WinEventTypes, StagesOK
<1>4. \/ now = {} /\ stage' = "peek" /\ cur' = cur /\ visits' = visits \ {s}
      \/ now = {} /\ stage' = "call" /\ cur' = cur /\ visits' = Hooked
      \/ cur' = s /\ stage' = "peekReset" /\ visits' = visits
  BY <1>2, NextStageDoes
<1>5. /\ ready' \in [Sockets -> SUBSET Flags] /\ record' \in [Sockets -> SUBSET Flags]
      /\ PendingOK' /\ ToldOnce' /\ NoneLost' /\ Hooked' = Hooked /\ ~ Called'
  BY <1>2, <1>3, <1>4, TakesKeeps
<1>6. Hooked \subseteq Sockets
  BY DEF Hooked
<1>7. WinEventTypes'
  BY <1>1, <1>2, <1>3, <1>4, <1>5, <1>6 DEF WinEventTypes, pendingVars
<1>8. StagesOK'
  BY <1>1, <1>2, <1>3, <1>4, <1>5 DEF StagesOK, pendingVars
<1> QED
  BY <1>5, <1>7, <1>8 DEF WinEventInv

\* Then it is told of.
LEMMA TellsKeeps ==
  ASSUME WinEventInv, stage \in {"reset", "peekReset"}, Signals(cur, TRUE),
         event' \in [Sockets -> BOOLEAN], \A t \in Sockets \ {cur} : event'[t] = event[t],
         hasHandle' \in [Sockets -> BOOLEAN], stage' \in {"peek", "call"}, visits' \subseteq Hooked,
         UNCHANGED <<data, full, mask, record, enabled, hookVars, gotone, cur, acts, written>>
  PROVE  WinEventInv'
<1>1. WinEventTypes /\ PendingOK /\ ToldOnce /\ StagesOK
  BY DEF WinEventInv
<1>2. cur \in Hooked /\ acts = 0 /\ ~ written
  BY <1>1 DEF StagesOK
<1>3. UNCHANGED <<wanted, ready>> /\ Hooked' = Hooked /\ Hooked \subseteq Sockets /\ ~ Called'
  BY <1>2 DEF hookVars, Hooked, Called
<1>4. /\ pending' \in Seq(Sockets) /\ events' \in [Sockets -> SUBSET Flags]
      /\ PendingOK' /\ IsPending(cur)' /\ \A t : IsPending(t) => IsPending(t)'
  BY <1>1, <1>2, <1>3, SignalsTells
<1>5. WinEventTypes' /\ ToldOnce'
  BY <1>1, <1>3, <1>4 DEF WinEventTypes, ToldOnce
<1>6. StagesOK'
  BY <1>2, <1>3 DEF StagesOK
<1>7. ASSUME NEW t \in Sockets PROVE Noticed(t)'
  <2>1. t = cur \/ IsPending(t) \/ mask[t] # wanted[t] \/ \A e \in wanted[t] : Fine(t, e)
    BY AllNoticed DEF WinEventInv, Noticed
  <2>2. CASE t # cur
    <3>1. ASSUME NEW e \in wanted[t], Fine(t, e) PROVE Fine(t, e)'
      BY <2>2, <3>1 DEF Fine
    <3> QED
      BY <1>3, <1>4, <2>1, <2>2, <3>1 DEF Noticed
  <2> QED
    BY <1>4, <2>2 DEF Noticed
<1>8. NoneLost'
  BY <1>3, <1>7 DEF NoneLost
<1> QED
  BY <1>4, <1>5, <1>6, <1>8 DEF WinEventInv

LEMMA ResetsKeeps ==
  ASSUME WinEventInv, Resets \/ PeekResets
  PROVE  WinEventInv'
<1>1. WinEventTypes /\ StagesOK /\ cur \in Sockets
  BY DEF WinEventInv, WinEventTypes
<1>2. stage \in {"reset", "peekReset"} /\ Signals(cur, TRUE) /\ stage' \in {"peek", "call"}
      /\ UNCHANGED <<data, full, mask, record, enabled, hookVars, gotone, cur, acts, written>>
  BY DEF Resets, PeekResets
<1>3. event' \in [Sockets -> BOOLEAN] /\ \A t \in Sockets \ {cur} : event'[t] = event[t]
  BY <1>1 DEF Resets, PeekResets, Put, WinEventTypes
<1>4. visits' \subseteq Hooked /\ hasHandle' \in [Sockets -> BOOLEAN]
  <2>1. CASE Resets
    BY <1>1, <2>1 DEF Resets, Stops, WinEventTypes
  <2>2. CASE PeekResets
    BY <1>1, <2>2 DEF PeekResets, StagesOK, WinEventTypes
  <2> QED
    BY <2>1, <2>2
<1> QED
  BY <1>2, <1>3, <1>4, TellsKeeps

LEMMA CallsBackKeeps ==
  ASSUME WinEventInv, NEW s \in Sockets, CallsBack(s)
  PROVE  WinEventInv'
<1>1. WinEventTypes /\ PendingOK /\ ToldOnce /\ Distinct(pending)
  BY DEF WinEventInv, PendingOK, Distinct
<1>2. /\ stage = "call" /\ Returned /\ pending # <<>> /\ Head(pending) = s
      /\ pending' = Tail(pending) /\ events' = [events EXCEPT ![s] = {}]
      /\ cur' = s /\ acts' = MaxSets /\ written' = ("FDE_WRITE" \in events[s] /\ ~ full'[s])
      /\ UNCHANGED <<mask, wanted, ready, stage, visits, gotone, hasHandle>>
  BY DEF CallsBack, Dequeue, Put, hookVars
<1>3. /\ pending' \in Seq(Sockets) /\ Distinct(pending') /\ InList(pending, s)
      /\ \A t : InList(pending', t) <=> InList(pending, t) /\ t # s
  BY <1>1, <1>2, ListHead DEF WinEventTypes
<1>4. IsPending(s) /\ \A t : IsPending(t)' <=> IsPending(t) /\ t # s
  BY <1>3 DEF IsPending, InList
<1>5. wanted[s] \subseteq events[s]
  BY <1>1, <1>4 DEF PendingOK
<1>6. full' \in [Sockets -> BOOLEAN] /\ \A t \in Sockets : full[t] => full'[t]
  BY <1>1 DEF CallsBack, WinEventTypes
<1>7. /\ data' \in [Sockets -> Nat] /\ enabled' \in [Sockets -> BOOLEAN]
      /\ record' \in [Sockets -> SUBSET Flags] /\ event' \in [Sockets -> BOOLEAN]
      /\ \A t \in Sockets \ {s} : /\ data'[t] = data[t] /\ enabled'[t] = enabled[t]
                                  /\ record'[t] = record[t] /\ event'[t] = event[t]
      /\ enabled'[s] \/ data'[s] > 0
      /\ "FDE_READ" \in events[s] \cap mask[s] => Fine(s, "FDE_READ")'
  <2>1. CASE "FDE_READ" \in events[s]
    <3>1. PICK left \in 0 .. data[s] :
            LET again == left > 0 /\ "FDE_READ" \in mask[s]
            IN /\ data' = Put(data, s, left) /\ enabled' = Put(enabled, s, ~ again)
               /\ record' = Put(record, s, IF again THEN record[s] \cup {"FDE_READ"}
                                                ELSE record[s])
               /\ event' = Put(event, s, event[s] \/ again)
      BY <2>1 DEF CallsBack
    <3> DEFINE again == left > 0 /\ "FDE_READ" \in mask[s]
    <3>2. /\ data' = [data EXCEPT ![s] = left] /\ enabled' = [enabled EXCEPT ![s] = ~ again]
          /\ record' = [record EXCEPT ![s] = IF again THEN record[s] \cup {"FDE_READ"}
                                                  ELSE record[s]]
          /\ event' = [event EXCEPT ![s] = (event[s] \/ again)]
      BY <3>1 DEF Put
    <3>3. left \in Nat
      BY <1>1 DEF WinEventTypes
    <3>4. /\ data' \in [Sockets -> Nat] /\ enabled' \in [Sockets -> BOOLEAN]
          /\ event' \in [Sockets -> BOOLEAN] /\ data'[s] = left
          /\ enabled'[s] = ~ again /\ (again => event'[s])
          /\ \A t \in Sockets \ {s} : /\ data'[t] = data[t] /\ enabled'[t] = enabled[t]
                                      /\ event'[t] = event[t]
      BY <1>1, <3>2, <3>3 DEF WinEventTypes
    <3>5. /\ record' \in [Sockets -> SUBSET Flags] /\ (again => "FDE_READ" \in record'[s])
          /\ \A t \in Sockets \ {s} : record'[t] = record[t]
      BY <1>1, <3>2 DEF WinEventTypes, Flags
    <3>6. "FDE_READ" \in mask[s] => Fine(s, "FDE_READ")'
      BY <3>4, <3>5 DEF Fine
    <3> QED
      BY <3>4, <3>5, <3>6
  <2>2. CASE "FDE_READ" \notin events[s]
    <3>1. UNCHANGED <<data, enabled, record, event>>
      BY <2>2 DEF CallsBack
    <3> QED
      BY <1>1, <2>2, <3>1 DEF WinEventTypes, ToldOnce
  <2> QED
    BY <2>1, <2>2
<1>8. WinEventTypes'
  <2>1. events' \in [Sockets -> SUBSET Flags] /\ acts' \in Nat /\ written' \in BOOLEAN
    BY <1>1, <1>2, ArrivalAssumption DEF WinEventTypes, ArrivalAssumption
  <2> QED
    BY <1>1, <1>2, <1>3, <1>6, <1>7, <2>1 DEF WinEventTypes
<1>9. PendingOK'
  <2>1. \A t \in Sockets \ {s} : events'[t] = events[t]
    BY <1>1, <1>2 DEF WinEventTypes
  <2> QED
    BY <1>1, <1>2, <1>3, <1>4, <2>1 DEF PendingOK, Distinct
<1>10. ToldOnce'
  BY <1>1, <1>7 DEF ToldOnce
<1>11. StagesOK'
  BY <1>2, <1>4 DEF StagesOK
<1>12. NoticedBack(s)'
  <2>1. ASSUME NEW e \in mask[s] \cap wanted[s] PROVE Fine(s, e)' \/ (e = "FDE_WRITE" /\ written')
    <3>1. e \in events[s] /\ e \in Flags
      BY <1>1, <1>5 DEF WinEventTypes
    <3>2. CASE e = "FDE_READ"
      BY <1>7, <3>1, <3>2
    <3>3. CASE e = "FDE_WRITE"
      BY <1>2, <3>1, <3>3 DEF Fine
    <3> QED
      BY <3>1, <3>2, <3>3 DEF Flags
  <2> QED
    BY <1>2, <2>1 DEF NoticedBack
<1>13. ~ Called' => Noticed(s)'
  <2>1. ~ Called' => ~ written'
    BY <1>2 DEF Called
  <2> QED
    BY <1>12, <2>1 DEF Noticed, NoticedBack
<1>14. ASSUME NEW t \in Sockets \ {s} PROVE Noticed(t)'
  <2>1. Noticed(t)
    BY <1>2, AllNoticed DEF WinEventInv
  <2>2. ASSUME NEW e \in wanted[t], Fine(t, e) PROVE Fine(t, e)'
    BY <1>6, <1>7, <2>2 DEF Fine
  <2> QED
    BY <1>2, <1>4, <2>1, <2>2 DEF Noticed
<1>15. NoneLost'
  BY <1>2, <1>12, <1>13, <1>14 DEF NoneLost
<1> QED
  BY <1>8, <1>9, <1>10, <1>11, <1>15 DEF WinEventInv

LEMMA EndsRoundKeeps ==
  ASSUME WinEventInv, EndsRound
  PROVE  WinEventInv'
<1>1. /\ stage = "call" /\ Returned /\ pending = <<>> /\ stage' = "prepare"
      /\ visits' = Hooked /\ gotone' = FALSE /\ acts' = 0 /\ written' = FALSE
      /\ UNCHANGED <<data, full, mask, record, event, enabled, wanted, ready, pending, events,
                     cur, hasHandle>>
  BY DEF EndsRound, socketVars, hookVars, pendingVars
<1>2. Hooked' = Hooked /\ Hooked \subseteq Sockets /\ \A t : IsPending(t)' <=> IsPending(t)
  BY <1>1 DEF Hooked, IsPending
<1>3. WinEventTypes' /\ PendingOK' /\ ToldOnce'
  <2>1. WinEventTypes'
    BY <1>1, <1>2 DEF WinEventInv, WinEventTypes
  <2>2. PendingOK'
    BY <1>1, <1>2 DEF WinEventInv, PendingOK
  <2>3. ToldOnce'
    BY <1>1 DEF WinEventInv, ToldOnce
  <2> QED
    BY <2>1, <2>2, <2>3
<1>4. StagesOK'
  BY <1>1, <1>2 DEF StagesOK, Called
<1>5. ASSUME NEW t \in Sockets PROVE Noticed(t)'
  <2>1. Noticed(t) /\ \A e : Fine(t, e)' <=> Fine(t, e)
    BY <1>1, AllNoticed DEF WinEventInv, Fine
  <2> QED
    BY <1>1, <1>2, <2>1 DEF Noticed
<1>6. NoneLost'
  BY <1>1, <1>5 DEF NoneLost, Called
<1> QED
  BY <1>3, <1>4, <1>6 DEF WinEventInv

\* The callback that runs sets an event: another socket, which then wants more, waits for its
\* hook to be started again.
LEMMA SetsOther ==
  ASSUME WinEventInv, NEW s \in Sockets, NEW now \in SUBSET Flags, Sets(s, now), s # cur
  PROVE  /\ wanted[s] \subseteq now /\ ~ (now \subseteq wanted[s]) /\ acts > 0
         /\ Selects(s, wanted[s], data[s], full[s])
         /\ (IsPending(s) => Delist(s) /\ events' = [events EXCEPT ![s] = events[s] \ now])
         /\ (~ IsPending(s) => UNCHANGED <<pending, events>>)
<1>1. /\ now # wanted[s] /\ acts > 0 /\ wanted[s] \subseteq now
      /\ Updates(s, now) /\ Forgets(s, now)
  BY DEF Sets
<1>2. ~ (now \subseteq wanted[s]) /\ wanted[s] \cap now = wanted[s]
  BY <1>1
<1>3. Selects(s, wanted[s], data[s], full[s])
  BY <1>1, <1>2 DEF Updates, Hooks, SocketHook
<1>4. ASSUME IsPending(s) PROVE events[s] \subseteq now
  <2>1. wanted[s] # {} /\ events[s] \subseteq Flags /\ wanted[s] \subseteq Flags
    BY <1>4 DEF WinEventInv, WinEventTypes, PendingOK
  <2>2. now = Flags
    BY <1>1, <1>2, <2>1 DEF Flags
  <2> QED
    BY <2>1, <2>2
<1>5. /\ (IsPending(s) => Delist(s) /\ events' = [events EXCEPT ![s] = events[s] \ now])
      /\ (~ IsPending(s) => UNCHANGED <<pending, events>>)
  BY <1>1, <1>4 DEF Forgets, Put, pendingVars
<1> QED
  BY <1>1, <1>2, <1>3, <1>5

LEMMA SetsOtherKeeps ==
  ASSUME WinEventInv, NEW s \in Sockets, NEW now \in SUBSET Flags, Sets(s, now), s # cur
  PROVE  WinEventInv'
<1>1. WinEventTypes /\ PendingOK /\ ToldOnce /\ Distinct(pending)
  BY DEF WinEventInv, PendingOK, Distinct
<1>2. /\ stage = "call" /\ wanted' = [wanted EXCEPT ![s] = now]
      /\ hasHandle' = [hasHandle EXCEPT ![s] = TRUE] /\ acts' = acts - 1
      /\ UNCHANGED <<data, full, stage, visits, gotone, cur, written>>
      /\ ready' = IF wanted[s] \cap now = {} THEN [ready EXCEPT ![s] = {}] ELSE ready
  <2>1. ~ (now \subseteq wanted[s] \cap now)
    BY SetsOther
  <2> QED
    BY <2>1 DEF Sets, Updates, Unhooks, Hooks, SocketHook, Put
<1>3. /\ ~ (now \subseteq wanted[s]) /\ acts > 0 /\ Called
      /\ Selects(s, wanted[s], data[s], full[s])
  BY <1>2, SetsOther DEF Called
<1>4. /\ mask' \in [Sockets -> SUBSET Flags] /\ record' \in [Sockets -> SUBSET Flags]
      /\ event' \in [Sockets -> BOOLEAN] /\ enabled' \in [Sockets -> BOOLEAN]
      /\ ToldOnce' /\ mask'[s] = wanted[s]
      /\ \A t \in Sockets : t # s => /\ mask'[t] = mask[t]
                                     /\ \A e : Fine(t, e) => Fine(t, e)'
  <2>1. wanted[s] \in SUBSET Flags /\ UNCHANGED <<data, full>>
    BY <1>1, <1>2 DEF WinEventTypes
  <2> QED
    BY <1>1, <1>3, <2>1, SelectsDoes
<1>5. /\ wanted'[s] = now /\ wanted' \in [Sockets -> SUBSET Flags]
      /\ \A t \in Sockets \ {s} : wanted'[t] = wanted[t]
  BY <1>1, <1>2 DEF WinEventTypes
<1>6. /\ pending' \in Seq(Sockets) /\ Distinct(pending')
      /\ \A t : InList(pending', t) <=> InList(pending, t) /\ t # s
      /\ events' \in [Sockets -> SUBSET Flags]
      /\ \A t \in Sockets \ {s} : events'[t] = events[t]
  <2>1. CASE IsPending(s)
    <3>1. events' = [events EXCEPT ![s] = events[s] \ now] /\ Delist(s)
      BY <2>1, SetsOther
    <3>2. PICK i \in 1 .. Len(pending) : pending[i] = s /\ pending' = RemoveAt(pending, i)
      BY <3>1 DEF Delist
    <3>3. /\ pending' \in Seq(Sockets) /\ Distinct(pending')
          /\ \A t : InList(pending', t) <=> InList(pending, t) /\ t # s
      BY <1>1, <3>2, ListShrinks DEF WinEventTypes
    <3> QED
      BY <1>1, <3>1, <3>3 DEF WinEventTypes
  <2>2. CASE ~ IsPending(s)
    <3>1. UNCHANGED <<pending, events>> /\ ~ InList(pending, s)
      BY <2>2, SetsOther, IsPendingIs
    <3> QED
      BY <1>1, <3>1 DEF WinEventTypes
  <2> QED
    BY <2>1, <2>2
<1>7. \A t : IsPending(t)' <=> IsPending(t) /\ t # s
  BY <1>6 DEF IsPending, InList
<1>8. WinEventTypes'
  <2>1. ready' \in [Sockets -> SUBSET Flags] /\ hasHandle' \in [Sockets -> BOOLEAN]
    BY <1>1, <1>2 DEF WinEventTypes
  <2>2. acts' \in Nat
    BY <1>1, <1>2, <1>3 DEF WinEventTypes
  <2> QED
    BY <1>1, <1>2, <1>4, <1>5, <1>6, <2>1, <2>2 DEF WinEventTypes
<1>9. PendingOK'
  BY <1>1, <1>5, <1>6, <1>7 DEF PendingOK, Distinct
<1>10. ~ IsPending(cur) /\ NoticedBack(cur) /\ cur \in Sockets
  BY <1>1, <1>3 DEF WinEventInv, WinEventTypes, StagesOK, NoneLost
<1>11. StagesOK'
  BY <1>2, <1>7, <1>10 DEF StagesOK
<1>12. NoticedBack(cur)'
  <2>1. mask'[cur] = mask[cur] /\ wanted'[cur] = wanted[cur] /\ \A e : Fine(cur, e) => Fine(cur, e)'
    BY <1>2, <1>4, <1>5, <1>10
  <2> QED
    BY <1>2, <1>10, <2>1 DEF NoticedBack
<1>13. ~ Called' => Noticed(cur)'
  <2>1. ~ Called' => ~ written'
    BY <1>2 DEF Called
  <2> QED
    BY <1>12, <2>1 DEF Noticed, NoticedBack
<1>14. ASSUME NEW t \in Sockets \ {cur} PROVE Noticed(t)'
  <2>1. Noticed(t)
    BY <1>14 DEF WinEventInv, NoneLost
  <2>2. CASE t = s
    BY <1>3, <1>4, <1>5, <2>2 DEF Noticed
  <2>3. CASE t # s
    <3>1. mask'[t] = mask[t] /\ wanted'[t] = wanted[t] /\ \A e : Fine(t, e) => Fine(t, e)'
      BY <1>4, <1>5, <2>3
    <3> QED
      BY <1>2, <1>7, <2>1, <2>3, <3>1 DEF Noticed
  <2> QED
    BY <2>2, <2>3
<1>15. NoneLost'
  <2>1. ASSUME NEW t \in Sockets
        PROVE  IF Called' /\ t = cur' THEN NoticedBack(t)' ELSE Noticed(t)'
    BY <1>2, <1>12, <1>13, <1>14
  <2> QED
    BY <2>1 DEF NoneLost
<1> QED
  BY <1>4, <1>8, <1>9, <1>11, <1>15 DEF WinEventInv

\* Its own socket: what is still wanted of it was noticed, or is sent by now.
LEMMA SetsOwnKeeps ==
  ASSUME WinEventInv, NEW s \in Sockets, NEW now \in SUBSET Flags, Sets(s, now), s = cur,
         NEW before \in SUBSET Flags, before = wanted[s] \cap now
  PROVE  WinEventInv'
<1>1. WinEventTypes /\ PendingOK /\ ToldOnce
  BY DEF WinEventInv
<1>2. /\ stage = "call" /\ Updates(s, now) /\ Forgets(s, now) /\ Called
      /\ acts' \in Nat /\ (acts' = acts \/ acts' = acts - 1)
      /\ UNCHANGED <<data, full, stage, visits, gotone, cur, written>>
  <2>1. /\ stage = "call" /\ Updates(s, now) /\ Forgets(s, now)
        /\ UNCHANGED <<data, full, stage, visits, gotone, cur, written>>
        /\ (acts > 0 /\ acts' = acts - 1) \/ (~ Returned /\ acts' = acts)
    BY DEF Sets
  <2>2. acts \in Nat
    BY <1>1 DEF WinEventTypes
  <2>3. Called
    BY <2>1 DEF Called, Returned
  <2>4. acts' \in Nat
    BY <2>1, <2>2
  <2> QED
    BY <2>1, <2>3, <2>4
<1>3. ~ IsPending(s) /\ NoticedBack(s)
  BY <1>1, <1>2 DEF WinEventInv, StagesOK, NoneLost
<1>4. /\ UNCHANGED <<pending, events>> /\ \A t : IsPending(t)' <=> IsPending(t)
  BY <1>2, <1>3 DEF Forgets, pendingVars, IsPending
<1>5. /\ wanted' = [wanted EXCEPT ![s] = now]
      /\ ready' = IF before = {} THEN [ready EXCEPT ![s] = {}] ELSE ready
      /\ Hooks(s, before, now)
  BY <1>2 DEF Updates, Unhooks, Put
<1>6. /\ wanted'[s] = now /\ wanted' \in [Sockets -> SUBSET Flags]
      /\ \A t \in Sockets \ {s} : wanted'[t] = wanted[t]
      /\ ready' \in [Sockets -> SUBSET Flags]
  BY <1>1, <1>5 DEF WinEventTypes
<1>7. /\ mask' \in [Sockets -> SUBSET Flags] /\ record' \in [Sockets -> SUBSET Flags]
      /\ event' \in [Sockets -> BOOLEAN] /\ enabled' \in [Sockets -> BOOLEAN]
      /\ hasHandle' \in [Sockets -> BOOLEAN] /\ ToldOnce'
      /\ \A t \in Sockets : t # s => /\ mask'[t] = mask[t]
                                       /\ \A e : Fine(t, e) => Fine(t, e)'
      /\ NoticedBack(s)'
  <2>1. CASE now \subseteq before
    <3>1. UNCHANGED <<mask, record, event, enabled, hasHandle>>
      BY <1>5, <2>1 DEF Hooks
    <3>2. now \subseteq wanted[s]
      BY <2>1
    <3>3. NoticedBack(s)'
      BY <1>2, <1>3, <1>6, <3>1, <3>2 DEF NoticedBack, Fine
    <3>4. \A t, e : Fine(t, e)' <=> Fine(t, e)
      BY <1>2, <3>1 DEF Fine
    <3>5. ToldOnce'
      BY <1>1, <1>2, <3>1 DEF ToldOnce
    <3> QED
      BY <1>1, <3>1, <3>3, <3>4, <3>5 DEF WinEventTypes
  <2>2. CASE ~ (now \subseteq before)
    <3>1. /\ Selects(s, before, data[s], full[s])
          /\ hasHandle' = [hasHandle EXCEPT ![s] = TRUE]
      BY <1>5, <2>2 DEF Hooks, SocketHook, Put
    <3>2. before \in SUBSET Flags /\ UNCHANGED <<data, full>>
      BY <1>2
    <3>3. /\ mask' \in [Sockets -> SUBSET Flags] /\ record' \in [Sockets -> SUBSET Flags]
          /\ event' \in [Sockets -> BOOLEAN] /\ enabled' \in [Sockets -> BOOLEAN]
          /\ ToldOnce' /\ mask'[s] = before
          /\ \A t \in Sockets : t # s => /\ mask'[t] = mask[t]
                                           /\ \A e : Fine(t, e) => Fine(t, e)'
          /\ mask[s] # before => \A e \in before : Fine(s, e)'
          /\ mask[s] = before => \A e : Fine(s, e) => Fine(s, e)'
      BY <1>1, <3>1, <3>2, SelectsDoes
    <3>4. before \subseteq wanted[s]
      OBVIOUS
    <3>5. ASSUME NEW e \in before PROVE Fine(s, e)' \/ (e = "FDE_WRITE" /\ written')
      BY <1>2, <1>3, <3>3, <3>4 DEF NoticedBack
    <3>6. NoticedBack(s)'
      BY <1>2, <3>3, <3>5 DEF NoticedBack
    <3> QED
      BY <1>1, <3>1, <3>3, <3>6 DEF WinEventTypes
  <2> QED
    BY <2>1, <2>2
<1>8. WinEventTypes'
  BY <1>1, <1>2, <1>4, <1>6, <1>7 DEF WinEventTypes
<1>9. PendingOK'
  BY <1>1, <1>3, <1>4, <1>6 DEF PendingOK
<1>10. StagesOK'
  BY <1>2, <1>3, <1>4 DEF StagesOK
<1>11. ~ Called' => Noticed(s)'
  <2>1. ~ Called' => ~ written'
    BY <1>2 DEF Called
  <2> QED
    BY <1>7, <2>1 DEF Noticed, NoticedBack
<1>12. ASSUME NEW t \in Sockets \ {s} PROVE Noticed(t)'
  <2>1. Noticed(t)
    BY <1>12 DEF WinEventInv, NoneLost
  <2>2. mask'[t] = mask[t] /\ wanted'[t] = wanted[t] /\ \A e : Fine(t, e) => Fine(t, e)'
    BY <1>6, <1>7
  <2> QED
    BY <1>2, <1>4, <2>1, <2>2 DEF Noticed
<1>13. NoneLost'
  <2>1. ASSUME NEW t \in Sockets
        PROVE  IF Called' /\ t = cur' THEN NoticedBack(t)' ELSE Noticed(t)'
    BY <1>2, <1>7, <1>11, <1>12
  <2> QED
    BY <2>1 DEF NoneLost
<1> QED
  BY <1>7, <1>8, <1>9, <1>10, <1>13 DEF WinEventInv

LEMMA WinEventKeeps ==
  ASSUME WinEventInv, [WinEventNext]_winEventVars
  PROVE  WinEventInv'
<1>1. CASE UNCHANGED winEventVars
  <2>1. /\ UNCHANGED <<mask, hookVars, pendingVars, loopVars>>
        /\ UNCHANGED <<data, full, record, event, enabled>>
    BY <1>1 DEF winEventVars, socketVars
  <2>2. ToldOnce' /\ \A t \in Sockets : \A e \in mask[t] : Fine(t, e) => Fine(t, e)'
    BY <2>1 DEF WinEventInv, ToldOnce, Fine
  <2> QED
    BY <2>1, <2>2, ArrivalsKeep DEF WinEventInv, WinEventTypes
<1>2. ASSUME NEW s \in Sockets, NEW now \in SUBSET Flags, Sets(s, now) PROVE WinEventInv'
  <2>1. CASE s # cur
    BY <1>2, <2>1, SetsOtherKeeps
  <2>2. CASE s = cur
    <3>1. wanted[s] \cap now \in SUBSET Flags
      OBVIOUS
    <3> QED
      BY <1>2, <2>2, <3>1, SetsOwnKeeps
  <2> QED
    BY <2>1, <2>2
<1>3. ASSUME NEW s \in Sockets, Arrives(s) \/ Drains(s) PROVE WinEventInv'
  BY <1>3, ArrivesKeeps, DrainsKeeps
<1>4. CASE LoopGoesOn
  <2>1. CASE Resets \/ PeekResets \/ EndsRound
    BY <2>1, ResetsKeeps, EndsRoundKeeps
  <2>2. ASSUME NEW s \in Sockets, Sets(s, wanted[s] \ {"FDE_WRITE"}) PROVE WinEventInv'
    <3>1. wanted[s] \ {"FDE_WRITE"} \in SUBSET Flags
      BY DEF WinEventInv, WinEventTypes
    <3> QED
      BY <1>2, <2>2, <3>1
  <2>3. ASSUME NEW s \in Sockets,
               Prepares(s) \/ Starts(s) \/ Checks(s) \/ Peeks(s) \/ CallsBack(s)
        PROVE  WinEventInv'
    BY <2>3, PreparesKeeps, StartsKeeps, ChecksKeeps, PeeksKeeps, CallsBackKeeps
  <2> QED
    BY <1>4, <2>1, <2>2, <2>3 DEF LoopGoesOn
<1> QED
  BY <1>1, <1>2, <1>3, <1>4 DEF WinEventNext

\* While the loop over sockets sleeps, the event of each is set that has what is wanted of it:
\* of any number of sockets, whatever arrives and whatever the callbacks set (sysdeps_win32.c).
THEOREM WinEventsHold == WinEventSpec => []WinEventsCorrect
<1>1. WinEventInit => WinEventInv
  BY WinEventStarts
<1>2. WinEventInv /\ [WinEventNext]_winEventVars => WinEventInv'
  BY WinEventKeeps
<1>3. WinEventInv => WinEventsCorrect
  <2> SUFFICES ASSUME WinEventInv PROVE WinEventsCorrect
    OBVIOUS
  <2>1. WinEventTypes /\ PendingOK /\ StagesOK
    BY DEF WinEventInv
  <2>2. \A i \in 1 .. Len(pending) : events[pending[i]] # {}
    <3> SUFFICES ASSUME NEW i \in 1 .. Len(pending) PROVE events[pending[i]] # {}
      OBVIOUS
    <3>1. pending[i] \in Sockets /\ IsPending(pending[i])
      BY <2>1 DEF WinEventTypes, IsPending
    <3> QED
      BY <2>1, <3>1 DEF PendingOK
  <2>3. WinEventTypeOK
    BY <2>1, <2>2 DEF WinEventTypes, PendingOK, WinEventTypeOK
  <2>4. WaitsForAll
    <3> SUFFICES ASSUME stage = "wait", NEW s \in Sockets,
                        \/ "FDE_READ" \in wanted[s] /\ data[s] > 0
                        \/ "FDE_WRITE" \in wanted[s] /\ ~ full[s]
                 PROVE  event[s]
      BY DEF WaitsForAll
    <3>1. Noticed(s) /\ s \in Hooked /\ pending = <<>>
      BY <2>1, AllNoticed DEF WinEventInv, Hooked, StagesOK
    <3>2. mask[s] = wanted[s] /\ ~ IsPending(s)
      BY <2>1, <3>1 DEF StagesOK, IsPending
    <3> QED
      BY <3>1, <3>2 DEF Noticed, Fine
  <2> QED
    BY <2>3, <2>4 DEF WinEventsCorrect
<1> QED
  BY <1>1, <1>2, <1>3, PTL DEF WinEventSpec
LEMMA LeastExists ==
  ASSUME NEW S \in SUBSET Nat, S # {}
  PROVE  \E n \in S : \A m \in S : n <= m
<1> DEFINE lt == OpToRel(<, Nat)
<1>1. \A m, n \in Nat : m < n => <<m, n>> \in lt
  BY DEF OpToRel
<1> HIDE DEF lt
<1>2. PICK n \in S : \A m \in S : ~ (<<m, n>> \in lt)
  <2>1. IsWellFoundedOn(lt, Nat)
    BY NatLessThanWellFounded DEF lt
  <2> QED
    BY <2>1, WFMin
<1>3. \A m \in S : ~ (m < n)
  BY <1>1, <1>2
<1> QED
  BY <1>3

-----------------------------------------------------------------------------
(* HostTransports: walks of a list.                                        *)

LinkPointers == [next : [Nodes -> Nodes], prev : [Nodes -> Nodes]]
Heads == {Listed, Pending}

\* A set of naturals with 0 and with the successor of each is the set of naturals.
LEMMA EveryNat ==
  ASSUME NEW S \in SUBSET Nat, 0 \in S, \A n \in S : n + 1 \in S
  PROVE  S = Nat
<1> SUFFICES ASSUME Nat \ S # {} PROVE FALSE
  OBVIOUS
<1>1. PICK n \in Nat \ S : \A m \in Nat \ S : n <= m
  BY LeastExists
<1>2. n # 0 /\ n - 1 \in Nat /\ n = (n - 1) + 1
  BY <1>1
<1>3. n - 1 \in S
  BY <1>1, <1>2
<1> QED
  BY <1>1, <1>2, <1>3

LEMMA HowManyJobs == Cardinality(Jobs) \in Nat
  BY HostTransportsAssumption, FS_CardinalityType

\* Steps is what its recursive definition says: the function exists.
LEMMA StepsAre ==
  ASSUME NEW l \in LinkPointers, NEW h \in Heads
  PROVE  Steps(l, h) =
           [i \in 1 .. Cardinality(Jobs) + 1 |->
              IF i = 1 THEN l.next[h]
              ELSE IF Steps(l, h)[i - 1] = h THEN h ELSE l.next[Steps(l, h)[i - 1]]]
<1> DEFINE N == Cardinality(Jobs) + 1
           IsWalk(f, m) ==
             \A i \in 1 .. m :
               f[i] = IF i = 1 THEN l.next[h]
                      ELSE IF f[i - 1] = h THEN h ELSE l.next[f[i - 1]]
           S == {m \in Nat : \E f \in [1 .. m -> Nodes] : IsWalk(f, m)}
<1>1. N \in Nat
  BY HowManyJobs
<1> HIDE DEF N
<1>t. l.next \in [Nodes -> Nodes] /\ h \in Nodes
  BY DEF LinkPointers, Heads, Nodes
<1>2. 0 \in S
  <2>1. [i \in 1 .. 0 |-> h] \in [1 .. 0 -> Nodes] /\ IsWalk([i \in 1 .. 0 |-> h], 0)
    OBVIOUS
  <2> QED
    BY <2>1
<1>3. ASSUME NEW n \in S PROVE n + 1 \in S
  <2>1. PICK f \in [1 .. n -> Nodes] : IsWalk(f, n)
    BY <1>3
  <2> DEFINE x == IF n = 0 THEN l.next[h] ELSE IF f[n] = h THEN h ELSE l.next[f[n]]
             g == [i \in 1 .. n + 1 |-> IF i = n + 1 THEN x ELSE f[i]]
  <2>2. x \in Nodes
    BY <1>t, <2>1
  <2>3. g \in [1 .. n + 1 -> Nodes]
    BY <2>1, <2>2
  <2>4. g[n + 1] = x /\ \A i \in 1 .. n : g[i] = f[i]
    OBVIOUS
  <2>5. ASSUME NEW i \in 1 .. n + 1
        PROVE  g[i] = IF i = 1 THEN l.next[h]
                      ELSE IF g[i - 1] = h THEN h ELSE l.next[g[i - 1]]
    <3> HIDE DEF g
    <3>1. CASE i = n + 1
      <4>1. CASE n = 0
        BY <3>1, <4>1, <2>4
      <4>2. CASE n # 0
        <5>1. i - 1 = n /\ n \in 1 .. n /\ i # 1
          BY <3>1, <4>2
        <5> QED
          BY <3>1, <4>2, <5>1, <2>4
      <4> QED
        BY <4>1, <4>2
    <3>2. CASE i # n + 1
      <4>1. i \in 1 .. n /\ (i # 1 => i - 1 \in 1 .. n)
        BY <3>2
      <4> QED
        BY <4>1, <2>1, <2>4
    <3> QED
      BY <3>1, <3>2
  <2>6. IsWalk(g, n + 1)
    BY <2>5
  <2> HIDE DEF g, IsWalk
  <2>7. n + 1 \in Nat /\ \E q \in [1 .. n + 1 -> Nodes] : IsWalk(q, n + 1)
    BY <2>3, <2>6
  <2> QED
    BY <2>7
<1>4. S = Nat
  <2> HIDE DEF S
  <2>1. S \in SUBSET Nat
    BY DEF S
  <2> QED
    BY <2>1, <1>2, <1>3, EveryNat
<1>5. PICK f \in [1 .. N -> Nodes] : IsWalk(f, N)
  BY <1>1, <1>4
<1>6. f = [i \in 1 .. N |-> IF i = 1 THEN l.next[h]
                            ELSE IF f[i - 1] = h THEN h ELSE l.next[f[i - 1]]]
  <2> HIDE DEF IsWalk
  <2> DEFINE e(i) == IF i = 1 THEN l.next[h]
                     ELSE IF f[i - 1] = h THEN h ELSE l.next[f[i - 1]]
  <2>1. \A i \in 1 .. N : f[i] = e(i)
    BY <1>5 DEF IsWalk
  <2> HIDE DEF e
  <2>2. f = [i \in 1 .. N |-> e(i)]
    BY <2>1, <1>5
  <2> QED
    BY <2>2 DEF e
<1> QED
  BY <1>6 DEF Steps, N

\* The same, step by step.
LEMMA StepsGoOn ==
  ASSUME NEW l \in LinkPointers, NEW h \in Heads
  PROVE  /\ Steps(l, h) \in [1 .. Cardinality(Jobs) + 1 -> Nodes]
         /\ Steps(l, h)[1] = l.next[h]
         /\ \A i \in 1 .. Cardinality(Jobs) :
              Steps(l, h)[i + 1] =
                IF Steps(l, h)[i] = h THEN h ELSE l.next[Steps(l, h)[i]]
<1> DEFINE to == Steps(l, h)
           N == Cardinality(Jobs)
           e(i) == IF i = 1 THEN l.next[h] ELSE IF to[i - 1] = h THEN h ELSE l.next[to[i - 1]]
<1>1. N \in Nat
  BY HowManyJobs
<1>2. to = [i \in 1 .. N + 1 |-> e(i)]
  BY StepsAre
<1> HIDE DEF to, N
<1>3. to[1] = l.next[h]
  BY <1>1, <1>2
<1>4. ASSUME NEW i \in 1 .. N
      PROVE  to[i + 1] = IF to[i] = h THEN h ELSE l.next[to[i]]
  <2>1. i + 1 \in 1 .. N + 1 /\ i + 1 # 1 /\ (i + 1) - 1 = i
    BY <1>1
  <2>2. to[i + 1] = e(i + 1)
    BY <2>1, <1>2
  <2> QED
    BY <2>1, <2>2
<1>t. l.next \in [Nodes -> Nodes] /\ h \in Nodes
  BY DEF LinkPointers, Heads, Nodes
<1>5. ASSUME NEW i \in 1 .. N + 1, to[i] \notin Nodes,
             \A k \in 1 .. N + 1 : to[k] \notin Nodes => i <= k
      PROVE  FALSE
  <2>2. i # 1
    BY <1>5, <1>3, <1>t
  <2>3. i - 1 \in 1 .. N /\ (i - 1) + 1 = i /\ i - 1 \in 1 .. N + 1 /\ ~ (i <= i - 1)
    BY <2>2, <1>1
  <2>4. to[i - 1] \in Nodes
    BY <1>5, <2>3
  <2>5. to[i] = IF to[i - 1] = h THEN h ELSE l.next[to[i - 1]]
    BY <1>4, <2>3
  <2> QED
    BY <1>5, <2>4, <2>5, <1>t
<1>6. to \in [1 .. N + 1 -> Nodes]
  <2>1. \A i \in 1 .. N + 1 : to[i] \in Nodes
    <3> DEFINE T == {i \in 1 .. N + 1 : to[i] \notin Nodes}
    <3> SUFFICES ASSUME T # {} PROVE FALSE
      OBVIOUS
    <3>1. T \in SUBSET Nat
      BY <1>1
    <3>2. PICK i \in T : \A k \in T : i <= k
      BY <3>1, LeastExists
    <3> QED
      BY <3>2, <1>5
  <2>2. to = [i \in 1 .. N + 1 |-> to[i]]
    BY <1>2
  <2> QED
    BY <2>1, <2>2
<1> QED
  BY <1>3, <1>4, <1>6 DEF to, N

\* A walk stays in what next leads to.
Leads(l, h, W) ==
  /\ W \subseteq Jobs /\ l.next[h] \in W \cup {h}
  /\ \A n \in W : l.next[n] \in W \cup {h}

\* And goes on to what is newer.
Newer(l, W, ord) ==
  /\ ord \in [Jobs -> Nat]
  /\ \A n \in W : l.next[n] \in Jobs => ord[n] < ord[l.next[n]]

LEMMA HeadsAre == \A h \in Heads : h \in Nodes /\ h \notin Jobs
  BY HostTransportsAssumption DEF Heads, Nodes

LEMMA StepsStay ==
  ASSUME NEW l \in LinkPointers, NEW h \in Heads, NEW W, Leads(l, h, W),
         NEW k \in 1 .. Cardinality(Jobs) + 1
  PROVE  Steps(l, h)[k] \in W \cup {h}
<1> DEFINE to == Steps(l, h)
           N == Cardinality(Jobs)
<1>1. N \in Nat
  BY HowManyJobs
<1>2. /\ to[1] = l.next[h]
      /\ \A i \in 1 .. N : to[i + 1] = IF to[i] = h THEN h ELSE l.next[to[i]]
  BY StepsGoOn
<1> HIDE DEF to, N
<1> DEFINE T == {i \in 1 .. N + 1 : to[i] \notin W \cup {h}}
<1> SUFFICES ASSUME T # {} PROVE FALSE
  BY DEF to, N
<1>3. T \in SUBSET Nat
  BY <1>1
<1>4. PICK i \in T : \A m \in T : i <= m
  BY <1>3, LeastExists
<1>5. i # 1
  BY <1>2, <1>4 DEF Leads
<1>6. i - 1 \in 1 .. N /\ (i - 1) + 1 = i /\ i - 1 \in 1 .. N + 1 /\ ~ (i <= i - 1)
  BY <1>1, <1>4, <1>5
<1>7. to[i - 1] \in W \cup {h}
  BY <1>4, <1>6
<1>8. to[i] = IF to[i - 1] = h THEN h ELSE l.next[to[i - 1]]
  BY <1>2, <1>6
<1> QED
  BY <1>4, <1>7, <1>8 DEF Leads

\* Two lists whose pointers agree where the walk leads are walked alike.
LEMMA StepsAlike ==
  ASSUME NEW l \in LinkPointers, NEW m \in LinkPointers, NEW h \in Heads, NEW W,
         Leads(l, h, W), \A n \in W \cup {h} : m.next[n] = l.next[n]
  PROVE  Steps(m, h) = Steps(l, h)
<1> DEFINE to == Steps(l, h)
           ot == Steps(m, h)
           N == Cardinality(Jobs)
<1>1. N \in Nat
  BY HowManyJobs
<1>2. /\ to \in [1 .. N + 1 -> Nodes] /\ to[1] = l.next[h]
      /\ \A i \in 1 .. N : to[i + 1] = IF to[i] = h THEN h ELSE l.next[to[i]]
  BY StepsGoOn
<1>3. /\ ot \in [1 .. N + 1 -> Nodes] /\ ot[1] = m.next[h]
      /\ \A i \in 1 .. N : ot[i + 1] = IF ot[i] = h THEN h ELSE m.next[ot[i]]
  BY StepsGoOn
<1>4. \A i \in 1 .. N + 1 : to[i] \in W \cup {h}
  BY StepsStay
<1> HIDE DEF to, ot, N
<1> DEFINE T == {i \in 1 .. N + 1 : ot[i] # to[i]}
<1>5. ASSUME T # {} PROVE FALSE
  <2>3. T \in SUBSET Nat
    BY <1>1
  <2>4. PICK i \in T : \A k \in T : i <= k
    BY <1>5, <2>3, LeastExists
  <2>5. i # 1
    BY <1>2, <1>3, <2>4
  <2>6. i - 1 \in 1 .. N /\ (i - 1) + 1 = i /\ i - 1 \in 1 .. N + 1 /\ ~ (i <= i - 1)
    BY <1>1, <2>4, <2>5
  <2>7. ot[i - 1] = to[i - 1] /\ to[i - 1] \in W \cup {h}
    BY <1>4, <2>4, <2>6
  <2>8. /\ to[i] = IF to[i - 1] = h THEN h ELSE l.next[to[i - 1]]
        /\ ot[i] = IF ot[i - 1] = h THEN h ELSE m.next[ot[i - 1]]
    BY <1>2, <1>3, <2>6
  <2> QED
    BY <2>4, <2>7, <2>8
<1>6. \A i \in 1 .. N + 1 : ot[i] = to[i]
  BY <1>5
<1>7. to = [i \in 1 .. N + 1 |-> to[i]] /\ ot = [i \in 1 .. N + 1 |-> ot[i]]
  BY <1>2, <1>3
<1> QED
  BY <1>6, <1>7 DEF ot, to

LEMMA WalkedAlike ==
  ASSUME NEW l \in LinkPointers, NEW m \in LinkPointers, NEW h \in Heads, NEW W,
         Leads(l, h, W), \A n \in W \cup {h} : m.next[n] = l.next[n]
  PROVE  Walked(m, h) = Walked(l, h)
BY StepsAlike DEF Walked

\* What a walk visits are the steps before the first that comes to the head.
LEMMA WalkedAre ==
  ASSUME NEW l \in LinkPointers, NEW h \in Heads, NEW W, Leads(l, h, W)
  PROVE  /\ Walked(l, h) \in Seq(W)
         /\ Len(Walked(l, h)) \in 0 .. Cardinality(Jobs) + 1
         /\ \A i \in 1 .. Len(Walked(l, h)) : Walked(l, h)[i] = Steps(l, h)[i]
         /\ \A i \in 1 .. Cardinality(Jobs) + 1 :
              Steps(l, h)[i] = h <=> i > Len(Walked(l, h))
<1> DEFINE to == Steps(l, h)
           N == Cardinality(Jobs)
           D == {i \in 1 .. N + 1 : to[i] = h}
<1>1. N \in Nat
  BY HowManyJobs
<1>2. /\ to \in [1 .. N + 1 -> Nodes] /\ to[1] = l.next[h]
      /\ \A i \in 1 .. N : to[i + 1] = IF to[i] = h THEN h ELSE l.next[to[i]]
  BY StepsGoOn
<1>3. \A i \in 1 .. N + 1 : to[i] \in W \cup {h}
  BY StepsStay
<1> HIDE DEF to, N
<1>4. PICK m \in 0 .. N + 1 : \A i \in 1 .. N + 1 : to[i] = h <=> i > m
  <2>1. CASE D = {}
    <3>1. N + 1 \in 0 .. N + 1 /\ \A i \in 1 .. N + 1 : ~ (i > N + 1)
      BY <1>1
    <3> QED
      BY <2>1, <3>1
  <2>2. CASE D # {}
    <3>1. D \in SUBSET Nat
      BY <1>1
    <3>2. PICK d \in D : \A k \in D : d <= k
      BY <2>2, <3>1, LeastExists
    <3> DEFINE T == {i \in 1 .. N + 1 : i > d - 1 /\ to[i] # h}
    <3>3. ASSUME T # {} PROVE FALSE
      <4>1. T \in SUBSET Nat
        BY <1>1
      <4>2. PICK i \in T : \A k \in T : i <= k
        BY <3>3, <4>1, LeastExists
      <4>3. i # d /\ d \in 1 .. N + 1 /\ i \in 1 .. N + 1 /\ i > d - 1
        BY <3>2, <4>2
      <4>4. i - 1 \in 1 .. N /\ (i - 1) + 1 = i /\ i - 1 \in 1 .. N + 1 /\ ~ (i <= i - 1)
            /\ i - 1 > d - 1
        BY <1>1, <4>3
      <4>5. to[i - 1] = h
        BY <4>2, <4>4
      <4> QED
        BY <1>2, <4>2, <4>4, <4>5
    <3>4. d - 1 \in 0 .. N + 1 /\ d \in 1 .. N + 1
      BY <1>1, <3>2
    <3>5. ASSUME NEW i \in 1 .. N + 1 PROVE to[i] = h <=> i > d - 1
      <4>1. i > d - 1 => to[i] = h
        BY <3>3
      <4>2. to[i] = h => d <= i
        BY <3>2
      <4> QED
        BY <4>1, <4>2, <3>4, <1>1
    <3> QED
      BY <3>4, <3>5
  <2> QED
    BY <2>1, <2>2
<1>5. {i \in DOMAIN to : to[i] # h} = 1 .. m
  BY <1>1, <1>2, <1>4
<1>6. Cardinality(1 .. m) = m
  <2>1. 1 \in Int /\ m \in Int /\ (IF 1 > m THEN 0 ELSE m - 1 + 1) = m
    BY <1>1, <1>4
  <2> QED
    BY <2>1, FS_Interval
<1>7. Walked(l, h) = SubSeq(to, 1, m)
  BY <1>5, <1>6 DEF Walked, to
<1>8. to \in Seq(Nodes) /\ Len(to) = N + 1
  BY <1>1, <1>2
<1>9. /\ SubSeq(to, 1, m) \in Seq(Nodes) /\ Len(SubSeq(to, 1, m)) = m
      /\ \A i \in 1 .. m : SubSeq(to, 1, m)[i] = to[i]
  <2>1. 1 \in 1 .. Len(to) + 1 /\ m \in 0 .. Len(to) /\ 1 + 0 = 1
    BY <1>1, <1>4, <1>8
  <2>2. /\ SubSeq(to, 1, m) \in Seq(Nodes)
        /\ Len(SubSeq(to, 1, m)) = IF 1 <= m THEN m - 1 + 1 ELSE 0
        /\ \A i \in 1 .. m - 1 + 1 : SubSeq(to, 1, m)[i] = to[1 + i - 1]
    BY <1>8, <2>1, SubSeqProperties
  <2>3. (IF 1 <= m THEN m - 1 + 1 ELSE 0) = m /\ m - 1 + 1 = m
        /\ \A i \in 1 .. m : 1 + i - 1 = i
    BY <1>1, <1>4
  <2> QED
    BY <2>2, <2>3
<1>10. SubSeq(to, 1, m) \in Seq(W)
  <2>1. \A i \in 1 .. m : i \in 1 .. N + 1 /\ ~ (i > m)
    BY <1>1, <1>4
  <2>2. \A i \in 1 .. m : SubSeq(to, 1, m)[i] \in W
    BY <1>3, <1>4, <1>9, <2>1
  <2> QED
    BY <1>9, <2>2
<1> QED
  BY <1>4, <1>7, <1>9, <1>10 DEF to, N

\* What next does not lead out of holds all that is visited.
LEMMA WalkedIn ==
  ASSUME NEW l \in LinkPointers, NEW h \in Heads, NEW W, Leads(l, h, W)
  PROVE  ToSet(Walked(l, h)) \subseteq W
<1> DEFINE w == Walked(l, h)
<1>1. w \in Seq(W)
  BY WalkedAre
<1> HIDE DEF w
<1>2. \A i \in 1 .. Len(w) : w[i] \in W
  BY <1>1
<1>3. ToSet(w) = {w[i] : i \in 1 .. Len(w)}
  BY <1>1 DEF ToSet
<1> QED
  BY <1>2, <1>3 DEF w

\* A walk to what is newer and newer comes back to its head, and visits a set that next does
\* not lead out of.
LEMMA WalkComesBack ==
  ASSUME NEW l \in LinkPointers, NEW h \in Heads, NEW W, Leads(l, h, W),
         NEW V, ToSet(Walked(l, h)) \subseteq V, NEW ord, Newer(l, V, ord)
  PROVE  /\ Steps(l, h)[Cardinality(Jobs) + 1] = h
         /\ Len(Walked(l, h)) \in 0 .. Cardinality(Jobs)
         /\ Leads(l, h, ToSet(Walked(l, h))) /\ ToSet(Walked(l, h)) \subseteq W
<1> DEFINE to == Steps(l, h)
           N == Cardinality(Jobs)
           w == Walked(l, h)
<1>1. N \in Nat
  BY HowManyJobs
<1>2. /\ to \in [1 .. N + 1 -> Nodes] /\ to[1] = l.next[h]
      /\ \A i \in 1 .. N : to[i + 1] = IF to[i] = h THEN h ELSE l.next[to[i]]
  BY StepsGoOn
<1>3. \A i \in 1 .. N + 1 : to[i] \in W \cup {h}
  BY StepsStay
<1>4. /\ w \in Seq(W) /\ Len(w) \in 0 .. N + 1 /\ \A i \in 1 .. Len(w) : w[i] = to[i]
      /\ \A i \in 1 .. N + 1 : to[i] = h <=> i > Len(w)
  BY WalkedAre
<1> HIDE DEF to, N, w
<1>5. h \notin Jobs /\ W \subseteq Jobs
  BY HeadsAre DEF Leads
<1>8. ToSet(w) = {w[i] : i \in 1 .. Len(w)}
  BY <1>4 DEF ToSet
<1>6. ASSUME to[N + 1] # h PROVE FALSE
  <2>1. N + 1 \in 1 .. N + 1 /\ Len(w) \in Nat
    BY <1>1, <1>4
  <2>2. ~ (N + 1 > Len(w))
    BY <1>4, <1>6, <2>1
  <2>3. \A i \in 1 .. N + 1 : to[i] \in W /\ to[i] \in V
    <3>1. \A i \in 1 .. N + 1 : ~ (i > Len(w)) /\ i \in 1 .. Len(w)
      BY <1>1, <2>1, <2>2
    <3>2. \A i \in 1 .. N + 1 : to[i] \in ToSet(w)
      BY <3>1, <1>4, <1>8
    <3> QED
      BY <3>1, <3>2, <1>3, <1>4 DEF w
  <2>4. \A i \in 1 .. N : ord[to[i]] < ord[to[i + 1]]
    <3>1. ASSUME NEW i \in 1 .. N PROVE ord[to[i]] < ord[to[i + 1]]
      <4>1. i \in 1 .. N + 1 /\ i + 1 \in 1 .. N + 1
        BY <1>1
      <4>2. to[i] \in W /\ to[i + 1] \in W /\ to[i + 1] \in Jobs
        BY <4>1, <2>3, <1>5
      <4>3. to[i + 1] = l.next[to[i]]
        BY <1>2, <1>5, <4>2
      <4> QED
        BY <4>1, <4>2, <4>3, <2>3 DEF Newer
    <3> QED
      BY <3>1
  <2>5. \A i \in 1 .. N + 1 : ord[to[i]] \in Nat
    BY <2>3, <1>5 DEF Newer
  <2>6. ASSUME NEW i \in 1 .. N + 1, NEW k \in 1 .. N + 1, i < k PROVE ord[to[i]] < ord[to[k]]
    <3> DEFINE T == {m \in i + 1 .. N + 1 : ~ (ord[to[i]] < ord[to[m]])}
    <3> SUFFICES ASSUME T # {} PROVE FALSE
      BY <1>1, <2>6
    <3>1. T \in SUBSET Nat
      BY <1>1
    <3>2. PICK m \in T : \A q \in T : m <= q
      BY <3>1, LeastExists
    <3>3. CASE m = i + 1
      <4>1. i \in 1 .. N
        BY <1>1, <3>2, <3>3
      <4> QED
        BY <4>1, <2>4, <3>2, <3>3
    <3>4. CASE m # i + 1
      <4>1. m - 1 \in i + 1 .. N + 1 /\ m - 1 \in 1 .. N /\ (m - 1) + 1 = m /\ ~ (m <= m - 1)
            /\ m \in 1 .. N + 1 /\ m - 1 \in 1 .. N + 1
        BY <1>1, <3>2, <3>4
      <4>2. ord[to[i]] < ord[to[m - 1]]
        BY <3>2, <4>1
      <4>3. ord[to[m - 1]] < ord[to[m]]
        BY <2>4, <4>1
      <4>4. /\ ord[to[i]] \in Nat /\ ord[to[m]] \in Nat /\ ord[to[m - 1]] \in Nat
            /\ ~ (ord[to[i]] < ord[to[m]])
        BY <2>5, <4>1, <3>2
      <4> QED
        BY <4>2, <4>3, <4>4
    <3> QED
      BY <3>3, <3>4
  <2>7. to \in [1 .. N + 1 -> Jobs]
    BY <1>2, <2>3, <1>5
  <2>8. IsFiniteSet(1 .. N + 1) /\ Cardinality(1 .. N + 1) = N + 1
    <3>1. 1 \in Int /\ N + 1 \in Int /\ (IF 1 > N + 1 THEN 0 ELSE N + 1 - 1 + 1) = N + 1
      BY <1>1
    <3> QED
      BY <3>1, FS_Interval
  <2>9. Cardinality(Jobs) < Cardinality(1 .. N + 1)
    BY <1>1, <2>8 DEF N
  <2>10. PICK i \in 1 .. N + 1, k \in 1 .. N + 1 : i # k /\ to[i] = to[k]
    <3>1. IsFiniteSet(Jobs)
      BY HostTransportsAssumption
    <3> DEFINE I == 1 .. N + 1
    <3> HIDE DEF I
    <3>2. IsFiniteSet(I) /\ Cardinality(Jobs) < Cardinality(I) /\ to \in [I -> Jobs]
      BY <2>7, <2>8, <2>9 DEF I
    <3>3. \E i, k \in I : i # k /\ to[i] = to[k]
      BY <3>1, <3>2, FS_PigeonHole, Zenon
    <3> QED
      BY <3>3 DEF I
  <2>11. i < k \/ k < i
    BY <2>10, <1>1
  <2> QED
    BY <2>5, <2>6, <2>10, <2>11
<1>7. Len(w) \in 0 .. N
  <2>1. N + 1 \in 1 .. N + 1 /\ Len(w) \in Nat
    BY <1>1, <1>4
  <2>2. N + 1 > Len(w)
    BY <1>4, <1>6, <2>1
  <2> QED
    BY <1>1, <2>1, <2>2
<1>9. ToSet(w) \subseteq W
  BY <1>4, <1>8
<1>10. l.next[h] \in ToSet(w) \cup {h}
  <2>1. 1 \in 1 .. N + 1 /\ (1 > Len(w) \/ 1 \in 1 .. Len(w))
    BY <1>1, <1>7
  <2> QED
    BY <2>1, <1>2, <1>4, <1>8
<1>11. ASSUME NEW n \in ToSet(w) PROVE l.next[n] \in ToSet(w) \cup {h}
  <2>1. PICK i \in 1 .. Len(w) : n = w[i]
    BY <1>8
  <2>2. i \in 1 .. N /\ i + 1 \in 1 .. N + 1 /\ (i + 1 > Len(w) \/ i + 1 \in 1 .. Len(w))
    BY <1>1, <1>7
  <2>3. to[i] = n /\ n # h
    BY <2>1, <1>4, <1>5, <1>9
  <2>4. to[i + 1] = l.next[n]
    BY <1>2, <2>2, <2>3
  <2> QED
    BY <2>2, <2>4, <1>4, <1>8
<1>12. Leads(l, h, ToSet(w))
  BY <1>5, <1>9, <1>10, <1>11 DEF Leads
<1> QED
  BY <1>6, <1>7, <1>9, <1>12 DEF to, N, w

\* The transports G and the head h are a list in both directions.
Ring(l, h, G) ==
  /\ G \subseteq Jobs
  /\ \A n \in G \cup {h} : /\ l.next[n] \in G \cup {h} /\ l.prev[n] \in G \cup {h}
                           /\ l.prev[l.next[n]] = n /\ l.next[l.prev[n]] = n

Back(l) == [next |-> l.prev, prev |-> l.next]

\* A walk of such a list visits all of it.
LEMMA RingWalked ==
  ASSUME NEW l \in LinkPointers, NEW h \in Heads, NEW G, Ring(l, h, G), NEW ord, Newer(l, G, ord)
  PROVE  Leads(l, h, G) /\ ToSet(Walked(l, h)) = G
<1> DEFINE V == ToSet(Walked(l, h))
           Left == G \ V
<1>1. Leads(l, h, G)
  BY DEF Leads, Ring
<1>2. Leads(l, h, V) /\ V \subseteq G
  BY <1>1, WalkedIn, WalkComesBack
<1>3. G \subseteq Jobs /\ h \notin Jobs /\ ord \in [Jobs -> Nat]
  BY HeadsAre DEF Ring, Newer
<1> HIDE DEF V
<1>4. ASSUME Left # {} PROVE FALSE
  <2> DEFINE T == {ord[j] : j \in Left}
  <2>1. T \in SUBSET Nat /\ T # {}
    BY <1>3, <1>4
  <2>2. PICK m \in T : \A k \in T : m <= k
    BY <2>1, LeastExists
  <2>3. PICK j \in Left : ord[j] = m
    BY <2>2
  <2>4. l.prev[j] \in G \cup {h} /\ l.next[l.prev[j]] = j
    BY <2>3 DEF Ring
  <2>5. CASE l.prev[j] = h
    BY <2>3, <2>4, <2>5, <1>2, <1>3 DEF Leads
  <2>6. CASE l.prev[j] \in G
    <3>1. ord[l.prev[j]] < ord[j]
      BY <2>3, <2>4, <2>6, <1>3 DEF Newer
    <3>2. l.prev[j] \in V
      <4>1. SUFFICES ASSUME l.prev[j] \in Left PROVE FALSE
        BY <2>6
      <4>2. ord[l.prev[j]] \in T /\ ord[l.prev[j]] \in Nat /\ ord[j] \in Nat
        BY <4>1, <1>3, <2>3
      <4>3. ord[j] <= ord[l.prev[j]]
        BY <2>2, <2>3, <4>2
      <4> QED
        BY <3>1, <4>2, <4>3
    <3>3. l.next[l.prev[j]] \in V \cup {h}
      BY <3>2, <1>2 DEF Leads
    <3> QED
      BY <2>3, <2>4, <3>3, <1>3
  <2> QED
    BY <2>4, <2>5, <2>6
<1> QED
  BY <1>1, <1>2, <1>4 DEF V

\* And backwards it visits the same, the last first.
LEMMA RingBack ==
  ASSUME NEW l \in LinkPointers, NEW h \in Heads, NEW G, Ring(l, h, G), NEW ord, Newer(l, G, ord)
  PROVE  Walked(Back(l), h) = Reverse(Walked(l, h))
<1> DEFINE to == Steps(l, h)
           ot == Steps(Back(l), h)
           N == Cardinality(Jobs)
           w == Walked(l, h)
           r == Walked(Back(l), h)
<1>1. N \in Nat
  BY HowManyJobs
<1>2. /\ to \in [1 .. N + 1 -> Nodes] /\ to[1] = l.next[h]
      /\ \A i \in 1 .. N : to[i + 1] = IF to[i] = h THEN h ELSE l.next[to[i]]
  BY StepsGoOn
<1>3. Back(l) \in LinkPointers /\ Back(l).next = l.prev
  BY DEF Back, LinkPointers
<1>4. /\ ot \in [1 .. N + 1 -> Nodes] /\ ot[1] = l.prev[h]
      /\ \A i \in 1 .. N : ot[i + 1] = IF ot[i] = h THEN h ELSE l.prev[ot[i]]
  BY <1>3, StepsGoOn
<1>5. Leads(l, h, G) /\ Leads(Back(l), h, G)
  BY <1>3 DEF Leads, Ring
<1>6. /\ w \in Seq(G) /\ Len(w) \in 0 .. N /\ \A i \in 1 .. Len(w) : w[i] = to[i]
      /\ \A i \in 1 .. N + 1 : to[i] = h <=> i > Len(w)
  BY <1>5, WalkedIn, WalkedAre, WalkComesBack
<1>7. /\ r \in Seq(G) /\ Len(r) \in 0 .. N + 1 /\ \A i \in 1 .. Len(r) : r[i] = ot[i]
      /\ \A i \in 1 .. N + 1 : ot[i] = h <=> i > Len(r)
  BY <1>3, <1>5, WalkedAre
<1>8. h \notin Jobs /\ G \subseteq Jobs
  BY HeadsAre DEF Ring
<1> HIDE DEF to, ot, N, w, r
<1>15. \A i \in 1 .. Len(w) : to[i] \in G
  BY <1>6
\* What is before the head and before each that is visited.
<1>9. ASSUME NEW i \in 1 .. N + 1, i <= Len(w) + 1
      PROVE  l.prev[to[i]] = IF i = 1 THEN h ELSE to[i - 1]
  <2>1. CASE i = 1
    BY <2>1, <1>2 DEF Ring
  <2>2. CASE i # 1
    <3>1. i - 1 \in 1 .. N /\ (i - 1) + 1 = i /\ i - 1 \in 1 .. Len(w)
      BY <1>1, <1>6, <1>9, <2>2
    <3>2. to[i - 1] \in G
      BY <1>15, <3>1
    <3>3. to[i] = l.next[to[i - 1]]
      BY <1>2, <1>8, <3>1, <3>2
    <3> QED
      BY <2>2, <3>2, <3>3 DEF Ring
  <2> QED
    BY <2>1, <2>2
<1>10. to[Len(w) + 1] = h /\ Len(w) + 1 \in 1 .. N + 1
  BY <1>1, <1>6
<1>11. ASSUME NEW i \in 1 .. Len(w) + 1
       PROVE  ot[i] = IF i = Len(w) + 1 THEN h ELSE to[Len(w) + 1 - i]
  <2> DEFINE T == {k \in 1 .. Len(w) + 1 :
                     ot[k] # IF k = Len(w) + 1 THEN h ELSE to[Len(w) + 1 - k]}
  <2> SUFFICES ASSUME T # {} PROVE FALSE
    OBVIOUS
  <2>1. T \in SUBSET Nat
    BY <1>6
  <2>2. PICK k \in T : \A q \in T : k <= q
    BY <2>1, LeastExists
  <2>3. CASE k = 1
    <3>1. l.prev[h] = IF Len(w) + 1 = 1 THEN h ELSE to[Len(w) + 1 - 1]
      BY <1>9, <1>10
    <3>2. ot[1] = IF 1 = Len(w) + 1 THEN h ELSE to[Len(w) + 1 - 1]
      BY <3>1, <1>4
    <3>3. Len(w) + 1 - k = Len(w) + 1 - 1
      BY <2>3
    <3> QED
      BY <2>2, <2>3, <3>2, <3>3
  <2>4. CASE k # 1
    <3>1. /\ k - 1 \in 1 .. Len(w) + 1 /\ k - 1 \in 1 .. N /\ (k - 1) + 1 = k /\ ~ (k <= k - 1)
          /\ k - 1 # Len(w) + 1 /\ Len(w) + 1 - (k - 1) = Len(w) + 2 - k
          /\ Len(w) + 2 - k \in 1 .. N + 1 /\ Len(w) + 2 - k <= Len(w) + 1
          /\ Len(w) + 2 - k \in 1 .. Len(w)
      BY <1>1, <1>6, <2>2, <2>4
    <3>8. k - 1 \notin T
      BY <2>2, <3>1
    <3>9. ot[k - 1] = IF k - 1 = Len(w) + 1 THEN h ELSE to[Len(w) + 1 - (k - 1)]
      BY <3>1, <3>8
    <3>2. ot[k - 1] = to[Len(w) + 2 - k]
      BY <3>1, <3>9
    <3>3. to[Len(w) + 2 - k] \in G
      BY <1>15, <3>1
    <3>4. ot[k] = l.prev[to[Len(w) + 2 - k]]
      BY <1>4, <1>8, <3>1, <3>2, <3>3
    <3>5. l.prev[to[Len(w) + 2 - k]] =
            IF Len(w) + 2 - k = 1 THEN h ELSE to[Len(w) + 2 - k - 1]
      BY <1>9, <3>1
    <3>6. (Len(w) + 2 - k = 1 <=> k = Len(w) + 1) /\ Len(w) + 2 - k - 1 = Len(w) + 1 - k
      BY <1>6, <2>2
    <3>7. ot[k] = IF k = Len(w) + 1 THEN h ELSE to[Len(w) + 1 - k]
      BY <3>4, <3>5, <3>6
    <3> QED
      BY <2>2, <3>7
  <2> QED
    BY <2>3, <2>4
<1>12. Len(r) = Len(w)
  <2>1. ot[Len(w) + 1] = h
    BY <1>6, <1>11
  <2>2. Len(w) + 1 > Len(r)
    BY <2>1, <1>7, <1>10
  <2>3. ASSUME Len(r) < Len(w) PROVE FALSE
    <3>1. /\ Len(r) + 1 \in 1 .. N + 1 /\ Len(r) + 1 > Len(r) /\ Len(r) + 1 \in 1 .. Len(w) + 1
          /\ Len(r) + 1 # Len(w) + 1 /\ Len(w) + 1 - (Len(r) + 1) \in 1 .. Len(w)
      BY <1>1, <1>6, <1>7, <2>3
    <3>2. ot[Len(r) + 1] = h
      BY <1>7, <3>1
    <3>3. ot[Len(r) + 1] = to[Len(w) + 1 - (Len(r) + 1)]
      BY <1>11, <3>1
    <3>4. to[Len(w) + 1 - (Len(r) + 1)] \in G
      BY <1>15, <3>1
    <3> QED
      BY <3>2, <3>3, <3>4, <1>8
  <2> QED
    BY <2>2, <2>3, <1>6, <1>7
<1>13. \A i \in 1 .. Len(w) : r[i] = w[Len(w) - i + 1]
  <2>1. ASSUME NEW i \in 1 .. Len(w) PROVE r[i] = w[Len(w) - i + 1]
    <3>1. /\ i \in 1 .. Len(r) /\ i \in 1 .. Len(w) + 1 /\ i # Len(w) + 1
          /\ Len(w) + 1 - i = Len(w) - i + 1 /\ Len(w) - i + 1 \in 1 .. Len(w)
      BY <1>6, <1>12
    <3> QED
      BY <3>1, <1>6, <1>7, <1>11
  <2> QED
    BY <2>1
<1>14. r = [i \in 1 .. Len(w) |-> r[i]]
  BY <1>7, <1>12
<1> QED
  BY <1>13, <1>14 DEF Reverse, w, r

\* What unlinking, appending and forgetting do to the pointers.
LEMMA UnlinkedAre ==
  ASSUME NEW l \in LinkPointers, NEW t \in Nodes
  PROVE  /\ Unlinked(l, t) \in LinkPointers
         /\ \A n \in Nodes : /\ Unlinked(l, t).next[n] = IF n = l.prev[t] THEN l.next[t]
                                                         ELSE l.next[n]
                             /\ Unlinked(l, t).prev[n] = IF n = l.next[t] THEN l.prev[t]
                                                         ELSE l.prev[n]
BY DEF Unlinked, LinkPointers

LEMMA AppendedAre ==
  ASSUME NEW l \in LinkPointers, NEW h \in Nodes, NEW t \in Nodes, t # h
  PROVE  /\ Appended(l, h, t) \in LinkPointers
         /\ \A n \in Nodes :
              /\ Appended(l, h, t).next[n] = IF n = t THEN h
                                             ELSE IF n = l.prev[h] THEN t ELSE l.next[n]
              /\ Appended(l, h, t).prev[n] = IF n = t THEN l.prev[h]
                                             ELSE IF n = h THEN t ELSE l.prev[n]
BY DEF Appended, LinkPointers

LEMMA ForgottenAre ==
  ASSUME NEW l \in LinkPointers, NEW t \in Nodes
  PROVE  /\ Forgotten(l, t) \in LinkPointers
         /\ \A n \in Nodes : /\ Forgotten(l, t).next[n] = IF n = t THEN t ELSE l.next[n]
                             /\ Forgotten(l, t).prev[n] = IF n = t THEN t ELSE l.prev[n]
BY DEF Forgotten, LinkPointers

LEMMA RingUnlinked ==
  ASSUME NEW l \in LinkPointers, NEW h \in Heads, NEW G, Ring(l, h, G), NEW t \in G
  PROVE  Ring(Unlinked(l, t), h, G \ {t})
<1>1. h \in Nodes /\ h \notin Jobs /\ G \subseteq Jobs /\ G \subseteq Nodes
  BY HeadsAre DEF Ring, Nodes
<1> DEFINE u == Unlinked(l, t)
           K == G \cup {h}
<1>2. \A n \in Nodes : /\ u.next[n] = IF n = l.prev[t] THEN l.next[t] ELSE l.next[n]
                       /\ u.prev[n] = IF n = l.next[t] THEN l.prev[t] ELSE l.prev[n]
  BY <1>1, UnlinkedAre
<1>3. /\ K \subseteq Nodes /\ t \in K /\ t # h
      /\ \A n \in K : /\ l.next[n] \in K /\ l.prev[n] \in K
                      /\ l.prev[l.next[n]] = n /\ l.next[l.prev[n]] = n
  BY <1>1 DEF Ring
<1> HIDE DEF u, K
<1>4. ASSUME NEW n \in K \ {t}
      PROVE  /\ u.next[n] \in K \ {t} /\ u.prev[n] \in K \ {t}
             /\ u.prev[u.next[n]] = n /\ u.next[u.prev[n]] = n
  <2>1. u.next[n] \in K \ {t}
    BY <1>2, <1>3, <1>4
  <2>2. u.prev[n] \in K \ {t}
    BY <1>2, <1>3, <1>4
  <2>3. u.prev[u.next[n]] = n
    BY <1>2, <1>3, <1>4
  <2>4. u.next[u.prev[n]] = n
    BY <1>2, <1>3, <1>4
  <2> QED
    BY <2>1, <2>2, <2>3, <2>4
<1>5. (G \ {t}) \cup {h} = K \ {t}
  BY <1>3 DEF K
<1> QED
  BY <1>1, <1>4, <1>5 DEF Ring, u

LEMMA RingAppended ==
  ASSUME NEW l \in LinkPointers, NEW h \in Heads, NEW G, Ring(l, h, G), NEW t \in Jobs \ G
  PROVE  Ring(Appended(l, h, t), h, G \cup {t})
<1>1. h \in Nodes /\ h \notin Jobs /\ G \subseteq Jobs /\ G \subseteq Nodes /\ t \in Nodes
  BY HeadsAre DEF Ring, Nodes
<1> DEFINE a == Appended(l, h, t)
           K == G \cup {h}
<1>2. \A n \in Nodes :
        /\ a.next[n] = IF n = t THEN h ELSE IF n = l.prev[h] THEN t ELSE l.next[n]
        /\ a.prev[n] = IF n = t THEN l.prev[h] ELSE IF n = h THEN t ELSE l.prev[n]
  BY <1>1, AppendedAre
<1>3. /\ K \subseteq Nodes /\ t \notin K /\ h \in K
      /\ \A n \in K : /\ l.next[n] \in K /\ l.prev[n] \in K
                      /\ l.prev[l.next[n]] = n /\ l.next[l.prev[n]] = n
  BY <1>1 DEF Ring
<1> HIDE DEF a, K
<1>4. ASSUME NEW n \in K \cup {t}
      PROVE  /\ a.next[n] \in K \cup {t} /\ a.prev[n] \in K \cup {t}
             /\ a.prev[a.next[n]] = n /\ a.next[a.prev[n]] = n
  <2>1. a.next[n] \in K \cup {t}
    BY <1>1, <1>2, <1>3, <1>4
  <2>2. a.prev[n] \in K \cup {t}
    BY <1>1, <1>2, <1>3, <1>4
  <2>3. a.prev[a.next[n]] = n
    BY <1>1, <1>2, <1>3, <1>4
  <2>4. a.next[a.prev[n]] = n
    BY <1>1, <1>2, <1>3, <1>4
  <2> QED
    BY <2>1, <2>2, <2>3, <2>4
<1>5. (G \cup {t}) \cup {h} = K \cup {t}
  BY DEF K
<1> QED
  BY <1>1, <1>4, <1>5 DEF Ring, a

\* A list is none of the business of who changes other pointers.
LEMMA RingElsewhere ==
  ASSUME NEW l, NEW m, NEW h, NEW G, Ring(l, h, G),
         \A n \in G \cup {h} : m.next[n] = l.next[n] /\ m.prev[n] = l.prev[n]
  PROVE  Ring(m, h, G)
BY DEF Ring

\* next goes to what is newer, prev to what is older.
InOrderOf(l, ord, G) ==
  \A n \in G : /\ l.next[n] \in Jobs => ord[n] < ord[l.next[n]]
               /\ l.prev[n] \in Jobs => ord[l.prev[n]] < ord[n]

LEMMA OrderUnlinked ==
  ASSUME NEW l \in LinkPointers, NEW ord \in [Jobs -> Nat], NEW G \in SUBSET Jobs,
         InOrderOf(l, ord, G), NEW t \in G
  PROVE  InOrderOf(Unlinked(l, t), ord, G)
<1>1. G \subseteq Nodes /\ t \in Nodes
  BY DEF Nodes
<1> DEFINE u == Unlinked(l, t)
<1>2. \A n \in Nodes : /\ u.next[n] = IF n = l.prev[t] THEN l.next[t] ELSE l.next[n]
                       /\ u.prev[n] = IF n = l.next[t] THEN l.prev[t] ELSE l.prev[n]
  BY <1>1, UnlinkedAre
<1> HIDE DEF u
<1>3. ASSUME NEW n \in G
      PROVE  /\ u.next[n] \in Jobs => ord[n] < ord[u.next[n]]
             /\ u.prev[n] \in Jobs => ord[u.prev[n]] < ord[n]
  <2>0. n \in Nodes /\ n \in Jobs /\ ord[n] \in Nat /\ ord[t] \in Nat
        /\ \A k \in Jobs : ord[k] \in Nat
    BY <1>1
  <2>1. ASSUME u.next[n] \in Jobs PROVE ord[n] < ord[u.next[n]]
    <3>1. CASE n = l.prev[t]
      <4>1. ord[n] < ord[t] /\ l.next[t] \in Jobs /\ u.next[n] = l.next[t]
        BY <1>2, <2>0, <2>1, <3>1 DEF InOrderOf
      <4>2. ord[t] < ord[l.next[t]]
        BY <4>1 DEF InOrderOf
      <4> QED
        BY <2>0, <4>1, <4>2
    <3>2. CASE n # l.prev[t]
      BY <1>2, <2>0, <2>1, <3>2 DEF InOrderOf
    <3> QED
      BY <3>1, <3>2
  <2>2. ASSUME u.prev[n] \in Jobs PROVE ord[u.prev[n]] < ord[n]
    <3>1. CASE n = l.next[t]
      <4>1. ord[t] < ord[n] /\ l.prev[t] \in Jobs /\ u.prev[n] = l.prev[t]
        BY <1>2, <2>0, <2>2, <3>1 DEF InOrderOf
      <4>2. ord[l.prev[t]] < ord[t]
        BY <4>1 DEF InOrderOf
      <4> QED
        BY <2>0, <4>1, <4>2
    <3>2. CASE n # l.next[t]
      BY <1>2, <2>0, <2>2, <3>2 DEF InOrderOf
    <3> QED
      BY <3>1, <3>2
  <2> QED
    BY <2>1, <2>2
<1> QED
  BY <1>3 DEF InOrderOf, u

LEMMA OrderAppended ==
  ASSUME NEW l \in LinkPointers, NEW h \in Heads, NEW ord \in [Jobs -> Nat], NEW b \in Nat,
         \A j \in Jobs : ord[j] <= b,
         NEW G \in SUBSET Jobs, InOrderOf(l, ord, G), NEW t \in Jobs,
         l.prev[h] # t, \A n \in G \ {t} : l.prev[n] # t
  PROVE  InOrderOf(Appended(l, h, t), [ord EXCEPT ![t] = b + 1], G \cup {t})
<1>1. h \in Nodes /\ h \notin Jobs /\ t # h /\ t \in Nodes /\ Jobs \subseteq Nodes
  BY HeadsAre DEF Nodes
<1> DEFINE a == Appended(l, h, t)
           new == [ord EXCEPT ![t] = b + 1]
<1>2. \A n \in Nodes :
        /\ a.next[n] = IF n = t THEN h ELSE IF n = l.prev[h] THEN t ELSE l.next[n]
        /\ a.prev[n] = IF n = t THEN l.prev[h] ELSE IF n = h THEN t ELSE l.prev[n]
  BY <1>1, AppendedAre
<1>3. /\ new[t] = b + 1 /\ \A j \in Jobs \ {t} : new[j] = ord[j]
      /\ \A j \in Jobs : ord[j] \in Nat /\ new[j] \in Nat /\ ord[j] <= b /\ ord[j] < b + 1
  OBVIOUS
<1> HIDE DEF a, new
<1>4. ASSUME NEW n \in G \cup {t}
      PROVE  /\ a.next[n] \in Jobs => new[n] < new[a.next[n]]
             /\ a.prev[n] \in Jobs => new[a.prev[n]] < new[n]
  <2>1. CASE n = t
    <3>1. a.next[n] \notin Jobs /\ a.prev[n] = l.prev[h]
      BY <1>1, <1>2, <2>1
    <3>2. l.prev[h] \in Jobs => new[l.prev[h]] < new[t]
      BY <1>3
    <3> QED
      BY <2>1, <3>1, <3>2
  <2>2. CASE n # t
    <3>1. n \in G /\ n \in Jobs /\ n \in Nodes /\ n # h /\ new[n] = ord[n]
      BY <1>1, <1>3, <2>2
    <3>2. a.prev[n] = l.prev[n] /\ l.prev[n] # t
      BY <1>2, <2>2, <3>1
    <3>3. l.prev[n] \in Jobs => ord[l.prev[n]] < ord[n]
      BY <3>1 DEF InOrderOf
    <3>4. CASE n = l.prev[h]
      BY <1>2, <1>3, <2>2, <3>1, <3>2, <3>3, <3>4
    <3>5. CASE n # l.prev[h]
      <4>1. a.next[n] = l.next[n]
        BY <1>2, <2>2, <3>1, <3>5
      <4>2. l.next[n] \in Jobs => ord[n] < ord[l.next[n]]
        BY <3>1 DEF InOrderOf
      <4>3. l.next[n] \in Jobs => ord[n] < new[l.next[n]]
        BY <1>3, <3>1, <4>2
      <4> QED
        BY <1>3, <3>1, <3>2, <3>3, <4>1, <4>3
    <3> QED
      BY <3>4, <3>5
  <2> QED
    BY <2>1, <2>2
<1> QED
  BY <1>4 DEF InOrderOf, a, new

\* The two lists: P waits to be shown; the pointers of Q, that has been, stay within Q; V is
\* what of Q is not freed, and all that a walk meets.  If nothing was disconnected the walk
\* meets all of V.
ListsOK(l, P, Q, V, dropped) ==
  /\ l \in LinkPointers /\ P \cap Q = {} /\ V \subseteq Q
  /\ Ring(l, Pending, P) /\ Leads(l, Listed, Q) /\ Leads(Back(l), Listed, Q)
  /\ \E ord \in [Jobs -> Nat], b \in Nat :
       (\A j \in Jobs : ord[j] <= b) /\ InOrderOf(l, ord, P \cup V)
  /\ ToSet(Walked(l, Listed)) \subseteq V
  /\ ~ dropped => Ring(l, Listed, V)

LEMMA TheHeads ==
  /\ Listed \in Heads /\ Pending \in Heads /\ Listed # Pending
  /\ Listed \in Nodes /\ Pending \in Nodes /\ Listed \notin Jobs /\ Pending \notin Jobs
  /\ Jobs \subseteq Nodes
BY HostTransportsAssumption DEF Heads, Nodes

LEMMA InOrderIsNewer ==
  ASSUME NEW l, NEW ord \in [Jobs -> Nat], NEW G, InOrderOf(l, ord, G), NEW W \in SUBSET G
  PROVE  Newer(l, W, ord)
BY DEF Newer, InOrderOf

\* What the lists being so says of their walks.
LEMMA ListsWalked ==
  ASSUME NEW l, NEW P, NEW Q, NEW V, NEW dropped, ListsOK(l, P, Q, V, dropped)
  PROVE  /\ Steps(l, Listed)[Cardinality(Jobs) + 1] = Listed
         /\ Leads(l, Listed, ToSet(Walked(l, Listed)))
         /\ ToSet(Walked(l, Pending)) = P
         /\ ~ dropped => /\ ToSet(Walked(l, Listed)) = V
                         /\ Walked(Back(l), Listed) = Reverse(Walked(l, Listed))
<1>1. PICK ord \in [Jobs -> Nat] : InOrderOf(l, ord, P \cup V)
  BY DEF ListsOK
<1>2. Newer(l, P, ord) /\ Newer(l, V, ord)
  BY <1>1, InOrderIsNewer
<1>3. l \in LinkPointers /\ Listed \in Heads /\ Pending \in Heads
  BY TheHeads DEF ListsOK
<1>4. /\ Steps(l, Listed)[Cardinality(Jobs) + 1] = Listed
      /\ Leads(l, Listed, ToSet(Walked(l, Listed)))
  BY <1>2, <1>3, WalkComesBack DEF ListsOK
<1>5. ToSet(Walked(l, Pending)) = P
  BY <1>2, <1>3, RingWalked DEF ListsOK
<1>6. ASSUME ~ dropped
      PROVE  /\ ToSet(Walked(l, Listed)) = V
             /\ Walked(Back(l), Listed) = Reverse(Walked(l, Listed))
  <2>1. Ring(l, Listed, V)
    BY <1>6 DEF ListsOK
  <2> QED
    BY <1>2, <1>3, <2>1, RingWalked, RingBack
<1> QED
  BY <1>4, <1>5, <1>6

\* A transport that is new goes to the end of pending_list.
LEMMA ListsEnlist ==
  ASSUME NEW l, NEW P, NEW Q, NEW V, NEW dropped, ListsOK(l, P, Q, V, dropped),
         NEW j \in Jobs, j \notin P, j \notin Q
  PROVE  /\ ListsOK(Appended(l, Pending, j), P \cup {j}, Q, V, dropped)
         /\ Walked(Appended(l, Pending, j), Listed) = Walked(l, Listed)
<1> DEFINE a == Appended(l, Pending, j)
<1>1. /\ l \in LinkPointers /\ P \cap Q = {} /\ V \subseteq Q
      /\ P \subseteq Jobs /\ Q \subseteq Jobs
      /\ Ring(l, Pending, P) /\ Leads(l, Listed, Q) /\ Leads(Back(l), Listed, Q)
      /\ Back(l).next = l.prev
  BY DEF ListsOK, Ring, Leads, Back
<1>2. /\ a \in LinkPointers
      /\ \A n \in Nodes :
           /\ a.next[n] = IF n = j THEN Pending ELSE IF n = l.prev[Pending] THEN j ELSE l.next[n]
           /\ a.prev[n] = IF n = j THEN l.prev[Pending] ELSE IF n = Pending THEN j ELSE l.prev[n]
  BY <1>1, TheHeads, AppendedAre
<1>3. l.prev[Pending] \in P \cup {Pending}
  BY <1>1 DEF Ring
<1>4. \A n \in Q \cup {Listed} : a.next[n] = l.next[n] /\ a.prev[n] = l.prev[n]
  BY <1>1, <1>2, <1>3, TheHeads
<1>5. Ring(a, Pending, P \cup {j})
  BY <1>1, TheHeads, RingAppended
<1>6. Leads(a, Listed, Q) /\ Leads(Back(a), Listed, Q)
  BY <1>1, <1>4 DEF Leads, Back
<1>7. Walked(a, Listed) = Walked(l, Listed)
  BY <1>1, <1>2, <1>4, TheHeads, WalkedAlike
<1>8. ~ dropped => Ring(a, Listed, V)
  BY <1>1, <1>4, RingElsewhere DEF ListsOK
<1>9. \E ord \in [Jobs -> Nat], b \in Nat :
        (\A k \in Jobs : ord[k] <= b) /\ InOrderOf(a, ord, (P \cup {j}) \cup V)
  <2>1. PICK ord \in [Jobs -> Nat], b \in Nat :
          (\A k \in Jobs : ord[k] <= b) /\ InOrderOf(l, ord, P \cup V)
    BY DEF ListsOK
  <2>2. l.prev[Pending] # j /\ \A n \in (P \cup V) \ {j} : l.prev[n] # j
    BY <1>1, <1>3, TheHeads DEF Ring, Leads
  <2>3. P \cup V \in SUBSET Jobs
    BY <1>1
  <2> DEFINE new == [ord EXCEPT ![j] = b + 1]
  <2>4. InOrderOf(a, new, (P \cup V) \cup {j})
    BY <1>1, <2>1, <2>2, <2>3, TheHeads, OrderAppended
  <2>5. new \in [Jobs -> Nat] /\ b + 1 \in Nat /\ \A k \in Jobs : new[k] <= b + 1
    <3>1. \A k \in Jobs : ord[k] \in Nat /\ new[k] = IF k = j THEN b + 1 ELSE ord[k]
      OBVIOUS
    <3>2. b + 1 \in Nat /\ b <= b + 1 /\ \A k \in Jobs : ord[k] <= b
      BY <2>1
    <3>3. new \in [Jobs -> Nat]
      OBVIOUS
    <3> HIDE DEF new
    <3>4. ASSUME NEW k \in Jobs PROVE new[k] <= b + 1
      BY <3>1, <3>2
    <3> QED
      BY <3>2, <3>3, <3>4
  <2>6. (P \cup {j}) \cup V = (P \cup V) \cup {j}
    OBVIOUS
  <2> HIDE DEF new, a
  <2> QED
    BY <2>4, <2>5, <2>6
<1> HIDE DEF a
<1>10. (P \cup {j}) \cap Q = {}
  BY <1>1
<1>11. ToSet(Walked(a, Listed)) \subseteq V
  BY <1>7 DEF ListsOK
<1>12. ListsOK(a, P \cup {j}, Q, V, dropped)
  BY <1>1, <1>2, <1>5, <1>6, <1>8, <1>9, <1>10, <1>11 DEF ListsOK
<1> QED
  BY <1>7, <1>12 DEF a

\* Main moves it to the end of transport_list.
LEMMA ListsRegister ==
  ASSUME NEW l, NEW P, NEW Q, NEW V, NEW dropped, ListsOK(l, P, Q, V, dropped),
         NEW j \in P, l.prev[Listed] \notin Q \ V
  PROVE  ListsOK(Appended(Unlinked(l, j), Listed, j), P \ {j}, Q \cup {j}, V \cup {j}, dropped)
<1> DEFINE u == Unlinked(l, j)
           a == Appended(u, Listed, j)
<1>1. /\ l \in LinkPointers /\ P \cap Q = {} /\ V \subseteq Q
      /\ P \subseteq Jobs /\ Q \subseteq Jobs
      /\ Ring(l, Pending, P) /\ Leads(l, Listed, Q) /\ Leads(Back(l), Listed, Q)
      /\ Back(l).next = l.prev /\ j \in Jobs /\ j \in Nodes /\ j \notin Q
  BY TheHeads DEF ListsOK, Ring, Leads, Back
<1>2. /\ u \in LinkPointers
      /\ \A n \in Nodes : /\ u.next[n] = IF n = l.prev[j] THEN l.next[j] ELSE l.next[n]
                          /\ u.prev[n] = IF n = l.next[j] THEN l.prev[j] ELSE l.prev[n]
  BY <1>1, UnlinkedAre
<1>3. l.prev[j] \in P \cup {Pending} /\ l.next[j] \in P \cup {Pending}
  BY <1>1 DEF Ring
<1>4. \A n \in Q \cup {Listed} : u.next[n] = l.next[n] /\ u.prev[n] = l.prev[n]
  BY <1>1, <1>2, <1>3, TheHeads
<1>5. Ring(u, Pending, P \ {j})
  BY <1>1, TheHeads, RingUnlinked
<1> HIDE DEF u
<1>6. /\ a \in LinkPointers
      /\ \A n \in Nodes :
           /\ a.next[n] = IF n = j THEN Listed ELSE IF n = u.prev[Listed] THEN j ELSE u.next[n]
           /\ a.prev[n] = IF n = j THEN u.prev[Listed] ELSE IF n = Listed THEN j ELSE u.prev[n]
  BY <1>1, <1>2, TheHeads, AppendedAre
<1> HIDE DEF a
<1>7. u.prev[Listed] = l.prev[Listed] /\ u.prev[Listed] \in Q \cup {Listed}
      /\ u.prev[Listed] \in V \cup {Listed}
  BY <1>1, <1>4 DEF Leads
<1>8. Ring(a, Pending, P \ {j})
  <2>1. \A n \in (P \ {j}) \cup {Pending} : a.next[n] = u.next[n] /\ a.prev[n] = u.prev[n]
    BY <1>1, <1>6, <1>7, TheHeads
  <2> QED
    BY <1>5, <2>1, RingElsewhere
<1>9. Leads(a, Listed, Q \cup {j}) /\ Leads(Back(a), Listed, Q \cup {j})
  <2>1. \A n \in (Q \cup {j}) \cup {Listed} :
          /\ a.next[n] \in (Q \cup {j}) \cup {Listed} /\ a.prev[n] \in (Q \cup {j}) \cup {Listed}
    BY <1>1, <1>4, <1>6, <1>7, TheHeads DEF Leads
  <2> QED
    BY <1>1, <2>1 DEF Leads, Back
<1>10. ASSUME ~ dropped PROVE Ring(a, Listed, V \cup {j})
  <2>1. Ring(u, Listed, V)
    BY <1>1, <1>4, <1>10, RingElsewhere DEF ListsOK
  <2> QED
    BY <1>1, <1>2, <2>1, TheHeads, RingAppended DEF a
<1>11. \E ord \in [Jobs -> Nat], b \in Nat :
         (\A k \in Jobs : ord[k] <= b) /\ InOrderOf(a, ord, (P \ {j}) \cup (V \cup {j}))
  <2>1. PICK ord \in [Jobs -> Nat], b \in Nat :
          (\A k \in Jobs : ord[k] <= b) /\ InOrderOf(l, ord, P \cup V)
    BY DEF ListsOK
  <2>2. InOrderOf(u, ord, P \cup V)
    BY <1>1, <2>1, OrderUnlinked DEF u
  <2>3. \A n \in (P \cup V) \ {j} : u.prev[n] # j
    <3>1. ASSUME NEW n \in P \ {j} PROVE u.prev[n] # j
      BY <1>1, <1>5, TheHeads DEF Ring
    <3>2. ASSUME NEW n \in V PROVE u.prev[n] # j
      BY <1>1, <1>4, TheHeads DEF Leads
    <3> QED
      BY <3>1, <3>2
  <2>4. P \cup V \in SUBSET Jobs /\ u.prev[Listed] # j
    BY <1>1, <1>7, TheHeads
  <2> DEFINE new == [ord EXCEPT ![j] = b + 1]
  <2>5. InOrderOf(a, new, (P \cup V) \cup {j})
    <3> DEFINE G == P \cup V
    <3>1. G \in SUBSET Jobs /\ InOrderOf(u, ord, G) /\ \A n \in G \ {j} : u.prev[n] # j
      BY <2>2, <2>3, <2>4
    <3>2. /\ u \in LinkPointers /\ Listed \in Heads /\ j \in Jobs /\ u.prev[Listed] # j
          /\ \A k \in Jobs : ord[k] <= b
      BY <1>1, <1>2, <2>1, <2>4, TheHeads
    <3> HIDE DEF G
    <3>3. InOrderOf(Appended(u, Listed, j), [ord EXCEPT ![j] = b + 1], G \cup {j})
      BY <3>1, <3>2, OrderAppended
    <3> QED
      BY <3>3 DEF G, a
  <2>6. new \in [Jobs -> Nat] /\ b + 1 \in Nat /\ \A k \in Jobs : new[k] <= b + 1
    <3>1. \A k \in Jobs : ord[k] \in Nat /\ new[k] = IF k = j THEN b + 1 ELSE ord[k]
      BY <1>1
    <3>2. b + 1 \in Nat /\ b <= b + 1 /\ \A k \in Jobs : ord[k] <= b
      BY <2>1
    <3>3. new \in [Jobs -> Nat]
      BY <1>1, <3>2
    <3> HIDE DEF new
    <3>4. ASSUME NEW k \in Jobs PROVE new[k] <= b + 1
      BY <3>1, <3>2
    <3> QED
      BY <3>2, <3>3, <3>4
  <2>7. (P \ {j}) \cup (V \cup {j}) = (P \cup V) \cup {j}
    OBVIOUS
  <2> HIDE DEF new
  <2> QED
    BY <2>5, <2>6, <2>7
<1>12. ToSet(Walked(a, Listed)) \subseteq V \cup {j}
  <2> DEFINE T == ToSet(Walked(l, Listed))
  <2>1. Leads(l, Listed, T) /\ T \subseteq V
    BY ListsWalked DEF ListsOK
  <2> HIDE DEF T
  <2>2. Leads(a, Listed, T \cup {j})
    BY <1>1, <1>4, <1>6, <2>1, TheHeads DEF Leads
  <2> QED
    BY <1>6, <2>1, <2>2, TheHeads, WalkedIn
<1>13. (P \ {j}) \cap (Q \cup {j}) = {} /\ V \cup {j} \subseteq Q \cup {j}
  BY <1>1
<1> QED
  BY <1>6, <1>8, <1>9, <1>10, <1>11, <1>12, <1>13 DEF ListsOK, a, u

\* disconnect unlinks what a walk met, so what a walk meets after is some of that.
LEMMA ListsDrop ==
  ASSUME NEW l, NEW P, NEW Q, NEW V, NEW dropped, ListsOK(l, P, Q, V, dropped),
         NEW j \in ToSet(Walked(l, Listed))
  PROVE  ListsOK(Unlinked(l, j), P, Q, V, TRUE)
<1> DEFINE u == Unlinked(l, j)
<1>1. /\ l \in LinkPointers /\ P \cap Q = {} /\ V \subseteq Q
      /\ P \subseteq Jobs /\ Q \subseteq Jobs
      /\ Ring(l, Pending, P) /\ Leads(l, Listed, Q) /\ Leads(Back(l), Listed, Q)
      /\ Back(l).next = l.prev /\ j \in V /\ j \in Jobs /\ j \in Nodes
  BY TheHeads DEF ListsOK, Ring, Leads, Back
<1>2. /\ u \in LinkPointers
      /\ \A n \in Nodes : /\ u.next[n] = IF n = l.prev[j] THEN l.next[j] ELSE l.next[n]
                          /\ u.prev[n] = IF n = l.next[j] THEN l.prev[j] ELSE l.prev[n]
  BY <1>1, UnlinkedAre
<1> HIDE DEF u
<1>3. l.prev[j] \in Q \cup {Listed} /\ l.next[j] \in Q \cup {Listed}
  BY <1>1 DEF Leads
<1>4. Ring(u, Pending, P)
  <2>1. \A n \in P \cup {Pending} : u.next[n] = l.next[n] /\ u.prev[n] = l.prev[n]
    BY <1>1, <1>2, <1>3, TheHeads
  <2> QED
    BY <1>1, <2>1, RingElsewhere
<1>5. Leads(u, Listed, Q) /\ Leads(Back(u), Listed, Q)
  <2>1. \A n \in Q \cup {Listed} : u.next[n] \in Q \cup {Listed} /\ u.prev[n] \in Q \cup {Listed}
    BY <1>1, <1>2, <1>3, TheHeads DEF Leads
  <2> QED
    BY <1>1, <2>1 DEF Leads, Back
<1>6. \E ord \in [Jobs -> Nat], b \in Nat :
        (\A k \in Jobs : ord[k] <= b) /\ InOrderOf(u, ord, P \cup V)
  <2>1. PICK ord \in [Jobs -> Nat], b \in Nat :
          (\A k \in Jobs : ord[k] <= b) /\ InOrderOf(l, ord, P \cup V)
    BY DEF ListsOK
  <2>2. InOrderOf(u, ord, P \cup V)
    BY <1>1, <2>1, OrderUnlinked DEF u
  <2> QED
    BY <2>1, <2>2
<1>7. ToSet(Walked(u, Listed)) \subseteq V
  <2> DEFINE T == ToSet(Walked(l, Listed))
  <2>1. Leads(l, Listed, T) /\ T \subseteq V /\ j \in T
    BY ListsWalked DEF ListsOK
  <2> HIDE DEF T
  <2>2. Leads(u, Listed, T)
    BY <1>1, <1>2, <2>1, TheHeads DEF Leads
  <2> QED
    BY <1>2, <2>1, <2>2, TheHeads, WalkedIn
<1> QED
  BY <1>1, <1>2, <1>4, <1>5, <1>6, <1>7 DEF ListsOK, u

\* Main unlinks what it frees.  If the walk after that meets none that was freed, it is as good
\* as before.
LEMMA ListsRemove ==
  ASSUME NEW l, NEW P, NEW Q, NEW V, NEW dropped, ListsOK(l, P, Q, V, dropped), NEW j \in V,
         \A t \in ToSet(Walked(Forgotten(Unlinked(l, j), j), Listed)) : t # j /\ t \notin Q \ V
  PROVE  ListsOK(Forgotten(Unlinked(l, j), j), P, Q, V \ {j}, dropped)
<1> DEFINE u == Unlinked(l, j)
           f == Forgotten(u, j)
<1>1. /\ l \in LinkPointers /\ P \cap Q = {} /\ V \subseteq Q
      /\ P \subseteq Jobs /\ Q \subseteq Jobs
      /\ Ring(l, Pending, P) /\ Leads(l, Listed, Q) /\ Leads(Back(l), Listed, Q)
      /\ Back(l).next = l.prev /\ j \in V /\ j \in Jobs /\ j \in Nodes
  BY TheHeads DEF ListsOK, Ring, Leads, Back
<1>2. /\ u \in LinkPointers
      /\ \A n \in Nodes : /\ u.next[n] = IF n = l.prev[j] THEN l.next[j] ELSE l.next[n]
                          /\ u.prev[n] = IF n = l.next[j] THEN l.prev[j] ELSE l.prev[n]
  BY <1>1, UnlinkedAre
<1> HIDE DEF u
<1>3. /\ f \in LinkPointers
      /\ \A n \in Nodes : /\ f.next[n] = IF n = j THEN j ELSE u.next[n]
                          /\ f.prev[n] = IF n = j THEN j ELSE u.prev[n]
  BY <1>1, <1>2, ForgottenAre
<1>4. l.prev[j] \in Q \cup {Listed} /\ l.next[j] \in Q \cup {Listed}
  BY <1>1 DEF Leads
<1>5. \A t \in ToSet(Walked(f, Listed)) : t # j /\ t \notin Q \ V
  BY DEF f, u
<1> HIDE DEF f
<1>6. Ring(f, Pending, P)
  <2>1. \A n \in P \cup {Pending} : f.next[n] = l.next[n] /\ f.prev[n] = l.prev[n]
    BY <1>1, <1>2, <1>3, <1>4, TheHeads
  <2> QED
    BY <1>1, <2>1, RingElsewhere
<1>7. Leads(f, Listed, Q) /\ Leads(Back(f), Listed, Q)
  <2>1. \A n \in Q \cup {Listed} : f.next[n] \in Q \cup {Listed} /\ f.prev[n] \in Q \cup {Listed}
    BY <1>1, <1>2, <1>3, <1>4, TheHeads DEF Leads
  <2> QED
    BY <1>1, <2>1 DEF Leads, Back
<1>8. \E ord \in [Jobs -> Nat], b \in Nat :
        (\A k \in Jobs : ord[k] <= b) /\ InOrderOf(f, ord, P \cup (V \ {j}))
  <2>1. PICK ord \in [Jobs -> Nat], b \in Nat :
          (\A k \in Jobs : ord[k] <= b) /\ InOrderOf(l, ord, P \cup V)
    BY DEF ListsOK
  <2>2. InOrderOf(u, ord, P \cup V)
    BY <1>1, <2>1, OrderUnlinked DEF u
  <2>3. InOrderOf(f, ord, P \cup (V \ {j}))
    BY <1>1, <1>3, <2>2, TheHeads DEF InOrderOf
  <2> QED
    BY <2>1, <2>3
<1>9. ToSet(Walked(f, Listed)) \subseteq V \ {j}
  BY <1>3, <1>5, <1>7, TheHeads, WalkedIn
<1>10. ASSUME ~ dropped PROVE Ring(f, Listed, V \ {j})
  <2>1. Ring(u, Listed, V \ {j})
    BY <1>1, <1>10, TheHeads, RingUnlinked DEF ListsOK, u
  <2>2. \A n \in (V \ {j}) \cup {Listed} : f.next[n] = u.next[n] /\ f.prev[n] = u.prev[n]
    BY <1>1, <1>3, TheHeads
  <2> QED
    BY <2>1, <2>2, RingElsewhere
<1>11. V \ {j} \subseteq Q
  BY <1>1
<1> QED
  BY <1>1, <1>3, <1>6, <1>7, <1>8, <1>9, <1>10, <1>11 DEF ListsOK, f, u

-----------------------------------------------------------------------------
(* HostTransports: the invariant.                                          *)

Waiting == {j \in Jobs : life[j] = "pending"}
WasListed == {j \in Jobs : life[j] \in {"listed", "dropped", "freed"}}
Alive == {j \in Jobs : life[j] \in {"listed", "dropped"}}

\* HostTransportsTypeOK, but for the bounds on the references, which are ReferencesOK's.
HostTypes ==
  /\ round \in Rounds /\ dropsAsked \in 0 .. round.drops
  /\ pc \in [Jobs -> {"idle", "check", "slots", "dial", "init", "lists", "done"}]
  /\ answer \in [Jobs -> {"none", "malformed", "already", "full", "unable", "connected"}]
  /\ life \in [Jobs -> {"none", "made", "pending", "listed", "dropped", "refused", "freed"}]
  /\ links \in LinkPointers
  /\ table \in [1 .. TableSize -> Jobs \cup {Empty}]
  /\ link \in [Jobs -> {"none", "up", "broken", "closed"}]
  /\ conn \in [Jobs -> {"new", "device", "offline"}]
  /\ kicked \in [Jobs -> BOOLEAN] /\ refs \in [Jobs -> Int]
  /\ thread \in [Jobs -> [InOut -> {"off", "run", "kick", "call", "unref", "done"}]]
  /\ posted \in [Jobs -> BOOLEAN] /\ synced \in [Jobs -> BOOLEAN] /\ fdOpen \in [Jobs -> BOOLEAN]
  /\ registration \in Seq(Jobs \X {"add", "remove"})
  /\ trackers \subseteq Followers /\ shown = [c \in Followers |-> shown[c]]

\* A job has a transport from the end of its dialling on, and what was not listed yet has no
\* thread, and no reference.
JobsOK ==
  \A j \in Jobs :
    /\ pc[j] \in {"idle", "check", "slots", "dial", "init"} => life[j] = "none"
    /\ pc[j] = "lists" => life[j] = "made"
    /\ j \notin WasListed => /\ \A th \in InOut : thread[j][th] = "off"
                             /\ ~ kicked[j] /\ ~ posted[j] /\ ~ synced[j]

\* Whatever ends a thread, the connection has ended; and who has it kicked kicks first.
ThreadsOK ==
  \A j \in Jobs :
    /\ kicked[j] \/ posted[j] \/ synced[j] => link[j] # "up"
    /\ \A th \in InOut :
         /\ thread[j][th] \notin {"off", "run"} => link[j] # "up"
         /\ thread[j][th] = "run" /\ ~ fdOpen[j] => link[j] # "up"
         /\ thread[j][th] \in {"call", "unref", "done"} => kicked[j]

\* The references that the threads have.
ThreadRefs(j) ==
  (IF thread[j]["out"] = "done" THEN 0 ELSE 1) + (IF thread[j]["in"] = "done" THEN 0 ELSE 1)

\* A reference is released by each thread as it ends, and by each disconnect.
ReferencesOK ==
  \A j \in Jobs :
    /\ refs[j] <= ThreadRefs(j) /\ (j \notin WasListed => refs[j] = 0)
    /\ j \in WasListed => /\ refs[j] >= ThreadRefs(j) - dropsAsked
                          /\ NoneDropped \/ IsEmulator(j) => refs[j] = ThreadRefs(j)

\* The registration socket adds what is pending and removes what has no reference, once.
QueueOK ==
  /\ \A i \in 1 .. Len(registration), j \in Jobs :
       /\ registration[i] = <<j, "add">> => life[j] = "pending"
       /\ registration[i] = <<j, "remove">> => j \in Alive /\ refs[j] <= 0 /\ link[j] # "up"
  /\ \A i, k \in 1 .. Len(registration) : i # k => registration[i] # registration[k]
  /\ \A j \in Jobs : life[j] = "freed" => refs[j] <= 0

\* Emulators alone are in the table, one on each port.  None is disconnected, so it is
\* there until it is kicked.
TableOK ==
  /\ OnePerPort
  /\ \A i \in 1 .. TableSize : table[i] # Empty => IsEmulator(table[i])
  /\ \A j \in Jobs :
       IsEmulator(j) =>
         /\ life[j] # "dropped"
         /\ kicked[j] => \/ \E th \in InOut : thread[j][th] = "call"
                         \/ \A i \in 1 .. TableSize : table[i] # j

ListsAreOK ==
  /\ ListsOK(links, Waiting, WasListed, Alive, ~ NoneDropped)
  /\ NoneDropped => \A j \in Jobs : life[j] # "dropped"

HostInv ==
  /\ HostTypes /\ JobsOK /\ ThreadsOK /\ ReferencesOK /\ QueueOK /\ TableOK /\ ListsAreOK
  /\ OnePerSerial /\ TrackersCurrent

-----------------------------------------------------------------------------
\* What changes nothing but how far a job has come.
OnlyJob(j) == JobStarts(j) \/ LooksForEmulator(j) \/ LooksForSlot(j) \/ CannotDial(j)

\* What ends in the use of a freed transport.
UsesFreed(j) ==
  \/ LookReadsFreed(j) \/ InitReadsFreed(j) \/ RegistersFreed(j) \/ RemovesFreed(j)
  \/ DisconnectsFreed(j) \/ \E th \in InOut : ThreadUsesFreed(j, th)

HostStep(j) ==
  \/ OnlyJob(j) \/ UsesFreed(j) \/ Dials(j) \/ Inits(j) \/ Enlists(j) \/ Breaks(j)
  \/ OutEnds(j) \/ InEnds(j)
  \/ \E th \in InOut : Kicks(j, th) \/ CallsKick(j, th) \/ Unrefs(j, th)
  \/ Registers(j) \/ Online(j) \/ Offline(j) \/ Removes(j) \/ Disconnects(j)
Tracks == \E c \in Followers : Follows(c) \/ Unfollows(c)

LEMMA HostSteps ==
  ASSUME HostTransportsNext
  PROVE  ~ undefined /\ round' = round /\ ((\E j \in Jobs : HostStep(j)) \/ Tracks)
BY DEF HostTransportsNext, JobGoesOn, ThreadGoesOn, MainGoesOn, HostStep, OnlyJob, UsesFreed,
       Tracks

LEMMA OnlyJobDoes ==
  ASSUME HostTypes, NEW j \in Jobs, OnlyJob(j)
  PROVE  /\ pc[j] \in {"idle", "check", "slots", "dial"}
         /\ \E x \in {"check", "slots", "dial", "done"} : pc' = [pc EXCEPT ![j] = x]
         /\ \E a \in {"none", "malformed", "already", "full", "unable"} :
              answer' = answer \/ answer' = [answer EXCEPT ![j] = a]
         /\ UNCHANGED <<listVars, table, link, conn, transportVars, dropsAsked, undefined,
                        trackerVars>>
<1>1. pc[j] \in {"idle", "check", "slots", "dial"}
  BY DEF OnlyJob, JobStarts, LooksForEmulator, LooksForSlot, CannotDial
<1>2. UNCHANGED <<listVars, table, link, conn, transportVars, dropsAsked, undefined, trackerVars>>
  BY DEF OnlyJob, JobStarts, LooksForEmulator, LooksForSlot, CannotDial
<1>3. \E x \in {"check", "slots", "dial", "done"} : pc' = [pc EXCEPT ![j] = x]
  BY DEF OnlyJob, JobStarts, LooksForEmulator, LooksForSlot, CannotDial, BadHost, BadPorts, Answers
<1>4. \E a \in {"none", "malformed", "already", "full", "unable"} :
              answer' = answer \/ answer' = [answer EXCEPT ![j] = a]
  BY DEF OnlyJob, JobStarts, LooksForEmulator, LooksForSlot, CannotDial, BadHost, BadPorts, Answers
<1> QED
  BY <1>1, <1>2, <1>3, <1>4

LEMMA UsesFreedDoes ==
  ASSUME NEW j \in Jobs, UsesFreed(j)
  PROVE  /\ undefined'
         /\ UNCHANGED <<jobVars, listVars, table, link, conn, transportVars, dropsAsked,
                        trackerVars>>
BY DEF UsesFreed, LookReadsFreed, InitReadsFreed, RegistersFreed, RemovesFreed, DisconnectsFreed,
       ThreadUsesFreed, UseAfterFree

\* What update_transports and its trackers leave behind.
LEMMA UpdateDoes ==
  ASSUME trackers \subseteq Followers, NEW lines, Update(lines)
  PROVE  /\ trackers' \subseteq trackers /\ shown' = [c \in Followers |-> shown'[c]]
         /\ \A c \in trackers' : shown'[c] = Shown(lines)
<1>1. PICK those \in SUBSET trackers :
        /\ shown' = [c \in Followers |-> IF c \in those THEN <<>> ELSE Sent(trackers, lines)[c]]
        /\ trackers' = trackers \ those
  BY DEF Update
<1>2. \A c \in Followers : shown'[c] = IF c \in those THEN <<>> ELSE Sent(trackers, lines)[c]
  BY <1>1
<1>3. \A c \in trackers : Sent(trackers, lines)[c] = Shown(lines)
  BY DEF Sent
<1> QED
  BY <1>1, <1>2, <1>3

LEMMA TracksDo ==
  ASSUME trackers \subseteq Followers, shown = [c \in Followers |-> shown[c]], Tracks
  PROVE  /\ trackers' \subseteq Followers /\ shown' = [c \in Followers |-> shown'[c]]
         /\ \A c \in trackers' :
              \/ c \in trackers /\ shown'[c] = shown[c]
              \/ shown'[c] = Shown(Lines(links, conn))
         /\ UNCHANGED <<jobVars, listVars, table, link, conn, transportVars, dropsAsked, undefined>>
<1>1. ASSUME NEW c \in Followers, Follows(c)
      PROVE  /\ trackers' = trackers \cup {c} /\ shown' = Sent({c}, Lines(links, conn))
             /\ UNCHANGED <<jobVars, listVars, table, link, conn, transportVars, dropsAsked,
                            undefined>>
  BY <1>1 DEF Follows, Track
<1>2. ASSUME NEW c \in Followers, Unfollows(c)
      PROVE  /\ trackers' = trackers \ {c} /\ shown' = [shown EXCEPT ![c] = <<>>]
             /\ UNCHANGED <<jobVars, listVars, table, link, conn, transportVars, dropsAsked,
                            undefined>>
  BY <1>2 DEF Unfollows, Untrack
<1>3. CASE \E c \in Followers : Follows(c)
  <2>1. PICK c \in Followers : Follows(c)
    BY <1>3
  <2> DEFINE lines == Lines(links, conn)
  <2> HIDE DEF lines
  <2>2. /\ trackers' = trackers \cup {c} /\ shown' = Sent({c}, lines)
        /\ UNCHANGED <<jobVars, listVars, table, link, conn, transportVars, dropsAsked, undefined>>
    BY <1>1, <2>1 DEF lines
  <2>3. shown' = [d \in Followers |-> IF d \in {c} THEN Shown(lines) ELSE shown[d]]
    BY <2>2 DEF Sent
  <2>4. \A d \in Followers : shown'[d] = IF d = c THEN Shown(lines) ELSE shown[d]
    BY <2>3
  <2> QED
    BY <2>2, <2>3, <2>4 DEF lines
<1>4. CASE \E c \in Followers : Unfollows(c)
  <2>1. PICK c \in Followers : Unfollows(c)
    BY <1>4
  <2>2. /\ trackers' = trackers \ {c} /\ shown' = [shown EXCEPT ![c] = <<>>]
        /\ UNCHANGED <<jobVars, listVars, table, link, conn, transportVars, dropsAsked, undefined>>
    BY <1>2, <2>1
  <2>3. shown' = [d \in Followers |-> IF d = c THEN <<>> ELSE shown[d]]
    BY <2>2
  <2> QED
    BY <2>2, <2>3
<1> QED
  BY <1>3, <1>4 DEF Tracks

LEMMA AppendedEntry ==
  ASSUME NEW q \in Seq(Jobs \X {"add", "remove"}), NEW j \in Jobs, NEW a \in {"add", "remove"}
  PROVE  /\ Append(q, <<j, a>>) \in Seq(Jobs \X {"add", "remove"})
         /\ Len(Append(q, <<j, a>>)) = Len(q) + 1
         /\ \A i \in 1 .. Len(q) + 1 :
              Append(q, <<j, a>>)[i] = IF i = Len(q) + 1 THEN <<j, a>> ELSE q[i]
OBVIOUS

LEMMA InitsDoes ==
  ASSUME HostTypes, NEW j \in Jobs, Inits(j)
  PROVE  /\ pc[j] = "init"
         /\ \/ pc' = [pc EXCEPT ![j] = "lists"] /\ life' = [life EXCEPT ![j] = "made"]
            \/ pc' = [pc EXCEPT ![j] = "done"] /\ life' = [life EXCEPT ![j] = "refused"]
         /\ \E a \in {"none", "already", "connected"} :
              answer' = answer \/ answer' = [answer EXCEPT ![j] = a]
         /\ link' = link \/ link' = [link EXCEPT ![j] = "closed"]
         /\ \/ table' = table
            \/ IsEmulator(j) /\ Matching(j) = {} /\ \E s : table' = [table EXCEPT ![s] = j]
         /\ UNCHANGED <<links, registration, conn, transportVars, dropsAsked, trackerVars>>
<1>1. /\ pc[j] = "init"
      /\ UNCHANGED <<links, registration, conn, transportVars, dropsAsked, trackerVars>>
  BY DEF Inits
<1>2. \/ pc' = [pc EXCEPT ![j] = "lists"] /\ life' = [life EXCEPT ![j] = "made"]
      \/ pc' = [pc EXCEPT ![j] = "done"] /\ life' = [life EXCEPT ![j] = "refused"]
  BY DEF Inits, Refused, Answers
<1>3. \E a \in {"none", "already", "connected"} :
        answer' = answer \/ answer' = [answer EXCEPT ![j] = a]
  BY DEF Inits, Refused, Answers
<1>4. link' = link \/ link' = [link EXCEPT ![j] = "closed"]
  <2>1. link' = link \/ link' = [link EXCEPT ![j] = link[j]]
        \/ link' = [link EXCEPT ![j] = "closed"]
    BY DEF Inits, Refused
  <2>2. [link EXCEPT ![j] = link[j]] = link
    BY DEF HostTypes
  <2> QED
    BY <2>1, <2>2
<1>5. \/ table' = table
      \/ IsEmulator(j) /\ Matching(j) = {} /\ \E s : table' = [table EXCEPT ![s] = j]
  BY DEF Inits
<1> QED
  BY <1>1, <1>2, <1>3, <1>4, <1>5

LEMMA EnlistsDoes ==
  ASSUME HostTypes, NEW j \in Jobs, Enlists(j)
  PROVE  /\ pc[j] = "lists" /\ pc' = [pc EXCEPT ![j] = "done"]
         /\ \E a \in {"none", "already", "connected"} : answer' = [answer EXCEPT ![j] = a]
         /\ \/ /\ life' = [life EXCEPT ![j] = "refused"] /\ UNCHANGED <<links, registration>>
               /\ link' = link \/ link' = [link EXCEPT ![j] = "closed"]
            \/ /\ life' = [life EXCEPT ![j] = "pending"] /\ ~ SerialTaken(j)
               /\ links' = Appended(links, Pending, j)
               /\ registration' = Append(registration, <<j, "add">>)
               /\ UNCHANGED link
         /\ UNCHANGED <<table, conn, transportVars, dropsAsked, trackerVars>>
<1>1. /\ pc[j] = "lists" /\ pc' = [pc EXCEPT ![j] = "done"]
      /\ UNCHANGED <<table, conn, transportVars, dropsAsked, trackerVars>>
  BY DEF Enlists, Refused, Answers
<1>2. \E a \in {"none", "already", "connected"} : answer' = [answer EXCEPT ![j] = a]
  BY DEF Enlists, Refused, Answers
<1>3. CASE SerialTaken(j)
  <2>1. /\ life' = [life EXCEPT ![j] = "refused"] /\ UNCHANGED <<links, registration>>
        /\ link' = [link EXCEPT ![j] = link[j]] \/ link' = [link EXCEPT ![j] = "closed"]
    BY <1>3 DEF Enlists, Refused
  <2>2. [link EXCEPT ![j] = link[j]] = link
    BY DEF HostTypes
  <2> QED
    BY <1>1, <1>2, <2>1, <2>2
<1>4. CASE ~ SerialTaken(j)
  BY <1>1, <1>2, <1>4 DEF Enlists
<1> QED
  BY <1>3, <1>4

LEMMA UnrefDoes ==
  ASSUME HostTypes, NEW j \in Jobs, Unref(j)
  PROVE  /\ refs' = [refs EXCEPT ![j] = refs[j] - 1]
         /\ refs[j] # 1 => UNCHANGED <<fdOpen, registration>>
         /\ refs[j] = 1 => /\ fdOpen' = [fdOpen EXCEPT ![j] = FALSE]
                           /\ registration' = Append(registration, <<j, "remove">>)
         /\ refs' \in [Jobs -> Int] /\ fdOpen' \in [Jobs -> BOOLEAN]
         /\ registration' \in Seq(Jobs \X {"add", "remove"})
<1>1. /\ refs' = [refs EXCEPT ![j] = refs[j] - 1]
      /\ refs[j] # 1 => UNCHANGED <<fdOpen, registration>>
      /\ refs[j] = 1 => /\ fdOpen' = [fdOpen EXCEPT ![j] = FALSE]
                        /\ registration' = Append(registration, <<j, "remove">>)
  BY DEF Unref
<1>2. Append(registration, <<j, "remove">>) \in Seq(Jobs \X {"add", "remove"})
  BY AppendedEntry DEF HostTypes
<1>3. refs' \in [Jobs -> Int]
  BY <1>1 DEF HostTypes
<1>4. fdOpen' \in [Jobs -> BOOLEAN]
  BY <1>1 DEF HostTypes
<1>5. registration' \in Seq(Jobs \X {"add", "remove"})
  BY <1>1, <1>2 DEF HostTypes
<1> QED
  BY <1>1, <1>3, <1>4, <1>5

LEMMA KickDoes ==
  ASSUME HostTypes, NEW j \in Jobs, Kick(j)
  PROVE  /\ link' = [link EXCEPT ![j] = "closed"]
         /\ link' \in [Jobs -> {"none", "up", "broken", "closed"}]
         /\ table' \in [1 .. TableSize -> Jobs \cup {Empty}]
         /\ \A i \in 1 .. TableSize : table'[i] = IF table[i] = j THEN Empty ELSE table[i]
BY DEF Kick, HostTypes

LEMMA DisconnectsDoes ==
  ASSUME HostTypes, NEW j \in Jobs, Disconnects(j)
  PROVE  /\ j \in ToSet(Walked(links, Listed)) /\ ~ IsEmulator(j)
         /\ dropsAsked < round.drops /\ dropsAsked' = dropsAsked + 1
         /\ links' = Unlinked(links, j) /\ life' = [life EXCEPT ![j] = "dropped"]
         /\ kicked' = [kicked EXCEPT ![j] = TRUE]
         /\ kicked[j] => UNCHANGED <<table, link>>
         /\ ~ kicked[j] => Kick(j)
         /\ Unref(j)
         /\ UNCHANGED <<jobVars, conn, thread, posted, synced, trackerVars>>
BY DEF Disconnects, DropAsked, Drops, Droppable

LEMMA TypesKept ==
  ASSUME HostTypes, HostTransportsNext
  PROVE  HostTypes'
<1> USE DEF HostTypes, listVars, jobVars, transportVars, trackerVars
<1>1. ~ undefined /\ round' = round /\ ((\E j \in Jobs : HostStep(j)) \/ Tracks)
  BY HostSteps
<1>2. CASE Tracks
  BY <1>1, <1>2, TracksDo
<1>3. ASSUME NEW j \in Jobs, OnlyJob(j) PROVE HostTypes'
  <2>1. /\ \E x \in {"check", "slots", "dial", "done"} : pc' = [pc EXCEPT ![j] = x]
        /\ \E a \in {"none", "malformed", "already", "full", "unable"} :
             answer' = answer \/ answer' = [answer EXCEPT ![j] = a]
        /\ UNCHANGED <<listVars, table, link, conn, transportVars, dropsAsked, undefined,
                       trackerVars>>
    BY <1>3, OnlyJobDoes
  <2> QED
    BY <1>1, <2>1
<1>4. ASSUME NEW j \in Jobs, UsesFreed(j) PROVE HostTypes'
  BY <1>1, <1>4, UsesFreedDoes
<1>5. ASSUME NEW j \in Jobs, Dials(j) PROVE HostTypes'
  BY <1>1, <1>5 DEF Dials
<1>6. ASSUME NEW j \in Jobs, Inits(j) PROVE HostTypes'
  <2>0. /\ \/ pc' = [pc EXCEPT ![j] = "lists"] /\ life' = [life EXCEPT ![j] = "made"]
           \/ pc' = [pc EXCEPT ![j] = "done"] /\ life' = [life EXCEPT ![j] = "refused"]
        /\ table' = table \/ \E s : table' = [table EXCEPT ![s] = j]
    BY <1>6, InitsDoes
  <2>1. pc' \in [Jobs -> {"idle", "check", "slots", "dial", "init", "lists", "done"}]
    BY <2>0
  <2>2. life' \in [Jobs -> {"none", "made", "pending", "listed", "dropped", "refused", "freed"}]
    BY <2>0
  <2>3. answer' \in [Jobs -> {"none", "malformed", "already", "full", "unable", "connected"}]
    BY <1>6, InitsDoes
  <2>4. link' \in [Jobs -> {"none", "up", "broken", "closed"}]
    <3>1. link' = link \/ link' = [link EXCEPT ![j] = "closed"]
      BY <1>6, InitsDoes, Zenon
    <3> QED
      BY <3>1
  <2>5. table' \in [1 .. TableSize -> Jobs \cup {Empty}]
    <3>1. CASE table' = table
      BY <3>1
    <3>2. ASSUME NEW s, table' = [table EXCEPT ![s] = j]
          PROVE  table' \in [1 .. TableSize -> Jobs \cup {Empty}]
      <4>1. table' = [i \in 1 .. TableSize |-> IF i = s THEN j ELSE table[i]]
        BY <3>2
      <4>2. \A i \in 1 .. TableSize :
              (IF i = s THEN j ELSE table[i]) \in Jobs \cup {Empty}
        OBVIOUS
      <4> QED
        BY <4>1, <4>2
    <3> QED
      BY <2>0, <3>1, <3>2
  <2>6. UNCHANGED <<links, registration, conn, transportVars, dropsAsked, trackerVars>>
    BY <1>6, InitsDoes
  <2> QED
    BY <1>1, <2>1, <2>2, <2>3, <2>4, <2>5, <2>6
<1>7. ASSUME NEW j \in Jobs, Enlists(j) PROVE HostTypes'
  <2>1. Append(registration, <<j, "add">>) \in Seq(Jobs \X {"add", "remove"})
    BY AppendedEntry
  <2>2. Appended(links, Pending, j) \in LinkPointers
    BY AppendedAre, TheHeads
  <2>0. life' = [life EXCEPT ![j] = "refused"] \/ life' = [life EXCEPT ![j] = "pending"]
    BY <1>7, EnlistsDoes
  <2>3. life' \in [Jobs -> {"none", "made", "pending", "listed", "dropped", "refused", "freed"}]
    BY <2>0
  <2>4. links' \in LinkPointers /\ registration' \in Seq(Jobs \X {"add", "remove"})
    BY <1>7, <2>1, <2>2, EnlistsDoes
  <2>5. link' \in [Jobs -> {"none", "up", "broken", "closed"}]
    <3>1. link' = link \/ link' = [link EXCEPT ![j] = "closed"]
      BY <1>7, EnlistsDoes, Zenon
    <3> QED
      BY <3>1
  <2>6. answer' \in [Jobs -> {"none", "malformed", "already", "full", "unable", "connected"}]
    BY <1>7, EnlistsDoes
  <2>7. pc' \in [Jobs -> {"idle", "check", "slots", "dial", "init", "lists", "done"}]
    <3>1. pc' = [pc EXCEPT ![j] = "done"]
      BY <1>7, EnlistsDoes, Zenon
    <3> QED
      BY <3>1
  <2>8. UNCHANGED <<table, conn, transportVars, dropsAsked, trackerVars>>
    BY <1>7, EnlistsDoes
  <2> QED
    BY <1>1, <2>3, <2>4, <2>5, <2>6, <2>7, <2>8
<1>8. ASSUME NEW j \in Jobs, Breaks(j) PROVE HostTypes'
  BY <1>1, <1>8 DEF Breaks
<1>9. ASSUME NEW j \in Jobs, OutEnds(j) \/ InEnds(j) PROVE HostTypes'
  <2>1. \E th \in InOut : thread' = [thread EXCEPT ![j][th] = "kick"]
    BY <1>9 DEF OutEnds, InEnds, MovesTo, InOut
  <2>2. /\ posted' \in [Jobs -> BOOLEAN]
        /\ UNCHANGED <<jobVars, listVars, table, link, conn, kicked, refs, synced, fdOpen,
                       dropsAsked, trackerVars>>
    BY <1>9 DEF OutEnds, InEnds
  <2>3. thread' \in [Jobs -> [InOut -> {"off", "run", "kick", "call", "unref", "done"}]]
    BY <2>1
  <2> QED
    BY <1>1, <2>2, <2>3
<1>10. ASSUME NEW j \in Jobs, NEW th \in InOut, Kicks(j, th) PROVE HostTypes'
  BY <1>1, <1>10 DEF Kicks, MovesTo
<1>11. ASSUME NEW j \in Jobs, NEW th \in InOut, CallsKick(j, th) PROVE HostTypes'
  BY <1>1, <1>11 DEF CallsKick, Kick, MovesTo
<1>12. ASSUME NEW j \in Jobs, NEW th \in InOut, Unrefs(j, th) PROVE HostTypes'
  <2>1. Unref(j) /\ thread' = [thread EXCEPT ![j][th] = "done"]
        /\ UNCHANGED <<jobVars, life, links, table, link, conn, kicked, posted, synced, dropsAsked,
                       trackerVars>>
    BY <1>12 DEF Unrefs, MovesTo
  <2>2. /\ refs' \in [Jobs -> Int] /\ fdOpen' \in [Jobs -> BOOLEAN]
        /\ registration' \in Seq(Jobs \X {"add", "remove"})
    BY <2>1, UnrefDoes
  <2>3. thread' \in [Jobs -> [InOut -> {"off", "run", "kick", "call", "unref", "done"}]]
    BY <2>1
  <2> QED
    BY <1>1, <2>1, <2>2, <2>3
<1>13. ASSUME NEW j \in Jobs, Registers(j) PROVE HostTypes'
  <2>1. Unlinked(links, j) \in LinkPointers
    BY UnlinkedAre, TheHeads
  <2>2. Appended(Unlinked(links, j), Listed, j) \in LinkPointers
    BY <2>1, AppendedAre, TheHeads
  <2> DEFINE moved == Appended(Unlinked(links, j), Listed, j)
             lines == Lines(moved, conn)
  <2>3. Update(lines) /\ links' = moved
    BY <1>13 DEF Registers
  <2> HIDE DEF moved, lines
  <2>4. trackers' \subseteq Followers /\ shown' = [c \in Followers |-> shown'[c]]
    BY <2>3, UpdateDoes
  <2>5. registration # <<>> /\ registration' = Tail(registration)
    BY <1>13 DEF Registers, RegistrationOf
  <2>6. /\ life' = [life EXCEPT ![j] = "listed"] /\ refs' = [refs EXCEPT ![j] = 2]
        /\ thread' = [thread EXCEPT ![j] = [th \in InOut |-> "run"]]
        /\ fdOpen' = [fdOpen EXCEPT ![j] = TRUE]
        /\ UNCHANGED <<jobVars, table, link, conn, kicked, posted, synced, dropsAsked>>
    BY <1>13 DEF Registers
  <2>7. registration' \in Seq(Jobs \X {"add", "remove"})
    BY <2>5
  <2> QED
    BY <1>1, <2>2, <2>3, <2>4, <2>6, <2>7 DEF moved
<1>14. ASSUME NEW j \in Jobs, Online(j) PROVE HostTypes'
  <2> DEFINE lines == Lines(links, conn')
  <2>1. Update(lines)
    BY <1>14 DEF Online
  <2> HIDE DEF lines
  <2>2. trackers' \subseteq Followers /\ shown' = [c \in Followers |-> shown'[c]]
    BY <2>1, UpdateDoes
  <2> QED
    BY <1>1, <1>14, <2>2 DEF Online
<1>15. ASSUME NEW j \in Jobs, Offline(j) PROVE HostTypes'
  BY <1>1, <1>15 DEF Offline
<1>16. ASSUME NEW j \in Jobs, Removes(j) PROVE HostTypes'
  <2>1. Unlinked(links, j) \in LinkPointers
    BY UnlinkedAre, TheHeads
  <2>2. LinksWithout(j) \in LinkPointers
    BY <2>1, ForgottenAre, TheHeads DEF LinksWithout
  <2> DEFINE lines == Lines(links', conn)
  <2>3. Update(lines) /\ links' = LinksWithout(j)
    BY <1>16 DEF Removes
  <2> HIDE DEF lines
  <2>4. trackers' \subseteq Followers /\ shown' = [c \in Followers |-> shown'[c]]
    BY <2>3, UpdateDoes
  <2>5. registration # <<>> /\ registration' = Tail(registration)
    BY <1>16 DEF Removes, RemovalOf
  <2>6. /\ life' = [life EXCEPT ![j] = "freed"]
        /\ fdOpen' = [fdOpen EXCEPT ![j] = FALSE] /\ posted' = [posted EXCEPT ![j] = FALSE]
        /\ conn' = [conn EXCEPT ![j] = "new"] /\ synced' = [synced EXCEPT ![j] = FALSE]
        /\ UNCHANGED <<jobVars, table, link, kicked, refs, thread, dropsAsked>>
    BY <1>16 DEF Removes
  <2>7. registration' \in Seq(Jobs \X {"add", "remove"})
    BY <2>5
  <2> QED
    BY <1>1, <2>2, <2>3, <2>4, <2>6, <2>7
<1>17. ASSUME NEW j \in Jobs, Disconnects(j) PROVE HostTypes'
  <2>1. /\ refs' \in [Jobs -> Int] /\ fdOpen' \in [Jobs -> BOOLEAN]
        /\ registration' \in Seq(Jobs \X {"add", "remove"})
    BY <1>17, DisconnectsDoes, UnrefDoes
  <2>2. links' \in LinkPointers
    BY <1>17, DisconnectsDoes, UnlinkedAre, TheHeads
  <2>3. dropsAsked' \in 0 .. round.drops
    <3>1. round.drops \in Nat /\ dropsAsked < round.drops /\ dropsAsked' = dropsAsked + 1
      BY <1>17, DisconnectsDoes, HostTransportsAssumption
    <3> QED
      BY <3>1
  <2>4. /\ link' \in [Jobs -> {"none", "up", "broken", "closed"}]
        /\ table' \in [1 .. TableSize -> Jobs \cup {Empty}]
    <3>1. CASE kicked[j]
      BY <1>17, <3>1, DisconnectsDoes
    <3>2. CASE ~ kicked[j]
      BY <1>17, <3>2, DisconnectsDoes, KickDoes
    <3> QED
      BY <3>1, <3>2
  <2>5. /\ life' \in [Jobs -> {"none", "made", "pending", "listed", "dropped", "refused", "freed"}]
        /\ kicked' \in [Jobs -> BOOLEAN]
    <3>1. life' = [life EXCEPT ![j] = "dropped"] /\ kicked' = [kicked EXCEPT ![j] = TRUE]
      BY <1>17, DisconnectsDoes
    <3> QED
      BY <3>1
  <2>6. UNCHANGED <<jobVars, conn, thread, posted, synced, trackerVars>>
    BY <1>17, DisconnectsDoes
  <2> QED
    BY <1>1, <2>1, <2>2, <2>3, <2>4, <2>5, <2>6
<1> QED
  BY <1>1, <1>2, <1>3, <1>4, <1>5, <1>6, <1>7, <1>8, <1>9, <1>10, <1>11, <1>12, <1>13, <1>14, <1>15,
     <1>16, <1>17 DEF HostStep
LEMMA QueueHead ==
  ASSUME registration \in Seq(Jobs \X {"add", "remove"}), registration # <<>>
  PROVE  /\ 1 \in 1 .. Len(registration) /\ Head(registration) = registration[1]
         /\ Len(Tail(registration)) = Len(registration) - 1
         /\ \A i \in 1 .. Len(registration) - 1 :
              i + 1 \in 1 .. Len(registration) /\ Tail(registration)[i] = registration[i + 1]
OBVIOUS

LEMMA RegistersDoes ==
  ASSUME HostTypes, QueueOK, NEW j \in Jobs, Registers(j)
  PROVE  /\ life[j] = "pending" /\ registration # <<>> /\ registration' = Tail(registration)
         /\ registration[1] = <<j, "add">> /\ ~ Gone(links.prev[Listed])
         /\ links' = Appended(Unlinked(links, j), Listed, j)
         /\ life' = [life EXCEPT ![j] = "listed"] /\ refs' = [refs EXCEPT ![j] = 2]
         /\ thread' = [thread EXCEPT ![j] = [th \in InOut |-> "run"]]
         /\ fdOpen' = [fdOpen EXCEPT ![j] = TRUE]
         /\ Update(Lines(links', conn'))
         /\ UNCHANGED <<jobVars, table, link, conn, kicked, posted, synced, dropsAsked, undefined>>
<1>1. /\ registration # <<>> /\ Head(registration) = <<j, "add">>
      /\ registration' = Tail(registration)
      /\ ~ Gone(links.prev[Listed])
  BY DEF Registers, RegistrationOf
<1>2. 1 \in 1 .. Len(registration) /\ registration[1] = <<j, "add">>
  BY <1>1, QueueHead DEF HostTypes
<1>3. life[j] = "pending"
  BY <1>2 DEF QueueOK
<1>4. conn' = conn /\ links' = Appended(Unlinked(links, j), Listed, j)
      /\ Update(Lines(Appended(Unlinked(links, j), Listed, j), conn))
  BY DEF Registers
<1>5. Update(Lines(links', conn'))
  BY <1>4
<1> QED
  BY <1>1, <1>2, <1>3, <1>4, <1>5 DEF Registers

LEMMA RemovesDoes ==
  ASSUME HostTypes, QueueOK, NEW j \in Jobs, Removes(j)
  PROVE  /\ j \in Alive /\ refs[j] <= 0 /\ link[j] # "up"
         /\ registration # <<>> /\ registration' = Tail(registration)
         /\ registration[1] = <<j, "remove">>
         /\ links' = LinksWithout(j)
         /\ \A t \in ToSet(Walked(LinksWithout(j), Listed)) : t # j /\ ~ Gone(t)
         /\ life' = [life EXCEPT ![j] = "freed"]
         /\ fdOpen' = [fdOpen EXCEPT ![j] = FALSE] /\ posted' = [posted EXCEPT ![j] = FALSE]
         /\ conn' = [conn EXCEPT ![j] = "new"] /\ synced' = [synced EXCEPT ![j] = FALSE]
         /\ Update(Lines(links', conn))
         /\ UNCHANGED <<jobVars, table, link, kicked, refs, thread, dropsAsked, undefined>>
<1>1. /\ registration # <<>> /\ Head(registration) = <<j, "remove">>
      /\ registration' = Tail(registration) /\ ~ LeadsToFreed(j)
  BY DEF Removes, RemovalOf
<1>2. 1 \in 1 .. Len(registration) /\ registration[1] = <<j, "remove">>
  BY <1>1, QueueHead DEF HostTypes
<1>3. j \in Alive /\ refs[j] <= 0 /\ link[j] # "up"
  BY <1>2 DEF QueueOK
<1>4. \A t \in ToSet(Walked(LinksWithout(j), Listed)) : t # j /\ ~ Gone(t)
  BY <1>1 DEF LeadsToFreed
<1> QED
  BY <1>1, <1>2, <1>3, <1>4 DEF Removes

LEMMA DropsAlive ==
  ASSUME ListsAreOK, NEW j \in Jobs, Disconnects(j)
  PROVE  j \in Alive
BY DEF Disconnects, DropAsked, ListsAreOK, ListsOK

LEMMA JobsKept ==
  ASSUME HostInv, HostTransportsNext
  PROVE  JobsOK'
<1> USE DEF listVars, jobVars, transportVars, trackerVars
<1>0. HostTypes /\ JobsOK /\ QueueOK /\ ListsAreOK
  BY DEF HostInv
<1>1. ~ undefined /\ round' = round /\ ((\E j \in Jobs : HostStep(j)) \/ Tracks)
  BY HostSteps
<1> DEFINE OK(k) ==
      /\ pc[k] \in {"idle", "check", "slots", "dial", "init"} => life[k] = "none"
      /\ pc[k] = "lists" => life[k] = "made"
      /\ k \notin WasListed => /\ \A th \in InOut : thread[k][th] = "off"
                               /\ ~ kicked[k] /\ ~ posted[k] /\ ~ synced[k]
<1> SUFFICES ASSUME NEW k \in Jobs PROVE OK(k)'
  BY DEF JobsOK
<1>b. OK(k)
  BY <1>0 DEF JobsOK
<1>2. CASE Tracks
  <2>1. UNCHANGED <<pc, life, thread, kicked, posted, synced>>
    BY <1>0, <1>2, TracksDo DEF HostTypes
  <2> QED
    BY <2>1, <1>b DEF WasListed
<1>3. ASSUME NEW j \in Jobs, OnlyJob(j) PROVE OK(k)'
  <2>1. /\ pc[j] \in {"idle", "check", "slots", "dial"}
        /\ \E x \in {"check", "slots", "dial", "done"} : pc' = [pc EXCEPT ![j] = x]
        /\ UNCHANGED <<life, thread, kicked, posted, synced>>
    BY <1>0, <1>3, OnlyJobDoes
  <2> QED
    BY <2>1, <1>0, <1>b DEF WasListed, HostTypes
<1>4. ASSUME NEW j \in Jobs, UsesFreed(j) PROVE OK(k)'
  <2>1. UNCHANGED <<pc, life, thread, kicked, posted, synced>>
    BY <1>4, UsesFreedDoes
  <2> QED
    BY <2>1, <1>b DEF WasListed
<1>5. ASSUME NEW j \in Jobs, Dials(j) PROVE OK(k)'
  <2>1. /\ pc[j] = "dial" /\ pc' = [pc EXCEPT ![j] = "init"]
        /\ UNCHANGED <<life, thread, kicked, posted, synced>>
    BY <1>5 DEF Dials
  <2> QED
    BY <2>1, <1>0, <1>b DEF WasListed, HostTypes
<1>6. ASSUME NEW j \in Jobs, Inits(j) PROVE OK(k)'
  <2>1. /\ pc[j] = "init"
        /\ \/ pc' = [pc EXCEPT ![j] = "lists"] /\ life' = [life EXCEPT ![j] = "made"]
           \/ pc' = [pc EXCEPT ![j] = "done"] /\ life' = [life EXCEPT ![j] = "refused"]
        /\ UNCHANGED <<thread, kicked, posted, synced>>
    BY <1>0, <1>6, InitsDoes
  <2> QED
    BY <2>1, <1>0, <1>b DEF WasListed, HostTypes
<1>7. ASSUME NEW j \in Jobs, Enlists(j) PROVE OK(k)'
  <2>1. /\ pc[j] = "lists" /\ pc' = [pc EXCEPT ![j] = "done"]
        /\ life' = [life EXCEPT ![j] = "refused"] \/ life' = [life EXCEPT ![j] = "pending"]
        /\ UNCHANGED <<thread, kicked, posted, synced>>
    BY <1>0, <1>7, EnlistsDoes
  <2> QED
    BY <2>1, <1>0, <1>b DEF WasListed, HostTypes
<1>8. ASSUME NEW j \in Jobs, Breaks(j) PROVE OK(k)'
  <2>1. UNCHANGED <<pc, life, thread, kicked, posted, synced>>
    BY <1>8 DEF Breaks
  <2> QED
    BY <2>1, <1>b DEF WasListed
\* A thread that moves was started, so its transport was listed.
<1>9. ASSUME NEW j \in Jobs, NEW th \in InOut, thread[j][th] # "off",
             UNCHANGED <<pc, life, synced>>, NEW place, thread' = [thread EXCEPT ![j][th] = place],
             kicked' = kicked \/ kicked' = [kicked EXCEPT ![j] = TRUE],
             posted' = posted \/ posted' = [posted EXCEPT ![j] = TRUE]
      PROVE  OK(k)'
  <2>1. j \in WasListed
    BY <1>0, <1>9 DEF JobsOK
  <2>2. CASE k = j
    BY <2>1, <2>2, <1>9, <1>b DEF WasListed
  <2>3. CASE k # j
    <3>1. thread'[k] = thread[k] /\ kicked'[k] = kicked[k] /\ posted'[k] = posted[k]
      BY <1>0, <1>9, <2>3 DEF HostTypes
    <3> QED
      BY <3>1, <1>9, <1>b DEF WasListed
  <2> QED
    BY <2>2, <2>3
<1>10. ASSUME NEW j \in Jobs, OutEnds(j) \/ InEnds(j) PROVE OK(k)'
  <2>1. CASE OutEnds(j)
    <3>1. /\ thread[j]["out"] # "off" /\ "out" \in InOut
          /\ thread' = [thread EXCEPT ![j]["out"] = "kick"]
          /\ posted' = [posted EXCEPT ![j] = TRUE] /\ UNCHANGED <<pc, life, synced, kicked>>
      BY <2>1 DEF OutEnds, MovesTo, InOut
    <3> QED
      BY <3>1, <1>9
  <2>2. CASE InEnds(j)
    <3>1. /\ thread[j]["in"] # "off" /\ "in" \in InOut
          /\ thread' = [thread EXCEPT ![j]["in"] = "kick"]
          /\ UNCHANGED <<pc, life, synced, kicked, posted>>
      BY <2>2 DEF InEnds, MovesTo, InOut
    <3> QED
      BY <3>1, <1>9
  <2> QED
    BY <1>10, <2>1, <2>2
<1>11. ASSUME NEW j \in Jobs, NEW th \in InOut, Kicks(j, th) \/ CallsKick(j, th) \/ Unrefs(j, th)
       PROVE  OK(k)'
  <2>1. /\ thread[j][th] # "off" /\ \E place : thread' = [thread EXCEPT ![j][th] = place]
        /\ UNCHANGED <<pc, life, synced, posted>>
        /\ kicked' = kicked \/ kicked' = [kicked EXCEPT ![j] = TRUE]
    BY <1>11 DEF Kicks, CallsKick, Unrefs, MovesTo
  <2> QED
    BY <2>1, <1>9
<1>12. ASSUME NEW j \in Jobs, Registers(j) PROVE OK(k)'
  <2>1. /\ life[j] = "pending" /\ life' = [life EXCEPT ![j] = "listed"]
        /\ thread' = [thread EXCEPT ![j] = [th \in InOut |-> "run"]]
        /\ UNCHANGED <<pc, kicked, posted, synced>>
    BY <1>0, <1>12, RegistersDoes
  <2>2. j \in WasListed'
    BY <2>1, <1>0 DEF WasListed, HostTypes
  <2> QED
    BY <2>1, <2>2, <1>0, <1>b DEF WasListed, HostTypes
<1>13. ASSUME NEW j \in Jobs, Online(j) PROVE OK(k)'
  <2>1. UNCHANGED <<pc, life, thread, kicked, posted, synced>>
    BY <1>13 DEF Online
  <2> QED
    BY <2>1, <1>b DEF WasListed
<1>14. ASSUME NEW j \in Jobs, Offline(j) PROVE OK(k)'
  <2>1. /\ j \in WasListed /\ posted' = [posted EXCEPT ![j] = FALSE]
        /\ synced' = [synced EXCEPT ![j] = TRUE]
        /\ UNCHANGED <<pc, life, thread, kicked>>
    BY <1>14 DEF Offline, WasListed
  <2> QED
    BY <2>1, <1>0, <1>b DEF WasListed, HostTypes
<1>15. ASSUME NEW j \in Jobs, Removes(j) PROVE OK(k)'
  <2>1. /\ j \in Alive /\ life' = [life EXCEPT ![j] = "freed"]
        /\ posted' = [posted EXCEPT ![j] = FALSE] /\ synced' = [synced EXCEPT ![j] = FALSE]
        /\ UNCHANGED <<pc, thread, kicked>>
    BY <1>0, <1>15, RemovesDoes
  <2> QED
    BY <2>1, <1>0, <1>b DEF WasListed, Alive, HostTypes
<1>16. ASSUME NEW j \in Jobs, Disconnects(j) PROVE OK(k)'
  <2>1. /\ j \in Alive /\ life' = [life EXCEPT ![j] = "dropped"]
        /\ kicked' = [kicked EXCEPT ![j] = TRUE] /\ UNCHANGED <<pc, thread, posted, synced>>
    BY <1>0, <1>16, DropsAlive, DisconnectsDoes
  <2> QED
    BY <2>1, <1>0, <1>b DEF WasListed, Alive, HostTypes
<1> QED
  BY <1>1, <1>2, <1>3, <1>4, <1>5, <1>6, <1>7, <1>8, <1>10, <1>11, <1>12, <1>13, <1>14, <1>15,
     <1>16 DEF HostStep

LEMMA ThreadsKept ==
  ASSUME HostInv, HostTransportsNext
  PROVE  ThreadsOK'
<1> USE DEF listVars, jobVars, transportVars, trackerVars
<1>0. HostTypes /\ JobsOK /\ ThreadsOK /\ QueueOK /\ ListsAreOK
  BY DEF HostInv
<1>1. ~ undefined /\ round' = round /\ ((\E j \in Jobs : HostStep(j)) \/ Tracks)
  BY HostSteps
<1> DEFINE OK(k) ==
      /\ kicked[k] \/ posted[k] \/ synced[k] => link[k] # "up"
      /\ \A th \in InOut :
           /\ thread[k][th] \notin {"off", "run"} => link[k] # "up"
           /\ thread[k][th] = "run" /\ ~ fdOpen[k] => link[k] # "up"
           /\ thread[k][th] \in {"call", "unref", "done"} => kicked[k]
<1> SUFFICES ASSUME NEW k \in Jobs PROVE OK(k)'
  BY DEF ThreadsOK
<1>b. OK(k)
  BY <1>0 DEF ThreadsOK
<1>2. ASSUME UNCHANGED <<kicked, posted, synced, link, thread, fdOpen>> PROVE OK(k)'
  BY <1>2, <1>b
<1>3. ASSUME NEW j \in Jobs,
             OnlyJob(j) \/ UsesFreed(j) \/ Online(j) \/ Tracks
      PROVE  OK(k)'
  <2>1. CASE OnlyJob(j)
    BY <1>0, <1>2, <2>1, OnlyJobDoes
  <2>2. CASE UsesFreed(j)
    BY <1>2, <2>2, UsesFreedDoes
  <2>3. CASE Online(j)
    BY <1>2, <2>3 DEF Online
  <2>4. CASE Tracks
    BY <1>0, <1>2, <2>4, TracksDo DEF HostTypes
  <2> QED
    BY <1>3, <2>1, <2>2, <2>3, <2>4
<1>4. ASSUME Tracks PROVE OK(k)'
  BY <1>3, <1>4
<1>5. ASSUME NEW j \in Jobs, Dials(j) PROVE OK(k)'
  <2>1. /\ pc[j] = "dial" /\ link' = [link EXCEPT ![j] = "up"]
        /\ UNCHANGED <<kicked, posted, synced, thread, fdOpen>>
    BY <1>5 DEF Dials
  <2>2. /\ \A th \in InOut : thread[j][th] = "off"
        /\ ~ kicked[j] /\ ~ posted[j] /\ ~ synced[j]
    BY <2>1, <1>0 DEF JobsOK, WasListed
  <2>3. CASE k = j
    BY <2>1, <2>2, <2>3, <1>b
  <2>4. CASE k # j
    <3>1. link'[k] = link[k]
      BY <2>1, <2>4, <1>0 DEF HostTypes
    <3> QED
      BY <2>1, <3>1, <1>b
  <2> QED
    BY <2>3, <2>4
\* A connection that ends is none that is up.
<1>6. ASSUME NEW j \in Jobs, UNCHANGED <<kicked, posted, synced, thread, fdOpen>>,
             \/ link' = link \/ link' = [link EXCEPT ![j] = "closed"]
             \/ link' = [link EXCEPT ![j] = "broken"]
      PROVE  OK(k)'
  <2>1. link'[k] = "up" => link[k] = "up"
    BY <1>6, <1>0 DEF HostTypes
  <2> QED
    BY <2>1, <1>6, <1>b
<1>7. ASSUME NEW j \in Jobs, Inits(j) \/ Enlists(j) PROVE OK(k)'
  <2>1. CASE Inits(j)
    BY <1>0, <1>6, <2>1, InitsDoes
  <2>2. CASE Enlists(j)
    BY <1>0, <1>6, <2>2, EnlistsDoes
  <2> QED
    BY <1>7, <2>1, <2>2
<1>8. ASSUME NEW j \in Jobs, Breaks(j) PROVE OK(k)'
  BY <1>6, <1>8 DEF Breaks
<1>9. ASSUME NEW j \in Jobs, OutEnds(j) PROVE OK(k)'
  <2>1. /\ link[j] # "up" /\ thread' = [thread EXCEPT ![j]["out"] = "kick"]
        /\ posted' = [posted EXCEPT ![j] = TRUE] /\ UNCHANGED <<link, kicked, synced, fdOpen>>
    BY <1>9 DEF OutEnds, MovesTo
  <2> QED
    BY <2>1, <1>0, <1>b DEF HostTypes, InOut
<1>10. ASSUME NEW j \in Jobs, InEnds(j) PROVE OK(k)'
  <2>1. /\ thread[j]["in"] = "run" /\ (synced[j] \/ ~ fdOpen[j])
        /\ thread' = [thread EXCEPT ![j]["in"] = "kick"]
        /\ UNCHANGED <<link, kicked, posted, synced, fdOpen>>
    BY <1>10 DEF InEnds, MovesTo
  <2>2. link[j] # "up"
    BY <2>1, <1>0 DEF ThreadsOK, InOut
  <2>3. CASE k = j
    BY <2>1, <2>2, <2>3, <1>0, <1>b DEF HostTypes, InOut
  <2>4. CASE k # j
    <3>1. thread'[k] = thread[k]
      BY <2>1, <2>4, <1>0 DEF HostTypes
    <3> QED
      BY <2>1, <3>1, <1>b
  <2> QED
    BY <2>3, <2>4
<1>11. ASSUME NEW j \in Jobs, NEW th \in InOut, Kicks(j, th) PROVE OK(k)'
  <2>1. /\ thread[j][th] = "kick" /\ kicked' = [kicked EXCEPT ![j] = TRUE]
        /\ thread' = [thread EXCEPT ![j][th] = IF kicked[j] THEN "unref" ELSE "call"]
        /\ UNCHANGED <<link, posted, synced, fdOpen>>
    BY <1>11 DEF Kicks, MovesTo
  <2>2. link[j] # "up"
    BY <2>1, <1>0 DEF ThreadsOK
  <2>3. CASE k = j
    BY <2>1, <2>2, <2>3, <1>0, <1>b DEF HostTypes
  <2>4. CASE k # j
    BY <2>1, <2>4, <1>0, <1>b DEF HostTypes
  <2> QED
    BY <2>3, <2>4
<1>12. ASSUME NEW j \in Jobs, NEW th \in InOut, CallsKick(j, th) PROVE OK(k)'
  <2>1. /\ thread[j][th] = "call" /\ link' = [link EXCEPT ![j] = "closed"]
        /\ thread' = [thread EXCEPT ![j][th] = "unref"]
        /\ UNCHANGED <<kicked, posted, synced, fdOpen>>
    BY <1>12 DEF CallsKick, Kick, MovesTo
  <2>2. kicked[j]
    BY <2>1, <1>0 DEF ThreadsOK
  <2>3. CASE k = j
    BY <2>1, <2>2, <2>3, <1>0, <1>b DEF HostTypes
  <2>4. CASE k # j
    BY <2>1, <2>4, <1>0, <1>b DEF HostTypes
  <2> QED
    BY <2>3, <2>4
<1>13. ASSUME NEW j \in Jobs, NEW th \in InOut, Unrefs(j, th) PROVE OK(k)'
  <2>1. /\ thread[j][th] = "unref" /\ thread' = [thread EXCEPT ![j][th] = "done"]
        /\ Unref(j) /\ UNCHANGED <<link, kicked, posted, synced>>
    BY <1>13 DEF Unrefs, MovesTo
  <2>2. kicked[j] /\ link[j] # "up"
    BY <2>1, <1>0 DEF ThreadsOK
  <2>3. fdOpen' = fdOpen \/ fdOpen' = [fdOpen EXCEPT ![j] = FALSE]
    BY <2>1, <1>0, UnrefDoes
  <2>4. CASE k = j
    BY <2>1, <2>2, <2>4, <1>0, <1>b DEF HostTypes
  <2>5. CASE k # j
    <3>1. fdOpen'[k] = fdOpen[k] /\ thread'[k] = thread[k]
      BY <2>1, <2>3, <2>5, <1>0 DEF HostTypes
    <3> QED
      BY <2>1, <3>1, <1>b
  <2> QED
    BY <2>4, <2>5
<1>14. ASSUME NEW j \in Jobs, Registers(j) PROVE OK(k)'
  <2>1. /\ life[j] = "pending" /\ thread' = [thread EXCEPT ![j] = [th \in InOut |-> "run"]]
        /\ fdOpen' = [fdOpen EXCEPT ![j] = TRUE] /\ UNCHANGED <<link, kicked, posted, synced>>
    BY <1>0, <1>14, RegistersDoes
  <2>2. CASE k = j
    BY <2>1, <2>2, <1>0, <1>b DEF HostTypes
  <2>3. CASE k # j
    BY <2>1, <2>3, <1>0, <1>b DEF HostTypes
  <2> QED
    BY <2>2, <2>3
<1>15. ASSUME NEW j \in Jobs, Offline(j) PROVE OK(k)'
  <2>1. /\ posted[j] /\ posted' = [posted EXCEPT ![j] = FALSE]
        /\ synced' = [synced EXCEPT ![j] = TRUE] /\ UNCHANGED <<link, kicked, thread, fdOpen>>
    BY <1>15 DEF Offline
  <2>2. link[j] # "up"
    BY <2>1, <1>0 DEF ThreadsOK
  <2> QED
    BY <2>1, <2>2, <1>0, <1>b DEF HostTypes
<1>16. ASSUME NEW j \in Jobs, Removes(j) PROVE OK(k)'
  <2>1. /\ link[j] # "up" /\ fdOpen' = [fdOpen EXCEPT ![j] = FALSE]
        /\ posted' = [posted EXCEPT ![j] = FALSE] /\ synced' = [synced EXCEPT ![j] = FALSE]
        /\ UNCHANGED <<link, kicked, thread>>
    BY <1>0, <1>16, RemovesDoes
  <2> QED
    BY <2>1, <1>0, <1>b DEF HostTypes
<1>17. ASSUME NEW j \in Jobs, Disconnects(j) PROVE OK(k)'
  <2>1. /\ kicked' = [kicked EXCEPT ![j] = TRUE] /\ Unref(j)
        /\ kicked[j] => link' = link
        /\ ~ kicked[j] => Kick(j)
        /\ UNCHANGED <<thread, posted, synced>>
    BY <1>0, <1>17, DisconnectsDoes
  <2>2. link' = [link EXCEPT ![j] = "closed"] \/ (link' = link /\ kicked[j])
    BY <1>0, <2>1, KickDoes
  <2>3. link'[j] # "up" /\ (k # j => link'[k] = link[k])
    BY <2>2, <1>0 DEF HostTypes, ThreadsOK
  <2>4. fdOpen' = fdOpen \/ fdOpen' = [fdOpen EXCEPT ![j] = FALSE]
    BY <2>1, <1>0, UnrefDoes
  <2>5. CASE k = j
    BY <2>1, <2>3, <2>5, <1>0, <1>b DEF HostTypes
  <2>6. CASE k # j
    <3>1. fdOpen'[k] = fdOpen[k] /\ link'[k] = link[k] /\ kicked'[k] = kicked[k]
      BY <2>1, <2>3, <2>4, <2>6, <1>0 DEF HostTypes
    <3> QED
      BY <2>1, <3>1, <1>b
  <2> QED
    BY <2>5, <2>6
<1> QED
  BY <1>1, <1>3, <1>4, <1>5, <1>7, <1>8, <1>9, <1>10, <1>11, <1>12, <1>13, <1>14, <1>15, <1>16,
     <1>17 DEF HostStep

LEMMA ThreadRefsAre ==
  ASSUME NEW j \in Jobs
  PROVE  ThreadRefs(j) \in 0 .. 2
BY DEF ThreadRefs

\* A thread that ends lets its reference go; one that moves on otherwise keeps it.
LEMMA ThreadRefsMove ==
  ASSUME HostTypes, NEW j \in Jobs, NEW th \in InOut, thread[j][th] # "done",
         NEW place, thread' = [thread EXCEPT ![j][th] = place], NEW k \in Jobs
  PROVE  ThreadRefs(k)' = IF k = j /\ place = "done" THEN ThreadRefs(k) - 1 ELSE ThreadRefs(k)
<1>1. k # j => thread'[k] = thread[k]
  BY DEF HostTypes
<1>2. \A x \in InOut : thread'[j][x] = IF x = th THEN place ELSE thread[j][x]
  BY DEF HostTypes
<1>3. CASE th = "out"
  BY <1>1, <1>2, <1>3 DEF ThreadRefs, InOut
<1>4. CASE th = "in"
  BY <1>1, <1>2, <1>4 DEF ThreadRefs, InOut
<1> QED
  BY <1>3, <1>4 DEF InOut

LEMMA ReferencesKept ==
  ASSUME HostInv, HostTransportsNext
  PROVE  ReferencesOK'
<1> USE DEF listVars, jobVars, transportVars, trackerVars
<1>0. HostTypes /\ JobsOK /\ ReferencesOK /\ QueueOK /\ ListsAreOK
  BY DEF HostInv
<1>1. ~ undefined /\ round' = round /\ ((\E j \in Jobs : HostStep(j)) \/ Tracks)
  BY HostSteps
<1> DEFINE OK(k) ==
      /\ refs[k] <= ThreadRefs(k) /\ (k \notin WasListed => refs[k] = 0)
      /\ k \in WasListed => /\ refs[k] >= ThreadRefs(k) - dropsAsked
                            /\ NoneDropped \/ IsEmulator(k) => refs[k] = ThreadRefs(k)
<1> SUFFICES ASSUME NEW k \in Jobs PROVE OK(k)'
  BY DEF ReferencesOK
<1>b. OK(k) /\ ThreadRefs(k) \in 0 .. 2 /\ refs[k] \in Int /\ dropsAsked \in Nat
  <2>1. round \in Rounds /\ dropsAsked \in 0 .. round.drops /\ refs \in [Jobs -> Int]
    BY <1>0 DEF HostTypes
  <2> QED
    BY <1>0, <2>1, ThreadRefsAre DEF ReferencesOK
\* Most steps leave the references, and those who hold them, as they are.
<1>2. ASSUME UNCHANGED <<refs, thread, dropsAsked>>, k \in WasListed' <=> k \in WasListed
      PROVE  OK(k)'
  <2>1. ThreadRefs(k)' = ThreadRefs(k) /\ NoneDropped' = NoneDropped
    BY <1>2 DEF ThreadRefs, NoneDropped
  <2> QED
    BY <1>2, <1>b, <2>1 DEF IsEmulator
<1>3. ASSUME UNCHANGED <<life, refs, thread, dropsAsked>> PROVE OK(k)'
  BY <1>2, <1>3 DEF WasListed
<1>4. CASE Tracks
  BY <1>0, <1>3, <1>4, TracksDo DEF HostTypes
<1>5. ASSUME NEW j \in Jobs, OnlyJob(j) PROVE OK(k)'
  BY <1>0, <1>3, <1>5, OnlyJobDoes
<1>6. ASSUME NEW j \in Jobs, UsesFreed(j) PROVE OK(k)'
  BY <1>3, <1>6, UsesFreedDoes
<1>7. ASSUME NEW j \in Jobs, Dials(j) \/ Breaks(j) \/ Online(j) \/ Offline(j) PROVE OK(k)'
  BY <1>3, <1>7 DEF Dials, Breaks, Online, Offline
\* What is not listed yet does not become so here.
<1>8. ASSUME NEW j \in Jobs, UNCHANGED <<refs, thread, dropsAsked>>, life[j] \in {"none", "made"},
             NEW x, x \in {"made", "refused", "pending"}, life' = [life EXCEPT ![j] = x]
      PROVE  OK(k)'
  <2>1. k \in WasListed' <=> k \in WasListed
    BY <1>0, <1>8 DEF WasListed, HostTypes
  <2> QED
    BY <1>2, <1>8, <2>1
<1>9. ASSUME NEW j \in Jobs, Inits(j) PROVE OK(k)'
  <2>1. /\ pc[j] = "init" /\ UNCHANGED <<refs, thread, dropsAsked>>
        /\ life' = [life EXCEPT ![j] = "made"] \/ life' = [life EXCEPT ![j] = "refused"]
    BY <1>0, <1>9, InitsDoes
  <2>2. life[j] = "none"
    BY <1>0, <2>1 DEF JobsOK
  <2> QED
    BY <1>8, <2>1, <2>2
<1>10. ASSUME NEW j \in Jobs, Enlists(j) PROVE OK(k)'
  <2>1. /\ pc[j] = "lists" /\ UNCHANGED <<refs, thread, dropsAsked>>
        /\ life' = [life EXCEPT ![j] = "refused"] \/ life' = [life EXCEPT ![j] = "pending"]
    BY <1>0, <1>10, EnlistsDoes
  <2>2. life[j] = "made"
    BY <1>0, <2>1 DEF JobsOK
  <2> QED
    BY <1>8, <2>1, <2>2
\* A thread that goes on keeps its reference.
<1>11. ASSUME NEW j \in Jobs, NEW th \in InOut, thread[j][th] # "done", NEW place, place # "done",
              thread' = [thread EXCEPT ![j][th] = place], UNCHANGED <<life, refs, dropsAsked>>
       PROVE  OK(k)'
  <2>1. ThreadRefs(k)' = ThreadRefs(k) /\ NoneDropped' = NoneDropped /\ WasListed' = WasListed
    BY <1>0, <1>11, ThreadRefsMove DEF NoneDropped, WasListed
  <2> QED
    BY <1>11, <1>b, <2>1 DEF IsEmulator
<1>12. ASSUME NEW j \in Jobs, OutEnds(j) \/ InEnds(j) PROVE OK(k)'
  <2>1. CASE OutEnds(j)
    <3>1. /\ thread[j]["out"] # "done" /\ "out" \in InOut
          /\ thread' = [thread EXCEPT ![j]["out"] = "kick"]
          /\ UNCHANGED <<life, refs, dropsAsked>>
      BY <2>1 DEF OutEnds, MovesTo, InOut
    <3> QED
      BY <3>1, <1>11
  <2>2. CASE InEnds(j)
    <3>1. /\ thread[j]["in"] # "done" /\ "in" \in InOut
          /\ thread' = [thread EXCEPT ![j]["in"] = "kick"]
          /\ UNCHANGED <<life, refs, dropsAsked>>
      BY <2>2 DEF InEnds, MovesTo, InOut
    <3> QED
      BY <3>1, <1>11
  <2> QED
    BY <1>12, <2>1, <2>2
<1>13. ASSUME NEW j \in Jobs, NEW th \in InOut, Kicks(j, th) \/ CallsKick(j, th) PROVE OK(k)'
  <2>1. /\ thread[j][th] # "done"
        /\ \E place \in {"unref", "call"} : thread' = [thread EXCEPT ![j][th] = place]
        /\ UNCHANGED <<life, refs, dropsAsked>>
    BY <1>13 DEF Kicks, CallsKick, MovesTo
  <2> QED
    BY <2>1, <1>11
<1>14. ASSUME NEW j \in Jobs, NEW th \in InOut, Unrefs(j, th) PROVE OK(k)'
  <2>1. /\ thread[j][th] = "unref" /\ thread' = [thread EXCEPT ![j][th] = "done"]
        /\ Unref(j) /\ UNCHANGED <<life, dropsAsked>>
    BY <1>14 DEF Unrefs, MovesTo
  <2>2. refs' = [refs EXCEPT ![j] = refs[j] - 1]
    BY <1>0, <2>1, UnrefDoes
  <2>3. j \in WasListed
    BY <1>0, <2>1 DEF JobsOK
  <2>4. /\ ThreadRefs(k)' = IF k = j THEN ThreadRefs(k) - 1 ELSE ThreadRefs(k)
        /\ NoneDropped' = NoneDropped /\ WasListed' = WasListed
    BY <1>0, <2>1, ThreadRefsMove DEF NoneDropped, WasListed
  <2>5. refs'[k] = IF k = j THEN refs[k] - 1 ELSE refs[k]
    BY <1>0, <2>2 DEF HostTypes
  <2> QED
    BY <2>1, <2>3, <2>4, <2>5, <1>b DEF IsEmulator
<1>15. ASSUME NEW j \in Jobs, Registers(j) PROVE OK(k)'
  <2>1. /\ life' = [life EXCEPT ![j] = "listed"] /\ refs' = [refs EXCEPT ![j] = 2]
        /\ thread' = [thread EXCEPT ![j] = [th \in InOut |-> "run"]] /\ dropsAsked' = dropsAsked
    BY <1>0, <1>15, RegistersDoes
  <2>2. CASE k = j
    <3>1. refs'[k] = 2 /\ ThreadRefs(k)' = 2 /\ k \in WasListed'
      BY <1>0, <2>1, <2>2 DEF HostTypes, ThreadRefs, InOut, WasListed
    <3> QED
      BY <3>1, <2>1, <1>b
  <2>3. CASE k # j
    <3>1. /\ refs'[k] = refs[k] /\ ThreadRefs(k)' = ThreadRefs(k)
          /\ k \in WasListed' <=> k \in WasListed
      BY <1>0, <2>1, <2>3 DEF HostTypes, ThreadRefs, WasListed
    <3> QED
      BY <3>1, <2>1, <1>b DEF NoneDropped, IsEmulator
  <2> QED
    BY <2>2, <2>3
<1>16. ASSUME NEW j \in Jobs, Removes(j) PROVE OK(k)'
  <2>1. /\ j \in Alive /\ life' = [life EXCEPT ![j] = "freed"]
        /\ UNCHANGED <<refs, thread, dropsAsked>>
    BY <1>0, <1>16, RemovesDoes
  <2>2. k \in WasListed' <=> k \in WasListed
    BY <1>0, <2>1 DEF Alive, WasListed, HostTypes
  <2> QED
    BY <1>2, <2>1, <2>2
<1>17. ASSUME NEW j \in Jobs, Disconnects(j) PROVE OK(k)'
  <2>1. /\ j \in Alive /\ ~ IsEmulator(j) /\ dropsAsked' = dropsAsked + 1
        /\ life' = [life EXCEPT ![j] = "dropped"] /\ Unref(j) /\ thread' = thread
    BY <1>0, <1>17, DropsAlive, DisconnectsDoes
  <2>2. refs' = [refs EXCEPT ![j] = refs[j] - 1]
    BY <1>0, <2>1, UnrefDoes
  <2>3. refs'[k] = IF k = j THEN refs[k] - 1 ELSE refs[k]
    BY <1>0, <2>2 DEF HostTypes
  <2>4. (k \in WasListed' <=> k \in WasListed) /\ j \in WasListed /\ ThreadRefs(k)' = ThreadRefs(k)
    BY <1>0, <2>1 DEF Alive, WasListed, HostTypes, ThreadRefs
  <2>5. ~ NoneDropped'
    BY <2>1, <1>b DEF NoneDropped
  <2> QED
    BY <2>1, <2>3, <2>4, <2>5, <1>b DEF IsEmulator
<1> QED
  BY <1>1, <1>4, <1>5, <1>6, <1>7, <1>9, <1>10, <1>12, <1>13, <1>14, <1>15, <1>16, <1>17
     DEF HostStep

LEMMA QueueKept ==
  ASSUME HostInv, HostTransportsNext
  PROVE  QueueOK'
<1> USE DEF listVars, jobVars, transportVars, trackerVars
<1>0. HostTypes /\ JobsOK /\ ThreadsOK /\ ReferencesOK /\ QueueOK /\ ListsAreOK
  BY DEF HostInv
<1>1. ~ undefined /\ round' = round /\ ((\E j \in Jobs : HostStep(j)) \/ Tracks)
  BY HostSteps
\* What an entry says stays so when the queue does, unless its transport changes.
<1>2. ASSUME UNCHANGED <<registration, refs>>,
             \A k \in Jobs : life[k] = "pending" => life'[k] = "pending",
             \A k \in Jobs : k \in Alive => k \in Alive',
             \A k \in Jobs : k \in Alive /\ link'[k] = "up" => link[k] = "up",
             \A k \in Jobs : life'[k] = "freed" => life[k] = "freed"
      PROVE  QueueOK'
  BY <1>0, <1>2 DEF QueueOK
<1>3. ASSUME UNCHANGED <<registration, refs, life, link>> PROVE QueueOK'
  BY <1>2, <1>3 DEF Alive
<1>4. CASE Tracks
  BY <1>0, <1>3, <1>4, TracksDo DEF HostTypes
<1>5. ASSUME NEW j \in Jobs, OnlyJob(j) PROVE QueueOK'
  BY <1>0, <1>3, <1>5, OnlyJobDoes
<1>6. ASSUME NEW j \in Jobs, UsesFreed(j) PROVE QueueOK'
  BY <1>3, <1>6, UsesFreedDoes
<1>7. ASSUME NEW j \in Jobs, OutEnds(j) \/ InEnds(j) \/ Online(j) \/ Offline(j) PROVE QueueOK'
  BY <1>3, <1>7 DEF OutEnds, InEnds, Online, Offline
<1>8. ASSUME NEW j \in Jobs, NEW th \in InOut, Kicks(j, th) PROVE QueueOK'
  BY <1>3, <1>8 DEF Kicks
<1>9. ASSUME NEW j \in Jobs, Dials(j) PROVE QueueOK'
  <2>1. /\ pc[j] = "dial" /\ link' = [link EXCEPT ![j] = "up"]
        /\ UNCHANGED <<registration, refs, life>>
    BY <1>9 DEF Dials
  <2>2. j \notin Alive
    BY <1>0, <2>1 DEF JobsOK, Alive
  <2>3. \A k \in Jobs : k # j => link'[k] = link[k]
    BY <1>0, <2>1 DEF HostTypes
  <2> QED
    BY <1>2, <2>1, <2>2, <2>3 DEF Alive
\* A connection ends.
<1>10. ASSUME NEW j \in Jobs, UNCHANGED <<registration, refs, life>>,
              \/ link' = [link EXCEPT ![j] = "broken"] \/ link' = [link EXCEPT ![j] = "closed"]
       PROVE  QueueOK'
  <2>1. \A k \in Jobs : link'[k] = "up" => link[k] = "up"
    BY <1>0, <1>10 DEF HostTypes
  <2> QED
    BY <1>2, <1>10, <2>1 DEF Alive
<1>11. ASSUME NEW j \in Jobs, Breaks(j) PROVE QueueOK'
  BY <1>10, <1>11 DEF Breaks
<1>12. ASSUME NEW j \in Jobs, NEW th \in InOut, CallsKick(j, th) PROVE QueueOK'
  BY <1>10, <1>12 DEF CallsKick, Kick
<1>13. ASSUME NEW j \in Jobs, Inits(j) PROVE QueueOK'
  <2>1. /\ pc[j] = "init" /\ UNCHANGED <<registration, refs>>
        /\ life' = [life EXCEPT ![j] = "made"] \/ life' = [life EXCEPT ![j] = "refused"]
        /\ link' = link \/ link' = [link EXCEPT ![j] = "closed"]
    BY <1>0, <1>13, InitsDoes
  <2>2. life[j] = "none"
    BY <1>0, <2>1 DEF JobsOK
  <2>3. \A k \in Jobs : link'[k] = "up" => link[k] = "up"
    BY <1>0, <2>1 DEF HostTypes
  <2>4. /\ \A k \in Jobs : life[k] = "pending" => life'[k] = "pending"
        /\ \A k \in Jobs : life'[k] = "freed" => life[k] = "freed"
        /\ \A k \in Jobs : k \in Alive => k \in Alive'
    BY <1>0, <2>1, <2>2 DEF HostTypes, Alive
  <2> QED
    BY <1>2, <2>1, <2>3, <2>4
\* A new entry is put at the end.
<1>14. ASSUME NEW j \in Jobs, NEW a \in {"add", "remove"},
              registration' = Append(registration, <<j, a>>),
              \A i \in 1 .. Len(registration) : registration[i] # <<j, a>>,
              \A k \in Jobs : life[k] = "pending" => life'[k] = "pending",
              \A k \in Jobs : k \in Alive => k \in Alive',
              \A k \in Jobs : k \in Alive /\ link'[k] = "up" => link[k] = "up",
              \A k \in Jobs : life'[k] = "freed" => life[k] = "freed",
              \A k \in Jobs : refs'[k] <= refs[k],
              a = "add" => life'[j] = "pending",
              a = "remove" => j \in Alive' /\ refs'[j] <= 0 /\ link'[j] # "up",
              refs' \in [Jobs -> Int]
       PROVE  QueueOK'
  <2> DEFINE q == registration'
  <2>1. /\ Len(q) = Len(registration) + 1 /\ Len(registration) \in Nat
        /\ \A i \in 1 .. Len(registration) + 1 :
             q[i] = IF i = Len(registration) + 1 THEN <<j, a>> ELSE registration[i]
    BY <1>0, <1>14, AppendedEntry DEF HostTypes
  <2> HIDE DEF q
  <2>2. \A k \in Jobs : refs[k] \in Int /\ refs'[k] \in Int /\ (refs[k] <= 0 => refs'[k] <= 0)
    BY <1>0, <1>14 DEF HostTypes
  <2>3. ASSUME NEW i \in 1 .. Len(q), NEW k \in Jobs
        PROVE  /\ q[i] = <<k, "add">> => life'[k] = "pending"
               /\ q[i] = <<k, "remove">> => k \in Alive' /\ refs'[k] <= 0 /\ link'[k] # "up"
    <3>1. CASE i = Len(registration) + 1
      <4>1. q[i] = <<j, a>>
        BY <2>1, <2>3, <3>1
      <4>2. /\ q[i] = <<k, "add">> => k = j /\ a = "add"
            /\ q[i] = <<k, "remove">> => k = j /\ a = "remove"
        BY <4>1
      <4> QED
        BY <4>2, <1>14
    <3>2. CASE i # Len(registration) + 1
      <4>1. i \in 1 .. Len(registration) /\ q[i] = registration[i]
        BY <2>1, <2>3, <3>2
      <4>2. /\ q[i] = <<k, "add">> => life[k] = "pending"
            /\ q[i] = <<k, "remove">> => k \in Alive /\ refs[k] <= 0 /\ link[k] # "up"
        BY <1>0, <4>1 DEF QueueOK
      <4> QED
        BY <4>2, <2>2, <1>14
    <3> QED
      BY <3>1, <3>2
  <2>4. ASSUME NEW i \in 1 .. Len(q), NEW n \in 1 .. Len(q), i # n PROVE q[i] # q[n]
    <3>1. \A x \in 1 .. Len(q) :
            x # Len(q) => x \in 1 .. Len(registration) /\ q[x] = registration[x]
      BY <2>1
    <3>2. q[Len(q)] = <<j, a>> /\ Len(q) \in 1 .. Len(q)
      BY <2>1
    <3>3. CASE i # Len(q) /\ n # Len(q)
      BY <1>0, <2>4, <3>1, <3>3 DEF QueueOK
    <3>4. CASE i = Len(q)
      BY <1>14, <2>4, <3>1, <3>2, <3>4
    <3>5. CASE n = Len(q)
      BY <1>14, <2>4, <3>1, <3>2, <3>5
    <3> QED
      BY <3>3, <3>4, <3>5
  <2>5. \A k \in Jobs : life'[k] = "freed" => refs'[k] <= 0
    BY <1>0, <1>14, <2>2 DEF QueueOK
  <2> QED
    BY <2>3, <2>4, <2>5 DEF QueueOK, q
<1>15. ASSUME NEW j \in Jobs, Enlists(j) PROVE QueueOK'
  <2>1. /\ pc[j] = "lists" /\ refs' = refs
        /\ \/ /\ life' = [life EXCEPT ![j] = "refused"] /\ registration' = registration
              /\ link' = link \/ link' = [link EXCEPT ![j] = "closed"]
           \/ /\ life' = [life EXCEPT ![j] = "pending"] /\ link' = link
              /\ registration' = Append(registration, <<j, "add">>)
    BY <1>0, <1>15, EnlistsDoes
  <2>2. life[j] = "made"
    BY <1>0, <2>1 DEF JobsOK
  <2>3. \A k \in Jobs : link'[k] = "up" => link[k] = "up"
    BY <1>0, <2>1 DEF HostTypes
  <2>4. /\ \A k \in Jobs : life[k] = "pending" => life'[k] = "pending"
        /\ \A k \in Jobs : life'[k] = "freed" => life[k] = "freed"
        /\ \A k \in Jobs : k \in Alive => k \in Alive'
    BY <1>0, <2>1, <2>2 DEF HostTypes, Alive
  <2>5. CASE registration' = registration
    BY <1>2, <2>1, <2>3, <2>4, <2>5
  <2>6. CASE /\ registration' = Append(registration, <<j, "add">>)
             /\ life' = [life EXCEPT ![j] = "pending"]
    <3>1. \A i \in 1 .. Len(registration) : registration[i] # <<j, "add">>
      BY <1>0, <2>2 DEF QueueOK
    <3>2. life'[j] = "pending" /\ refs' \in [Jobs -> Int] /\ \A k \in Jobs : refs'[k] <= refs[k]
      BY <1>0, <2>1, <2>6 DEF HostTypes
    <3> QED
      BY <1>14, <2>3, <2>4, <2>6, <3>1, <3>2
  <2> QED
    BY <2>1, <2>5, <2>6
\* A reference is let go: the last has the transport removed.
<1>16. ASSUME NEW j \in Jobs, Unref(j), j \in Alive, j \in Alive', link'[j] # "up",
              \A k \in Jobs : k # j => life'[k] = life[k] /\ link'[k] = link[k]
       PROVE  QueueOK'
  <2>1. /\ refs' = [refs EXCEPT ![j] = refs[j] - 1] /\ refs' \in [Jobs -> Int]
        /\ refs[j] # 1 => registration' = registration
        /\ refs[j] = 1 => registration' = Append(registration, <<j, "remove">>)
    BY <1>0, <1>16, UnrefDoes
  <2>2. \A k \in Jobs : refs[k] \in Int /\ refs'[k] = IF k = j THEN refs[k] - 1 ELSE refs[k]
    BY <1>0, <2>1 DEF HostTypes
  <2>3. /\ \A k \in Jobs : life[k] = "pending" => life'[k] = "pending"
        /\ \A k \in Jobs : life'[k] = "freed" => life[k] = "freed"
        /\ \A k \in Jobs : k \in Alive => k \in Alive'
        /\ \A k \in Jobs : k \in Alive /\ link'[k] = "up" => link[k] = "up"
    BY <1>16 DEF Alive
  <2>4. \A k \in Jobs : refs'[k] <= refs[k] /\ (refs[k] <= 0 => refs'[k] <= 0)
    BY <2>2
  <2>5. CASE refs[j] # 1
    BY <1>0, <2>1, <2>3, <2>4, <2>5 DEF QueueOK
  <2>6. CASE refs[j] = 1
    <3>1. \A i \in 1 .. Len(registration) : registration[i] # <<j, "remove">>
      BY <1>0, <2>6 DEF QueueOK
    <3>2. refs'[j] <= 0
      BY <2>2, <2>6
    <3> QED
      BY <1>14, <1>16, <2>1, <2>3, <2>4, <2>6, <3>1, <3>2
  <2> QED
    BY <2>5, <2>6
<1>17. ASSUME NEW j \in Jobs, NEW th \in InOut, Unrefs(j, th) PROVE QueueOK'
  <2>1. thread[j][th] = "unref" /\ ~ Gone(j) /\ Unref(j) /\ UNCHANGED <<life, link>>
    BY <1>17 DEF Unrefs
  <2>2. j \in WasListed /\ link[j] # "up"
    BY <1>0, <2>1 DEF JobsOK, ThreadsOK
  <2>3. j \in Alive
    BY <2>1, <2>2 DEF WasListed, Alive, Gone
  <2> QED
    BY <1>16, <2>1, <2>2, <2>3 DEF Alive
<1>18. ASSUME NEW j \in Jobs, Disconnects(j) PROVE QueueOK'
  <2>1. /\ j \in Alive /\ life' = [life EXCEPT ![j] = "dropped"] /\ Unref(j)
        /\ kicked[j] => link' = link
        /\ ~ kicked[j] => Kick(j)
    BY <1>0, <1>18, DropsAlive, DisconnectsDoes
  <2>2. link' = [link EXCEPT ![j] = "closed"] \/ (link' = link /\ kicked[j])
    BY <1>0, <2>1, KickDoes
  <2>3. link'[j] # "up" /\ \A k \in Jobs : k # j => link'[k] = link[k]
    BY <2>2, <1>0 DEF HostTypes, ThreadsOK
  <2>4. life'[j] = "dropped" /\ \A k \in Jobs : k # j => life'[k] = life[k]
    BY <1>0, <2>1 DEF HostTypes
  <2> QED
    BY <1>16, <2>1, <2>3, <2>4 DEF Alive
\* The first entry is taken, and its transport changes.
<1>19. ASSUME NEW j \in Jobs, NEW a \in {"add", "remove"}, registration # <<>>,
              registration[1] = <<j, a>>, registration' = Tail(registration), link' = link,
              \A k \in Jobs : k # j => life'[k] = life[k] /\ refs'[k] = refs[k],
              a = "add" => life'[j] = "listed",
              a = "remove" => life'[j] = "freed" /\ refs'[j] <= 0,
              life[j] = "pending" \/ j \in Alive, a = "add" <=> life[j] = "pending"
       PROVE  QueueOK'
  <2> DEFINE q == registration'
  <2>1. /\ Len(q) = Len(registration) - 1 /\ Len(registration) \in Nat
        /\ \A i \in 1 .. Len(q) : i + 1 \in 1 .. Len(registration) /\ q[i] = registration[i + 1]
        /\ 1 \in 1 .. Len(registration)
    BY <1>0, <1>19, QueueHead DEF HostTypes
  <2> HIDE DEF q
  <2>2. \A i \in 1 .. Len(q) : q[i] # <<j, a>>
    <3>1. \A i \in 1 .. Len(q) : i + 1 # 1
      OBVIOUS
    <3>2. \A i \in 1 .. Len(q) : registration[i + 1] # registration[1]
      BY <1>0, <2>1, <3>1 DEF QueueOK
    <3> QED
      BY <1>19, <2>1, <3>2
  <2>3. ASSUME NEW i \in 1 .. Len(q), NEW k \in Jobs
        PROVE  /\ q[i] = <<k, "add">> => life'[k] = "pending"
               /\ q[i] = <<k, "remove">> => k \in Alive' /\ refs'[k] <= 0 /\ link'[k] # "up"
    <3>1. /\ q[i] = <<k, "add">> => life[k] = "pending"
          /\ q[i] = <<k, "remove">> => k \in Alive /\ refs[k] <= 0 /\ link[k] # "up"
      <4>1. i + 1 \in 1 .. Len(registration) /\ q[i] = registration[i + 1]
        BY <2>1, <2>3
      <4> QED
        BY <1>0, <4>1 DEF QueueOK
    <3>2. CASE k # j
      BY <1>19, <3>1, <3>2 DEF Alive
    <3>3. CASE k = j
      <4>1. CASE a = "add"
        BY <1>19, <2>2, <3>1, <3>3, <4>1 DEF Alive
      <4>2. CASE a = "remove"
        BY <1>19, <2>2, <3>1, <3>3, <4>2
      <4> QED
        BY <4>1, <4>2
    <3> QED
      BY <3>2, <3>3
  <2>4. ASSUME NEW i \in 1 .. Len(q), NEW n \in 1 .. Len(q), i # n PROVE q[i] # q[n]
    <3>1. i + 1 # n + 1
      BY <2>4
    <3> QED
      BY <1>0, <2>1, <3>1, SMTT(30) DEF QueueOK
  <2>5. \A k \in Jobs : life'[k] = "freed" => refs'[k] <= 0
    BY <1>0, <1>19 DEF QueueOK
  <2> QED
    BY <2>3, <2>4, <2>5 DEF QueueOK, q
<1>20. ASSUME NEW j \in Jobs, Registers(j) PROVE QueueOK'
  <2>1. /\ life[j] = "pending" /\ registration # <<>> /\ registration' = Tail(registration)
        /\ registration[1] = <<j, "add">> /\ life' = [life EXCEPT ![j] = "listed"]
        /\ refs' = [refs EXCEPT ![j] = 2] /\ link' = link
    BY <1>0, <1>20, RegistersDoes
  <2>2. life'[j] = "listed" /\ \A k \in Jobs : k # j => life'[k] = life[k] /\ refs'[k] = refs[k]
    BY <1>0, <2>1 DEF HostTypes
  <2> QED
    BY <1>19, <2>1, <2>2
<1>21. ASSUME NEW j \in Jobs, Removes(j) PROVE QueueOK'
  <2>1. /\ j \in Alive /\ refs[j] <= 0 /\ registration # <<>> /\ registration' = Tail(registration)
        /\ registration[1] = <<j, "remove">> /\ life' = [life EXCEPT ![j] = "freed"]
        /\ refs' = refs /\ link' = link
    BY <1>0, <1>21, RemovesDoes
  <2>2. life'[j] = "freed" /\ life[j] # "pending" /\ \A k \in Jobs : k # j => life'[k] = life[k]
    BY <1>0, <2>1 DEF HostTypes, Alive
  <2> QED
    BY <1>19, <2>1, <2>2
<1> QED
  BY <1>1, <1>4, <1>5, <1>6, <1>7, <1>8, <1>9, <1>11, <1>12, <1>13, <1>15, <1>17, <1>18, <1>20,
     <1>21 DEF HostStep

LEMMA TableKept ==
  ASSUME HostInv, HostTransportsNext
  PROVE  TableOK'
<1> USE DEF listVars, jobVars, transportVars, trackerVars
<1>0. HostTypes /\ JobsOK /\ TableOK /\ QueueOK /\ ListsAreOK
  BY DEF HostInv
<1>1. ~ undefined /\ round' = round /\ ((\E j \in Jobs : HostStep(j)) \/ Tracks)
  BY HostSteps
<1> DEFINE Rows == /\ OnePerPort
                      /\ \A i \in 1 .. TableSize : table[i] # Empty => IsEmulator(table[i])
           OK(k) == IsEmulator(k) =>
             /\ life[k] # "dropped"
             /\ kicked[k] => \/ \E th \in InOut : thread[k][th] = "call"
                             \/ \A i \in 1 .. TableSize : table[i] # k
<1>a. Rows /\ \A k \in Jobs : OK(k)
  BY <1>0 DEF TableOK
<1>b. ASSUME Rows', \A k \in Jobs : OK(k)' PROVE TableOK'
  BY <1>b DEF TableOK
\* Rows that are emptied leave the others as they are.
<1>c. ASSUME \A i \in 1 .. TableSize : table'[i] = table[i] \/ table'[i] = Empty PROVE Rows'
  <2>1. \A i \in 1 .. TableSize : table'[i] # Empty => table'[i] = table[i]
    BY <1>c
  <2> QED
    BY <1>a, <2>1 DEF OnePerPort, IsEmulator
<1> HIDE DEF Rows
<1>2. ASSUME UNCHANGED <<table, kicked, thread>>,
             \A k \in Jobs : life'[k] = "dropped" => life[k] = "dropped"
      PROVE  TableOK'
  <2>1. \A k \in Jobs : OK(k)'
    BY <1>2, <1>a DEF IsEmulator
  <2> QED
    BY <1>2, <1>b, <1>c, <2>1
<1>3. ASSUME UNCHANGED <<table, kicked, thread, life>> PROVE TableOK'
  BY <1>2, <1>3
<1>4. CASE Tracks
  BY <1>0, <1>3, <1>4, TracksDo DEF HostTypes
<1>5. ASSUME NEW j \in Jobs, OnlyJob(j) PROVE TableOK'
  BY <1>0, <1>3, <1>5, OnlyJobDoes
<1>6. ASSUME NEW j \in Jobs, UsesFreed(j) PROVE TableOK'
  BY <1>3, <1>6, UsesFreedDoes
<1>7. ASSUME NEW j \in Jobs, Dials(j) \/ Breaks(j) \/ Online(j) \/ Offline(j) PROVE TableOK'
  BY <1>3, <1>7 DEF Dials, Breaks, Online, Offline
\* An emulator gets a slot when no entry has its port.
<1>8. ASSUME NEW j \in Jobs, Inits(j) PROVE TableOK'
  <2>1. /\ pc[j] = "init" /\ UNCHANGED <<kicked, thread>>
        /\ life' = [life EXCEPT ![j] = "made"] \/ life' = [life EXCEPT ![j] = "refused"]
        /\ \/ table' = table
           \/ IsEmulator(j) /\ Matching(j) = {} /\ \E s : table' = [table EXCEPT ![s] = j]
    BY <1>0, <1>8, InitsDoes
  <2>2. /\ \A k \in Jobs : life'[k] = "dropped" => life[k] = "dropped"
        /\ ~ kicked[j]
    <3>1. \A k \in Jobs : life'[k] = "dropped" => life[k] = "dropped"
      BY <1>0, <2>1 DEF HostTypes
    <3>2. life[j] = "none"
      BY <1>0, <2>1 DEF JobsOK
    <3>3. ~ kicked[j]
      BY <1>0, <3>2 DEF JobsOK, WasListed
    <3> QED
      BY <3>1, <3>3
  <2>3. CASE table' = table
    BY <1>2, <2>1, <2>2, <2>3
  <2>4. CASE IsEmulator(j) /\ Matching(j) = {} /\ \E s : table' = [table EXCEPT ![s] = j]
    <3>1. PICK s : table' = [table EXCEPT ![s] = j]
      BY <2>4
    <3>2. \A i \in 1 .. TableSize : table'[i] = IF i = s THEN j ELSE table[i]
      BY <1>0, <3>1 DEF HostTypes
    <3>3. \A i \in 1 .. TableSize : table[i] # Empty => PortOf[table[i]] # PortOf[j]
      BY <2>4 DEF Matching
    <3>4. Rows'
      <4>1. ASSUME NEW i \in 1 .. TableSize, NEW k \in 1 .. TableSize, i # k,
                   table'[i] # Empty, table'[k] # Empty
            PROVE  PortOf[table'[i]] # PortOf[table'[k]]
        <5>1. CASE i = s
          BY <4>1, <3>2, <3>3, <5>1
        <5>2. CASE k = s
          BY <4>1, <3>2, <3>3, <5>2
        <5>3. CASE i # s /\ k # s
          BY <1>a, <4>1, <3>2, <5>3 DEF Rows, OnePerPort
        <5> QED
          BY <5>1, <5>2, <5>3
      <4>2. \A i \in 1 .. TableSize : table'[i] # Empty => IsEmulator(table'[i])
        BY <1>a, <2>4, <3>2 DEF Rows, IsEmulator
      <4> QED
        BY <4>1, <4>2 DEF Rows, OnePerPort, IsEmulator
    <3>5. ASSUME NEW k \in Jobs PROVE OK(k)'
      <4>1. CASE k = j
        BY <2>1, <2>2, <4>1, <1>0, <1>a DEF HostTypes, IsEmulator
      <4>2. CASE k # j
        BY <2>1, <2>2, <3>2, <4>2, <1>a DEF IsEmulator
      <4> QED
        BY <4>1, <4>2
    <3> QED
      BY <1>b, <3>4, <3>5
  <2> QED
    BY <2>1, <2>3, <2>4
<1>9. ASSUME NEW j \in Jobs, Enlists(j) PROVE TableOK'
  <2>1. /\ UNCHANGED <<table, kicked, thread>>
        /\ life' = [life EXCEPT ![j] = "refused"] \/ life' = [life EXCEPT ![j] = "pending"]
    BY <1>0, <1>9, EnlistsDoes
  <2>2. \A k \in Jobs : life'[k] = "dropped" => life[k] = "dropped"
    BY <1>0, <2>1 DEF HostTypes
  <2> QED
    BY <1>2, <2>1, <2>2
\* Whatever a thread does but to call the kick, the one that calls it still does.
<1>10. ASSUME NEW j \in Jobs, NEW th \in InOut, thread[j][th] # "call", NEW place,
              thread' = [thread EXCEPT ![j][th] = place], UNCHANGED <<life, table>>,
              \/ kicked' = kicked
              \/ kicked' = [kicked EXCEPT ![j] = TRUE] /\ (kicked[j] \/ place = "call")
       PROVE  TableOK'
  <2>1. \A x \in InOut : thread'[j][x] = IF x = th THEN place ELSE thread[j][x]
    BY <1>0, <1>10 DEF HostTypes
  <2>2. ASSUME NEW k \in Jobs PROVE OK(k)'
    <3>1. CASE k = j
      <4>1. kicked[k] => \/ \E x \in InOut : thread'[k][x] = "call"
                         \/ \A i \in 1 .. TableSize : table'[i] # k
                         \/ ~ IsEmulator(k)
        BY <1>a, <1>10, <2>1, <3>1 DEF IsEmulator
      <4>2. kicked'[k] => kicked[k] \/ \E x \in InOut : thread'[k][x] = "call"
        BY <1>0, <1>10, <2>1, <3>1 DEF HostTypes
      <4> QED
        BY <4>1, <4>2, <1>a, <1>10 DEF IsEmulator
    <3>2. CASE k # j
      <4>1. thread'[k] = thread[k] /\ kicked'[k] = kicked[k]
        BY <1>0, <1>10, <3>2 DEF HostTypes
      <4> QED
        BY <1>a, <1>10, <4>1 DEF IsEmulator
    <3> QED
      BY <3>1, <3>2
  <2> QED
    BY <1>b, <1>c, <1>10, <2>2
<1>11. ASSUME NEW j \in Jobs, OutEnds(j) \/ InEnds(j) PROVE TableOK'
  <2>1. CASE OutEnds(j)
    <3>1. /\ thread[j]["out"] # "call" /\ "out" \in InOut
          /\ thread' = [thread EXCEPT ![j]["out"] = "kick"] /\ UNCHANGED <<life, table, kicked>>
      BY <2>1 DEF OutEnds, MovesTo, InOut
    <3> QED
      BY <3>1, <1>10
  <2>2. CASE InEnds(j)
    <3>1. /\ thread[j]["in"] # "call" /\ "in" \in InOut
          /\ thread' = [thread EXCEPT ![j]["in"] = "kick"] /\ UNCHANGED <<life, table, kicked>>
      BY <2>2 DEF InEnds, MovesTo, InOut
    <3> QED
      BY <3>1, <1>10
  <2> QED
    BY <1>11, <2>1, <2>2
<1>12. ASSUME NEW j \in Jobs, NEW th \in InOut, Kicks(j, th) PROVE TableOK'
  <2>1. /\ thread[j][th] # "call" /\ kicked' = [kicked EXCEPT ![j] = TRUE]
        /\ thread' = [thread EXCEPT ![j][th] = IF kicked[j] THEN "unref" ELSE "call"]
        /\ UNCHANGED <<life, table>>
    BY <1>12 DEF Kicks, MovesTo
  <2> QED
    BY <2>1, <1>10
<1>13. ASSUME NEW j \in Jobs, NEW th \in InOut, Unrefs(j, th) PROVE TableOK'
  <2>1. /\ thread[j][th] # "call" /\ thread' = [thread EXCEPT ![j][th] = "done"]
        /\ UNCHANGED <<life, table, kicked>>
    BY <1>13 DEF Unrefs, MovesTo
  <2> QED
    BY <2>1, <1>10
<1>14. ASSUME NEW j \in Jobs, NEW th \in InOut, CallsKick(j, th) PROVE TableOK'
  <2>1. /\ Kick(j) /\ thread' = [thread EXCEPT ![j][th] = "unref"] /\ UNCHANGED <<life, kicked>>
    BY <1>14 DEF CallsKick, MovesTo
  <2>2. \A i \in 1 .. TableSize : table'[i] = IF table[i] = j THEN Empty ELSE table[i]
    BY <1>0, <2>1, KickDoes
  <2>3. Empty \notin Jobs
    BY HostTransportsAssumption
  <2>4. ASSUME NEW k \in Jobs PROVE OK(k)'
    <3>1. CASE k = j
      BY <1>a, <2>1, <2>2, <2>3, <3>1 DEF IsEmulator
    <3>2. CASE k # j
      <4>1. thread'[k] = thread[k]
        BY <1>0, <2>1, <3>2 DEF HostTypes
      <4>2. \A i \in 1 .. TableSize : table'[i] = k => table[i] = k
        BY <2>2, <2>3
      <4> QED
        BY <1>a, <2>1, <4>1, <4>2 DEF IsEmulator
    <3> QED
      BY <3>1, <3>2
  <2> QED
    BY <1>b, <1>c, <2>2, <2>4
<1>15. ASSUME NEW j \in Jobs, Registers(j) PROVE TableOK'
  <2>1. /\ life[j] = "pending" /\ life' = [life EXCEPT ![j] = "listed"]
        /\ thread' = [thread EXCEPT ![j] = [th \in InOut |-> "run"]] /\ UNCHANGED <<table, kicked>>
    BY <1>0, <1>15, RegistersDoes
  <2>2. ~ kicked[j]
    BY <1>0, <2>1 DEF JobsOK, WasListed
  <2>3. ASSUME NEW k \in Jobs PROVE OK(k)'
    <3>1. CASE k = j
      BY <1>0, <2>1, <2>2, <3>1 DEF HostTypes
    <3>2. CASE k # j
      <4>1. thread'[k] = thread[k] /\ life'[k] = life[k]
        BY <1>0, <2>1, <3>2 DEF HostTypes
      <4> QED
        BY <1>a, <2>1, <4>1 DEF IsEmulator
    <3> QED
      BY <3>1, <3>2
  <2> QED
    BY <1>b, <1>c, <2>1, <2>3
<1>16. ASSUME NEW j \in Jobs, Removes(j) PROVE TableOK'
  <2>1. life' = [life EXCEPT ![j] = "freed"] /\ UNCHANGED <<table, kicked, thread>>
    BY <1>0, <1>16, RemovesDoes
  <2>2. \A k \in Jobs : life'[k] = "dropped" => life[k] = "dropped"
    BY <1>0, <2>1 DEF HostTypes
  <2> QED
    BY <1>2, <2>1, <2>2
\* No emulator is disconnected, so nothing leaves the table here.
<1>17. ASSUME NEW j \in Jobs, Disconnects(j) PROVE TableOK'
  <2>1. /\ ~ IsEmulator(j) /\ life' = [life EXCEPT ![j] = "dropped"]
        /\ kicked' = [kicked EXCEPT ![j] = TRUE] /\ thread' = thread
        /\ kicked[j] => table' = table
        /\ ~ kicked[j] => Kick(j)
    BY <1>0, <1>17, DisconnectsDoes
  <2>2. \A i \in 1 .. TableSize : table'[i] = table[i] \/ table'[i] = Empty
    BY <1>0, <2>1, KickDoes
  <2>3. ASSUME NEW k \in Jobs PROVE OK(k)'
    <3>1. CASE k = j
      BY <2>1, <3>1 DEF IsEmulator
    <3>2. CASE k # j
      <4>1. kicked'[k] = kicked[k] /\ life'[k] = life[k]
        BY <1>0, <2>1, <3>2 DEF HostTypes
      <4>2. Empty \notin Jobs
        BY HostTransportsAssumption
      <4>3. \A i \in 1 .. TableSize : table'[i] = k => table[i] = k
        BY <2>2, <4>2
      <4> QED
        BY <1>a, <2>1, <4>1, <4>3 DEF IsEmulator
    <3> QED
      BY <3>1, <3>2
  <2> QED
    BY <1>b, <1>c, <2>2, <2>3
<1> QED
  BY <1>1, <1>4, <1>5, <1>6, <1>7, <1>8, <1>9, <1>11, <1>12, <1>13, <1>14, <1>15, <1>16, <1>17
     DEF HostStep

LEMMA ListsKept ==
  ASSUME HostInv, HostTransportsNext
  PROVE  ListsAreOK'
<1> USE DEF listVars, jobVars, transportVars, trackerVars
<1>0. HostTypes /\ JobsOK /\ QueueOK /\ ListsAreOK
  BY DEF HostInv
<1>1. ~ undefined /\ round' = round /\ ((\E j \in Jobs : HostStep(j)) \/ Tracks)
  BY HostSteps
<1>a. /\ ListsOK(links, Waiting, WasListed, Alive, ~ NoneDropped)
      /\ NoneDropped => \A j \in Jobs : life[j] # "dropped"
  BY <1>0 DEF ListsAreOK
<1>2. ASSUME UNCHANGED <<links, dropsAsked>>, Waiting' = Waiting, WasListed' = WasListed,
             Alive' = Alive, \A j \in Jobs : life'[j] = "dropped" => life[j] = "dropped"
      PROVE  ListsAreOK'
  <2>1. NoneDropped' = NoneDropped
    BY <1>2 DEF NoneDropped
  <2>2. ListsOK(links', Waiting', WasListed', Alive', ~ NoneDropped')
    BY <1>a, <1>2, <2>1
  <2> QED
    BY <1>a, <1>2, <2>1, <2>2 DEF ListsAreOK
<1>3. ASSUME UNCHANGED <<links, life, dropsAsked>> PROVE ListsAreOK'
  BY <1>2, <1>3 DEF Waiting, WasListed, Alive
<1>4. CASE Tracks
  BY <1>0, <1>3, <1>4, TracksDo DEF HostTypes
<1>5. ASSUME NEW j \in Jobs, OnlyJob(j) PROVE ListsAreOK'
  BY <1>0, <1>3, <1>5, OnlyJobDoes
<1>6. ASSUME NEW j \in Jobs, UsesFreed(j) PROVE ListsAreOK'
  BY <1>3, <1>6, UsesFreedDoes
<1>7. ASSUME NEW j \in Jobs,
             Dials(j) \/ Breaks(j) \/ Online(j) \/ Offline(j) \/ OutEnds(j) \/ InEnds(j)
      PROVE  ListsAreOK'
  BY <1>3, <1>7 DEF Dials, Breaks, Online, Offline, OutEnds, InEnds
<1>8. ASSUME NEW j \in Jobs, NEW th \in InOut, Kicks(j, th) \/ CallsKick(j, th) \/ Unrefs(j, th)
      PROVE  ListsAreOK'
  BY <1>3, <1>8 DEF Kicks, CallsKick, Unrefs
\* A transport that is made, or refused, is on no list.
<1>9. ASSUME NEW j \in Jobs, UNCHANGED <<links, dropsAsked>>, life[j] \in {"none", "made"},
             life' = [life EXCEPT ![j] = "made"] \/ life' = [life EXCEPT ![j] = "refused"]
      PROVE  ListsAreOK'
  <2>1. /\ life'[j] \in {"made", "refused"} /\ \A k \in Jobs : k # j => life'[k] = life[k]
    BY <1>0, <1>9 DEF HostTypes
  <2>2. Waiting' = Waiting /\ WasListed' = WasListed /\ Alive' = Alive
    BY <1>9, <2>1 DEF Waiting, WasListed, Alive
  <2> QED
    BY <1>2, <1>9, <2>1, <2>2
<1>10. ASSUME NEW j \in Jobs, Inits(j) PROVE ListsAreOK'
  <2>1. /\ pc[j] = "init" /\ UNCHANGED <<links, dropsAsked>>
        /\ life' = [life EXCEPT ![j] = "made"] \/ life' = [life EXCEPT ![j] = "refused"]
    BY <1>0, <1>10, InitsDoes
  <2>2. life[j] = "none"
    BY <1>0, <2>1 DEF JobsOK
  <2> QED
    BY <1>9, <2>1, <2>2
<1>11. ASSUME NEW j \in Jobs, Enlists(j) PROVE ListsAreOK'
  <2>1. /\ pc[j] = "lists" /\ dropsAsked' = dropsAsked
        /\ \/ life' = [life EXCEPT ![j] = "refused"] /\ links' = links
           \/ life' = [life EXCEPT ![j] = "pending"] /\ links' = Appended(links, Pending, j)
    BY <1>0, <1>11, EnlistsDoes
  <2>2. life[j] = "made"
    BY <1>0, <2>1 DEF JobsOK
  <2>3. CASE life' = [life EXCEPT ![j] = "refused"] /\ links' = links
    BY <1>9, <2>1, <2>2, <2>3
  <2>4. CASE life' = [life EXCEPT ![j] = "pending"] /\ links' = Appended(links, Pending, j)
    <3>1. life'[j] = "pending" /\ \A k \in Jobs : k # j => life'[k] = life[k]
      BY <1>0, <2>4 DEF HostTypes
    <3>2. Waiting' = Waiting \cup {j} /\ WasListed' = WasListed /\ Alive' = Alive
      BY <2>2, <3>1 DEF Waiting, WasListed, Alive
    <3>3. j \notin Waiting /\ j \notin WasListed
      BY <2>2 DEF Waiting, WasListed
    <3>4. ListsOK(Appended(links, Pending, j), Waiting \cup {j}, WasListed, Alive, ~ NoneDropped)
      BY <1>a, <3>3, ListsEnlist
    <3>5. NoneDropped' = NoneDropped
      BY <2>1 DEF NoneDropped
    <3>6. ListsOK(links', Waiting', WasListed', Alive', ~ NoneDropped')
      BY <2>4, <3>2, <3>4, <3>5
    <3> QED
      BY <1>a, <3>1, <3>5, <3>6 DEF ListsAreOK
  <2> QED
    BY <2>1, <2>3, <2>4
<1>12. ASSUME NEW j \in Jobs, Registers(j) PROVE ListsAreOK'
  <2>1. /\ life[j] = "pending" /\ ~ Gone(links.prev[Listed])
        /\ links' = Appended(Unlinked(links, j), Listed, j)
        /\ life' = [life EXCEPT ![j] = "listed"] /\ dropsAsked' = dropsAsked
    BY <1>0, <1>12, RegistersDoes
  <2>2. life'[j] = "listed" /\ \A k \in Jobs : k # j => life'[k] = life[k]
    BY <1>0, <2>1 DEF HostTypes
  <2>3. Waiting' = Waiting \ {j} /\ WasListed' = WasListed \cup {j} /\ Alive' = Alive \cup {j}
    BY <2>1, <2>2 DEF Waiting, WasListed, Alive
  <2>4. j \in Waiting /\ links.prev[Listed] \notin WasListed \ Alive
    BY <2>1 DEF Waiting, WasListed, Alive, Gone
  <2>5. ListsOK(Appended(Unlinked(links, j), Listed, j), Waiting \ {j}, WasListed \cup {j},
                Alive \cup {j}, ~ NoneDropped)
    BY <1>a, <2>4, ListsRegister
  <2>6. NoneDropped' = NoneDropped
    BY <2>1 DEF NoneDropped
  <2>7. ListsOK(links', Waiting', WasListed', Alive', ~ NoneDropped')
    BY <2>1, <2>3, <2>5, <2>6
  <2> QED
    BY <1>a, <2>2, <2>6, <2>7 DEF ListsAreOK
<1>13. ASSUME NEW j \in Jobs, Removes(j) PROVE ListsAreOK'
  <2>1. /\ j \in Alive /\ links' = LinksWithout(j) /\ life' = [life EXCEPT ![j] = "freed"]
        /\ \A t \in ToSet(Walked(LinksWithout(j), Listed)) : t # j /\ ~ Gone(t)
        /\ dropsAsked' = dropsAsked
    BY <1>0, <1>13, RemovesDoes
  <2>2. life'[j] = "freed" /\ \A k \in Jobs : k # j => life'[k] = life[k]
    BY <1>0, <2>1 DEF HostTypes
  <2>3. Waiting' = Waiting /\ WasListed' = WasListed /\ Alive' = Alive \ {j}
    BY <2>1, <2>2 DEF Waiting, WasListed, Alive
  <2>4. \A t \in WasListed \ Alive : Gone(t)
    BY DEF WasListed, Alive, Gone
  <2>5. \A t \in ToSet(Walked(Forgotten(Unlinked(links, j), j), Listed)) :
          t # j /\ t \notin WasListed \ Alive
    BY <2>1, <2>4 DEF LinksWithout
  <2>6. ListsOK(Forgotten(Unlinked(links, j), j), Waiting, WasListed, Alive \ {j}, ~ NoneDropped)
    BY <1>a, <2>1, <2>5, ListsRemove
  <2>7. NoneDropped' = NoneDropped
    BY <2>1 DEF NoneDropped
  <2>8. ListsOK(links', Waiting', WasListed', Alive', ~ NoneDropped')
    BY <2>1, <2>3, <2>6, <2>7 DEF LinksWithout
  <2> QED
    BY <1>a, <2>2, <2>7, <2>8 DEF ListsAreOK
<1>14. ASSUME NEW j \in Jobs, Disconnects(j) PROVE ListsAreOK'
  <2>1. /\ j \in Alive /\ j \in ToSet(Walked(links, Listed)) /\ dropsAsked' = dropsAsked + 1
        /\ links' = Unlinked(links, j) /\ life' = [life EXCEPT ![j] = "dropped"]
    BY <1>0, <1>14, DropsAlive, DisconnectsDoes
  <2>2. life'[j] = "dropped" /\ \A k \in Jobs : k # j => life'[k] = life[k]
    BY <1>0, <2>1 DEF HostTypes
  <2>3. Waiting' = Waiting /\ WasListed' = WasListed /\ Alive' = Alive
    BY <2>1, <2>2 DEF Waiting, WasListed, Alive
  <2>4. ListsOK(Unlinked(links, j), Waiting, WasListed, Alive, TRUE)
    BY <1>a, <2>1, ListsDrop
  <2>5. ~ NoneDropped'
    <3>1. round \in Rounds /\ dropsAsked \in 0 .. round.drops
      BY <1>0 DEF HostTypes
    <3>2. round.drops \in Nat
      BY <3>1, HostTransportsAssumption
    <3> QED
      BY <2>1, <3>1, <3>2 DEF NoneDropped
  <2>6. ListsOK(links', Waiting', WasListed', Alive', ~ NoneDropped')
    BY <2>1, <2>3, <2>4, <2>5
  <2> QED
    BY <2>5, <2>6 DEF ListsAreOK
<1> QED
  BY <1>1, <1>4, <1>5, <1>6, <1>7, <1>8, <1>10, <1>11, <1>12, <1>13, <1>14 DEF HostStep

LEMMA SerialsKept ==
  ASSUME HostInv, HostTransportsNext
  PROVE  OnePerSerial'
<1> USE DEF listVars, jobVars, transportVars, trackerVars
<1>0. HostTypes /\ JobsOK /\ QueueOK /\ ListsAreOK /\ OnePerSerial
  BY DEF HostInv
<1>1. ~ undefined /\ round' = round /\ ((\E j \in Jobs : HostStep(j)) \/ Tracks)
  BY HostSteps
<1> DEFINE Shows(x) == x \in {"pending", "listed"}
<1>2. ASSUME dropsAsked' = dropsAsked, \A k \in Jobs : Shows(life'[k]) => Shows(life[k])
      PROVE  OnePerSerial'
  <2>1. NoneDropped' => NoneDropped
    BY <1>2 DEF NoneDropped
  <2>2. ASSUME NoneDropped', NEW j \in Jobs, NEW k \in Jobs, j # k,
               {life'[j], life'[k]} \subseteq {"pending", "listed"}
        PROVE  SerialOf[j] # SerialOf[k]
    <3>1. {life[j], life[k]} \subseteq {"pending", "listed"}
      BY <1>2, <2>2
    <3> QED
      BY <1>0, <2>1, <2>2, <3>1 DEF OnePerSerial
  <2> QED
    BY <2>2 DEF OnePerSerial
<1>3. ASSUME UNCHANGED <<life, dropsAsked>> PROVE OnePerSerial'
  BY <1>2, <1>3
<1>4. CASE Tracks
  BY <1>0, <1>3, <1>4, TracksDo DEF HostTypes
<1>5. ASSUME NEW j \in Jobs, OnlyJob(j) PROVE OnePerSerial'
  BY <1>0, <1>3, <1>5, OnlyJobDoes
<1>6. ASSUME NEW j \in Jobs, UsesFreed(j) PROVE OnePerSerial'
  BY <1>3, <1>6, UsesFreedDoes
<1>7. ASSUME NEW j \in Jobs,
             Dials(j) \/ Breaks(j) \/ Online(j) \/ Offline(j) \/ OutEnds(j) \/ InEnds(j)
      PROVE  OnePerSerial'
  BY <1>3, <1>7 DEF Dials, Breaks, Online, Offline, OutEnds, InEnds
<1>8. ASSUME NEW j \in Jobs, NEW th \in InOut, Kicks(j, th) \/ CallsKick(j, th) \/ Unrefs(j, th)
      PROVE  OnePerSerial'
  BY <1>3, <1>8 DEF Kicks, CallsKick, Unrefs
<1>9. ASSUME NEW j \in Jobs, Inits(j) PROVE OnePerSerial'
  <2>1. /\ dropsAsked' = dropsAsked
        /\ life' = [life EXCEPT ![j] = "made"] \/ life' = [life EXCEPT ![j] = "refused"]
    BY <1>0, <1>9, InitsDoes
  <2>2. \A k \in Jobs : Shows(life'[k]) => Shows(life[k])
    BY <1>0, <2>1 DEF HostTypes
  <2> QED
    BY <1>2, <2>1, <2>2
\* A serial is taken when either list has it, and they are whole.
<1>10. ASSUME NEW j \in Jobs, Enlists(j) PROVE OnePerSerial'
  <2>1. /\ dropsAsked' = dropsAsked
        /\ \/ life' = [life EXCEPT ![j] = "refused"]
           \/ life' = [life EXCEPT ![j] = "pending"] /\ ~ SerialTaken(j)
    BY <1>0, <1>10, EnlistsDoes
  <2>2. CASE life' = [life EXCEPT ![j] = "refused"]
    <3>1. \A k \in Jobs : Shows(life'[k]) => Shows(life[k])
      BY <1>0, <2>2 DEF HostTypes
    <3> QED
      BY <1>2, <2>1, <3>1
  <2>3. CASE life' = [life EXCEPT ![j] = "pending"] /\ ~ SerialTaken(j)
    <3>1. \A k \in Jobs : k # j => life'[k] = life[k]
      BY <1>0, <2>3 DEF HostTypes
    <3>2. ASSUME NoneDropped, NEW k \in Jobs, life[k] \in {"pending", "listed"}
          PROVE  SerialOf[k] # SerialOf[j]
      <4>1. ListsOK(links, Waiting, WasListed, Alive, FALSE)
        BY <1>0, <3>2 DEF ListsAreOK
      <4>2. ToSet(Walked(links, Pending)) = Waiting /\ ToSet(Walked(links, Listed)) = Alive
        BY <4>1, ListsWalked
      <4>3. k \in Waiting \cup Alive
        BY <3>2 DEF Waiting, Alive
      <4> QED
        BY <2>3, <4>2, <4>3 DEF SerialTaken
    <3>3. NoneDropped' => NoneDropped
      BY <2>1 DEF NoneDropped
    <3>4. ASSUME NoneDropped', NEW i \in Jobs, NEW k \in Jobs, i # k,
                 {life'[i], life'[k]} \subseteq {"pending", "listed"}
          PROVE  SerialOf[i] # SerialOf[k]
      <4>1. CASE i = j
        BY <3>1, <3>2, <3>3, <3>4, <4>1
      <4>2. CASE k = j
        BY <3>1, <3>2, <3>3, <3>4, <4>2
      <4>3. CASE i # j /\ k # j
        BY <1>0, <3>1, <3>3, <3>4, <4>3 DEF OnePerSerial
      <4> QED
        BY <4>1, <4>2, <4>3
    <3> QED
      BY <3>4 DEF OnePerSerial
  <2> QED
    BY <2>1, <2>2, <2>3
<1>11. ASSUME NEW j \in Jobs, Registers(j) PROVE OnePerSerial'
  <2>1. life[j] = "pending" /\ life' = [life EXCEPT ![j] = "listed"] /\ dropsAsked' = dropsAsked
    BY <1>0, <1>11, RegistersDoes
  <2>2. \A k \in Jobs : Shows(life'[k]) => Shows(life[k])
    BY <1>0, <2>1 DEF HostTypes
  <2> QED
    BY <1>2, <2>1, <2>2
<1>12. ASSUME NEW j \in Jobs, Removes(j) PROVE OnePerSerial'
  <2>1. life' = [life EXCEPT ![j] = "freed"] /\ dropsAsked' = dropsAsked
    BY <1>0, <1>12, RemovesDoes
  <2>2. \A k \in Jobs : Shows(life'[k]) => Shows(life[k])
    BY <1>0, <2>1 DEF HostTypes
  <2> QED
    BY <1>2, <2>1, <2>2
<1>13. ASSUME NEW j \in Jobs, Disconnects(j) PROVE OnePerSerial'
  <2>1. dropsAsked' = dropsAsked + 1 /\ round \in Rounds /\ dropsAsked \in 0 .. round.drops
    BY <1>0, <1>13, DisconnectsDoes DEF HostTypes
  <2>2. round.drops \in Nat
    BY <2>1, HostTransportsAssumption
  <2> QED
    BY <2>1, <2>2 DEF OnePerSerial, NoneDropped
<1> QED
  BY <1>1, <1>4, <1>5, <1>6, <1>7, <1>8, <1>9, <1>10, <1>11, <1>12, <1>13 DEF HostStep

\* What is not on the list does not show in it.
LEMMA LinesAlike ==
  ASSUME NEW l, NEW states \in [Jobs -> {"new", "device", "offline"}], NEW j \in Jobs, NEW x,
         j \notin ToSet(Walked(l, Listed)), Walked(l, Listed) \in Seq(Jobs)
  PROVE  Lines(l, [states EXCEPT ![j] = x]) = Lines(l, states)
<1> DEFINE walk == Walked(l, Listed)
           new == [states EXCEPT ![j] = x]
<1>1. \A i \in 1 .. Len(walk) : walk[i] # j /\ walk[i] \in Jobs
  BY DEF ToSet
<1> HIDE DEF walk
<1>2. \A i \in 1 .. Len(walk) : new[walk[i]] = states[walk[i]]
  BY <1>1
<1> HIDE DEF new
<1>3. [i \in 1 .. Len(walk) |-> <<walk[i], new[walk[i]] = "device">>]
        = [i \in 1 .. Len(walk) |-> <<walk[i], states[walk[i]] = "device">>]
  BY <1>2
<1> QED
  BY <1>3 DEF Lines, walk, new

LEMMA TrackersKept ==
  ASSUME HostInv, HostTransportsNext
  PROVE  TrackersCurrent'
<1> USE DEF listVars, jobVars, transportVars, trackerVars
<1>0. HostTypes /\ JobsOK /\ ThreadsOK /\ QueueOK /\ ListsAreOK /\ TrackersCurrent
  BY DEF HostInv
<1>1. ~ undefined /\ round' = round /\ ((\E j \in Jobs : HostStep(j)) \/ Tracks)
  BY HostSteps
<1> DEFINE now == Lines(links, conn)
           then == Lines(links', conn')
<1> HIDE DEF now, then
<1>a. \A c \in trackers : shown[c] = Shown(now) \/ \E j \in Jobs : Dying(j)
  BY <1>0, <1>1 DEF TrackersCurrent, now
<1>b. ASSUME \A c \in trackers' :
               undefined' \/ shown'[c] = Shown(then) \/ \E j \in Jobs : Dying(j)'
      PROVE  TrackersCurrent'
  BY <1>b DEF TrackersCurrent, then
<1>2. ASSUME UNCHANGED <<trackers, shown>>, then = now, \A k \in Jobs : Dying(k) => Dying(k)'
      PROVE  TrackersCurrent'
  BY <1>a, <1>b, <1>2
<1>3. ASSUME UNCHANGED <<trackers, shown, links, conn, life>>,
             \A k \in Jobs : k \in Alive /\ link'[k] = "up" => link[k] = "up"
      PROVE  TrackersCurrent'
  <2>1. then = now
    BY <1>3 DEF then, now
  <2>2. \A k \in Jobs : Dying(k) => Dying(k)'
    BY <1>3 DEF Dying, Alive
  <2> QED
    BY <1>2, <1>3, <2>1, <2>2
<1>4. CASE Tracks
  <2>1. /\ \A c \in trackers' :
             \/ c \in trackers /\ shown'[c] = shown[c]
             \/ shown'[c] = Shown(now)
        /\ UNCHANGED <<links, conn, life, link>>
    BY <1>0, <1>4, TracksDo DEF HostTypes, now
  <2>2. then = now /\ \A k \in Jobs : Dying(k) => Dying(k)'
    BY <2>1 DEF then, now, Dying
  <2> QED
    BY <1>a, <1>b, <2>1, <2>2
<1>5. ASSUME NEW j \in Jobs, OnlyJob(j) PROVE TrackersCurrent'
  BY <1>0, <1>3, <1>5, OnlyJobDoes
<1>6. ASSUME NEW j \in Jobs, UsesFreed(j) PROVE TrackersCurrent'
  BY <1>b, <1>6, UsesFreedDoes
<1>7. ASSUME NEW j \in Jobs, OutEnds(j) \/ InEnds(j) PROVE TrackersCurrent'
  BY <1>3, <1>7 DEF OutEnds, InEnds
<1>8. ASSUME NEW j \in Jobs, NEW th \in InOut, Kicks(j, th) \/ Unrefs(j, th) PROVE TrackersCurrent'
  BY <1>3, <1>8 DEF Kicks, Unrefs
<1>9. ASSUME NEW j \in Jobs, Dials(j) PROVE TrackersCurrent'
  <2>1. /\ pc[j] = "dial" /\ link' = [link EXCEPT ![j] = "up"]
        /\ UNCHANGED <<trackers, shown, links, conn, life>>
    BY <1>9 DEF Dials
  <2>2. j \notin Alive
    BY <1>0, <2>1 DEF JobsOK, Alive
  <2>3. \A k \in Jobs : k # j => link'[k] = link[k]
    BY <1>0, <2>1 DEF HostTypes
  <2> QED
    BY <1>3, <2>1, <2>2, <2>3
<1>10. ASSUME NEW j \in Jobs, UNCHANGED <<trackers, shown, links, conn, life>>,
              \/ link' = [link EXCEPT ![j] = "broken"] \/ link' = [link EXCEPT ![j] = "closed"]
       PROVE  TrackersCurrent'
  <2>1. \A k \in Jobs : link'[k] = "up" => link[k] = "up"
    BY <1>0, <1>10 DEF HostTypes
  <2> QED
    BY <1>3, <1>10, <2>1
<1>11. ASSUME NEW j \in Jobs, Breaks(j) PROVE TrackersCurrent'
  BY <1>10, <1>11 DEF Breaks
<1>12. ASSUME NEW j \in Jobs, NEW th \in InOut, CallsKick(j, th) PROVE TrackersCurrent'
  BY <1>10, <1>12 DEF CallsKick, Kick
<1>13. ASSUME NEW j \in Jobs, UNCHANGED <<trackers, shown>>, then = now,
              life[j] \in {"none", "made"}, NEW x, life' = [life EXCEPT ![j] = x],
              link' = link \/ link' = [link EXCEPT ![j] = "closed"]
       PROVE  TrackersCurrent'
  <2>1. \A k \in Jobs : k # j => life'[k] = life[k] /\ link'[k] = link[k]
    BY <1>0, <1>13 DEF HostTypes
  <2>2. \A k \in Jobs : Dying(k) => Dying(k)'
    BY <1>13, <2>1 DEF Dying
  <2> QED
    BY <1>2, <1>13, <2>2
<1>14. ASSUME NEW j \in Jobs, Inits(j) PROVE TrackersCurrent'
  <2>1. /\ pc[j] = "init" /\ UNCHANGED <<links, conn, trackers, shown>>
        /\ \E x : life' = [life EXCEPT ![j] = x]
        /\ link' = link \/ link' = [link EXCEPT ![j] = "closed"]
    BY <1>0, <1>14, InitsDoes
  <2>2. life[j] = "none"
    BY <1>0, <2>1 DEF JobsOK
  <2>3. then = now
    BY <2>1 DEF then, now
  <2> QED
    BY <1>13, <2>1, <2>2, <2>3
<1>15. ASSUME NEW j \in Jobs, Enlists(j) PROVE TrackersCurrent'
  <2>1. /\ pc[j] = "lists" /\ UNCHANGED <<conn, trackers, shown>>
        /\ links' = links \/ links' = Appended(links, Pending, j)
        /\ \E x : life' = [life EXCEPT ![j] = x]
        /\ link' = link \/ link' = [link EXCEPT ![j] = "closed"]
    BY <1>0, <1>15, EnlistsDoes
  <2>2. life[j] = "made"
    BY <1>0, <2>1 DEF JobsOK
  <2>3. j \notin Waiting /\ j \notin WasListed
    BY <2>2 DEF Waiting, WasListed
  <2>4. Walked(links', Listed) = Walked(links, Listed)
    <3>1. ListsOK(links, Waiting, WasListed, Alive, ~ NoneDropped)
      BY <1>0 DEF ListsAreOK
    <3>2. Walked(Appended(links, Pending, j), Listed) = Walked(links, Listed)
      BY <2>3, <3>1, ListsEnlist
    <3> QED
      BY <2>1, <3>2
  <2>5. then = now
    BY <2>1, <2>4 DEF then, now, Lines
  <2> QED
    BY <1>13, <2>1, <2>2, <2>5
\* update_transports sends every tracker the list.
<1>16. ASSUME NEW lines, Update(lines), lines = then PROVE TrackersCurrent'
  <2>1. \A c \in trackers' : shown'[c] = Shown(lines)
    BY <1>0, <1>16, UpdateDoes DEF HostTypes
  <2> QED
    BY <1>b, <1>16, <2>1
<1>17. ASSUME NEW j \in Jobs, Registers(j) PROVE TrackersCurrent'
  <2>1. Update(then)
    BY <1>0, <1>17, RegistersDoes DEF then
  <2> QED
    BY <1>16, <2>1
<1>18. ASSUME NEW j \in Jobs, Online(j) PROVE TrackersCurrent'
  <2>1. Update(Lines(links, conn')) /\ links' = links
    BY <1>18 DEF Online
  <2>2. Update(then)
    BY <2>1 DEF then
  <2> QED
    BY <1>16, <2>2
<1>19. ASSUME NEW j \in Jobs, Removes(j) PROVE TrackersCurrent'
  <2>1. /\ links' = LinksWithout(j) /\ conn' = [conn EXCEPT ![j] = "new"]
        /\ \A t \in ToSet(Walked(LinksWithout(j), Listed)) : t # j
        /\ Update(Lines(links', conn))
    BY <1>0, <1>19, RemovesDoes
  <2>2. Walked(links', Listed) \in Seq(Jobs)
    <3>1. ListsAreOK'
      BY ListsKept
    <3>2. links' \in LinkPointers /\ Leads(links', Listed, WasListed')
      BY <3>1 DEF ListsAreOK, ListsOK
    <3>3. Walked(links', Listed) \in Seq(WasListed')
      BY <3>2, WalkedAre, TheHeads
    <3> QED
      BY <3>3 DEF WasListed
  <2>3. conn \in [Jobs -> {"new", "device", "offline"}]
    BY <1>0 DEF HostTypes
  <2>4. then = Lines(links', conn)
    BY <2>1, <2>2, <2>3, LinesAlike DEF then
  <2> QED
    BY <1>16, <2>1, <2>4
\* The transport is on its way out from here on.
<1>20. ASSUME NEW j \in Jobs, Dying(j)' PROVE TrackersCurrent'
  BY <1>b, <1>20
<1>21. ASSUME NEW j \in Jobs, Offline(j) PROVE TrackersCurrent'
  <2>1. posted[j] /\ life[j] \in {"listed", "dropped"} /\ UNCHANGED <<life, link>>
    BY <1>21 DEF Offline
  <2>2. link[j] # "up"
    BY <1>0, <2>1 DEF ThreadsOK
  <2> QED
    BY <1>20, <2>1, <2>2 DEF Dying
<1>22. ASSUME NEW j \in Jobs, Disconnects(j) PROVE TrackersCurrent'
  <2>1. /\ life' = [life EXCEPT ![j] = "dropped"]
        /\ kicked[j] => link' = link
        /\ ~ kicked[j] => Kick(j)
    BY <1>0, <1>22, DisconnectsDoes
  <2>2. link' = [link EXCEPT ![j] = "closed"] \/ (link' = link /\ kicked[j])
    BY <1>0, <2>1, KickDoes
  <2>3. link'[j] # "up" /\ life'[j] = "dropped"
    BY <2>1, <2>2, <1>0 DEF HostTypes, ThreadsOK
  <2> QED
    BY <1>20, <2>3 DEF Dying
<1> QED
  BY <1>1, <1>4, <1>5, <1>6, <1>7, <1>8, <1>9, <1>11, <1>12, <1>14, <1>15, <1>17, <1>18, <1>19,
     <1>21, <1>22 DEF HostStep

LEMMA HostStarts ==
  ASSUME HostTransportsInit
  PROVE  HostInv
<1>1. HostTypes
  <2>1. round \in Rounds /\ round.drops \in Nat /\ dropsAsked = 0
    BY HostTransportsAssumption DEF HostTransportsInit
  <2>2. links \in LinkPointers
    BY DEF HostTransportsInit, LinkPointers
  <2>3. /\ table \in [1 .. TableSize -> Jobs \cup {Empty}]
        /\ registration \in Seq(Jobs \X {"add", "remove"})
    BY DEF HostTransportsInit
  <2>4. trackers \subseteq Followers /\ shown = [c \in Followers |-> shown[c]]
    BY DEF HostTransportsInit, TrackersInit
  <2>5. pc \in [Jobs -> {"idle", "check", "slots", "dial", "init", "lists", "done"}]
    BY DEF HostTransportsInit
  <2>6. /\ answer \in [Jobs -> {"none", "malformed", "already", "full", "unable", "connected"}]
        /\ life \in [Jobs -> {"none", "made", "pending", "listed", "dropped", "refused", "freed"}]
        /\ link \in [Jobs -> {"none", "up", "broken", "closed"}]
        /\ conn \in [Jobs -> {"new", "device", "offline"}]
    BY DEF HostTransportsInit
  <2>7. /\ kicked \in [Jobs -> BOOLEAN] /\ refs \in [Jobs -> Int]
        /\ thread \in [Jobs -> [InOut -> {"off", "run", "kick", "call", "unref", "done"}]]
        /\ posted \in [Jobs -> BOOLEAN] /\ synced \in [Jobs -> BOOLEAN]
        /\ fdOpen \in [Jobs -> BOOLEAN]
    BY DEF HostTransportsInit
  <2> QED
    BY <2>1, <2>2, <2>3, <2>4, <2>5, <2>6, <2>7 DEF HostTypes
<1>2. /\ \A j \in Jobs : /\ life[j] = "none" /\ refs[j] = 0
                         /\ ~ kicked[j] /\ ~ posted[j] /\ ~ synced[j]
                         /\ \A th \in InOut : thread[j][th] = "off"
      /\ \A i \in 1 .. TableSize : table[i] = Empty
      /\ registration = <<>> /\ trackers = {} /\ dropsAsked = 0
  BY DEF HostTransportsInit, TrackersInit
<1>3. Waiting = {} /\ WasListed = {} /\ Alive = {}
  BY <1>2 DEF Waiting, WasListed, Alive
<1>4. JobsOK
  <2>1. \A j \in Jobs : pc[j] # "lists"
    BY DEF HostTransportsInit
  <2> QED
    BY <1>2, <2>1 DEF JobsOK
<1>5. ThreadsOK
  BY <1>2 DEF ThreadsOK
<1>6. ReferencesOK
  BY <1>2, <1>3 DEF ReferencesOK, ThreadRefs, InOut
<1>7. QueueOK
  BY <1>2 DEF QueueOK
<1>8. TableOK
  BY <1>2, HostTransportsAssumption DEF TableOK, OnePerPort
<1>9. ListsAreOK
  <2>1. links \in LinkPointers /\ \A n \in Nodes : links.next[n] = n /\ links.prev[n] = n
    BY DEF HostTransportsInit, LinkPointers
  <2>2. Ring(links, Pending, {}) /\ Ring(links, Listed, {})
    BY <2>1, TheHeads DEF Ring
  <2>3. Leads(links, Listed, {}) /\ Leads(Back(links), Listed, {})
    BY <2>1, TheHeads DEF Leads, Back
  <2>4. ToSet(Walked(links, Listed)) \subseteq {}
    <3>1. Walked(links, Listed) \in Seq({})
      BY <2>1, <2>3, TheHeads, WalkedAre
    <3> QED
      BY <3>1 DEF ToSet
  <2>5. \E ord \in [Jobs -> Nat], b \in Nat :
          (\A j \in Jobs : ord[j] <= b) /\ InOrderOf(links, ord, {} \cup {})
    <3> DEFINE o == [j \in Jobs |-> 0]
    <3>1. o \in [Jobs -> Nat] /\ 0 \in Nat /\ (\A j \in Jobs : o[j] <= 0)
          /\ InOrderOf(links, o, {} \cup {})
      BY DEF InOrderOf
    <3> HIDE DEF o
    <3> QED
      BY <3>1
  <2>6. ListsOK(links, {}, {}, {}, ~ NoneDropped)
    BY <2>1, <2>2, <2>3, <2>4, <2>5 DEF ListsOK
  <2> QED
    BY <1>2, <1>3, <2>6 DEF ListsAreOK
<1>10. OnePerSerial /\ TrackersCurrent
  BY <1>2 DEF OnePerSerial, TrackersCurrent
<1> QED
  BY <1>1, <1>4, <1>5, <1>6, <1>7, <1>8, <1>9, <1>10 DEF HostInv

LEMMA HostInvCorrect ==
  ASSUME HostInv
  PROVE  HostTransportsCorrect
<1>0. /\ HostTypes /\ JobsOK /\ ThreadsOK /\ ReferencesOK /\ QueueOK /\ TableOK /\ ListsAreOK
      /\ OnePerSerial /\ TrackersCurrent
  BY DEF HostInv
<1>1. /\ ListsOK(links, Waiting, WasListed, Alive, ~ NoneDropped)
      /\ NoneDropped => \A j \in Jobs : life[j] # "dropped"
  BY <1>0 DEF ListsAreOK
<1>2. HostTransportsTypeOK
  <2>1. ASSUME NEW j \in Jobs PROVE refs[j] \in -round.drops .. 2
    <3>1. /\ round \in Rounds /\ dropsAsked \in 0 .. round.drops /\ refs[j] \in Int
          /\ ThreadRefs(j) \in 0 .. 2
      BY <1>0, ThreadRefsAre DEF HostTypes
    <3>2. round.drops \in Nat
      BY <3>1, HostTransportsAssumption
    <3>3. refs[j] <= ThreadRefs(j) /\ (refs[j] = 0 \/ refs[j] >= ThreadRefs(j) - dropsAsked)
      BY <1>0 DEF ReferencesOK
    <3> QED
      BY <3>1, <3>2, <3>3
  <2>2. refs \in [Jobs -> -round.drops .. 2]
    BY <1>0, <2>1 DEF HostTypes
  <2> QED
    BY <1>0, <2>2 DEF HostTypes, HostTransportsTypeOK, LinkPointers
\* What is freed has no reference: if no disconnect took one, its threads are done, and who
\* was to kick it has.
<1>3. ASSUME NEW j \in Jobs, life[j] = "freed", NoneDropped \/ IsEmulator(j)
      PROVE  \A th \in InOut : thread[j][th] = "done"
  <2>1. ThreadRefs(j) <= 0
    BY <1>0, <1>3 DEF ReferencesOK, QueueOK, WasListed
  <2> QED
    BY <2>1 DEF ThreadRefs, InOut
<1>4. FreedAfterThreads
  BY <1>3 DEF FreedAfterThreads
<1>5. RemovedLeavesTable
  <2>1. ASSUME NEW i \in 1 .. TableSize, table[i] # Empty, life[table[i]] = "freed" PROVE FALSE
    <3>1. table[i] \in Jobs /\ IsEmulator(table[i])
      BY <1>0, <2>1 DEF HostTypes, TableOK
    <3>2. \A th \in InOut : thread[table[i]][th] = "done"
      BY <1>3, <2>1, <3>1
    <3>3. kicked[table[i]]
      BY <1>0, <3>1, <3>2 DEF ThreadsOK, InOut
    <3> QED
      BY <1>0, <3>1, <3>2, <3>3 DEF TableOK
  <2> QED
    BY <2>1 DEF RemovedLeavesTable
<1>6. PendingWhole
  BY <1>1, ListsWalked DEF PendingWhole, Waiting
<1>7. WalkEnds
  <2>1. Steps(links, Listed)[Cardinality(Jobs) + 1] = Listed
    BY <1>1, ListsWalked
  <2>2. ToSet(Walked(links, Listed)) \subseteq Alive
    BY <1>1 DEF ListsOK
  <2> QED
    BY <2>1, <2>2 DEF WalkEnds, Alive
<1>8. ListsWhole
  <2>1. ASSUME NoneDropped
        PROVE  /\ ToSet(Walked(links, Listed)) = {j \in Jobs : life[j] = "listed"}
               /\ Walked([next |-> links.prev, prev |-> links.next], Listed)
                    = Reverse(Walked(links, Listed))
    <3>1. /\ ToSet(Walked(links, Listed)) = Alive
          /\ Walked(Back(links), Listed) = Reverse(Walked(links, Listed))
      BY <1>1, <2>1, ListsWalked
    <3>2. Alive = {j \in Jobs : life[j] = "listed"}
      BY <1>1, <2>1 DEF Alive
    <3> QED
      BY <3>1, <3>2 DEF Back
  <2> QED
    BY <2>1 DEF ListsWhole
<1> QED
  BY <1>0, <1>2, <1>4, <1>5, <1>6, <1>7, <1>8 DEF HostTransportsCorrect, TableOK

HostTransportsSpec == HostTransportsInit /\ [][HostTransportsNext]_hostTransportVars

LEMMA HostInvKept ==
  ASSUME HostInv, [HostTransportsNext]_hostTransportVars
  PROVE  HostInv'
<1>1. CASE HostTransportsNext
  BY <1>1, TypesKept, JobsKept, ThreadsKept, ReferencesKept, QueueKept, TableKept, ListsKept,
     SerialsKept, TrackersKept DEF HostInv
<1>2. CASE UNCHANGED hostTransportVars
  <2> USE DEF hostTransportVars, jobVars, listVars, transportVars, trackerVars
  <2>1. HostTypes'
    BY <1>2 DEF HostInv, HostTypes
  <2>2. JobsOK' /\ ThreadsOK'
    BY <1>2 DEF HostInv, JobsOK, ThreadsOK, WasListed
  <2>3. ReferencesOK' /\ QueueOK'
    BY <1>2 DEF HostInv, ReferencesOK, QueueOK, WasListed, Alive, ThreadRefs, IsEmulator,
                 NoneDropped
  <2>4. TableOK'
    BY <1>2 DEF HostInv, TableOK, OnePerPort, IsEmulator
  <2>5. ListsAreOK'
    BY <1>2 DEF HostInv, ListsAreOK, Waiting, WasListed, Alive, NoneDropped
  <2>6. OnePerSerial'
    BY <1>2 DEF HostInv, OnePerSerial, NoneDropped
  <2>7. TrackersCurrent'
    BY <1>2 DEF HostInv, TrackersCurrent, Dying
  <2> QED
    BY <2>1, <2>2, <2>3, <2>4, <2>5, <2>6, <2>7 DEF HostInv
<1> QED
  BY <1>1, <1>2

\* For every set of attempts to connect, table, and number of disconnects and clients: up to the
\* first use of a freed transport, the table has no two emulators on one port and none that was
\* removed, pending_list is whole, a walk of transport_list ends and meets none that was freed,
\* and, while nothing was disconnected, the list is whole, no two transports of it share a
\* serial and none is freed before its threads are done; trackers have been sent the list.
THEOREM HostTransportsHold == HostTransportsSpec => []HostTransportsCorrect
<1>1. HostTransportsInit => HostInv
  BY HostStarts
<1>2. HostInv /\ [HostTransportsNext]_hostTransportVars => HostInv'
  BY HostInvKept
<1>3. HostInv => HostTransportsCorrect
  BY HostInvCorrect
<1> QED
  BY <1>1, <1>2, <1>3, PTL DEF HostTransportsSpec
=============================================================================

----------------------------- MODULE WaitForAll -----------------------------
(***************************************************************************)
(* Waiting for any of more handles than WaitForMultipleObjects takes       *)
(* (sysdeps_win32.c): a thread waits for each chunk of them and for an     *)
(* event by which the first that is woken ends the others.                 *)
(***************************************************************************)
EXTENDS Integers, FiniteSets

CONSTANTS
  Handles,    \* handles_count
  ChunkSize   \* WAIT_ALL_CHUNK_SIZE

ASSUME WaitAssumption == Handles \in Nat \ {0} /\ ChunkSize \in Nat \ {0}

Indices == 0 .. Handles - 1
Chunks == (Handles + ChunkSize - 1) \div ChunkSize
ChunkIds == 0 .. Chunks - 1
Unset == -1
First(c) == ChunkSize * c
Count(c) == IF c < Handles \div ChunkSize THEN ChunkSize ELSE Handles % ChunkSize
HandlesOf(c) == First(c) .. First(c) + Count(c) - 1

VARIABLES
  set,         \* the handles that are set
  main_event,
  sig_index,
  waiter,      \* the thread of each chunk: none, waits, woken, told or ended
  woken,       \* what each was woken by: 0 for the event, else 1 + the place in its chunk
  caller,      \* start, wait, join or done
  at,          \* the chunk the caller starts or joins
  chunks,      \* how many it joins
  unstarted       \* whether a thread could not be started

waitVars == <<set, main_event, sig_index, waiter, woken, caller, at, chunks, unstarted>>

WaitInit ==
  /\ set = {} /\ main_event = FALSE /\ sig_index = Unset
  /\ waiter = [c \in ChunkIds |-> "none"] /\ woken = [c \in ChunkIds |-> 0]
  /\ caller = "start" /\ at = 0 /\ chunks = Chunks /\ unstarted = FALSE

\* A handle is set, and stays so until main reads.
Signal(h) ==
  /\ h \notin set /\ caller # "done"
  /\ set' = set \cup {h}
  /\ UNCHANGED <<main_event, sig_index, waiter, woken, caller, at, chunks, unstarted>>

-----------------------------------------------------------------------------
\* The caller.

StartsThread ==
  /\ caller = "start" /\ at < chunks
  /\ waiter' = [waiter EXCEPT ![at] = "waits"]
  /\ at' = at + 1
  /\ UNCHANGED <<set, main_event, sig_index, woken, caller, chunks, unstarted>>

CannotStart ==
  /\ caller = "start" /\ at < chunks
  /\ chunks' = at /\ unstarted' = TRUE /\ main_event' = TRUE
  /\ UNCHANGED <<set, sig_index, waiter, woken, caller, at>>

AllStarted ==
  /\ caller = "start" /\ at >= chunks
  /\ caller' = "wait"
  /\ UNCHANGED <<set, main_event, sig_index, waiter, woken, at, chunks, unstarted>>

CallerWoken ==
  /\ caller = "wait" /\ main_event
  /\ caller' = "join" /\ at' = 0
  /\ UNCHANGED <<set, main_event, sig_index, waiter, woken, chunks, unstarted>>

\* Mutant: the caller leaves when it is woken, and does not wait for the others.
JoinsNone ==
  /\ caller = "join" /\ caller' = "done"
  /\ UNCHANGED <<set, main_event, sig_index, waiter, woken, at, chunks, unstarted>>

Joins ==
  /\ caller = "join"
  /\ IF at < chunks THEN waiter[at] = "ended" /\ at' = at + 1 /\ UNCHANGED caller
                    ELSE caller' = "done" /\ UNCHANGED at
  /\ UNCHANGED <<set, main_event, sig_index, waiter, woken, chunks, unstarted>>

CallerStep == StartsThread \/ AllStarted \/ CallerWoken \/ Joins

-----------------------------------------------------------------------------
\* A thread: the first of what it waits for that is set, the event before the handles.
Wakes(c) ==
  /\ waiter[c] = "waits"
  /\ \/ main_event /\ woken' = [woken EXCEPT ![c] = 0]
     \/ /\ ~ main_event
        /\ \E h \in set \cap HandlesOf(c) :
             /\ \A g \in set \cap HandlesOf(c) : h <= g
             /\ woken' = [woken EXCEPT ![c] = 1 + h - First(c)]
  /\ waiter' = [waiter EXCEPT ![c] = "woken"]
  /\ UNCHANGED <<set, main_event, sig_index, caller, at, chunks, unstarted>>

\* InterlockedCompareExchange: the first to get here gives the answer.
Reports(c) ==
  /\ waiter[c] = "woken"
  /\ sig_index' = IF woken[c] > 0 /\ sig_index = Unset THEN woken[c] - 1 + First(c) ELSE sig_index
  /\ waiter' = [waiter EXCEPT ![c] = "told"]
  /\ UNCHANGED <<set, main_event, woken, caller, at, chunks, unstarted>>

\* Mutant: who was woken by the event does not set it for the others.
TellsIfFirst(c) ==
  /\ waiter[c] = "told"
  /\ main_event' = (main_event \/ sig_index = Unset)
  /\ waiter' = [waiter EXCEPT ![c] = "ended"]
  /\ UNCHANGED <<set, sig_index, woken, caller, at, chunks, unstarted>>

Tells(c) ==
  /\ waiter[c] = "told"
  /\ main_event' = TRUE
  /\ waiter' = [waiter EXCEPT ![c] = "ended"]
  /\ UNCHANGED <<set, sig_index, woken, caller, at, chunks, unstarted>>

WaiterStep(c) == Wakes(c) \/ Reports(c) \/ Tells(c)

WaitNext ==
  \/ CallerStep \/ CannotStart
  \/ \E h \in Indices : Signal(h)
  \/ \E c \in ChunkIds : WaiterStep(c)

WaitSpec == WaitInit /\ [][WaitNext]_waitVars

-----------------------------------------------------------------------------
WaitTypeOK ==
  /\ set \subseteq Indices /\ main_event \in BOOLEAN /\ sig_index \in Indices \cup {Unset}
  /\ waiter \in [ChunkIds -> {"none", "waits", "woken", "told", "ended"}]
  /\ woken \in [ChunkIds -> 0 .. ChunkSize]
  /\ caller \in {"start", "wait", "join", "done"} /\ at \in 0 .. Chunks /\ chunks \in 0 .. Chunks

\* The answer is a handle that is set; there is none only when a thread could not be
\* started (_wait_for_all; every handle is in one chunk).
AnswerIsSet ==
  caller = "done" => IF sig_index = Unset THEN unstarted ELSE sig_index \in set

\* When the caller frees what the threads use none of them runs (_wait_for_all, the last
\* loop).
FreedUnused == caller = "done" => \A c \in ChunkIds : waiter[c] \in {"none", "ended"}

\* A handle that is set ends the wait, wherever it is.
WaitEnds == set # {} ~> caller = "done"

\* A wait for more handles than Windows takes at once (sysdeps_win32.c): its answer is a handle
\* that is set, and nothing is freed that a thread still uses.
WaitCorrect == WaitTypeOK /\ AnswerIsSet /\ FreedUnused
=============================================================================

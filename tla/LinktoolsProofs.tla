--------------------------- MODULE LinktoolsProofs ---------------------------
(***************************************************************************)
(* What is proved of linktools: the reactor runs each call once and in     *)
(* order, whatever calls there are and whichever threads ask (reactor.py); *)
(* the containers chosen to start or to remove are right for every graph   *)
(* of dependencies (container/manager.py); a file that is fetched is whole *)
(* however many processes want it (_url.py); no line of a command's output *)
(* is lost or doubled (utils/_subprocess.py); a forward over ssh cuts no   *)
(* byte short in its tunnels (ssh.py); the sessions of a frida application *)
(* are one for each process and their ends are told once (frida/app.py).   *)
(***************************************************************************)
EXTENDS Reactor, ContainerResolve, UrlFile, SubprocessOutput, SshForward, FridaApp,
        FiniteSetTheorems, FunctionTheorems, SequenceTheorems, NaturalsInduction,
        WellFoundedInduction, TLAPS

-----------------------------------------------------------------------------
(* Numbers.                                                                *)

\* A set of numbers that is not empty has a least one.
LEMMA LeastExists ==
  ASSUME NEW S \in SUBSET Nat, S # {}
  PROVE  \E n \in S : \A m \in S : n <= m
<1> DEFINE lt == OpToRel(<, Nat)
<1>1. \A m, n \in Nat : m < n => <<m, n>> \in lt
  BY DEF OpToRel
<1> HIDE DEF lt
<1>2. PICK n \in S : \A m \in S : ~ (<<m, n>> \in lt)
  <2>1. IsWellFoundedOn(lt, Nat)
    BY NatLessThanWellFounded DEF lt
  <2> QED
    BY <2>1, WFMin
<1>3. \A m \in S : ~ (m < n)
  BY <1>1, <1>2
<1> QED
  BY <1>3

\* Least, where it is used.
LEMMA LeastIsLeast ==
  ASSUME NEW S \in SUBSET Nat, S # {}
  PROVE  Least(S) \in S /\ \A m \in S : Least(S) <= m
  BY LeastExists DEF Least

-----------------------------------------------------------------------------
(* The queue of the reactor.                                               *)

\* What a sequence holds without its element at i.
LEMMA RemoveAtHolds ==
  ASSUME NEW T, NEW s \in Seq(T), NEW i \in 1 .. Len(s)
  PROVE  /\ RemoveAt(s, i) \in Seq(T)
         /\ Len(RemoveAt(s, i)) = Len(s) - 1
         /\ \A k \in 1 .. Len(s) - 1 :
              RemoveAt(s, i)[k] = IF k < i THEN s[k] ELSE s[k + 1]
<1> DEFINE f == SubSeq(s, 1, i - 1)
           g == SubSeq(s, i + 1, Len(s))
<1>1. /\ f \in Seq(T) /\ Len(f) = i - 1 /\ \A k \in 1 .. i - 1 : f[k] = s[k]
  BY SubSeqProperties
<1>2. /\ g \in Seq(T) /\ Len(g) = Len(s) - i /\ \A k \in 1 .. Len(s) - i : g[k] = s[i + k]
  BY SubSeqProperties
<1> HIDE DEF f, g
<1>3. RemoveAt(s, i) = f \o g
  BY DEF RemoveAt, f, g
<1>4. f \o g \in Seq(T) /\ Len(f \o g) = Len(f) + Len(g)
  BY <1>1, <1>2, ConcatProperties
<1>5. ASSUME NEW k \in 1 .. Len(s) - 1
      PROVE  (f \o g)[k] = IF k < i THEN s[k] ELSE s[k + 1]
  <2>1. CASE k < i
    BY <1>1, <1>2, <2>1, ConcatProperties
  <2>2. CASE ~ (k < i)
    <3>1. (f \o g)[k] = g[k - Len(f)]
      BY <1>1, <1>2, <2>2, ConcatProperties
    <3>2. k - Len(f) = k - i + 1 /\ k - i + 1 \in 1 .. Len(s) - i
      BY <1>1, <2>2
    <3>3. g[k - i + 1] = s[i + (k - i + 1)]
      BY <1>2, <3>2
    <3> QED
      BY <2>2, <3>1, <3>2, <3>3
  <2> QED
    BY <2>1, <2>2
<1> QED
  BY <1>1, <1>2, <1>3, <1>4, <1>5

\* A sequence without repetitions is as long as the set of its elements.
LEMMA LengthIsSize ==
  ASSUME NEW T, NEW s \in Seq(T), IsInjective(s)
  PROVE  Cardinality(ToSet(s)) = Len(s)
<1>1. s \in Bijection(1 .. Len(s), ToSet(s))
  BY DEF IsInjective, ToSet, Bijection, Injection, Surjection, IsInjective
<1> QED
  BY <1>1, FS_CountingElements, LenProperties DEF ExistsBijection

-----------------------------------------------------------------------------
(* The reactor's invariant.                                                *)

ReactorSpec == ReactorInit /\ [][ReactorNext]_reactorVars

ReactorTypes ==
  /\ call \in [Jobs -> {"new", "asked", "put", "taken", "run"}]
  /\ left \in [Jobs -> Nat] /\ \A j \in Jobs : left[j] <= Delay[j]
  /\ earlier \in [Jobs -> SUBSET Jobs]
  /\ seen \in [Jobs -> Nat]
  /\ pending \in Seq(Jobs)
  /\ running \in BOOLEAN /\ work \in Jobs \cup {Idle}
  /\ worker \in {"look", "take", "work", "interrupted", "check", "wait", "stop", "ended"}
  /\ timer \in Int /\ timer >= Forever /\ previous \in Nat

\* The queue holds what was put, each call once.
HoldsPut ==
  /\ \A j \in Jobs : call[j] = "put" <=> \E i \in DOMAIN pending : pending[i] = j
  /\ IsInjective(pending)

\* What the worker has in hand was taken, or is the stop it asks for itself.
WorkInHand ==
  /\ worker = "work" => work \in Jobs /\ call[work] = "taken"
  /\ worker = "interrupted" => work \in Jobs /\ call[work] = "asked"

\* Calls put before another was asked have no delay, and are put or beyond.
EarlierArePut ==
  \A j \in Jobs : \A k \in earlier[j] : Delay[k] = 0 /\ call[k] \in {"put", "taken", "run"}

\* In the queue they are before it.
EarlierComeFirst ==
  \A i, k \in DOMAIN pending : pending[k] \in earlier[pending[i]] => k < i

\* When the worker saw a call due it saw those due as well.
EarlierSeenDue ==
  worker = "take" =>
    \A j \in Jobs : seen[j] = 0 =>
      call[j] # "new" /\ \A k \in earlier[j] : call[k] = "put" => seen[k] = 0

ReactorInv ==
  /\ ReactorTypes /\ HoldsPut /\ WorkInHand
  /\ EarlierArePut /\ EarlierComeFirst /\ EarlierSeenDue

LEMMA ReactorInitInv == ReactorInit => ReactorInv
<1> SUFFICES ASSUME ReactorInit PROVE ReactorInv
  OBVIOUS
<1>1. ReactorTypes
  <2>1. pending \in Seq(Jobs) /\ pending = <<>> /\ DOMAIN pending = {}
    BY DEF ReactorInit
  <2>2. Later \in Nat /\ Forever \in Int
    BY DEF Later, Forever
  <2> QED
    BY <2>1, <2>2, ReactorAssumption DEF ReactorTypes, ReactorInit
<1>2. HoldsPut
  BY DEF ReactorInit, HoldsPut, IsInjective
<1> QED
  BY <1>1, <1>2 DEF ReactorInv, ReactorInit, WorkInHand, EarlierArePut, EarlierComeFirst,
     EarlierSeenDue

\* What is due, the first of it, and that nothing put before it waits.
DueNow == {i \in DOMAIN pending : seen[pending[i]] = 0}

LEMMA FirstDue ==
  ASSUME ReactorInv, worker = "take", DueNow # {}
  PROVE  LET j == pending[Least(DueNow)] IN
         /\ Least(DueNow) \in 1 .. Len(pending)
         /\ j \in Jobs /\ call[j] = "put" /\ seen[j] = 0
         /\ \A k \in earlier[j] : call[k] # "put"
<1> DEFINE i == Least(DueNow)
           j == pending[i]
<1>1. DueNow \in SUBSET Nat /\ DOMAIN pending = 1 .. Len(pending) /\ pending \in Seq(Jobs)
  BY DEF DueNow, ReactorInv, ReactorTypes
<1>2. i \in DueNow /\ \A m \in DueNow : i <= m
  BY <1>1, LeastIsLeast
<1> HIDE DEF i
<1>3. i \in 1 .. Len(pending) /\ j \in Jobs /\ seen[j] = 0
  BY <1>1, <1>2 DEF DueNow
<1>4. call[j] = "put"
  BY <1>1, <1>3 DEF ReactorInv, HoldsPut
<1>5. ASSUME NEW k \in earlier[j], call[k] = "put" PROVE FALSE
  <2>1. k \in Jobs
    BY <1>3 DEF ReactorInv, ReactorTypes
  <2>2. PICK m \in DOMAIN pending : pending[m] = k
    BY <1>5, <2>1 DEF ReactorInv, HoldsPut
  <2>3. m < i
    BY <1>1, <1>3, <1>5, <2>2 DEF ReactorInv, EarlierComeFirst
  <2>4. seen[k] = 0
    BY <1>3, <1>5 DEF ReactorInv, EarlierSeenDue
  <2>5. m \in DueNow
    BY <2>2, <2>4 DEF DueNow
  <2>6. i <= m /\ i \in Nat /\ m \in Nat
    BY <1>1, <1>2, <2>5
  <2> QED
    BY <2>3, <2>6
<1> QED
  BY <1>3, <1>4, <1>5 DEF i

\* schedule begins.
LEMMA AskKeeps ==
  ASSUME ReactorInv, NEW j \in Jobs, Ask(j)
  PROVE  ReactorInv'
<1> USE DEF ReactorInv
<1>1. ReactorTypes'
  <2>1. {k \in Jobs : Delay[k] = 0 /\ call[k] = "put"} \in SUBSET Jobs
    OBVIOUS
  <2>2. call' \in [Jobs -> {"new", "asked", "put", "taken", "run"}]
    BY DEF ReactorTypes, Ask
  <2>3. earlier' \in [Jobs -> SUBSET Jobs]
    BY <2>1 DEF ReactorTypes, Ask
  <2> QED
    BY <2>2, <2>3 DEF ReactorTypes, Ask, workerVars
<1>2. HoldsPut'
  BY DEF ReactorTypes, Ask, HoldsPut, IsInjective
<1>3. WorkInHand'
  BY DEF ReactorTypes, Ask, WorkInHand, workerVars
<1>4. EarlierArePut'
  <2> SUFFICES ASSUME NEW m \in Jobs, NEW k \in earlier'[m]
               PROVE  Delay[k] = 0 /\ call'[k] \in {"put", "taken", "run"}
    BY DEF EarlierArePut
  <2>1. CASE m = j
    BY <2>1 DEF ReactorTypes, Ask
  <2>2. CASE m # j
    BY <2>2 DEF ReactorTypes, Ask, EarlierArePut
  <2> QED
    BY <2>1, <2>2
<1>5. EarlierComeFirst'
  <2>1. \A i \in DOMAIN pending : pending[i] \in Jobs
    BY DEF ReactorTypes
  <2>2. \A i \in DOMAIN pending : pending[i] # j
    BY DEF Ask, HoldsPut
  <2> QED
    BY <2>1, <2>2 DEF ReactorTypes, Ask, EarlierComeFirst
<1>6. EarlierSeenDue'
  <2> SUFFICES ASSUME worker = "take", NEW m \in Jobs, seen[m] = 0
               PROVE  call'[m] # "new" /\ \A k \in earlier'[m] : call'[k] = "put" => seen[k] = 0
    BY DEF EarlierSeenDue, Ask, workerVars
  <2>1. m # j /\ call[m] # "new"
    BY DEF EarlierSeenDue, Ask
  <2> QED
    BY <2>1 DEF ReactorTypes, Ask, EarlierSeenDue
<1> QED
  BY <1>1, <1>2, <1>3, <1>4, <1>5, <1>6

\* A call that was asked is put at the end of the queue.
LEMMA AppendKeeps ==
  ASSUME ReactorInv, NEW j \in Jobs, call[j] = "asked",
         call' = [call EXCEPT ![j] = "put"], pending' = Append(pending, j),
         UNCHANGED earlier
  PROVE  /\ pending' \in Seq(Jobs) /\ HoldsPut' /\ EarlierArePut' /\ EarlierComeFirst'
         /\ call' \in [Jobs -> {"new", "asked", "put", "taken", "run"}]
<1> USE DEF ReactorInv
<1>1. pending \in Seq(Jobs) /\ call \in [Jobs -> {"new", "asked", "put", "taken", "run"}]
  BY DEF ReactorTypes
<1>2. /\ pending' \in Seq(Jobs) /\ DOMAIN pending = 1 .. Len(pending)
      /\ Len(pending) \in Nat /\ DOMAIN pending' = 1 .. Len(pending) + 1
      /\ pending'[Len(pending) + 1] = j
      /\ \A i \in 1 .. Len(pending) : pending'[i] = pending[i]
  BY <1>1
<1>3. \A i \in 1 .. Len(pending) : pending[i] \in Jobs /\ pending[i] # j
  BY <1>1, <1>2 DEF HoldsPut
<1> DEFINE n == Len(pending)
<1>4. call' \in [Jobs -> {"new", "asked", "put", "taken", "run"}]
  BY <1>1
<1>5. ASSUME NEW m \in Jobs
      PROVE  call'[m] = "put" <=> \E i \in DOMAIN pending' : pending'[i] = m
  <2>1. call[m] = "put" <=> \E i \in 1 .. n : pending[i] = m
    BY <1>2 DEF HoldsPut
  <2>2. CASE m = j
    <3>1. n + 1 \in DOMAIN pending'
      BY <1>2
    <3> QED
      BY <1>1, <1>2, <2>2, <3>1
  <2>3. CASE m # j
    <3>1. call'[m] = call[m]
      BY <1>1, <2>3
    <3>2. (\E i \in DOMAIN pending' : pending'[i] = m) <=> \E i \in 1 .. n : pending[i] = m
      <4>1. \A i \in 1 .. n + 1 : i \in 1 .. n \/ i = n + 1
        BY <1>2
      <4>2. \A i \in 1 .. n : i \in 1 .. n + 1
        BY <1>2
      <4> HIDE DEF n
      <4> QED
        BY <1>2, <2>3, <4>1, <4>2 DEF n
    <3> QED
      BY <2>1, <3>1, <3>2
  <2> QED
    BY <2>2, <2>3
<1>6. IsInjective(pending')
  <2> SUFFICES ASSUME NEW a \in DOMAIN pending', NEW b \in DOMAIN pending',
                      pending'[a] = pending'[b]
               PROVE  a = b
    BY DEF IsInjective
  <2>1. CASE a = n + 1 \/ b = n + 1
    BY <1>2, <1>3, <2>1
  <2>2. CASE a # n + 1 /\ b # n + 1
    <3>1. a \in DOMAIN pending /\ b \in DOMAIN pending
      BY <1>2, <2>2
    <3> QED
      BY <1>2, <3>1 DEF HoldsPut, IsInjective
  <2> QED
    BY <2>1, <2>2
<1>7. EarlierArePut'
  <2> SUFFICES ASSUME NEW m \in Jobs, NEW k \in earlier[m]
               PROVE  Delay[k] = 0 /\ call'[k] \in {"put", "taken", "run"}
    BY DEF EarlierArePut
  <2>1. k \in Jobs /\ k # j
    BY DEF EarlierArePut, ReactorTypes
  <2> QED
    BY <1>1, <2>1 DEF EarlierArePut
<1>8. EarlierComeFirst'
  <2> SUFFICES ASSUME NEW i \in DOMAIN pending', NEW k \in DOMAIN pending',
                      pending'[k] \in earlier[pending'[i]]
               PROVE  k < i
    BY DEF EarlierComeFirst
  <2>1. CASE k = n + 1
    <3>1. pending'[i] \in Jobs
      BY <1>2
    <3> QED
      BY <1>2, <2>1, <3>1 DEF EarlierArePut
  <2>2. CASE k # n + 1 /\ i = n + 1
    BY <1>2, <2>2
  <2>3. CASE k # n + 1 /\ i # n + 1
    <3>1. i \in DOMAIN pending /\ k \in DOMAIN pending
      BY <1>2, <2>3
    <3> QED
      BY <1>2, <3>1 DEF EarlierComeFirst
  <2> QED
    BY <2>1, <2>2, <2>3
<1> QED
  BY <1>2, <1>4, <1>5, <1>6, <1>7, <1>8 DEF HoldsPut

\* schedule, under the lock.
LEMMA PutKeeps ==
  ASSUME ReactorInv, NEW j \in Jobs, Put(j)
  PROVE  ReactorInv'
<1>1. /\ pending' \in Seq(Jobs) /\ HoldsPut' /\ EarlierArePut' /\ EarlierComeFirst'
      /\ call' \in [Jobs -> {"new", "asked", "put", "taken", "run"}]
  BY AppendKeeps DEF Put
<1> USE DEF ReactorInv
<1>2. ReactorTypes'
  BY <1>1 DEF ReactorTypes, Put
<1>3. WorkInHand'
  BY DEF ReactorTypes, Put, WorkInHand
<1>4. EarlierSeenDue'
  <2> SUFFICES ASSUME worker = "take", NEW m \in Jobs, seen[m] = 0
               PROVE  call'[m] # "new" /\ \A k \in earlier[m] : call'[k] = "put" => seen[k] = 0
    BY DEF EarlierSeenDue, Put
  <2>1. \A k \in earlier[m] : k \in Jobs /\ k # j
    BY DEF EarlierArePut, Put, ReactorTypes
  <2> QED
    BY <2>1 DEF ReactorTypes, Put, EarlierSeenDue
<1> QED
  BY <1>1, <1>2, <1>3, <1>4

\* Time passes.
LEMMA TickKeeps ==
  ASSUME ReactorInv, Tick
  PROVE  ReactorInv'
<1> USE DEF ReactorInv
<1>1. ReactorTypes'
  <2>1. left' \in [Jobs -> Nat] /\ \A j \in Jobs : left'[j] <= Delay[j]
    <3>1. ASSUME NEW j \in Jobs PROVE left'[j] \in Nat /\ left'[j] <= Delay[j]
      <4>1. left[j] \in Nat /\ left[j] <= Delay[j] /\ Delay[j] \in Nat
        BY ReactorAssumption DEF ReactorTypes
      <4>2. left'[j] = IF call[j] \in {"asked", "put"} /\ left[j] > 0 THEN left[j] - 1
                       ELSE left[j]
        BY DEF Tick
      <4> QED
        BY <4>1, <4>2
    <3>2. left' = [j \in Jobs |-> left'[j]]
      BY DEF Tick
    <3> QED
      BY <3>1, <3>2
  <2>2. timer' \in Int /\ timer' >= Forever
    BY DEF ReactorTypes, Tick, Forever
  <2> QED
    BY <2>1, <2>2 DEF ReactorTypes, Tick
<1> QED
  BY <1>1 DEF Tick, HoldsPut, WorkInHand, EarlierArePut, EarlierComeFirst, EarlierSeenDue

\* The worker looks at the clock.
LEMMA LookKeeps ==
  ASSUME ReactorInv, Look
  PROVE  ReactorInv'
<1> USE DEF ReactorInv
<1>1. Later \in Nat /\ Later # 0
  BY DEF Later
<1>2. \A j \in Jobs : seen'[j] = IF call[j] \in {"asked", "put"} THEN left[j] ELSE Later
  BY DEF Look
<1>3. ReactorTypes'
  <2>1. seen' \in [Jobs -> Nat]
    <3>1. \A j \in Jobs : seen'[j] \in Nat
      BY <1>1, <1>2 DEF ReactorTypes
    <3>2. seen' = [j \in Jobs |-> seen'[j]]
      BY DEF Look
    <3> QED
      BY <3>1, <3>2
  <2> QED
    BY <2>1 DEF ReactorTypes, Look, callVars, Forever
<1>4. EarlierSeenDue'
  <2> SUFFICES ASSUME NEW j \in Jobs, seen'[j] = 0
               PROVE  call[j] # "new" /\ \A k \in earlier[j] : call[k] = "put" => seen'[k] = 0
    BY DEF EarlierSeenDue, Look, callVars
  <2>1. call[j] # "new"
    BY <1>1, <1>2
  <2>2. ASSUME NEW k \in earlier[j], call[k] = "put" PROVE seen'[k] = 0
    <3>1. k \in Jobs /\ Delay[k] = 0
      BY DEF EarlierArePut, ReactorTypes
    <3>2. left[k] \in Nat /\ left[k] <= Delay[k]
      BY <3>1 DEF ReactorTypes
    <3>3. seen'[k] = left[k]
      BY <1>2, <2>2, <3>1
    <3> QED
      BY <3>1, <3>2, <3>3
  <2> QED
    BY <2>1, <2>2
<1> QED
  BY <1>3, <1>4 DEF Look, callVars, HoldsPut, WorkInHand, EarlierArePut, EarlierComeFirst

\* It finds nothing that is due.
LEMMA TakeNothingKeeps ==
  ASSUME ReactorInv, Take, DueNow = {}
  PROVE  ReactorInv' /\ UNCHANGED <<call, earlier>>
<1> USE DEF ReactorInv
<1>1. worker' = "check" /\ UNCHANGED <<pending, call, earlier, work, left, running>>
  BY DEF Take, DueNow
<1>2. timer' \in Int /\ timer' >= Forever
  <2> DEFINE T == {IF seen[j] = Later THEN left[j] ELSE seen[j] : j \in ToSet(pending')}
  <2>1. ToSet(pending') \subseteq Jobs
    BY <1>1 DEF ReactorTypes, ToSet
  <2>2. T \in SUBSET Nat
    BY <2>1 DEF ReactorTypes
  <2>3. pending' # <<>> => T # {}
    <3> SUFFICES ASSUME pending' # <<>> PROVE 1 \in DOMAIN pending'
      BY DEF ToSet
    <3> QED
      BY <1>1 DEF ReactorTypes
  <2>4. timer' = IF pending' = <<>> THEN Forever ELSE Least(T)
    BY DEF Take
  <2> HIDE DEF T
  <2> QED
    BY <2>2, <2>3, <2>4, LeastIsLeast DEF Forever
<1>3. previous' \in Nat /\ seen' \in [Jobs -> Nat]
  BY <1>1 DEF Take, ReactorTypes, Later
<1>4. ReactorTypes'
  BY <1>1, <1>2, <1>3 DEF ReactorTypes
<1> QED
  BY <1>1, <1>4 DEF HoldsPut, WorkInHand, EarlierArePut, EarlierComeFirst, EarlierSeenDue

\* It takes the first that is due.
LEMMA TakeDueKeeps ==
  ASSUME ReactorInv, Take, DueNow # {}
  PROVE  /\ ReactorInv'
         /\ \E j \in Jobs :
              /\ call[j] = "put" /\ \A k \in earlier[j] : call[k] # "put"
              /\ call' = [call EXCEPT ![j] = "taken"]
              /\ earlier' = [earlier EXCEPT ![j] = {}]
<1> USE DEF ReactorInv
<1> DEFINE n == Least(DueNow)
           j == pending[n]
<1>1. worker = "take"
  BY DEF Take
<1>2. /\ n \in 1 .. Len(pending)
      /\ j \in Jobs /\ call[j] = "put"
      /\ \A k \in earlier[j] : call[k] # "put"
  BY <1>1, FirstDue
<1>3. /\ pending' = RemoveAt(pending, n)
      /\ call' = [call EXCEPT ![j] = "taken"]
      /\ earlier' = [earlier EXCEPT ![j] = {}]
      /\ work' = j /\ worker' = "work"
      /\ UNCHANGED <<left, running>>
  BY DEF Take, DueNow
<1> HIDE DEF n
<1>4. pending \in Seq(Jobs) /\ DOMAIN pending = 1 .. Len(pending) /\ Len(pending) \in Nat
  BY DEF ReactorTypes
<1>5. /\ pending' \in Seq(Jobs) /\ Len(pending') = Len(pending) - 1
      /\ DOMAIN pending' = 1 .. Len(pending) - 1
      /\ \A k \in 1 .. Len(pending) - 1 :
           pending'[k] = IF k < n THEN pending[k] ELSE pending[k + 1]
  <2>1. /\ RemoveAt(pending, n) \in Seq(Jobs)
        /\ Len(RemoveAt(pending, n)) = Len(pending) - 1
        /\ \A k \in 1 .. Len(pending) - 1 :
             RemoveAt(pending, n)[k] = IF k < n THEN pending[k] ELSE pending[k + 1]
    BY <1>2, <1>4, RemoveAtHolds
  <2>2. DOMAIN pending' = 1 .. Len(pending')
    BY <1>3, <2>1
  <2> QED
    BY <1>3, <2>1, <2>2
<1> DEFINE Old(k) == IF k < n THEN k ELSE k + 1
<1>6. \A k \in DOMAIN pending' :
        Old(k) \in DOMAIN pending /\ Old(k) # n /\ pending'[k] = pending[Old(k)]
  BY <1>2, <1>4, <1>5
<1>7. \A i \in DOMAIN pending : i # n => \E k \in DOMAIN pending' : Old(k) = i
  <2> SUFFICES ASSUME NEW i \in DOMAIN pending, i # n
               PROVE  \E k \in DOMAIN pending' : Old(k) = i
    OBVIOUS
  <2>1. CASE i < n
    BY <1>2, <1>4, <1>5, <2>1
  <2>2. CASE i > n
    <3>1. i - 1 \in DOMAIN pending' /\ Old(i - 1) = i
      BY <1>2, <1>4, <1>5, <2>2
    <3> QED
      BY <3>1
  <2> QED
    BY <1>2, <1>4, <2>1, <2>2
<1>8. \A i, k \in DOMAIN pending' : /\ Old(i) = Old(k) => i = k
                                    /\ Old(k) < Old(i) => k < i
  BY <1>2, <1>4, <1>5
<1>9. j \notin {pending'[k] : k \in DOMAIN pending'}
  BY <1>2, <1>4, <1>6 DEF HoldsPut, IsInjective
<1> HIDE DEF Old
<1>10. timer' \in Int /\ timer' >= Forever
  <2> DEFINE T == {IF seen[m] = Later THEN left[m] ELSE seen[m] : m \in ToSet(pending')}
  <2>1. ToSet(pending') \subseteq Jobs
    BY <1>5 DEF ToSet
  <2>2. T \in SUBSET Nat
    BY <2>1 DEF ReactorTypes
  <2>3. pending' # <<>> => T # {}
    <3> SUFFICES ASSUME pending' # <<>> PROVE 1 \in DOMAIN pending'
      BY DEF ToSet
    <3> QED
      BY <1>5
  <2>4. timer' = IF pending' = <<>> THEN Forever ELSE Least(T)
    BY DEF Take
  <2> HIDE DEF T
  <2> QED
    BY <2>2, <2>3, <2>4, LeastIsLeast DEF Forever
<1>11. ReactorTypes'
  <2>1. previous' \in Nat /\ seen' \in [Jobs -> Nat]
    BY <1>5 DEF Take, Later
  <2>2. call' \in [Jobs -> {"new", "asked", "put", "taken", "run"}]
    BY <1>2, <1>3 DEF ReactorTypes
  <2>3. earlier' \in [Jobs -> SUBSET Jobs]
    BY <1>2, <1>3 DEF ReactorTypes
  <2> HIDE DEF j
  <2> QED
    BY <1>2, <1>3, <1>5, <1>10, <2>1, <2>2, <2>3 DEF ReactorTypes
<1>12. HoldsPut'
  <2>1. ASSUME NEW m \in Jobs
        PROVE  call'[m] = "put" <=> \E k \in DOMAIN pending' : pending'[k] = m
    <3>1. CASE m = j
      BY <1>2, <1>3, <1>9, <3>1 DEF ReactorTypes
    <3>2. CASE m # j
      <4>1. call'[m] = call[m]
        BY <1>3, <3>2 DEF ReactorTypes
      <4>2. call[m] = "put" <=> \E i \in DOMAIN pending : pending[i] = m
        BY DEF HoldsPut
      <4>3. ASSUME NEW i \in DOMAIN pending, pending[i] = m
            PROVE  \E k \in DOMAIN pending' : pending'[k] = m
        BY <1>6, <1>7, <3>2, <4>3
      <4>4. ASSUME NEW k \in DOMAIN pending', pending'[k] = m
            PROVE  \E i \in DOMAIN pending : pending[i] = m
        BY <1>6, <4>4
      <4> QED
        BY <4>1, <4>2, <4>3, <4>4
    <3> QED
      BY <3>1, <3>2
  <2>2. IsInjective(pending')
    BY <1>6, <1>8 DEF HoldsPut, IsInjective
  <2> QED
    BY <2>1, <2>2 DEF HoldsPut
<1>13. WorkInHand'
  BY <1>2, <1>3 DEF WorkInHand, ReactorTypes
<1>14. EarlierArePut'
  <2> SUFFICES ASSUME NEW m \in Jobs, NEW k \in earlier'[m]
               PROVE  Delay[k] = 0 /\ call'[k] \in {"put", "taken", "run"}
    BY DEF EarlierArePut
  <2>1. m # j /\ k \in earlier[m]
    BY <1>2, <1>3 DEF ReactorTypes
  <2>2. k \in Jobs
    BY <2>1 DEF ReactorTypes
  <2> QED
    BY <1>3, <2>1, <2>2 DEF EarlierArePut, ReactorTypes
<1>15. EarlierComeFirst'
  <2> SUFFICES ASSUME NEW i \in DOMAIN pending', NEW k \in DOMAIN pending',
                      pending'[k] \in earlier'[pending'[i]]
               PROVE  k < i
    BY DEF EarlierComeFirst
  <2>1. pending'[i] \in Jobs /\ pending'[i] # j
    BY <1>5, <1>9
  <2>2. pending'[k] \in earlier[pending'[i]]
    BY <1>3, <2>1 DEF ReactorTypes
  <2>3. Old(k) < Old(i)
    BY <1>6, <2>2 DEF EarlierComeFirst
  <2> QED
    BY <1>8, <2>3
<1>16. EarlierSeenDue'
  BY <1>3 DEF EarlierSeenDue
<1> QED
  BY <1>2, <1>3, <1>11, <1>12, <1>13, <1>14, <1>15, <1>16

\* The call returns.
LEMMA WorkKeeps ==
  ASSUME ReactorInv, Work
  PROVE  ReactorInv'
<1> USE DEF ReactorInv
<1>1. work \in Jobs /\ call[work] = "taken" /\ call' = [call EXCEPT ![work] = "run"]
  BY DEF Work, WorkInHand
<1>2. ReactorTypes'
  BY <1>1 DEF ReactorTypes, Work
<1>3. HoldsPut'
  BY <1>1 DEF HoldsPut, Work, ReactorTypes, IsInjective
<1>4. EarlierArePut'
  BY <1>1 DEF EarlierArePut, Work, ReactorTypes
<1> QED
  BY <1>2, <1>3, <1>4 DEF Work, WorkInHand, EarlierComeFirst, EarlierSeenDue

\* Or it is interrupted, and a stop is asked for.
LEMMA InterruptedKeeps ==
  ASSUME ReactorInv, WorkInterrupted
  PROVE  /\ ReactorInv'
         /\ \E w, s \in Jobs :
              /\ call[w] = "taken" /\ call[s] = "new"
              /\ call' = [call EXCEPT ![w] = "run", ![s] = "asked"]
              /\ earlier' = [earlier EXCEPT ![s] = {k \in Jobs : Delay[k] = 0 /\ call[k] = "put"}]
<1> USE DEF ReactorInv
<1>1. work \in Jobs /\ call[work] = "taken"
  BY DEF WorkInterrupted, WorkInHand
<1>2. PICK s \in Stops :
        /\ call[s] = "new"
        /\ call' = [call EXCEPT ![work] = "run", ![s] = "asked"]
        /\ earlier' = [earlier EXCEPT ![s] = {k \in Jobs : Delay[k] = 0 /\ call[k] = "put"}]
        /\ work' = s
  BY DEF WorkInterrupted
<1>3. s \in Jobs /\ s # work
  BY <1>1, <1>2, ReactorAssumption
<1>4. /\ worker' = "interrupted"
      /\ UNCHANGED <<left, pending, running, seen, timer, previous>>
  BY DEF WorkInterrupted
<1>5. ReactorTypes'
  <2>1. call' \in [Jobs -> {"new", "asked", "put", "taken", "run"}]
    BY <1>1, <1>2, <1>3 DEF ReactorTypes
  <2>2. {k \in Jobs : Delay[k] = 0 /\ call[k] = "put"} \in SUBSET Jobs
    OBVIOUS
  <2>3. earlier' \in [Jobs -> SUBSET Jobs]
    BY <1>2, <2>2 DEF ReactorTypes
  <2> QED
    BY <1>2, <1>3, <1>4, <2>1, <2>3 DEF ReactorTypes
<1>6. \A k \in Jobs : call'[k] = IF k = work THEN "run" ELSE IF k = s THEN "asked" ELSE call[k]
  BY <1>1, <1>2, <1>3 DEF ReactorTypes
<1>7. HoldsPut'
  <2>1. ASSUME NEW k \in Jobs PROVE call'[k] = "put" <=> call[k] = "put"
    <3>1. CASE k = work
      <4>1. call'[k] = "run" /\ call[k] = "taken"
        BY <1>1, <1>6, <3>1
      <4> QED
        BY <4>1
    <3>2. CASE k = s
      <4>1. call'[k] = "asked" /\ call[k] = "new"
        BY <1>2, <1>3, <1>6, <3>2
      <4> QED
        BY <4>1
    <3>3. CASE k # work /\ k # s
      <4>1. call'[k] = call[k]
        BY <1>6, <3>3
      <4> QED
        BY <4>1
    <3> QED
      BY <3>1, <3>2, <3>3
  <2> QED
    BY <1>4, <2>1 DEF HoldsPut, IsInjective
<1>8. WorkInHand'
  BY <1>2, <1>3, <1>4, <1>6 DEF WorkInHand
<1>9. EarlierArePut'
  <2> SUFFICES ASSUME NEW m \in Jobs, NEW k \in earlier'[m]
               PROVE  Delay[k] = 0 /\ call'[k] \in {"put", "taken", "run"}
    BY DEF EarlierArePut
  <2>1. CASE m = s
    <3>1. k \in Jobs /\ Delay[k] = 0 /\ call[k] = "put"
      BY <1>2, <2>1 DEF ReactorTypes
    <3> QED
      BY <1>1, <1>2, <1>6, <3>1
  <2>2. CASE m # s
    <3>1. k \in earlier[m]
      BY <1>2, <2>2 DEF ReactorTypes
    <3>2. k \in Jobs /\ Delay[k] = 0 /\ call[k] \in {"put", "taken", "run"}
      BY <3>1 DEF EarlierArePut, ReactorTypes
    <3> QED
      BY <1>2, <1>6, <3>2
  <2> QED
    BY <2>1, <2>2
<1>10. EarlierComeFirst'
  <2>1. \A i \in DOMAIN pending : pending[i] \in Jobs
    BY DEF ReactorTypes
  <2>2. \A i \in DOMAIN pending : pending[i] # s
    BY <1>2, <1>3 DEF HoldsPut
  <2> QED
    BY <1>2, <1>4, <2>1, <2>2 DEF ReactorTypes, EarlierComeFirst
<1>11. EarlierSeenDue'
  BY <1>4 DEF EarlierSeenDue
<1> QED
  BY <1>1, <1>2, <1>3, <1>5, <1>7, <1>8, <1>9, <1>10, <1>11

\* And put.
LEMMA StopScheduledKeeps ==
  ASSUME ReactorInv, StopScheduled
  PROVE  ReactorInv' /\ work \in Jobs /\ call[work] = "asked"
<1>1. work \in Jobs /\ call[work] = "asked"
  BY DEF StopScheduled, WorkInHand, ReactorInv
<1>2. /\ pending' \in Seq(Jobs) /\ HoldsPut' /\ EarlierArePut' /\ EarlierComeFirst'
      /\ call' \in [Jobs -> {"new", "asked", "put", "taken", "run"}]
  BY <1>1, AppendKeeps DEF StopScheduled
<1>3. ReactorTypes'
  BY <1>2 DEF ReactorTypes, StopScheduled, ReactorInv
<1> QED
  BY <1>1, <1>2, <1>3 DEF ReactorInv, WorkInHand, EarlierSeenDue, StopScheduled

\* The worker looks whether to wait, wakes up, or ends.
LEMMA RestKeeps ==
  ASSUME ReactorInv, Check \/ TimedOut \/ OnStop
  PROVE  ReactorInv' /\ UNCHANGED <<call, earlier>>
<1> USE DEF ReactorInv, callVars
<1>1. UNCHANGED <<call, left, earlier, pending, running, seen, work, timer>>
  BY DEF Check, TimedOut, OnStop
<1>2. worker' \in {"look", "wait", "stop", "ended"} /\ previous' \in Nat
  BY DEF Check, TimedOut, OnStop, ReactorTypes
<1>3. ReactorTypes'
  BY <1>1, <1>2 DEF ReactorTypes
<1> QED
  BY <1>1, <1>2, <1>3 DEF HoldsPut, WorkInHand, EarlierArePut, EarlierComeFirst, EarlierSeenDue

LEMMA ReactorStep == ReactorInv /\ [ReactorNext]_reactorVars => ReactorInv'
<1> SUFFICES ASSUME ReactorInv, [ReactorNext]_reactorVars PROVE ReactorInv'
  OBVIOUS
<1>1. CASE \E j \in Jobs : Ask(j) \/ Put(j)
  BY <1>1, AskKeeps, PutKeeps
<1>2. CASE Tick
  BY <1>2, TickKeeps
<1>3. CASE Look
  BY <1>3, LookKeeps
<1>4. CASE Take
  BY <1>4, TakeNothingKeeps, TakeDueKeeps
<1>5. CASE Work \/ WorkInterrupted \/ StopScheduled
  BY <1>5, WorkKeeps, InterruptedKeeps, StopScheduledKeeps
<1>6. CASE Check \/ TimedOut \/ OnStop
  BY <1>6, RestKeeps
<1>7. CASE UNCHANGED reactorVars
  BY <1>7 DEF reactorVars, callVars, workerVars, ReactorInv, ReactorTypes, HoldsPut, WorkInHand,
     EarlierArePut, EarlierComeFirst, EarlierSeenDue
<1> QED
  BY <1>1, <1>2, <1>3, <1>4, <1>5, <1>6, <1>7 DEF ReactorNext, WorkerStep

LEMMA ReactorInvAlways == ReactorSpec => []ReactorInv
  BY ReactorInitInv, ReactorStep, PTL DEF ReactorSpec

LEMMA ReactorInvTypes == ReactorInv => ReactorTypeOK
<1> SUFFICES ASSUME ReactorInv PROVE ReactorTypeOK
  OBVIOUS
<1> USE DEF ReactorInv
<1>1. \A j \in Jobs : left[j] \in 0..Delay[j] /\ earlier[j] \subseteq Jobs
  BY ReactorAssumption DEF ReactorTypes
<1>2. ToSet(pending) = {j \in Jobs : call[j] = "put"}
  <2>1. \A i \in DOMAIN pending : pending[i] \in Jobs
    BY DEF ReactorTypes
  <2> QED
    BY <2>1 DEF ToSet, HoldsPut
<1>3. Len(pending) = Cardinality(ToSet(pending))
  BY LengthIsSize DEF ReactorTypes, HoldsPut
<1> QED
  BY <1>1, <1>2, <1>3 DEF ReactorTypeOK, ReactorTypes

-----------------------------------------------------------------------------
(* It implements JobQueue.                                                 *)

\* What a call is to JobQueue.
State == [j \in Jobs |-> IF call[j] = "taken" THEN "run" ELSE call[j]]
HasEnded == worker \in {"stop", "ended"}

LEMMA ReactorInitImplements == ReactorInit => Queue!Init
<1> SUFFICES ASSUME ReactorInit PROVE Queue!Init
  OBVIOUS
<1> QED
  BY DEF ReactorInit, Queue!Init

\* A step that does not concern a call, nor ends the reactor.
LEMMA QuietStep ==
  ASSUME State' = State, earlier' = earlier, HasEnded' = HasEnded
  PROVE  UNCHANGED Queue!vars
  BY DEF Queue!vars, State, HasEnded

LEMMA AskImplements ==
  ASSUME ReactorInv, NEW j \in Jobs, call[j] = "new", HasEnded' = HasEnded,
         State' = [State EXCEPT ![j] = "asked"],
         earlier' = [earlier EXCEPT ![j] = {k \in Jobs : Delay[k] = 0 /\ call[k] = "put"}]
  PROVE  Queue!Next
<1>1. {k \in Jobs : Delay[k] = 0 /\ call[k] = "put"}
        = {k \in Jobs \ {i \in Jobs : Delay[i] > 0} : State[k] = "put"}
  BY ReactorAssumption DEF State
<1>2. State[j] = "new"
  BY DEF State
<1>3. Queue!AskJob(j)
  BY <1>1, <1>2 DEF Queue!AskJob, State, HasEnded
<1> QED
  BY <1>3 DEF Queue!Next

LEMMA PutImplements ==
  ASSUME ReactorInv, NEW j \in Jobs, call[j] = "asked", HasEnded' = HasEnded,
         State' = [State EXCEPT ![j] = "put"], earlier' = earlier
  PROVE  Queue!Next
<1>1. State[j] = "asked"
  BY DEF State
<1>2. Queue!PutJob(j)
  BY <1>1 DEF Queue!PutJob, State, HasEnded
<1> QED
  BY <1>2 DEF Queue!Next

LEMMA RunImplements ==
  ASSUME ReactorInv, NEW j \in Jobs, call[j] = "put", ~ HasEnded, HasEnded' = HasEnded,
         \A k \in earlier[j] : call[k] # "put",
         State' = [State EXCEPT ![j] = "run"], earlier' = [earlier EXCEPT ![j] = {}]
  PROVE  Queue!Next
<1>1. State[j] = "put"
  BY DEF State
<1>2. \A k \in earlier[j] : State[k] # "put"
  BY DEF State, ReactorInv, ReactorTypes
<1>3. Queue!RunJob(j)
  BY <1>1, <1>2 DEF Queue!RunJob, State, HasEnded
<1> QED
  BY <1>3 DEF Queue!Next

LEMMA ReactorStepImplements ==
  ReactorInv /\ [ReactorNext]_reactorVars => [Queue!Next]_(Queue!vars)
<1> SUFFICES ASSUME ReactorInv, [ReactorNext]_reactorVars PROVE Queue!Next \/ UNCHANGED Queue!vars
  OBVIOUS
<1> USE DEF ReactorInv, callVars, workerVars
<1>1. call \in [Jobs -> {"new", "asked", "put", "taken", "run"}]
  BY DEF ReactorTypes
<1>2. ASSUME NEW j \in Jobs, Ask(j) PROVE Queue!Next
  <2>1. State' = [State EXCEPT ![j] = "asked"]
    BY <1>1, <1>2 DEF Ask, State
  <2> QED
    BY <1>2, <2>1, AskImplements DEF Ask, HasEnded
<1>3. ASSUME NEW j \in Jobs, Put(j) PROVE Queue!Next
  <2>1. State' = [State EXCEPT ![j] = "put"]
    BY <1>1, <1>3 DEF Put, State
  <2>2. HasEnded' = HasEnded
    BY <1>3 DEF Put, HasEnded
  <2> QED
    BY <1>3, <2>1, <2>2, PutImplements DEF Put
<1>4. CASE Tick \/ Look
  BY <1>4, QuietStep DEF Tick, Look, State, HasEnded
<1>5. CASE Take /\ DueNow = {}
  <2>1. worker = "take" /\ worker' = "check" /\ UNCHANGED <<call, earlier>>
    BY <1>5 DEF Take, DueNow
  <2> QED
    BY <2>1, QuietStep DEF State, HasEnded
<1>6. CASE Take /\ DueNow # {}
  <2>1. worker = "take" /\ worker' = "work"
    BY <1>6 DEF Take, DueNow
  <2>2. PICK j \in Jobs :
          /\ call[j] = "put" /\ \A k \in earlier[j] : call[k] # "put"
          /\ call' = [call EXCEPT ![j] = "taken"]
          /\ earlier' = [earlier EXCEPT ![j] = {}]
    BY <1>6, TakeDueKeeps
  <2>3. State' = [State EXCEPT ![j] = "run"]
    BY <1>1, <2>2 DEF State
  <2>4. ~ HasEnded /\ HasEnded' = HasEnded
    BY <2>1 DEF HasEnded
  <2> QED
    BY <2>2, <2>3, <2>4, RunImplements
<1>7. CASE Work
  <2>1. State' = State
    BY <1>1, <1>7 DEF Work, WorkInHand, State
  <2> QED
    BY <1>7, <2>1, QuietStep DEF Work, HasEnded
<1>8. CASE WorkInterrupted
  <2>1. PICK w, s \in Jobs :
          /\ call[w] = "taken" /\ call[s] = "new"
          /\ call' = [call EXCEPT ![w] = "run", ![s] = "asked"]
          /\ earlier' = [earlier EXCEPT ![s] = {k \in Jobs : Delay[k] = 0 /\ call[k] = "put"}]
    BY <1>8, InterruptedKeeps
  <2>2. State' = [State EXCEPT ![s] = "asked"]
    BY <1>1, <2>1 DEF State
  <2>3. HasEnded' = HasEnded
    BY <1>8 DEF WorkInterrupted, HasEnded
  <2> QED
    BY <2>1, <2>2, <2>3, AskImplements
<1>9. CASE StopScheduled
  <2>1. work \in Jobs /\ call[work] = "asked"
    BY <1>9, StopScheduledKeeps
  <2>2. State' = [State EXCEPT ![work] = "put"]
    BY <1>1, <1>9, <2>1 DEF StopScheduled, State
  <2>3. HasEnded' = HasEnded /\ earlier' = earlier
    BY <1>9 DEF StopScheduled, HasEnded
  <2> QED
    BY <2>1, <2>2, <2>3, PutImplements
<1>10. CASE Check
  <2>1. UNCHANGED <<call, earlier>> /\ ~ HasEnded
    BY <1>10 DEF Check, HasEnded
  <2>2. HasEnded' \/ HasEnded' = HasEnded
    BY <2>1 DEF HasEnded
  <2>3. CASE HasEnded'
    BY <2>1, <2>3 DEF Queue!Next, Queue!End, HasEnded
  <2>4. CASE HasEnded' = HasEnded
    BY <2>1, <2>4, QuietStep DEF State
  <2> QED
    BY <2>2, <2>3, <2>4
<1>11. CASE TimedOut \/ OnStop
  BY <1>11, QuietStep DEF TimedOut, OnStop, State, HasEnded
<1>12. CASE UNCHANGED reactorVars
  BY <1>12, QuietStep DEF reactorVars, State, HasEnded
<1> QED
  BY <1>2, <1>3, <1>4, <1>5, <1>6, <1>7, <1>8, <1>9, <1>10, <1>11, <1>12
     DEF ReactorNext, WorkerStep

\* Whichever threads call schedule, and however their calls meet the worker's looks at the
\* clock: each call put is in the queue once, is run at most once and not after the end, and a
\* call without a delay never before one without a delay that was put when it was asked
\* (reactor.py).
THEOREM ReactorHolds == ReactorSpec => ReactorCorrect
<1>1. ReactorSpec => []ReactorTypeOK
  BY ReactorInvAlways, ReactorInvTypes, PTL
<1>2. ReactorSpec => Queue!Spec
  BY ReactorInitImplements, ReactorStepImplements, ReactorInvAlways, PTL
     DEF ReactorSpec, Queue!Spec
<1> QED
  BY <1>1, <1>2 DEF ReactorCorrect, ReactorImplements

-----------------------------------------------------------------------------
(* Finite sets.                                                            *)

\* The smallest of some sets.
LEMMA SmallestSet ==
  ASSUME NEW D, IsFiniteSet(D), NEW P \in SUBSET (SUBSET D), P # {}
  PROVE  \E T \in P : \A U \in SUBSET T : U # T => U \notin P
<1> DEFINE N == {Cardinality(T) : T \in P}
<1>1. \A T \in SUBSET D : IsFiniteSet(T)
  BY FS_Subset
<1>2. N \subseteq Nat /\ N # {}
  BY <1>1, FS_CardinalityType
<1>3. PICK m \in N : \A n \in N : m <= n
  BY <1>2, LeastExists
<1>4. PICK T \in P : Cardinality(T) = m
  OBVIOUS
<1>5. ASSUME NEW U \in SUBSET T, U # T, U \in P PROVE FALSE
  <2>1. Cardinality(U) < m /\ Cardinality(U) \in Nat /\ m \in Nat
    BY <1>1, <1>4, <1>5, FS_Subset, FS_CardinalityType
  <2>2. m <= Cardinality(U)
    BY <1>3, <1>5
  <2> QED
    BY <2>1, <2>2
<1> QED
  BY <1>5

\* A finite set of numbers that is not empty has a largest one.
LEMMA LargestExists ==
  ASSUME NEW D \in SUBSET Nat, IsFiniteSet(D), D # {}
  PROVE  \E n \in D : \A m \in D : m <= n
<1> DEFINE P == {S \in SUBSET D : S # {} /\ ~ \E n \in S : \A m \in S : m <= n}
<1>1. SUFFICES ASSUME P # {} PROVE FALSE
  OBVIOUS
<1>2. PICK T \in P : \A U \in SUBSET T : U # T => U \notin P
  <2>1. P \in SUBSET (SUBSET D)
    OBVIOUS
  <2> HIDE DEF P
  <2> QED
    BY <1>1, <2>1, SmallestSet
<1>3. PICK c \in T : c \in Nat
  OBVIOUS
<1>4. CASE T = {c}
  BY <1>3, <1>4
<1>5. CASE T # {c}
  <2>1. T \ {c} \in SUBSET T /\ T \ {c} # T /\ T \ {c} # {} /\ T \ {c} \in SUBSET D
    BY <1>3, <1>5
  <2>2. PICK d \in T \ {c} : \A m \in T \ {c} : m <= d
    BY <1>2, <2>1
  <2>3. d \in Nat /\ T \subseteq Nat
    OBVIOUS
  <2>4. CASE c <= d
    BY <2>2, <2>3, <2>4
  <2>5. CASE ~ (c <= d)
    <3>1. \A m \in T : m <= c
      BY <1>3, <2>2, <2>3, <2>5
    <3> QED
      BY <3>1
  <2> QED
    BY <2>4, <2>5
<1> QED
  BY <1>4, <1>5

\* Containers, and some of them, have a largest one.
LEMMA LargestContainer ==
  ASSUME NEW D \in SUBSET Containers, D # {}
  PROVE  \E n \in D : n \in Nat /\ \A m \in D : m <= n
  BY LargestExists, FS_Subset, ContainerAssumption

-----------------------------------------------------------------------------
(* What is reached from some containers.                                   *)

Steps == Cardinality(Containers)

\* The recursion of Reached.
Chain(f, D, start, among) ==
  f = [n \in 0..Steps |->
         IF n = 0 THEN start
         ELSE f[n - 1] \cup (among \cap UNION {D[c] : c \in f[n - 1]})]

LEMMA StepsIsNat == Steps \in Nat
  BY ContainerAssumption, FS_CardinalityType DEF Steps

\* There is such a function.
LEMMA ChainExists ==
  ASSUME NEW D, NEW start, NEW among
  PROVE  \E f : Chain(f, D, start, among)
<1> DEFINE Next(S) == S \cup (among \cap UNION {D[c] : c \in S})
           Upto(f, m) == f = [n \in 0..m |-> IF n = 0 THEN start ELSE Next(f[n - 1])]
           P == {m \in Nat : ~ \E f : Upto(f, m)}
<1>1. SUFFICES ASSUME P # {} PROVE FALSE
  BY StepsIsNat DEF Chain
<1>2. PICK m \in P : \A n \in P : m <= n
  <2>1. P \in SUBSET Nat
    OBVIOUS
  <2> HIDE DEF P
  <2> QED
    BY <1>1, <2>1, LeastExists
<1>3. m \in Nat /\ ~ \E f : Upto(f, m)
  OBVIOUS
<1>4. CASE m = 0
  <2> DEFINE g == [n \in 0..0 |-> start]
  <2>1. \A n \in 0..0 : n = 0
    OBVIOUS
  <2>2. Upto(g, 0)
    BY <2>1
  <2> QED
    BY <1>3, <1>4, <2>2
<1>5. CASE m # 0
  <2>1. m - 1 \in Nat /\ m - 1 \notin P
    <3> HIDE DEF P, Upto
    <3> QED
      BY <1>2, <1>3, <1>5
  <2>2. PICK g : Upto(g, m - 1)
    BY <2>1
  <2> HIDE DEF Next
  <2> DEFINE h == [n \in 0..m |-> IF n = m THEN Next(g[m - 1]) ELSE g[n]]
  <2>3. \A n \in 0..m - 1 : g[n] = IF n = 0 THEN start ELSE Next(g[n - 1])
    BY <2>2
  <2>4. ASSUME NEW n \in 0..m
        PROVE  h[n] = IF n = 0 THEN start ELSE Next(h[n - 1])
    <3>1. CASE n = m
      <4>1. n - 1 \in 0..m /\ n - 1 # m /\ n # 0
        BY <1>3, <1>5, <3>1
      <4>2. h[n - 1] = g[m - 1]
        BY <3>1, <4>1
      <4>3. h[n] = Next(g[m - 1])
        BY <3>1
      <4> HIDE DEF h
      <4> QED
        BY <4>1, <4>2, <4>3
    <3>2. CASE n # m
      <4>1. n \in 0..m - 1
        BY <1>3, <3>2
      <4>2. n # 0 => n - 1 \in 0..m /\ n - 1 # m
        BY <1>3, <4>1
      <4>3. n # 0 => h[n - 1] = g[n - 1]
        BY <4>2
      <4>4. h[n] = g[n]
        BY <3>2
      <4> HIDE DEF h
      <4> QED
        BY <2>3, <4>1, <4>3, <4>4
    <3> QED
      BY <3>1, <3>2
  <2>5. h = [n \in 0..m |-> h[n]]
    OBVIOUS
  <2> HIDE DEF h
  <2>6. Upto(h, m)
    BY <2>4, <2>5
  <2> QED
    BY <1>3, <2>6
<1> QED
  BY <1>4, <1>5

\* R is all that is reached from start.
AllReached(R, D, start, among) ==
  /\ R \in SUBSET Containers /\ start \subseteq R
  /\ among \cap UNION {D[c] : c \in R} \subseteq R
  /\ \A S : start \subseteq S /\ (\A c \in S \cap Containers : among \cap D[c] \subseteq S)
            => R \subseteq S

\* It ends in all that is reached: a set which holds what it starts from and what its members
\* depend on, and no more than it must.
LEMMA ChainCloses ==
  ASSUME NEW D \in [Containers -> SUBSET Containers], NEW start \in SUBSET Containers,
         NEW among \in SUBSET Containers, NEW f, Chain(f, D, start, among)
  PROVE  AllReached(f[Steps], D, start, among)
<1> DEFINE More(S) == among \cap UNION {D[c] : c \in S}
           Closed(S) == More(S) \subseteq S
           Fine(n) == /\ f[n] \in SUBSET Containers /\ start \subseteq f[n]
                      /\ Closed(f[n]) \/ Cardinality(f[n]) >= n
           Bad == {n \in 0..Steps : ~ Fine(n)}
<1>1. /\ f[0] = start
      /\ \A n \in 0..Steps : n # 0 => f[n] = f[n - 1] \cup More(f[n - 1])
  <2>1. \A n \in 0..Steps : f[n] = IF n = 0 THEN start ELSE f[n - 1] \cup More(f[n - 1])
    BY ZenonT(30) DEF Chain
  <2>2. 0 \in 0..Steps
    BY StepsIsNat
  <2> HIDE DEF More
  <2> QED
    BY <2>1, <2>2
<1>2. \A S \in SUBSET Containers : /\ IsFiniteSet(S) /\ Cardinality(S) \in Nat
                                   /\ More(S) \in SUBSET Containers
  BY ContainerAssumption, FS_Subset, FS_CardinalityType
<1>3. Bad = {}
  <2> SUFFICES ASSUME Bad # {} PROVE FALSE
    OBVIOUS
  <2>1. PICK m \in Bad : \A n \in Bad : m <= n
    <3>1. Bad \in SUBSET Nat
      BY StepsIsNat
    <3> HIDE DEF Bad
    <3> QED
      BY <3>1, LeastExists
  <2>2. m \in 0..Steps /\ ~ Fine(m)
    OBVIOUS
  <2>3. m # 0
    <3>1. Cardinality(start) \in Nat
      BY <1>2
    <3> QED
      BY <1>1, <2>2, <3>1
  <2> DEFINE S == f[m - 1]
  <2>4. Fine(m - 1)
    <3>1. m - 1 \in 0..Steps /\ m - 1 < m
      BY <2>2, <2>3, StepsIsNat
    <3>2. m - 1 \notin Bad
      <4> HIDE DEF Bad
      <4> QED
        BY <2>1, <2>2, <3>1
    <3> QED
      BY <3>1, <3>2
  <2>5. f[m] = S \cup More(S) /\ S \in SUBSET Containers /\ start \subseteq S
    BY <1>1, <2>2, <2>3, <2>4
  <2> HIDE DEF S
  <2>6. f[m] \in SUBSET Containers /\ start \subseteq f[m]
    BY <1>2, <2>5
  <2>7. CASE Closed(S)
    <3>1. f[m] = S
      BY <2>5, <2>7
    <3> QED
      BY <2>2, <2>6, <2>7, <3>1
  <2>8. CASE ~ Closed(S)
    <3>1. Cardinality(S) >= m - 1
      BY <2>4, <2>8 DEF S
    <3>2. S # f[m] /\ S \subseteq f[m]
      BY <2>5, <2>8
    <3> HIDE DEF More, Fine
    <3>3. Cardinality(S) < Cardinality(f[m])
      BY <1>2, <2>6, <3>2, FS_Subset
    <3>4. Cardinality(f[m]) >= m
      BY <1>2, <2>2, <2>5, <2>6, <3>1, <3>3
    <3> QED
      BY <2>2, <2>6, <3>4 DEF Fine
  <2> QED
    BY <2>7, <2>8
<1>4. Fine(Steps)
  BY <1>3, StepsIsNat
<1>5. Closed(f[Steps])
  <2> SUFFICES ASSUME ~ Closed(f[Steps]) PROVE FALSE
    OBVIOUS
  <2>1. Cardinality(f[Steps]) >= Cardinality(Containers)
    BY <1>4 DEF Steps
  <2>2. f[Steps] = Containers
    <3> HIDE DEF More, Closed
    <3>1. f[Steps] \in SUBSET Containers
      BY <1>4
    <3> HIDE DEF Fine
    <3>2. f[Steps] # Containers => Cardinality(f[Steps]) < Cardinality(Containers)
      BY <1>2, <3>1, FS_Subset, FS_CardinalityType, ContainerAssumption
    <3> QED
      BY <1>2, <2>1, <3>1, <3>2
  <2>3. More(Containers) \subseteq Containers
    BY <1>2
  <2> HIDE DEF More, Fine
  <2> QED
    BY <2>2, <2>3
<1>6. ASSUME NEW S, start \subseteq S, \A c \in S \cap Containers : among \cap D[c] \subseteq S
      PROVE  f[Steps] \subseteq S
  <2> DEFINE Out == {n \in 0..Steps : ~ f[n] \subseteq S}
  <2> SUFFICES ASSUME Out # {} PROVE FALSE
    BY StepsIsNat
  <2>1. PICK m \in Out : \A n \in Out : m <= n
    <3>1. Out \in SUBSET Nat
      BY StepsIsNat
    <3> HIDE DEF Out
    <3> QED
      BY <3>1, LeastExists
  <2>2. m \in 0..Steps /\ ~ f[m] \subseteq S
    OBVIOUS
  <2>3. m # 0
    BY <1>1, <1>6, <2>2
  <2>4. m - 1 \in 0..Steps /\ m - 1 < m
    BY <2>2, <2>3, StepsIsNat
  <2>5. m - 1 \notin Out
    <3> HIDE DEF Out
    <3> QED
      BY <2>1, <2>2, <2>4
  <2>6. f[m - 1] \subseteq S /\ f[m - 1] \subseteq Containers
    BY <1>3, <2>4, <2>5
  <2>7. More(f[m - 1]) \subseteq S
    BY <1>6, <2>6
  <2>8. f[m] \subseteq S
    <3> HIDE DEF More
    <3> QED
      BY <1>1, <2>2, <2>3, <2>6, <2>7
  <2> QED
    BY <2>2, <2>8
<1> QED
  BY <1>4, <1>5, <1>6 DEF AllReached

\* So does Reached.
LEMMA ReachedCloses ==
  ASSUME depends \in [Containers -> SUBSET Containers], NEW start \in SUBSET Containers,
         NEW among \in SUBSET Containers
  PROVE  /\ Reached(start, among) \in SUBSET Containers /\ start \subseteq Reached(start, among)
         /\ \A c \in Reached(start, among) : among \cap depends[c] \subseteq Reached(start, among)
         /\ \A S : start \subseteq S
                   /\ (\A c \in S \cap Containers : among \cap depends[c] \subseteq S)
                   => Reached(start, among) \subseteq S
<1> DEFINE f == CHOOSE f : Chain(f, depends, start, among)
<1>1. Chain(f, depends, start, among)
  BY ChainExists
<1>2. Reached(start, among) = f[Steps]
  BY DEF Reached, Chain, Steps
<1> HIDE DEF f
<1>3. AllReached(Reached(start, among), depends, start, among)
  BY <1>1, <1>2, ChainCloses
<1> QED
  BY <1>3 DEF AllReached

-----------------------------------------------------------------------------
(* The order of a container, as it is placed.                              *)

Places == [Containers -> Containers \cup {Absent, Own}]
InList(pos, c) == pos[c] # Absent

\* A container is placed by itself, or before a listed one that depends on it; so no chain
\* of them is a circle.
PlacesOK(pos) ==
  /\ pos \in Places
  /\ \A c \in Containers :
       pos[c] \in Containers => /\ InList(pos, pos[c]) /\ c \in depends[pos[c]]

GraphOK ==
  /\ depends \in [Containers -> SUBSET Containers]
  /\ \A c \in Containers : \A b \in depends[c] : b < c
  /\ prefers \in [Containers -> Int]

\* The recursion of Order, for some of the containers.
Values(f, pos, U) ==
  f = [c \in U |-> IF pos[c] \in Containers THEN f[pos[c]] - 1 ELSE prefers[c]]

LEMMA Upwards ==
  ASSUME GraphOK, NEW pos, PlacesOK(pos), NEW c \in Containers, pos[c] \in Containers
  PROVE  c < pos[c]
  BY DEF GraphOK, PlacesOK

LEMMA ValuesExist ==
  ASSUME GraphOK, NEW pos, PlacesOK(pos)
  PROVE  \E f : Values(f, pos, Containers)
<1> DEFINE Up(U) == \A c \in U : pos[c] \in Containers => pos[c] \in U
           P == {U \in SUBSET Containers : Up(U) /\ ~ \E f : Values(f, pos, U)}
<1>1. SUFFICES ASSUME P # {} PROVE FALSE
  OBVIOUS
<1>2. PICK U \in P : \A V \in SUBSET U : V # U => V \notin P
  <2>1. P \in SUBSET (SUBSET Containers)
    OBVIOUS
  <2> HIDE DEF P
  <2> QED
    BY <1>1, <2>1, SmallestSet, ContainerAssumption
<1>3. U \in SUBSET Containers /\ Up(U) /\ ~ \E f : Values(f, pos, U)
  OBVIOUS
<1>4. CASE U = {}
  <2>1. Values([c \in {} |-> 0], pos, {})
    BY DEF Values
  <2> QED
    BY <1>3, <1>4, <2>1
<1>5. CASE U # {}
  <2>1. PICK b \in U : \A c \in U : b <= c
    <3>1. U \in SUBSET Nat
      BY <1>3, ContainerAssumption
    <3> QED
      BY <1>5, <3>1, LeastExists
  <2> DEFINE V == U \ {b}
  <2>2. \A c \in U : pos[c] \in Containers => pos[c] \in V
    <3> SUFFICES ASSUME NEW c \in U, pos[c] \in Containers PROVE pos[c] \in V
      OBVIOUS
    <3>1. c < pos[c] /\ b <= c /\ c \in Nat /\ b \in Nat /\ pos[c] \in Nat
      BY <1>3, <2>1, Upwards, ContainerAssumption
    <3> QED
      BY <1>3, <3>1
  <2>3. V \in SUBSET U /\ V # U /\ V \in SUBSET Containers /\ Up(V)
    BY <1>3, <2>2
  <2>4. PICK f : Values(f, pos, V)
    BY <1>2, <2>3
  <2> DEFINE g == [c \in U |-> IF c = b
                               THEN IF pos[b] \in Containers THEN f[pos[b]] - 1 ELSE prefers[b]
                               ELSE f[c]]
  <2>5. \A c \in V : f[c] = IF pos[c] \in Containers THEN f[pos[c]] - 1 ELSE prefers[c]
    BY <2>4, Zenon DEF Values
  <2>6. \A c \in V : g[c] = f[c]
    OBVIOUS
  <2>7. g[b] = IF pos[b] \in Containers THEN f[pos[b]] - 1 ELSE prefers[b]
    OBVIOUS
  <2>8. g = [c \in U |-> g[c]]
    OBVIOUS
  <2> HIDE DEF g
  <2>9. ASSUME NEW c \in U
        PROVE  g[c] = IF pos[c] \in Containers THEN g[pos[c]] - 1 ELSE prefers[c]
    <3>1. pos[c] \in Containers => g[pos[c]] = f[pos[c]]
      BY <2>2, <2>6
    <3>2. CASE c = b
      BY <2>7, <3>1, <3>2
    <3>3. CASE c # b
      BY <2>5, <2>6, <3>1, <3>3
    <3> QED
      BY <3>2, <3>3
  <2>10. Values(g, pos, U)
    BY <2>8, <2>9 DEF Values
  <2> QED
    BY <1>3, <2>10
<1> QED
  BY <1>4, <1>5

\* What Order is.
LEMMA OrderIs ==
  ASSUME GraphOK, NEW pos, PlacesOK(pos)
  PROVE  \A c \in Containers :
           /\ Order(pos)[c] = IF pos[c] \in Containers THEN Order(pos)[pos[c]] - 1
                              ELSE prefers[c]
           /\ Order(pos)[c] \in Int
<1> DEFINE f == CHOOSE f : Values(f, pos, Containers)
<1>1. Order(pos) = f
  BY DEF Order, Values
<1>2. Values(f, pos, Containers)
  BY ValuesExist
<1> HIDE DEF f
<1>3. \A c \in Containers : f[c] = IF pos[c] \in Containers THEN f[pos[c]] - 1 ELSE prefers[c]
  BY <1>2, Zenon DEF Values
<1>4. \A c \in Containers : f[c] \in Int
  <2> DEFINE D == {c \in Containers : f[c] \notin Int}
  <2>1. SUFFICES ASSUME D # {} PROVE FALSE
    OBVIOUS
  <2>2. PICK c \in D : c \in Nat /\ \A m \in D : m <= c
    <3>1. D \in SUBSET Containers
      OBVIOUS
    <3> HIDE DEF D
    <3> QED
      BY <2>1, <3>1, LargestContainer
  <2>3. pos[c] \in Containers
    BY <1>3 DEF GraphOK
  <2>4. c < pos[c] /\ pos[c] \in Nat
    BY <2>3, Upwards, ContainerAssumption
  <2>5. f[pos[c]] \in Int
    BY <2>2, <2>3, <2>4
  <2> QED
    BY <1>3, <2>3, <2>5
<1> QED
  BY <1>1, <1>3, <1>4

\* A container that gets another place: those above keep their order.
LEMMA AboveKeep ==
  ASSUME GraphOK, NEW pos, PlacesOK(pos), NEW new, PlacesOK(new), NEW b \in Containers,
         \A x \in Containers : x # b => new[x] = pos[x]
  PROVE  \A x \in Containers : x > b => Order(new)[x] = Order(pos)[x]
<1> DEFINE D == {x \in Containers : x > b /\ Order(new)[x] # Order(pos)[x]}
<1> SUFFICES ASSUME D # {} PROVE FALSE
  OBVIOUS
<1>1. PICK c \in D : c \in Nat /\ \A m \in D : m <= c
  <2>1. D \in SUBSET Containers
    OBVIOUS
  <2> HIDE DEF D
  <2> QED
    BY <2>1, LargestContainer
<1>2. c \in Containers /\ c > b /\ Order(new)[c] # Order(pos)[c] /\ b \in Nat
  BY ContainerAssumption
<1>3. new[c] = pos[c]
  BY <1>2
<1>4. pos[c] \in Containers
  BY <1>2, <1>3, OrderIs
<1>5. c < pos[c] /\ pos[c] \in Nat
  BY <1>2, <1>4, Upwards, ContainerAssumption
<1>6. pos[c] \notin D
  <2> HIDE DEF D
  <2> QED
    BY <1>1, <1>5
<1>7. Order(new)[pos[c]] = Order(pos)[pos[c]]
  BY <1>1, <1>2, <1>4, <1>5, <1>6
<1> QED
  BY <1>2, <1>3, <1>4, <1>7, OrderIs

\* And if it gets no higher itself nor does any other.
LEMMA BelowFollow ==
  ASSUME GraphOK, NEW pos, PlacesOK(pos), NEW new, PlacesOK(new), NEW b \in Containers,
         \A x \in Containers : x # b => new[x] = pos[x],
         Order(new)[b] <= Order(pos)[b]
  PROVE  \A x \in Containers : Order(new)[x] <= Order(pos)[x]
<1> DEFINE D == {x \in Containers : ~ (Order(new)[x] <= Order(pos)[x])}
<1> SUFFICES ASSUME D # {} PROVE FALSE
  OBVIOUS
<1>1. PICK c \in D : c \in Nat /\ \A m \in D : m <= c
  <2>1. D \in SUBSET Containers
    OBVIOUS
  <2> HIDE DEF D
  <2> QED
    BY <2>1, LargestContainer
<1>2. c \in Containers /\ ~ (Order(new)[c] <= Order(pos)[c])
  OBVIOUS
<1>3. new[c] = pos[c]
  BY <1>2
<1>4. pos[c] \in Containers
  <2>1. Order(pos)[c] \in Int /\ Order(new)[c] \in Int
    BY <1>2, OrderIs
  <2> QED
    BY <1>2, <1>3, <2>1, OrderIs
<1>5. c < pos[c] /\ pos[c] \in Nat
  BY <1>2, <1>4, Upwards, ContainerAssumption
<1>6. pos[c] \notin D
  <2> HIDE DEF D
  <2> QED
    BY <1>1, <1>5
<1>7. Order(new)[pos[c]] <= Order(pos)[pos[c]]
  BY <1>4, <1>6
<1>8. /\ Order(new)[c] = Order(new)[pos[c]] - 1 /\ Order(pos)[c] = Order(pos)[pos[c]] - 1
      /\ Order(new)[pos[c]] \in Int /\ Order(pos)[pos[c]] \in Int
  BY <1>2, <1>3, <1>4, OrderIs
<1> QED
  BY <1>2, <1>7, <1>8

\* What placing some of what c depends on may change.
Lowers(pos, new, c) ==
  /\ PlacesOK(new)
  /\ \A x \in Containers : InList(pos, x) => InList(new, x)
  /\ \A x \in Containers : InList(new, x) => InList(pos, x) \/ x \in depends[c] \cap enabled
  /\ \A x \in Containers : Order(new)[x] <= Order(pos)[x]
  /\ Order(new)[c] = Order(pos)[c]

\* One of them is placed.
LEMMA PlacedLowers ==
  ASSUME GraphOK, NEW pos, PlacesOK(pos), NEW c \in Containers, InList(pos, c),
         NEW b \in depends[c] \cap enabled
  PROVE  LET new == Placed(pos, c, b) IN
         /\ Lowers(pos, new, c) /\ InList(new, b) /\ Order(new)[b] < Order(new)[c]
<1> DEFINE known == IF pos[b] = Absent THEN [pos EXCEPT ![b] = Own] ELSE pos
           moved == [known EXCEPT ![b] = c]
           new == Placed(pos, c, b)
<1>1. b \in Containers /\ b < c /\ b \in Nat /\ c \in Nat
  BY ContainerAssumption DEF GraphOK
<1>2. Absent \notin Containers /\ Own \notin Containers /\ Own # Absent
  BY ContainerAssumption DEF Absent, Own
<1>3. pos \in Places
  BY DEF PlacesOK
<1>4. /\ known \in Places /\ InList(known, b)
      /\ \A x \in Containers : x # b => known[x] = pos[x]
      /\ \A x \in Containers : InList(pos, x) => InList(known, x)
      /\ known[b] \in Containers => known[b] = pos[b]
  BY <1>1, <1>2, <1>3 DEF Places, InList
<1>5. PlacesOK(known)
  BY <1>4 DEF PlacesOK
<1>6. \A x \in Containers : Order(known)[x] <= Order(pos)[x]
  <2>1. Order(known)[b] <= Order(pos)[b]
    <3>1. CASE pos[b] = Absent
      <4>1. known[b] = Own
        BY <1>1, <1>3, <3>1 DEF Places
      <4>2. Order(known)[b] = prefers[b] /\ Order(pos)[b] = prefers[b]
        BY <1>1, <1>2, <1>5, <3>1, <4>1, OrderIs
      <4> QED
        BY <1>1, <4>2 DEF GraphOK
    <3>2. CASE pos[b] # Absent
      BY <1>1, <3>2, OrderIs
    <3> QED
      BY <3>1, <3>2
  <2> HIDE DEF known
  <2> QED
    BY <1>1, <1>4, <1>5, <2>1, BelowFollow
<1>7. Order(known)[c] = Order(pos)[c]
  <2> HIDE DEF known
  <2> QED
    BY <1>1, <1>4, <1>5, AboveKeep
<1>8. Order(known)[b] \in Int /\ Order(known)[c] \in Int
  <2> HIDE DEF known
  <2> QED
    BY <1>1, <1>5, OrderIs
<1>9. new = IF Order(known)[b] >= Order(known)[c] THEN moved ELSE known
  BY DEF Placed
<1> HIDE DEF known
<1>10. Lowers(pos, known, c)
  BY <1>1, <1>4, <1>5, <1>6, <1>7 DEF Lowers, InList
<1>11. CASE ~ (Order(known)[b] >= Order(known)[c])
  BY <1>4, <1>8, <1>9, <1>10, <1>11
<1>12. CASE Order(known)[b] >= Order(known)[c]
  <2>1. /\ moved \in Places /\ moved[b] = c
        /\ \A x \in Containers : x # b => moved[x] = known[x]
    BY <1>1, <1>4 DEF Places
  <2>2. \A x \in Containers : InList(known, x) <=> InList(moved, x)
    BY <1>1, <1>2, <1>4, <2>1 DEF InList
  <2>3. InList(moved, c)
    BY <1>4, <2>2
  <2>4. PlacesOK(moved)
    BY <1>1, <1>5, <2>1, <2>2, <2>3 DEF PlacesOK
  <2>5. new = moved
    BY <1>9, <1>12
  <2> HIDE DEF moved
  <2>6. Order(moved)[c] = Order(known)[c]
    BY <1>1, <1>5, <2>1, <2>4, AboveKeep
  <2>7. Order(moved)[b] = Order(moved)[c] - 1
    BY <1>1, <2>1, <2>4, OrderIs
  <2>8. Order(moved)[b] <= Order(known)[b] /\ Order(moved)[b] < Order(moved)[c]
    BY <1>8, <1>12, <2>6, <2>7
  <2>9. \A x \in Containers : Order(moved)[x] <= Order(known)[x]
    BY <1>1, <1>5, <2>1, <2>4, <2>8, BelowFollow
  <2>10. \A x \in Containers : Order(moved)[x] <= Order(pos)[x]
    <3>1. \A x \in Containers : /\ Order(moved)[x] \in Int /\ Order(known)[x] \in Int
                                /\ Order(pos)[x] \in Int
      BY <1>5, <2>4, OrderIs
    <3> QED
      BY <1>6, <2>9, <3>1
  <2>11. Lowers(pos, moved, c)
    BY <1>7, <1>10, <2>2, <2>4, <2>6, <2>10 DEF Lowers
  <2> QED
    BY <1>4, <2>2, <2>5, <2>8, <2>11, <1>1
<1> QED
  BY <1>11, <1>12

-----------------------------------------------------------------------------
(* All that c depends on is placed, one after the other.                   *)

\* The recursion of FoldLeft: what was placed first is folded innermost.
Folds(f, pos, c, order, T) ==
  f = [S \in SUBSET T |-> IF S = {} THEN pos
                          ELSE Placed(f[S \ {Max(S)}], c, order[Max(S)])]

LEMMA MaxIsIn ==
  ASSUME NEW S \in SUBSET Nat, IsFiniteSet(S), S # {}
  PROVE  Max(S) \in S /\ S \ {Max(S)} # S
<1>1. PICK n \in S : \A m \in S : m <= n
  BY LargestExists
<1>2. \A m \in S : n >= m
  BY <1>1
<1>3. Max(S) \in S
  BY <1>2 DEF Max
<1> QED
  BY <1>3

\* Two folds agree where both are defined.
LEMMA FoldsOnce ==
  ASSUME NEW pos, NEW c, NEW order, NEW T \in SUBSET Nat, IsFiniteSet(T),
         NEW U \in SUBSET T, NEW f, NEW g, Folds(f, pos, c, order, T), Folds(g, pos, c, order, U)
  PROVE  \A S \in SUBSET U : f[S] = g[S]
<1> DEFINE P == {S \in SUBSET U : f[S] # g[S]}
<1> SUFFICES ASSUME P # {} PROVE FALSE
  OBVIOUS
<1>1. PICK S \in P : \A R \in SUBSET S : R # S => R \notin P
  <2>1. P \in SUBSET (SUBSET U)
    OBVIOUS
  <2>2. IsFiniteSet(U)
    BY FS_Subset
  <2> HIDE DEF P
  <2> QED
    BY <2>1, <2>2, SmallestSet
<1>2. S \in SUBSET U /\ S \in SUBSET T /\ S \in SUBSET Nat /\ IsFiniteSet(S) /\ f[S] # g[S]
  BY FS_Subset
<1>3. f[S] = IF S = {} THEN pos ELSE Placed(f[S \ {Max(S)}], c, order[Max(S)])
  BY <1>2, Zenon DEF Folds
<1>4. g[S] = IF S = {} THEN pos ELSE Placed(g[S \ {Max(S)}], c, order[Max(S)])
  BY <1>2, Zenon DEF Folds
<1>5. S # {}
  BY <1>2, <1>3, <1>4
<1>6. f[S \ {Max(S)}] = g[S \ {Max(S)}]
  <2>1. S \ {Max(S)} \in SUBSET S /\ S \ {Max(S)} # S
    BY <1>2, <1>5, MaxIsIn
  <2>2. S \ {Max(S)} \notin P
    <3> HIDE DEF P
    <3> QED
      BY <1>1, <2>1
  <2> QED
    BY <1>2, <2>2
<1> QED
  BY <1>2, <1>3, <1>4, <1>5, <1>6

LEMMA FoldsExist ==
  ASSUME NEW pos, NEW c, NEW order, NEW T \in SUBSET Nat, IsFiniteSet(T)
  PROVE  \E f : Folds(f, pos, c, order, T)
<1> DEFINE P == {S \in SUBSET T : ~ \E f : Folds(f, pos, c, order, S)}
<1> SUFFICES ASSUME P # {} PROVE FALSE
  OBVIOUS
<1>1. PICK S \in P : \A R \in SUBSET S : R # S => R \notin P
  <2>1. P \in SUBSET (SUBSET T)
    OBVIOUS
  <2> HIDE DEF P
  <2> QED
    BY <2>1, SmallestSet
<1>2. S \in SUBSET T /\ ~ \E f : Folds(f, pos, c, order, S)
  OBVIOUS
<1> DEFINE Less(R) == R \ {Max(R)}
           G(R) == CHOOSE f : Folds(f, pos, c, order, R)
           g == [R \in SUBSET S |-> IF R = {} THEN pos
                                    ELSE Placed(G(Less(R))[Less(R)], c, order[Max(R)])]
<1>3. \A R \in SUBSET S : R # S => Folds(G(R), pos, c, order, R)
  <2>1. \A R \in SUBSET S : R # S => \E f : Folds(f, pos, c, order, R)
    BY <1>1, <1>2
  <2> QED
    BY <2>1
<1>4. \A R \in SUBSET S : R # {} => Less(R) \in SUBSET R /\ Less(R) # R
  BY <1>2, FS_Subset, MaxIsIn
<1> HIDE DEF G, Less
<1>5. ASSUME NEW R \in SUBSET S, R # S PROVE g[R] = G(R)[R]
  <2>1. G(R)[R] = IF R = {} THEN pos ELSE Placed(G(R)[Less(R)], c, order[Max(R)])
    BY <1>3, <1>5, Zenon DEF Folds, Less
  <2>2. CASE R = {}
    BY <2>1, <2>2
  <2>3. CASE R # {}
    <3>1. Less(R) \in SUBSET R /\ Less(R) \in SUBSET S /\ Less(R) # S
      BY <1>4, <1>5, <2>3
    <3>2. R \in SUBSET Nat /\ IsFiniteSet(R)
      BY <1>2, FS_Subset
    <3>3. G(R)[Less(R)] = G(Less(R))[Less(R)]
      BY <1>3, <1>5, <3>1, <3>2, FoldsOnce
    <3> QED
      BY <2>1, <2>3, <3>3
  <2> QED
    BY <2>2, <2>3
<1>6. \A R \in SUBSET S : R # {} => g[Less(R)] = G(Less(R))[Less(R)]
  <2>1. ASSUME NEW R \in SUBSET S, R # {} PROVE g[Less(R)] = G(Less(R))[Less(R)]
    <3>1. Less(R) \in SUBSET S /\ Less(R) # S
      BY <1>4, <2>1
    <3> HIDE DEF g
    <3> QED
      BY <1>5, <3>1
  <2> QED
    BY <2>1
<1>7. Folds(g, pos, c, order, S)
  BY <1>6 DEF Folds, Less
<1> QED
  BY <1>2, <1>7

\* Every one of a set of containers is in the order that SetToSeqs makes of it.
LEMMA OrderOfSet ==
  ASSUME NEW S, IsFiniteSet(S), NEW order \in SetToSeqs(S)
  PROVE  /\ DOMAIN order = 1..Cardinality(S) /\ DOMAIN order \in SUBSET Nat
         /\ IsFiniteSet(DOMAIN order)
         /\ \A i \in DOMAIN order : order[i] \in S
         /\ \A b \in S : \E i \in DOMAIN order : order[i] = b
<1> DEFINE n == Cardinality(S)
           D == 1..n
<1>1. order \in [D -> S] /\ \A i, k \in D : i # k => order[i] # order[k]
  BY DEF SetToSeqs
<1>2. n \in Nat /\ IsFiniteSet(D) /\ Cardinality(D) = n /\ D \in SUBSET Nat
  <2>1. n \in Nat
    BY FS_CardinalityType
  <2>2. IsFiniteSet(D) /\ Cardinality(D) = IF 1 > n THEN 0 ELSE n - 1 + 1
    BY <2>1, FS_Interval
  <2> QED
    BY <2>1, <2>2
<1> DEFINE R == {order[i] : i \in D}
<1>3. R \in SUBSET S
  BY <1>1
<1>4. order \in Bijection(D, R)
  BY <1>1 DEF Bijection, Injection, Surjection, IsInjective
<1>5. Cardinality(R) = n
  BY <1>2, <1>4, FS_CountingElements DEF ExistsBijection
<1>6. R = S
  <2> HIDE DEF R, D
  <2> QED
    BY <1>3, <1>5, FS_Subset
<1> QED
  BY <1>1, <1>2, <1>6

\* What FoldLeft makes of the places.
PlacedAll(start, c, order) ==
  FoldLeft(LAMBDA pos, b : Placed(pos, c, b), start, order)

LEMMA PlacedAllFolds ==
  ASSUME NEW start, NEW c, NEW order, DOMAIN order \in SUBSET Nat, IsFiniteSet(DOMAIN order)
  PROVE  \E f : /\ Folds(f, start, c, order, DOMAIN order)
                /\ PlacedAll(start, c, order) = f[DOMAIN order]
<1> DEFINE f == CHOOSE f : Folds(f, start, c, order, DOMAIN order)
<1>1. Folds(f, start, c, order, DOMAIN order)
  BY FoldsExist
<1>2. PlacedAll(start, c, order) = f[DOMAIN order]
  BY DEF PlacedAll, FoldLeft, MapThenFoldSet, Folds
<1> QED
  BY <1>1, <1>2

\* Whatever the order, all that c depends on is listed then, and below c.
LEMMA PlacedAllLower ==
  ASSUME GraphOK, NEW start, PlacesOK(start), NEW c \in Containers, InList(start, c),
         NEW order \in SetToSeqs(depends[c] \cap enabled)
  PROVE  LET new == PlacedAll(start, c, order) IN
         /\ Lowers(start, new, c)
         /\ \A b \in depends[c] \cap enabled :
              InList(new, b) /\ Order(new)[b] < Order(new)[c]
<1> DEFINE needs == depends[c] \cap enabled
           D == DOMAIN order
           Good(new, S) ==
             /\ Lowers(start, new, c)
             /\ \A i \in S : InList(new, order[i]) /\ Order(new)[order[i]] < Order(new)[c]
<1>1. IsFiniteSet(needs) /\ needs \in SUBSET Containers
  BY FS_Subset, ContainerAssumption DEF GraphOK
<1>2. /\ D \in SUBSET Nat /\ IsFiniteSet(D)
      /\ \A i \in D : order[i] \in needs
      /\ \A b \in needs : \E i \in D : order[i] = b
  <2>1. order \in SetToSeqs(needs)
    OBVIOUS
  <2> HIDE DEF needs
  <2> QED
    BY <1>1, <2>1, OrderOfSet
<1> HIDE DEF needs, D
<1>3. PICK f : Folds(f, start, c, order, D) /\ PlacedAll(start, c, order) = f[D]
  BY <1>2, PlacedAllFolds DEF D
<1>4. \A S \in SUBSET D : Good(f[S], S)
  <2> DEFINE P == {S \in SUBSET D : ~ Good(f[S], S)}
  <2> SUFFICES ASSUME P # {} PROVE FALSE
    OBVIOUS
  <2>1. PICK S \in P : \A R \in SUBSET S : R # S => R \notin P
    <3>1. P \in SUBSET (SUBSET D)
      OBVIOUS
    <3> HIDE DEF P
    <3> QED
      BY <1>2, <3>1, SmallestSet
  <2>2. S \in SUBSET D /\ ~ Good(f[S], S)
    OBVIOUS
  <2>3. f[S] = IF S = {} THEN start ELSE Placed(f[S \ {Max(S)}], c, order[Max(S)])
    BY <1>3, <2>2, Zenon DEF Folds
  <2>4. \A x \in Containers : Order(start)[x] \in Int
    BY OrderIs
  <2>5. CASE S = {}
    <3>1. f[S] = start
      BY <2>3, <2>5
    <3>2. Lowers(start, start, c)
      BY <2>4 DEF Lowers
    <3> QED
      BY <2>2, <2>5, <3>1, <3>2
  <2>6. CASE S # {}
    <3> DEFINE i == Max(S)
               R == S \ {i}
               old == f[R]
               b == order[i]
               new == f[S]
    <3>1. i \in S /\ R \in SUBSET S /\ R # S
      BY <1>2, <2>2, <2>6, FS_Subset, MaxIsIn
    <3>2. Good(old, R)
      <4>1. R \notin P
        <5> HIDE DEF P, R
        <5> QED
          BY <2>1, <3>1
      <4> QED
        BY <2>2, <3>1, <4>1
    <3>3. new = Placed(old, c, b)
      BY <2>3, <2>6
    <3>4. b \in needs
      BY <1>2, <2>2, <3>1
    <3>5. PlacesOK(old) /\ InList(old, c)
      BY <3>2 DEF Lowers
    <3> HIDE DEF new, old, b
    <3>6. Lowers(old, new, c) /\ InList(new, b) /\ Order(new)[b] < Order(new)[c]
      BY <3>3, <3>4, <3>5, PlacedLowers DEF needs
    <3>7. \A x \in Containers : Order(new)[x] \in Int /\ Order(old)[x] \in Int
      BY <3>5, <3>6, OrderIs DEF Lowers
    <3>8. Lowers(start, new, c)
      <4>1. Lowers(start, old, c)
        BY <3>2 DEF old
      <4>2. \A x \in Containers : Order(new)[x] <= Order(start)[x]
        <5> SUFFICES ASSUME NEW x \in Containers PROVE Order(new)[x] <= Order(start)[x]
          OBVIOUS
        <5>1. Order(new)[x] <= Order(old)[x] /\ Order(old)[x] <= Order(start)[x]
          BY <3>6, <4>1 DEF Lowers
        <5> QED
          BY <2>4, <3>7, <5>1
      <4>3. Order(new)[c] = Order(start)[c]
        BY <3>6, <4>1 DEF Lowers
      <4> QED
        BY <3>6, <4>1, <4>2, <4>3 DEF Lowers
    <3>9. ASSUME NEW k \in S
          PROVE  InList(new, order[k]) /\ Order(new)[order[k]] < Order(new)[c]
      <4>1. CASE k = i
        BY <3>6, <4>1 DEF b
      <4>2. CASE k # i
        <5>1. k \in R /\ order[k] \in Containers
          BY <1>1, <1>2, <2>2, <4>2
        <5>2. InList(old, order[k]) /\ Order(old)[order[k]] < Order(old)[c]
          BY <3>2, <5>1 DEF old
        <5>3. /\ InList(new, order[k]) /\ Order(new)[order[k]] <= Order(old)[order[k]]
              /\ Order(new)[c] = Order(old)[c]
          BY <3>6, <5>1, <5>2 DEF Lowers
        <5> QED
          BY <3>7, <5>1, <5>2, <5>3
      <4> QED
        BY <4>1, <4>2
    <3> QED
      BY <2>2, <3>8, <3>9 DEF new
  <2> QED
    BY <2>5, <2>6
<1>5. Good(f[D], D)
  BY <1>4
<1> QED
  BY <1>2, <1>3, <1>5 DEF needs

-----------------------------------------------------------------------------
(* The containers' invariant.                                              *)

ContainerSpec == ContainerInit /\ [][ContainerNext]_containerVars

ContainerTypes ==
  /\ GraphOK /\ PlacesOK(position)
  /\ enabled \subseteq Containers /\ installed \subseteq Containers
  /\ waiting \subseteq Containers
  /\ popped \subseteq Listed /\ Listed \subseteq enabled
  /\ phase \in {"manage", "removed", "resolve", "resolved"}

\* What is listed was taken from the queue or is in it, and what was taken has what it depends
\* on listed, below itself unless it was lowered since.
Progress ==
  /\ Listed \subseteq popped \cup waiting
  /\ \A c \in popped : \A b \in depends[c] \cap enabled :
       InList(position, b) /\ (Order(position)[b] < Order(position)[c] \/ c \in lowered)

\* While containers are put in order, none is forgotten and none is taken that is not needed.
Exact ==
  phase \in {"resolve", "resolved"} =>
    /\ installed \cap enabled \subseteq popped \cup waiting
    /\ waiting \cap enabled \subseteq Needed /\ Listed \subseteq Needed
    /\ phase = "resolved" => waiting = {}

ContainerInv == ContainerTypes /\ Progress /\ Exact /\ RemovalSafe

LEMMA ContainerInitInv == ContainerInit => ContainerInv
<1> SUFFICES ASSUME ContainerInit PROVE ContainerInv
  OBVIOUS
<1>1. depends \in [Containers -> SUBSET Containers]
      /\ \A c \in Containers : \A b \in depends[c] : b < c
  BY DEF ContainerInit
<1>2. prefers \in [Containers -> Int]
  <2>1. CASE prefers = [c \in Containers |-> CHOOSE o \in Orders : TRUE]
    <3>1. (CHOOSE o \in Orders : TRUE) \in Int
      BY ContainerAssumption
    <3> QED
      BY <2>1, <3>1
  <2>2. CASE prefers \in [Containers -> Orders]
    BY <2>2, ContainerAssumption
  <2> QED
    BY <2>1, <2>2 DEF ContainerInit
<1>3. position = [c \in Containers |-> Absent] /\ Absent \notin Containers
  BY ContainerAssumption DEF ContainerInit, Absent
<1>4. PlacesOK(position) /\ Listed = {}
  BY <1>3 DEF PlacesOK, Places, Listed
<1>5. enabled \subseteq Containers
  BY DEF ContainerInit
<1>6. installed \subseteq Containers /\ popped = {} /\ phase \in {"manage", "resolve"}
      /\ waiting \subseteq Containers /\ (phase = "resolve" => waiting = installed)
  BY DEF ContainerInit
<1>7. ContainerTypes
  BY <1>1, <1>2, <1>4, <1>5, <1>6 DEF ContainerTypes, GraphOK
<1>8. Progress
  BY <1>4, <1>6 DEF Progress
<1>9. Exact
  <2>1. installed \cap enabled \subseteq Needed
    BY <1>1, <1>5, <1>6, ReachedCloses DEF Needed
  <2> QED
    BY <1>4, <1>6, <2>1 DEF Exact
<1>10. RemovalSafe
  BY <1>6 DEF RemovalSafe
<1> QED
  BY <1>7, <1>8, <1>9, <1>10 DEF ContainerInv

\* What is removed takes along what needs it, or nothing is removed.
LEMMA RemoveKeeps ==
  ASSUME ContainerInv, NEW names \in SUBSET Containers, NEW force \in BOOLEAN,
         RemoveInstalled(names, force)
  PROVE  ContainerInv'
<1> DEFINE others == {c \in installed : DependsOn(c) \cap names # {} /\ c \notin names}
           Beyond(c) == {n \in Containers :
                           \A S \in SUBSET Containers :
                             depends[c] \subseteq S /\ (\A b \in S : depends[b] \subseteq S)
                             => n \in S}
<1>1. /\ phase' = "removed" /\ installed' \subseteq installed
      /\ UNCHANGED <<depends, prefers, enabled, waiting, position, popped, lowered>>
  BY DEF RemoveInstalled, inputVars, resolveVars
<1>2. ContainerTypes' /\ Progress' /\ Exact'
  BY <1>1 DEF ContainerInv, ContainerTypes, Progress, Exact, Listed, GraphOK, PlacesOK, Order,
     Places
<1>3. ASSUME ~ removal'.refused, NEW c \in installed' PROVE Beyond(c) \cap removal'.names = {}
  <2>1. others = {} \/ force
    BY <1>3 DEF RemoveInstalled
  <2>2. removal'.names = names /\ installed' = installed \ (names \cup others)
    BY <2>1 DEF RemoveInstalled
  <2>3. c \in installed /\ c \notin names /\ c \notin others /\ c \in Containers
    BY <1>3, <2>2 DEF ContainerInv, ContainerTypes
  <2>4. DependsOn(c) \cap names = {}
    BY <2>3
  <2>5. depends[c] \in SUBSET Containers /\ depends \in [Containers -> SUBSET Containers]
    BY <2>3 DEF ContainerInv, ContainerTypes, GraphOK
  <2>6. /\ DependsOn(c) \in SUBSET Containers /\ depends[c] \subseteq DependsOn(c)
        /\ \A b \in DependsOn(c) : Containers \cap depends[b] \subseteq DependsOn(c)
    BY <2>5, ReachedCloses DEF DependsOn
  <2>7. \A b \in DependsOn(c) : depends[b] \subseteq DependsOn(c)
    BY <2>5, <2>6
  <2>8. Beyond(c) \subseteq DependsOn(c)
    BY <2>6, <2>7
  <2> QED
    BY <2>2, <2>4, <2>8
<1>4. RemovalSafe'
  BY <1>1, <1>3 DEF RemovalSafe
<1> QED
  BY <1>2, <1>4 DEF ContainerInv

\* A container that is disabled leaves the queue.
LEMMA PopDisabledKeeps ==
  ASSUME ContainerInv, NEW c \in waiting, c \notin enabled, phase = "resolve",
         waiting' = waiting \ {c}, UNCHANGED <<position, popped, lowered>>,
         UNCHANGED <<inputVars, installed, removal, phase>>
  PROVE  ContainerInv'
<1> USE DEF inputVars
<1>1. c \notin Listed
  BY DEF ContainerInv, ContainerTypes
<1>2. ContainerTypes'
  BY DEF ContainerInv, ContainerTypes, Listed, GraphOK, PlacesOK, Places
<1>3. Progress'
  BY <1>1 DEF ContainerInv, Progress, Listed, Order
<1>4. Exact'
  BY DEF ContainerInv, Exact, Listed, Needed, Reached
<1>5. RemovalSafe'
  BY DEF RemovalSafe
<1> QED
  BY <1>2, <1>3, <1>4, <1>5 DEF ContainerInv

\* result when the container c is looked at: c itself has a place.
BeginsAt(start, pos, c) ==
  start = IF pos[c] = Absent THEN [pos EXCEPT ![c] = Own] ELSE pos

\* Order, with what it takes from the state as a parameter.
OrderOf(pos, asked) ==
  LET value[c \in Containers] ==
        IF pos[c] \in Containers THEN value[pos[c]] - 1 ELSE asked[c]
  IN value

LEMMA OrderPrimed ==
  ASSUME UNCHANGED prefers
  PROVE  Order(position)' = Order(position')
<1>1. Order(position)' = OrderOf(position', prefers')
  BY DEF Order, OrderOf
<1>2. Order(position') = OrderOf(position', prefers)
  BY DEF Order, OrderOf
<1> QED
  BY <1>1, <1>2

\* One that is enabled has what it depends on placed.
LEMMA PopEnabledKeeps ==
  ASSUME ContainerInv, NEW c \in waiting, c \in enabled, phase = "resolve",
         NEW order \in SetToSeqs(depends[c] \cap enabled),
         NEW start, BeginsAt(start, position, c),
         position' = PlacedAll(start, c, order),
         waiting' = (waiting \ {c}) \cup {b \in depends[c] \cap enabled : start[b] = Absent},
         popped' = popped \cup {c},
         lowered' = lowered \cup {b \in popped : Order(position')[b] < Order(position)[b]},
         UNCHANGED <<inputVars, installed, removal, phase>>
  PROVE  ContainerInv'
<1> DEFINE needs == depends[c] \cap enabled
<1>1. /\ GraphOK /\ PlacesOK(position) /\ position \in Places
      /\ c \in Containers /\ needs \in SUBSET Containers
      /\ depends \in [Containers -> SUBSET Containers]
  BY DEF ContainerInv, ContainerTypes, GraphOK, PlacesOK
<1>2. Absent \notin Containers /\ Own \notin Containers /\ Own # Absent
  BY ContainerAssumption DEF Absent, Own
<1>3. c \notin needs
  BY <1>1, ContainerAssumption DEF GraphOK
<1>4. /\ start \in Places /\ InList(start, c)
      /\ \A x \in Containers : x # c => start[x] = position[x]
      /\ \A x \in Containers : InList(position, x) => InList(start, x)
      /\ start[c] \in Containers => start[c] = position[c]
  BY <1>1, <1>2 DEF Places, InList, BeginsAt
<1>5. PlacesOK(start)
  BY <1>1, <1>4 DEF PlacesOK
<1>6. \A x \in Containers : Order(start)[x] <= Order(position)[x]
  <2>1. Order(start)[c] <= Order(position)[c]
    <3>1. CASE position[c] = Absent
      <4>1. start[c] = Own
        BY <1>1, <3>1 DEF Places, BeginsAt
      <4>2. Order(start)[c] = prefers[c] /\ Order(position)[c] = prefers[c]
        BY <1>1, <1>2, <1>5, <3>1, <4>1, OrderIs
      <4> QED
        BY <1>1, <4>2 DEF GraphOK
    <3>2. CASE position[c] # Absent
      <4>1. start = position
        BY <3>2 DEF BeginsAt
      <4>2. Order(position)[c] \in Int
        BY <1>1, OrderIs
      <4> QED
        BY <4>1, <4>2
    <3> QED
      BY <3>1, <3>2
  <2> QED
    BY <1>1, <1>4, <1>5, <2>1, BelowFollow
<1>7. /\ Lowers(start, position', c)
      /\ \A b \in needs : InList(position', b) /\ Order(position')[b] < Order(position')[c]
  <2> DEFINE new == PlacedAll(start, c, order)
  <2>1. /\ Lowers(start, new, c)
        /\ \A b \in needs : InList(new, b) /\ Order(new)[b] < Order(new)[c]
    BY <1>1, <1>4, <1>5, PlacedAllLower
  <2>2. position' = new
    OBVIOUS
  <2> HIDE DEF new
  <2> QED
    BY <2>1, <2>2
<1>8. /\ PlacesOK(position')
      /\ \A x \in Containers : InList(position', x) <=> InList(position, x) \/ x = c \/ x \in needs
  <2>1. \A x \in Containers : InList(start, x) <=> InList(position, x) \/ x = c
    BY <1>1, <1>4 DEF InList
  <2> QED
    BY <1>1, <1>7, <2>1 DEF Lowers
<1>9. \A x \in Containers : /\ Order(position')[x] \in Int /\ Order(position)[x] \in Int
                            /\ Order(position')[x] <= Order(position)[x]
  <2> SUFFICES ASSUME NEW x \in Containers
               PROVE  /\ Order(position')[x] \in Int /\ Order(position)[x] \in Int
                      /\ Order(position')[x] <= Order(position)[x]
    OBVIOUS
  <2>1. /\ Order(position')[x] \in Int /\ Order(position)[x] \in Int
        /\ Order(start)[x] \in Int
    BY <1>1, <1>5, <1>8, OrderIs
  <2>2. Order(position')[x] <= Order(start)[x] /\ Order(start)[x] <= Order(position)[x]
    BY <1>6, <1>7 DEF Lowers
  <2> QED
    BY <2>1, <2>2
<1>10. Listed' = Listed \cup {c} \cup needs
  BY <1>1, <1>8 DEF Listed, InList
<1>11. waiting' = (waiting \ {c}) \cup (needs \ Listed)
  <2>1. \A b \in needs : start[b] = Absent <=> b \notin Listed
    BY <1>1, <1>3, <1>4 DEF Listed
  <2> QED
    BY <2>1
<1>12. UNCHANGED <<depends, prefers, enabled, installed, removal, phase>>
  BY DEF inputVars
<1> HIDE DEF needs
<1>13. ContainerTypes'
  <2>1. GraphOK'
    BY <1>1, <1>12 DEF GraphOK
  <2>2. PlacesOK(position)'
    BY <1>8, <1>12 DEF PlacesOK
  <2>3. needs \subseteq enabled
    BY DEF needs
  <2> QED
    BY <1>1, <1>10, <1>11, <1>12, <2>1, <2>2, <2>3 DEF ContainerInv, ContainerTypes
<1>14. Progress'
  <2>1. Listed' \subseteq popped' \cup waiting'
    BY <1>10, <1>11 DEF ContainerInv, Progress
  <2>2. ASSUME NEW x \in popped', NEW b \in depends[x] \cap enabled
        PROVE  /\ InList(position', b)
               /\ Order(position')[b] < Order(position')[x] \/ x \in lowered'
    <3>1. CASE x = c
      BY <1>7, <2>2, <3>1 DEF needs
    <3>2. CASE x # c
      <4>1. x \in popped /\ x \in Containers /\ b \in Containers
        BY <1>1, <2>2, <3>2 DEF ContainerInv, ContainerTypes, Listed
      <4>2. InList(position, b) /\ (Order(position)[b] < Order(position)[x] \/ x \in lowered)
        BY <2>2, <4>1 DEF ContainerInv, Progress
      <4>3. InList(position', b)
        BY <1>8, <4>1, <4>2
      <4>4. x \in lowered \/ Order(position')[x] < Order(position)[x] => x \in lowered'
        BY <4>1
      <4>5. Order(position)[b] < Order(position)[x] /\ ~ (Order(position')[x] < Order(position)[x])
            => Order(position')[b] < Order(position')[x]
        <5>1. /\ Order(position')[x] \in Int /\ Order(position)[x] \in Int
              /\ Order(position')[b] \in Int /\ Order(position)[b] \in Int
              /\ Order(position')[b] <= Order(position)[b]
          BY <1>9, <4>1
        <5> QED
          BY <5>1
      <4> QED
        BY <4>2, <4>3, <4>4, <4>5
    <3> QED
      BY <3>1, <3>2
  <2> QED
    BY <1>12, <2>1, <2>2, OrderPrimed DEF Progress
<1>15. Exact'
  <2>1. Needed' = Needed
    BY <1>12 DEF Needed, Reached
  <2>2. c \in Needed /\ Listed \subseteq Needed /\ waiting \cap enabled \subseteq Needed
    BY DEF ContainerInv, Exact
  <2>3. needs \subseteq Needed
    <3>1. installed \cap enabled \in SUBSET Containers /\ enabled \in SUBSET Containers
      BY DEF ContainerInv, ContainerTypes
    <3>2. \A x \in Needed : enabled \cap depends[x] \subseteq Needed
      BY <1>1, <3>1, ReachedCloses DEF Needed
    <3> QED
      BY <2>2, <3>2 DEF needs
  <2>4. installed' \cap enabled' \subseteq popped' \cup waiting'
    BY <1>11, <1>12 DEF ContainerInv, Exact
  <2>5. waiting' \cap enabled' \subseteq Needed /\ Listed' \subseteq Needed
    BY <1>10, <1>11, <1>12, <2>2, <2>3
  <2> QED
    BY <1>12, <2>1, <2>4, <2>5 DEF Exact
<1>16. RemovalSafe'
  BY <1>12 DEF RemovalSafe
<1> QED
  BY <1>13, <1>14, <1>15, <1>16 DEF ContainerInv

LEMMA PopKeeps ==
  ASSUME ContainerInv, Pop
  PROVE  ContainerInv'
<1>1. PICK c \in waiting :
        LET needs == depends[c] \cap enabled
            start == IF position[c] = Absent THEN [position EXCEPT ![c] = Own] ELSE position
        IN IF c \notin enabled
             THEN waiting' = waiting \ {c} /\ UNCHANGED <<position, popped, lowered>>
           ELSE /\ \E order \in SetToSeqs(needs) : position' = PlacedAll(start, c, order)
                /\ waiting' = (waiting \ {c}) \cup {b \in needs : start[b] = Absent}
                /\ popped' = popped \cup {c}
                /\ lowered' = lowered \cup
                     {b \in popped : Order(position')[b] < Order(position)[b]}
  BY DEF Pop, PlacedAll
<1>2. phase = "resolve" /\ UNCHANGED <<inputVars, installed, removal, phase>>
  BY DEF Pop
<1>3. CASE c \notin enabled
  BY <1>1, <1>2, <1>3, PopDisabledKeeps
<1>4. CASE c \in enabled
  <2> DEFINE start == IF position[c] = Absent THEN [position EXCEPT ![c] = Own] ELSE position
  <2>1. PICK order \in SetToSeqs(depends[c] \cap enabled) : position' = PlacedAll(start, c, order)
    BY <1>1, <1>4
  <2>2. /\ waiting' = (waiting \ {c}) \cup {b \in depends[c] \cap enabled : start[b] = Absent}
        /\ popped' = popped \cup {c}
        /\ lowered' = lowered \cup {b \in popped : Order(position')[b] < Order(position)[b]}
    BY <1>1, <1>4
  <2>3. BeginsAt(start, position, c)
    BY DEF BeginsAt
  <2> HIDE DEF start
  <2> QED
    BY <1>2, <1>4, <2>1, <2>2, <2>3, PopEnabledKeeps
<1> QED
  BY <1>3, <1>4

\* The queue is empty.
LEMMA ResolvedKeeps ==
  ASSUME ContainerInv, Resolved
  PROVE  ContainerInv'
<1> USE DEF inputVars, resolveVars
<1>1. ContainerTypes'
  BY DEF Resolved, ContainerInv, ContainerTypes, Listed, GraphOK, PlacesOK, Places
<1>2. Progress'
  BY DEF Resolved, ContainerInv, Progress, Listed, Order
<1>3. Exact'
  BY DEF Resolved, ContainerInv, Exact, Listed, Needed, Reached
<1>4. RemovalSafe'
  BY DEF Resolved, RemovalSafe
<1> QED
  BY <1>1, <1>2, <1>3, <1>4 DEF ContainerInv

LEMMA ContainerStep == ContainerInv /\ [ContainerNext]_containerVars => ContainerInv'
<1> SUFFICES ASSUME ContainerInv, [ContainerNext]_containerVars PROVE ContainerInv'
  OBVIOUS
<1>1. CASE \E names \in SUBSET Containers, force \in BOOLEAN : RemoveInstalled(names, force)
  BY <1>1, RemoveKeeps
<1>2. CASE Pop
  BY <1>2, PopKeeps
<1>3. CASE Resolved
  BY <1>3, ResolvedKeeps
<1>4. CASE UNCHANGED containerVars
  <2> USE <1>4 DEF containerVars, inputVars, resolveVars
  <2>1. ContainerTypes'
    BY DEF ContainerInv, ContainerTypes, Listed, GraphOK, PlacesOK, Places
  <2>2. Progress'
    BY DEF ContainerInv, Progress, Listed, Order
  <2>3. Exact'
    BY DEF ContainerInv, Exact, Listed, Needed, Reached
  <2>4. RemovalSafe'
    BY DEF ContainerInv, RemovalSafe
  <2> QED
    BY <2>1, <2>2, <2>3, <2>4 DEF ContainerInv
<1> QED
  BY <1>1, <1>2, <1>3, <1>4 DEF ContainerNext

LEMMA ContainerInvAlways == ContainerSpec => []ContainerInv
  BY ContainerInitInv, ContainerStep, PTL DEF ContainerSpec

LEMMA ContainerInvCorrect == ContainerInv => ContainersCorrect
<1> SUFFICES ASSUME ContainerInv PROVE ContainersCorrect
  OBVIOUS
<1>1. ContainerTypeOK
  BY DEF ContainerInv, ContainerTypes, ContainerTypeOK, PlacesOK, Places, Listed, InList
<1>2. NeededListed
  <2> SUFFICES ASSUME phase = "resolved" PROVE Listed = Needed
    BY DEF NeededListed
  <2>1. Listed \subseteq Needed /\ waiting = {} /\ installed \cap enabled \subseteq popped
    BY DEF ContainerInv, Exact
  <2>2. /\ popped \subseteq Listed /\ Listed \subseteq popped
        /\ enabled \in SUBSET Containers /\ installed \cap enabled \in SUBSET Containers
        /\ depends \in [Containers -> SUBSET Containers]
    BY <2>1 DEF ContainerInv, ContainerTypes, GraphOK, Progress
  <2>3. \A c \in Listed \cap Containers : enabled \cap depends[c] \subseteq Listed
    BY <2>2 DEF ContainerInv, Progress, Listed, InList
  <2>4. Needed \subseteq Listed
    BY <2>1, <2>2, <2>3, ReachedCloses DEF Needed
  <2> QED
    BY <2>1, <2>4
<1>3. DependenciesFirst
  <2> SUFFICES ASSUME phase = "resolved", NEW c \in Listed, NEW b \in depends[c] \cap enabled
               PROVE  Order(position)[b] < Order(position)[c] \/ c \in lowered
    BY DEF DependenciesFirst
  <2>1. c \in popped
    BY DEF ContainerInv, Exact, Progress
  <2> QED
    BY <2>1 DEF ContainerInv, Progress
<1> QED
  BY <1>1, <1>2, <1>3 DEF ContainerInv, ContainersCorrect

\* Whatever the containers, what they depend on, the orders they ask for and the order a set
\* gives its members in: what is started is what is needed and nothing else, each container
\* after what it depends on unless it was lowered itself once it had been looked at, and no
\* container that stays depends on one that was removed (container/manager.py).
THEOREM ContainersHold == ContainerSpec => []ContainersCorrect
  BY ContainerInvAlways, ContainerInvCorrect, PTL
-----------------------------------------------------------------------------
(* The files that are fetched.                                             *)

UrlSpec == UrlInit /\ [][UrlNext]_urlVars

\* The parts of a file that came in order are Prefix of how many there are.
Prefix(n) == [i \in 1 .. n |-> i]

UserPlaces ==
  {"start", "lock", "try", "body", "saved", "place", "copy", "done", "partial", "raised"}

Sizes == {NoSize} \cup 1 .. Size \cup Lengths

UrlTypes ==
  /\ kind \in {"executable", "unpack", "move"}
  /\ lock \in Users \cup {Free} /\ completed \in BOOLEAN /\ size \in Sizes
  /\ dest \in [there : BOOLEAN, parts : SUBSET Parts] /\ (dest.parts # {} => dest.there)
  /\ at \in [Users -> UserPlaces] /\ tries \in [Users -> 0 .. Retry + 1]
  /\ body \in [Users -> [from : Nat, read : Nat]]
  /\ \A p \in Users : body[p].from + body[p].read <= Size
  /\ source = [p \in Users |-> source[p]]
  /\ fails \in Nat /\ kills \in Nat
  /\ {ignored, loose, early, torn} \subseteq BOOLEAN

\* A file is what the server sent first, unless a server sent all of it once more; one that is
\* marked complete is whole unless the check was misled, and one that is whole and not marked
\* was left by a process that was killed or compared it with another length, or is being read
\* to the end.
FileOK ==
  /\ file # NoFile =>
       file \in Seq(Parts) /\ (ignored \/ file = Prefix(Len(file)))
  /\ completed /\ file # NoFile => Misled \/ Len(file) = Size
  /\ ~ completed /\ file # NoFile /\ Len(file) >= Size =>
       early \/ ignored \/ loose \/ \E p \in Users : at[p] = "body"
  /\ temp # NoFile => ~ Executable /\ (temp = Whole \/ Misled)

\* What excuses an error or a file that is there but not whole.
Excused == early \/ ignored \/ loose

InLock(p) == at[p] \in {"try", "body", "saved"} \/ (at[p] = "copy" /\ Executable)

\* Another process has what this one wanted to make.
OtherHas(p) == \E q \in Users \ {p} : at[q] \in {"done", "partial"}

\* A process that downloads holds the lock; each try it has lost is a connection that failed;
\* what it reads continues the file; what it unpacks is whole; and the archive of a tool is
\* there unless another process took it.
UserOK(p) ==
  /\ InLock(p) => lock = p
  /\ at[p] \in {"try", "body"} =>
       ~ completed /\ tries[p] > 0 /\ (Excused \/ fails + tries[p] > Retry)
  /\ at[p] = "body" =>
       /\ file # NoFile /\ (loose \/ size = Size - body[p].from)
       /\ ignored \/ Len(file) = body[p].from + body[p].read
  /\ at[p] = "saved" \/ (at[p] = "copy" /\ Executable) => completed /\ file # NoFile
  /\ at[p] = "copy" => source[p] = Whole \/ Misled
  /\ at[p] = "place" => ~ Executable
  /\ (at[p] = "place" \/ (at[p] = "copy" /\ ~ Executable)) /\ temp = NoFile =>
       kills > 0 \/ OtherHas(p)
  /\ at[p] = "raised" =>
       \/ fails > Retry \/ Excused
       \/ ~ Executable /\ (kills > 0 \/ OtherHas(p))

UrlInv == UrlTypes /\ FileOK /\ \A p \in Users : UserOK(p)

LEMMA SizeIsNumber ==
  Size \in Nat /\ Size > 0 /\ Retry \in Nat /\ Lengths \subseteq Nat /\ Free \notin Users
  BY UrlFileAssumption DEF UrlFileAssumption

LEMMA PrefixGrows ==
  ASSUME NEW n \in Nat
  PROVE  /\ Prefix(n) \in Seq(Nat) /\ Len(Prefix(n)) = n
         /\ Append(Prefix(n), n + 1) = Prefix(n + 1)
         /\ Prefix(n) # NoFile
<1>1. Prefix(n) \in Seq(Nat) /\ Len(Prefix(n)) = n
  BY DEF Prefix
<1>2. Append(Prefix(n), n + 1) = Prefix(n + 1)
  <2>1. Append(Prefix(n), n + 1)
          = [i \in 1 .. n + 1 |-> IF i <= n THEN Prefix(n)[i] ELSE n + 1]
    BY <1>1
  <2> QED
    BY <2>1 DEF Prefix
<1>3. Prefix(n) # NoFile
  <2>1. NoFile[1] = 0
    BY DEF NoFile
  <2>2. Len(NoFile) = 1
    BY DEF NoFile
  <2>3. ASSUME Prefix(n) = NoFile PROVE FALSE
    <3>1. n = 1
      BY <1>1, <2>2, <2>3
    <3>2. Prefix(n)[1] = 1
      BY <3>1 DEF Prefix
    <3> QED
      BY <2>1, <2>3, <3>2
  <2> QED
    BY <2>3
<1> QED
  BY <1>1, <1>2, <1>3

LEMMA PrefixWhole == Prefix(Size) = Whole
  BY DEF Prefix, Whole

LEMMA EmptyIsPrefix == <<>> = Prefix(0) /\ Len(<<>>) = 0 /\ <<>> # NoFile /\ <<>> \in Seq(Parts)
<1>1. Prefix(0) \in Seq(Nat) /\ Len(Prefix(0)) = 0 /\ Prefix(0) # NoFile
  BY PrefixGrows
<1>2. Prefix(0) = <<>>
  BY <1>1, EmptySeq
<1> QED
  BY <1>1, <1>2, EmptySeq

\* No file of parts is the mark of one that is not there.
LEMMA PartsAreFile ==
  ASSUME NEW f \in Seq(Parts)
  PROVE  f # NoFile
<1>1. NoFile[1] = 0 /\ Len(NoFile) = 1
  BY DEF NoFile
<1>2. ASSUME f = NoFile PROVE FALSE
  <2>1. Len(f) = 1
    BY <1>1, <1>2
  <2>2. f[1] \in Parts
    BY <2>1
  <2> QED
    BY <1>1, <1>2, <2>2, SizeIsNumber DEF Parts
<1> QED
  BY <1>2

\* The file that the next request continues.
LEMMA CreatedParts ==
  ASSUME FileOK
  PROVE  /\ Created \in Seq(Parts) /\ Created # NoFile /\ Len(Created) \in Nat
         /\ ignored \/ Created = Prefix(Len(Created))
<1>1. CASE file = NoFile
  BY <1>1, EmptyIsPrefix DEF Created
<1>2. CASE file # NoFile
  BY <1>2, PartsAreFile DEF Created, FileOK, Misled
<1> QED
  BY <1>1, <1>2

-----------------------------------------------------------------------------
(* What one process does leaves the others as they are.                    *)

\* p goes on, and leaves alone the files of who holds the lock.
GoesOn(p) ==
  /\ kind' = kind
  /\ \A q \in Users \ {p} : /\ at'[q] = at[q] /\ tries'[q] = tries[q]
                            /\ body'[q] = body[q] /\ source'[q] = source[q]
                            /\ lock = q => lock' = q /\ UNCHANGED fileVars
  /\ Excused => Excused'
  /\ (ignored => ignored') /\ (loose => loose')
  /\ fails' >= fails /\ kills' >= kills
  /\ at[p] \notin {"done", "partial"}
  /\ temp # NoFile /\ temp' = NoFile => at'[p] \in {"done", "partial"}

LEMMA MisledStays ==
  ASSUME UrlTypes, ignored => ignored', loose => loose', fails' \in Nat, fails' >= fails
  PROVE  Misled => Misled'
  BY DEF Misled, UrlTypes

\* Who has got it keeps it, and who takes the archive has got it.
LEMMA OthersHave ==
  ASSUME NEW p \in Users, NEW q \in Users \ {p}, GoesOn(p)
  PROVE  /\ OtherHas(q) => OtherHas(q)'
         /\ OtherHas(p) => OtherHas(p)'
         /\ temp # NoFile /\ temp' = NoFile => OtherHas(q)'
<1>1. \A r \in Users : at[r] \in {"done", "partial"} => r # p /\ at'[r] = at[r]
  BY DEF GoesOn
<1>2. OtherHas(q) => OtherHas(q)'
  BY <1>1 DEF OtherHas
<1>3. OtherHas(p) => OtherHas(p)'
  BY <1>1 DEF OtherHas
<1>4. temp # NoFile /\ temp' = NoFile => OtherHas(q)'
  <2>1. p \in Users \ {q}
    OBVIOUS
  <2> QED
    BY <2>1 DEF OtherHas, GoesOn
<1> QED
  BY <1>2, <1>3, <1>4

LEMMA OthersStay ==
  ASSUME UrlInv, NEW p \in Users, NEW q \in Users \ {p}, GoesOn(p), fails' \in Nat, kills' \in Nat
  PROVE  UserOK(q)'
<1> q \in Users
  OBVIOUS
<1>1. UserOK(q) /\ UrlTypes
  BY DEF UrlInv
<1>2. at'[q] = at[q] /\ tries'[q] = tries[q] /\ body'[q] = body[q] /\ source'[q] = source[q]
  BY DEF GoesOn
<1>3. Executable' = Executable /\ (InLock(q)' <=> InLock(q))
  BY <1>2 DEF GoesOn, Executable, InLock
<1>4. InLock(q)' => lock' = q /\ UNCHANGED fileVars
  BY <1>1, <1>3 DEF GoesOn, UserOK
<1>5. at'[q] \in {"try", "body"} =>
        ~ completed' /\ tries'[q] > 0 /\ (Excused' \/ fails' + tries'[q] > Retry)
  <2> SUFFICES ASSUME at'[q] \in {"try", "body"}
               PROVE  ~ completed' /\ tries'[q] > 0
                      /\ (Excused' \/ fails' + tries'[q] > Retry)
    OBVIOUS
  <2>1. completed' = completed
    BY <1>4 DEF InLock, fileVars
  <2>2. ~ completed /\ tries[q] > 0 /\ (Excused \/ fails + tries[q] > Retry)
    BY <1>1, <1>2 DEF UserOK
  <2>3. tries[q] \in Nat /\ fails \in Nat /\ Retry \in Nat
    BY <1>1, SizeIsNumber DEF UrlTypes
  <2> QED
    BY <1>2, <2>1, <2>2, <2>3 DEF GoesOn
<1>6. at'[q] = "body" =>
        /\ file' # NoFile /\ (loose' \/ size' = Size - body'[q].from)
        /\ ignored' \/ Len(file') = body'[q].from + body'[q].read
  BY <1>1, <1>2, <1>4 DEF UserOK, InLock, fileVars, GoesOn
<1>7. at'[q] = "saved" \/ (at'[q] = "copy" /\ Executable') => completed' /\ file' # NoFile
  BY <1>1, <1>2, <1>3, <1>4 DEF UserOK, InLock, fileVars
<1>8. at'[q] = "copy" => source'[q] = Whole \/ Misled'
  <2>1. Misled => Misled'
    BY <1>1, MisledStays DEF GoesOn
  <2> QED
    BY <1>1, <1>2, <2>1 DEF UserOK, GoesOn
<1>9. at'[q] = "place" => ~ Executable'
  BY <1>1, <1>2, <1>3 DEF UserOK
<1>10. kills > 0 => kills' > 0
  BY <1>1 DEF UrlTypes, GoesOn
<1>11. (at'[q] = "place" \/ (at'[q] = "copy" /\ ~ Executable')) /\ temp' = NoFile =>
         kills' > 0 \/ OtherHas(q)'
  BY <1>1, <1>2, <1>3, <1>10, OthersHave DEF UserOK
<1>12. at'[q] = "raised" =>
         \/ fails' > Retry \/ Excused'
         \/ ~ Executable' /\ (kills' > 0 \/ OtherHas(q)')
  <2>1. fails > Retry => fails' > Retry
    BY <1>1, SizeIsNumber DEF UrlTypes, GoesOn
  <2> QED
    BY <1>1, <1>2, <1>3, <1>10, <2>1, OthersHave DEF UserOK, GoesOn
<1> QED
  BY <1>4, <1>5, <1>6, <1>7, <1>8, <1>9, <1>11, <1>12 DEF UserOK

LEMMA UrlInitInv == UrlInit => UrlInv
<1> SUFFICES ASSUME UrlInit PROVE UrlInv
  OBVIOUS
<1>1. UrlTypes
  <2>1. /\ kind \in {"executable", "unpack", "move"}
        /\ lock \in Users \cup {Free} /\ completed \in BOOLEAN
        /\ at \in [Users -> UserPlaces]
        /\ source = [p \in Users |-> source[p]]
        /\ {ignored, loose, early, torn} \subseteq BOOLEAN
    BY DEF UrlInit, UserPlaces
  <2>2. /\ size \in Sizes /\ tries \in [Users -> 0 .. Retry + 1]
        /\ fails \in Nat /\ kills \in Nat
    BY SizeIsNumber DEF UrlInit, Sizes
  <2>3. /\ body \in [Users -> [from : Nat, read : Nat]]
        /\ \A p \in Users : body[p].from + body[p].read <= Size
    BY SizeIsNumber DEF UrlInit, NoBody
  <2>4. dest \in [there : BOOLEAN, parts : SUBSET Parts] /\ (dest.parts # {} => dest.there)
    BY DEF UrlInit
  <2> QED
    BY <2>1, <2>2, <2>3, <2>4 DEF UrlTypes
<1>2. FileOK
  BY DEF UrlInit, FileOK, Misled
<1>3. \A p \in Users : UserOK(p)
  BY DEF UrlInit, UserOK, InLock
<1> QED
  BY <1>1, <1>2, <1>3 DEF UrlInv

\* The actions that touch neither the file nor what is made of it.
LEMMA BeginKeeps ==
  ASSUME UrlInv, NEW p \in Users, Begin(p)
  PROVE  UrlInv'
<1>1. UrlTypes /\ FileOK /\ UserOK(p) /\ at[p] = "start"
  BY DEF UrlInv, Begin
<1> DEFINE where == IF ~ dest.there THEN "lock"
                    ELSE IF dest.parts = Parts THEN "done" ELSE "partial"
<1>2. at' = [at EXCEPT ![p] = where]
  BY DEF Begin, Goes
<1>3. at'[p] \in {"lock", "done", "partial"}
  BY <1>1, <1>2 DEF UrlTypes
<1>4. GoesOn(p)
  BY <1>1, <1>2 DEF GoesOn, Excused, Begin, UrlTypes, fileVars, madeVars, readVars, histVars
<1>5. UrlTypes'
  BY <1>1, <1>2 DEF UrlTypes, Begin, fileVars, madeVars, readVars, histVars, UserPlaces
<1>6. FileOK'
  <2>1. \A q \in Users : at[q] = "body" => at'[q] = "body"
    BY <1>1, <1>2 DEF UrlTypes
  <2> QED
    BY <1>1, <2>1 DEF FileOK, Misled, Begin, fileVars, madeVars, histVars, Executable
<1>7. UserOK(p)'
  BY <1>3 DEF UserOK, InLock
<1>8. fails' \in Nat /\ kills' \in Nat
  BY <1>5 DEF UrlTypes
<1> QED
  BY <1>4, <1>5, <1>6, <1>7, <1>8, OthersStay DEF UrlInv

\* The invariant after a step of p, from what the step does to p and to the files.
LEMMA StepKeeps ==
  ASSUME UrlInv, NEW p \in Users, GoesOn(p), UrlTypes', FileOK', UserOK(p)'
  PROVE  UrlInv'
<1>1. fails' \in Nat /\ kills' \in Nat
  BY DEF UrlTypes
<1>2. ASSUME NEW q \in Users PROVE UserOK(q)'
  <2>1. CASE q = p
    BY <2>1
  <2>2. CASE q # p
    BY <1>1, <2>2, OthersStay
  <2> QED
    BY <2>1, <2>2
<1> QED
  BY <1>2 DEF UrlInv

\* Nobody but the one at p's place is lost to a step of p.
LEMMA ReadersOn ==
  ASSUME UrlInv, NEW p \in Users, GoesOn(p), at[p] # "body",
         \E q \in Users : at[q] = "body"
  PROVE  \E q \in Users : at'[q] = "body"
  BY DEF GoesOn

\* The holder of the lock works alone.
LEMMA LockHolder ==
  ASSUME UrlInv, NEW p \in Users, InLock(p)
  PROVE  lock = p /\ \A q \in Users : at[q] \in {"try", "body", "saved"} => q = p
  BY DEF UrlInv, UserOK, InLock

LEMMA EnterKeeps ==
  ASSUME UrlInv, NEW p \in Users, Enter(p)
  PROVE  UrlInv'
<1>1. UrlTypes /\ FileOK /\ UserOK(p) /\ at[p] = "lock" /\ lock = Free
  BY DEF UrlInv, Enter
<1>2. \A q \in Users : lock # q
  BY <1>1, SizeIsNumber
<1>3. \A q \in Users : at[q] # "body"
  BY <1>2 DEF UrlInv, UserOK, InLock
<1>4. /\ kind' = kind /\ UNCHANGED <<madeVars, fails, kills, histVars>>
  BY DEF Enter
<1>5. CASE Executable /\ dest.there
  <2> DEFINE where == IF dest.parts = Parts THEN "done" ELSE "partial"
  <2>1. at' = [at EXCEPT ![p] = where] /\ UNCHANGED <<lock, fileVars, readVars>>
    BY <1>5 DEF Enter, Goes
  <2>2. at'[p] \in {"done", "partial"} /\ \A q \in Users \ {p} : at'[q] = at[q]
    BY <1>1, <2>1 DEF UrlTypes
  <2>3. GoesOn(p)
    BY <1>1, <1>2, <1>4, <2>1, <2>2
    DEF GoesOn, Excused, UrlTypes, fileVars, madeVars, readVars, histVars
  <2>4. UrlTypes'
    BY <1>1, <1>4, <2>1, <2>2
       DEF UrlTypes, fileVars, madeVars, readVars, histVars, UserPlaces
  <2>5. FileOK'
    BY <1>1, <1>3, <1>4, <2>1 DEF FileOK, Misled, fileVars, madeVars, histVars, Executable
  <2>6. UserOK(p)'
    BY <2>2 DEF UserOK, InLock
  <2> QED
    BY <2>3, <2>4, <2>5, <2>6, StepKeeps
<1>6. CASE ~ (Executable /\ dest.there) /\ file # NoFile /\ completed
  <2>1. /\ at' = [at EXCEPT ![p] = "saved"] /\ lock' = p
        /\ UNCHANGED <<fileVars, readVars>>
    BY <1>6 DEF Enter, Goes
  <2>2. at'[p] = "saved" /\ \A q \in Users \ {p} : at'[q] = at[q]
    BY <1>1, <2>1 DEF UrlTypes
  <2>3. GoesOn(p)
    BY <1>1, <1>2, <1>4, <2>1, <2>2
    DEF GoesOn, Excused, UrlTypes, fileVars, madeVars, readVars, histVars
  <2>4. UrlTypes'
    BY <1>1, <1>4, <2>1, <2>2
       DEF UrlTypes, fileVars, madeVars, readVars, histVars, UserPlaces
  <2>5. FileOK'
    BY <1>1, <1>3, <1>4, <2>1 DEF FileOK, Misled, fileVars, madeVars, histVars, Executable
  <2>6. UserOK(p)'
    BY <1>6, <2>1, <2>2 DEF UserOK, InLock, fileVars
  <2> QED
    BY <2>3, <2>4, <2>5, <2>6, StepKeeps
<1>7. CASE ~ (Executable /\ dest.there) /\ ~ (file # NoFile /\ completed)
  <2>1. /\ at' = [at EXCEPT ![p] = "try"] /\ lock' = p
        /\ size' = NoSize /\ completed' = FALSE /\ UNCHANGED <<file, body>>
        /\ tries' = [tries EXCEPT ![p] = Retry + 1]
    BY <1>7 DEF Enter, Goes
  <2>2. at'[p] = "try" /\ tries'[p] = Retry + 1
        /\ \A q \in Users \ {p} : at'[q] = at[q] /\ tries'[q] = tries[q]
    BY <1>1, <2>1 DEF UrlTypes
  <2>3. GoesOn(p)
    BY <1>1, <1>2, <1>4, <2>1, <2>2
    DEF GoesOn, Excused, UrlTypes, fileVars, madeVars, readVars, histVars
  <2>4. UrlTypes'
    <3>1. at' \in [Users -> UserPlaces] /\ tries' \in [Users -> 0 .. Retry + 1]
          /\ size' \in Sizes
      BY <1>1, <2>1, SizeIsNumber DEF UrlTypes, UserPlaces, Sizes
    <3> QED
      BY <1>1, <1>4, <2>1, <3>1 DEF UrlTypes, madeVars, histVars
  <2>5. FileOK'
    BY <1>1, <1>3, <1>4, <1>7, <2>1 DEF FileOK, Misled, madeVars, histVars, Executable
  <2>6. UserOK(p)'
    <3>1. tries'[p] > 0 /\ fails' + tries'[p] > Retry
      BY <1>1, <1>4, <2>2, SizeIsNumber DEF UrlTypes
    <3> QED
      BY <2>1, <2>2, <3>1 DEF UserOK, InLock
  <2> QED
    BY <2>3, <2>4, <2>5, <2>6, StepKeeps
<1> QED
  BY <1>5, <1>6, <1>7

LEMMA OneLess ==
  ASSUME NEW a \in Nat, NEW r \in Nat
  PROVE  /\ a + 1 > r + 1 => a > r
         /\ \A t \in Nat : t > 0 /\ t # 1 => t - 1 > 0 /\ (a + t > r + 1 => a + (t - 1) > r)
  OBVIOUS

\* A try that has failed leaves a reason for it.
LEMMA TryFailsKeeps ==
  ASSUME UrlInv, NEW p \in Users, at[p] \in {"try", "body"}, TryFails(p),
         fails' \in Nat, fails' >= fails, Excused \/ fails' + tries[p] > Retry + 1,
         UNCHANGED <<kind, completed, madeVars, kills, histVars>>,
         \A q \in Users \ {p} : body'[q] = body[q]
  PROVE  /\ GoesOn(p) /\ UserOK(p)'
         /\ at' \in [Users -> UserPlaces] /\ tries' \in [Users -> 0 .. Retry + 1]
         /\ lock' \in Users \cup {Free}
         /\ \A q \in Users : at'[q] # "body"
<1>1. UrlTypes /\ UserOK(p)
  BY DEF UrlInv
<1>2. lock = p /\ \A q \in Users : at[q] \in {"try", "body", "saved"} => q = p
  BY LockHolder DEF InLock
<1>3. tries[p] \in 0 .. Retry + 1 /\ tries[p] > 0 /\ ~ completed
  BY <1>1 DEF UserOK, UrlTypes
<1>4. tries' = [tries EXCEPT ![p] = tries[p] - 1]
  BY DEF TryFails
<1>5. tries' \in [Users -> 0 .. Retry + 1] /\ tries'[p] = tries[p] - 1
      /\ \A q \in Users \ {p} : tries'[q] = tries[q]
  <2>1. tries[p] - 1 \in 0 .. Retry + 1
    BY <1>3, SizeIsNumber
  <2> QED
    BY <1>1, <1>4, <2>1 DEF UrlTypes
<1>6. CASE tries[p] = 1
  <2>1. at' = [at EXCEPT ![p] = "raised"] /\ lock' = Free
    BY <1>6 DEF TryFails, Goes
  <2>2. at'[p] = "raised" /\ \A q \in Users \ {p} : at'[q] = at[q]
    BY <1>1, <2>1 DEF UrlTypes
  <2>3. Excused \/ fails' > Retry
    <3>1. fails' + 1 > Retry + 1 => fails' > Retry
      BY SizeIsNumber, OneLess
    <3> QED
      BY <1>6, <3>1
  <2>4. UserOK(p)'
    BY <2>2, <2>3 DEF UserOK, InLock, histVars, Excused
  <2>5. GoesOn(p)
    BY <1>1, <1>2, <1>5, <2>1, <2>2 DEF GoesOn, Excused, UrlTypes, madeVars, histVars
  <2>6. at' \in [Users -> UserPlaces] /\ \A q \in Users : at'[q] # "body"
    BY <1>1, <1>2, <2>1, <2>2 DEF UrlTypes, UserPlaces
  <2> QED
    BY <1>5, <2>1, <2>4, <2>5, <2>6
<1>7. CASE tries[p] # 1
  <2>1. at' = [at EXCEPT ![p] = "try"] /\ lock' = lock
    BY <1>7 DEF TryFails, Goes
  <2>2. at'[p] = "try" /\ \A q \in Users \ {p} : at'[q] = at[q]
    BY <1>1, <2>1 DEF UrlTypes
  <2>3. tries'[p] > 0 /\ (Excused \/ fails' + tries'[p] > Retry)
    <3>1. tries'[p] > 0 /\ (fails' + tries[p] > Retry + 1 => fails' + tries'[p] > Retry)
      <4>1. tries[p] \in Nat
        BY <1>3, SizeIsNumber
      <4> QED
        BY <1>3, <1>5, <1>7, <4>1, OneLess, SizeIsNumber
    <3> QED
      BY <3>1
  <2>4. UserOK(p)'
    BY <1>2, <1>3, <2>1, <2>2, <2>3 DEF UserOK, InLock, histVars, Excused
  <2>5. GoesOn(p)
    BY <1>1, <1>2, <1>5, <2>1, <2>2 DEF GoesOn, Excused, UrlTypes, madeVars, histVars
  <2>6. at' \in [Users -> UserPlaces] /\ \A q \in Users : at'[q] # "body"
    BY <1>1, <1>2, <2>1, <2>2 DEF UrlTypes, UserPlaces
  <2> QED
    BY <1>1, <1>5, <2>1, <2>4, <2>5, <2>6 DEF UrlTypes
<1> QED
  BY <1>6, <1>7

LEMMA RequestKeeps ==
  ASSUME UrlInv, NEW p \in Users, Request(p)
  PROVE  UrlInv'
<1>1. UrlTypes /\ FileOK /\ UserOK(p) /\ at[p] = "try"
  BY DEF UrlInv, Request
<1>2. lock = p /\ \A q \in Users : at[q] # "body"
  BY <1>1, LockHolder DEF InLock
<1>3. /\ Created \in Seq(Parts) /\ Created # NoFile /\ Len(Created) \in Nat
      /\ ignored \/ Created = Prefix(Len(Created))
  BY <1>1, CreatedParts
<1>4. /\ file' = Created
      /\ UNCHANGED <<kind, completed, madeVars, kills, early, torn>>
  BY DEF Request
<1>5. ~ completed /\ tries[p] \in Nat /\ tries[p] > 0
      /\ (Excused \/ fails + tries[p] > Retry)
  BY <1>1, SizeIsNumber DEF UserOK, UrlTypes
<1>6. Len(Created) >= Size => Excused
  <2>1. Len(<<>>) = 0 /\ ~ (0 >= Size)
    BY SizeIsNumber, EmptyIsPrefix
  <2>2. CASE file = NoFile
    BY <2>1, <2>2 DEF Created
  <2>3. CASE file # NoFile
    BY <1>1, <1>2, <1>5, <2>3 DEF Created, FileOK, Excused
  <2> QED
    BY <2>2, <2>3
<1>7. temp' = temp /\ dest' = dest /\ source' = source /\ completed' = FALSE
  BY <1>1, <1>4, <1>5 DEF madeVars, UrlTypes
<1>8. ASSUME TryFails(p), UNCHANGED <<body, size, ignored, loose>>, fails' \in Nat, fails' >= fails,
             Excused \/ fails' + tries[p] > Retry + 1
      PROVE  UrlInv'
  <2>1. UNCHANGED <<kind, completed, madeVars, kills, histVars>>
        /\ \A q \in Users \ {p} : body'[q] = body[q]
    BY <1>4, <1>8 DEF histVars
  <2>2. /\ GoesOn(p) /\ UserOK(p)'
        /\ at' \in [Users -> UserPlaces] /\ tries' \in [Users -> 0 .. Retry + 1]
        /\ lock' \in Users \cup {Free}
    BY <1>1, <1>8, <2>1, TryFailsKeeps
  <2>3. UrlTypes'
    BY <1>1, <1>4, <1>7, <1>8, <2>2 DEF UrlTypes
  <2>4. FileOK'
    <3>1. Misled => Misled'
      BY <1>1, <1>8, MisledStays
    <3> QED
      BY <1>1, <1>3, <1>4, <1>6, <1>7, <1>8, <3>1 DEF FileOK, Executable, Excused
  <2> QED
    BY <2>2, <2>3, <2>4, StepKeeps
<1>9. CASE /\ fails < MaxFails /\ fails' = fails + 1
           /\ TryFails(p) /\ UNCHANGED <<body, size, ignored, loose>>
  <2>1. fails' \in Nat /\ fails' >= fails
    BY <1>1, <1>9 DEF UrlTypes
  <2>2. fails + tries[p] > Retry => fails' + tries[p] > Retry + 1
    BY <1>1, <1>5, <1>9, SizeIsNumber DEF UrlTypes
  <2> QED
    BY <1>5, <1>8, <1>9, <2>1, <2>2
<1>10. CASE /\ Len(file') >= Size
            /\ TryFails(p) /\ UNCHANGED <<body, size, ignored, loose, fails>>
  <2>1. fails' \in Nat /\ fails' >= fails
    BY <1>1, <1>10 DEF UrlTypes
  <2>2. Excused
    BY <1>4, <1>6, <1>10
  <2> QED
    BY <1>8, <1>10, <2>1, <2>2
<1>11. ASSUME NEW start \in {0, Len(file')}, start < Size,
              body' = [body EXCEPT ![p] = [from |-> start, read |-> 0]],
              UNCHANGED size \/ size' \in {Size - start} \cup Lengths,
              loose' = (loose \/ size' # Size - start),
              ignored' = (ignored \/ start # Len(file')),
              Goes(p, "body"), UNCHANGED <<lock, tries, fails>>
       PROVE  UrlInv'
  <2>1. start \in Nat
    BY <1>3, <1>4
  <2>2. at' = [at EXCEPT ![p] = "body"]
    BY <1>11 DEF Goes
  <2>3. at'[p] = "body" /\ body'[p] = [from |-> start, read |-> 0]
        /\ \A q \in Users \ {p} : at'[q] = at[q] /\ body'[q] = body[q]
    BY <1>1, <1>11, <2>2 DEF UrlTypes
  <2>4. Excused => Excused'
    BY <1>4, <1>11 DEF Excused
  <2>5. (ignored => ignored') /\ (loose => loose') /\ (Misled => Misled')
    BY <1>11 DEF Misled
  <2>6. GoesOn(p)
    BY <1>1, <1>2, <1>4, <1>7, <1>11, <2>3, <2>4, <2>5 DEF GoesOn, UrlTypes
  <2>7. UrlTypes'
    <3>1. at' \in [Users -> UserPlaces]
      BY <1>1, <2>2 DEF UrlTypes, UserPlaces
    <3>2. body' \in [Users -> [from : Nat, read : Nat]]
      BY <1>1, <1>11, <2>1 DEF UrlTypes
    <3>3. \A q \in Users : body'[q].from + body'[q].read <= Size
      BY <1>1, <1>11, <2>1, <2>3, SizeIsNumber DEF UrlTypes
    <3>4. size' \in Sizes
      <4>1. Size - start \in 1 .. Size
        BY <1>11, <2>1, SizeIsNumber
      <4> QED
        BY <1>1, <1>11, <4>1 DEF UrlTypes, Sizes
    <3>5. ignored' \in BOOLEAN /\ loose' \in BOOLEAN
      BY <1>11
    <3> QED
      BY <1>1, <1>4, <1>7, <1>11, <3>1, <3>2, <3>3, <3>4, <3>5 DEF UrlTypes
  <2>8. FileOK'
    BY <1>1, <1>3, <1>4, <1>7, <2>3, <2>5 DEF FileOK, Misled, Executable
  <2>9. UserOK(p)'
    <3>1. ignored' \/ Len(file') = body'[p].from + body'[p].read
      <4>1. start = Len(file') => Len(file') = body'[p].from + body'[p].read
        BY <2>1, <2>3
      <4>2. start # Len(file') => ignored'
        BY <1>4, <1>11
      <4> QED
        BY <4>1, <4>2
    <3>2. (loose' \/ size' = Size - body'[p].from) /\ file' # NoFile
      <4>1. body'[p].from = start
        BY <2>3
      <4> QED
        BY <1>3, <1>4, <1>11, <4>1
    <3>3. tries'[p] > 0 /\ (Excused' \/ fails' + tries'[p] > Retry)
      BY <1>5, <1>11, <2>4
    <3> QED
      BY <1>2, <1>7, <1>11, <2>3, <3>1, <3>2, <3>3 DEF UserOK, InLock
  <2> QED
    BY <2>6, <2>7, <2>8, <2>9, StepKeeps
<1> QED
  BY <1>9, <1>10, <1>11 DEF Request

LEMMA ChunkKeeps ==
  ASSUME UrlInv, NEW p \in Users, Chunk(p)
  PROVE  UrlInv'
<1>1. UrlTypes /\ FileOK /\ UserOK(p) /\ at[p] = "body"
  BY DEF UrlInv, Chunk
<1>2. lock = p
  BY <1>1, LockHolder DEF InLock
<1> DEFINE n == body[p].from + body[p].read
<1>3. n \in Nat /\ n < Size /\ body[p].from \in Nat /\ body[p].read \in Nat
  <2>1. body[p].from \in Nat /\ body[p].read \in Nat /\ n <= Size
    BY <1>1 DEF UrlTypes
  <2>2. n # Size
    BY DEF Chunk, Ended
  <2> QED
    BY <2>1, <2>2, SizeIsNumber
<1>4. /\ file' = Append(file, n + 1)
      /\ body' = [body EXCEPT ![p].read = @ + 1]
      /\ UNCHANGED <<kind, lock, completed, size, madeVars, at, tries, fails, kills, histVars>>
  BY DEF Chunk
<1>5. file # NoFile /\ file \in Seq(Parts) /\ (loose \/ size = Size - body[p].from)
      /\ (ignored \/ file = Prefix(Len(file))) /\ (ignored \/ Len(file) = n)
      /\ ~ completed /\ tries[p] > 0 /\ (Excused \/ fails + tries[p] > Retry)
  BY <1>1 DEF FileOK, Misled, UserOK
<1>6. file' \in Seq(Parts) /\ file' # NoFile
  <2>1. n + 1 \in Parts
    BY <1>3, SizeIsNumber DEF Parts
  <2>2. file' \in Seq(Parts)
    BY <1>4, <1>5, <2>1
  <2> QED
    BY <2>2, PartsAreFile
<1>7. ignored \/ (Len(file') = n + 1 /\ file' = Prefix(Len(file')))
  <2> SUFFICES ASSUME ~ ignored PROVE Len(file') = n + 1 /\ file' = Prefix(Len(file'))
    OBVIOUS
  <2>1. file = Prefix(n) /\ Len(file) = n
    BY <1>5
  <2>2. file' = Append(Prefix(n), n + 1) /\ Len(file') = n + 1
    BY <1>4, <1>5, <2>1
  <2> QED
    BY <1>3, <2>2, PrefixGrows
<1>8. body'[p].from = body[p].from /\ body'[p].read = body[p].read + 1
      /\ \A q \in Users \ {p} : body'[q] = body[q]
  BY <1>1, <1>4 DEF UrlTypes
<1> HIDE DEF n
<1>9. GoesOn(p)
  BY <1>1, <1>2, <1>4, <1>8 DEF GoesOn, Excused, UrlTypes, madeVars, histVars
<1>10. UrlTypes'
  <2>1. body' \in [Users -> [from : Nat, read : Nat]]
    <3>1. body \in [Users -> [from : Nat, read : Nat]]
      BY <1>1 DEF UrlTypes
    <3>2. [body[p] EXCEPT !.read = @ + 1] \in [from : Nat, read : Nat]
      BY <3>1
    <3>3. body' = [body EXCEPT ![p] = [body[p] EXCEPT !.read = @ + 1]]
      BY <1>4
    <3> QED
      BY <3>1, <3>2, <3>3
  <2>2. \A q \in Users : body'[q].from + body'[q].read <= Size
    BY <1>1, <1>3, <1>8, SizeIsNumber DEF UrlTypes, n
  <2> QED
    BY <1>1, <1>4, <2>1, <2>2 DEF UrlTypes, madeVars, histVars
<1>11. FileOK'
  BY <1>1, <1>4, <1>5, <1>6, <1>7 DEF FileOK, Misled, madeVars, histVars, Executable
<1>12. UserOK(p)'
  <2>1. ignored' \/ Len(file') = body'[p].from + body'[p].read
    <3>1. n + 1 = body'[p].from + body'[p].read
      BY <1>3, <1>8 DEF n
    <3> QED
      BY <1>4, <1>7, <3>1 DEF histVars
  <2> QED
    BY <1>1, <1>2, <1>4, <1>5, <1>6, <1>8, <2>1 DEF UserOK, InLock, histVars, Excused
<1> QED
  BY <1>9, <1>10, <1>11, <1>12, StepKeeps

LEMMA BodyKeeps ==
  ASSUME UrlInv, NEW p \in Users, Body(p)
  PROVE  UrlInv'
<1>1. UrlTypes /\ FileOK /\ UserOK(p) /\ at[p] = "body"
  BY DEF UrlInv, Body
<1>2. lock = p /\ \A q \in Users : at[q] \in {"try", "body", "saved"} => q = p
  BY <1>1, LockHolder DEF InLock
<1>3. body[p].from \in Nat /\ body[p].read \in Nat /\ body[p].from + body[p].read <= Size
  BY <1>1 DEF UrlTypes
<1>4. /\ body' = [body EXCEPT ![p] = NoBody]
      /\ UNCHANGED <<kind, file, size, madeVars, kills, histVars>>
  BY DEF Body
<1>5. file # NoFile /\ (loose \/ size = Size - body[p].from)
      /\ (ignored \/ Len(file) = body[p].from + body[p].read)
      /\ ~ completed /\ tries[p] > 0 /\ (Excused \/ fails + tries[p] > Retry)
  BY <1>1 DEF UserOK
<1>6. fails' \in Nat /\ fails' >= fails /\ (Misled => Misled')
  <2>1. fails' \in Nat /\ fails' >= fails
    BY <1>1 DEF UrlTypes, Body
  <2> QED
    BY <1>1, <1>4, <2>1, MisledStays DEF histVars
<1>7. /\ \A q \in Users \ {p} : body'[q] = body[q]
      /\ body' \in [Users -> [from : Nat, read : Nat]]
      /\ \A q \in Users : body'[q].from + body'[q].read <= Size
  BY <1>1, <1>4, SizeIsNumber DEF UrlTypes, NoBody
<1>8. size \in Int
  BY <1>1, SizeIsNumber DEF UrlTypes, Sizes, NoSize
<1>9. ASSUME ~ Ended(p) \/ size > body[p].read, TryFails(p), UNCHANGED completed PROVE UrlInv'
  <2>1. ~ Ended(p) \/ loose
    <3>1. size = Size - body[p].from /\ size > body[p].read => body[p].from + body[p].read < Size
      BY <1>3, SizeIsNumber
    <3> QED
      BY <1>3, <1>5, <1>9, <3>1, SizeIsNumber DEF Ended
  <2>2. ~ Ended(p) => fails' = fails + 1 /\ body[p].from + body[p].read < Size
    BY <1>3, SizeIsNumber DEF Ended, Body
  <2>3. Excused \/ fails' + tries[p] > Retry + 1
    <3>1. tries[p] \in Nat /\ fails \in Nat
      BY <1>1, SizeIsNumber DEF UrlTypes
    <3>2. ~ Ended(p) /\ fails + tries[p] > Retry => fails' + tries[p] > Retry + 1
      BY <2>2, <3>1, SizeIsNumber
    <3> QED
      BY <1>5, <2>1, <3>2 DEF Excused
  <2>4. /\ GoesOn(p) /\ UserOK(p)'
        /\ at' \in [Users -> UserPlaces] /\ tries' \in [Users -> 0 .. Retry + 1]
        /\ lock' \in Users \cup {Free}
    BY <1>1, <1>4, <1>6, <1>7, <1>9, <2>3, TryFailsKeeps
  <2>5. UrlTypes'
    BY <1>1, <1>4, <1>6, <1>7, <1>9, <2>4 DEF UrlTypes, madeVars, histVars
  <2>6. FileOK'
    <3>1. Len(file) >= Size => ignored \/ loose
      <4>1. ~ Ended(p) /\ Len(file) = body[p].from + body[p].read => ~ (Len(file) >= Size)
        BY <1>3, <2>2, SizeIsNumber
      <4> QED
        BY <1>5, <2>1, <4>1
    <3> QED
      BY <1>1, <1>4, <1>6, <1>9, <3>1 DEF FileOK, madeVars, histVars, Executable
  <2> QED
    BY <2>4, <2>5, <2>6, StepKeeps
<1>10. ASSUME size <= body[p].read, completed' = TRUE, Goes(p, "saved"), UNCHANGED lock,
              tries' = [tries EXCEPT ![p] = 0]
       PROVE  UrlInv'
  <2>1. at' = [at EXCEPT ![p] = "saved"]
    BY <1>10 DEF Goes
  <2>2. at'[p] = "saved" /\ \A q \in Users \ {p} : at'[q] = at[q] /\ tries'[q] = tries[q]
    BY <1>1, <1>10, <2>1 DEF UrlTypes
  <2>3. Misled' \/ body[p].from + body[p].read = Size
    <3>1. CASE Ended(p)
      BY <3>1 DEF Ended
    <3>2. CASE ~ Ended(p)
      <4>1. fails' = fails + 1 /\ fails \in Nat
        BY <1>1, <3>2 DEF Body, UrlTypes
      <4>2. ~ (size = Size - body[p].from)
        BY <1>3, <1>10, <3>2, SizeIsNumber DEF Ended
      <4> QED
        BY <1>4, <1>5, <4>1, <4>2 DEF Misled, histVars
    <3> QED
      BY <3>1, <3>2
  <2>4. GoesOn(p)
    BY <1>1, <1>2, <1>4, <1>6, <1>7, <1>10, <2>1, <2>2
       DEF GoesOn, Excused, UrlTypes, madeVars, histVars
  <2>5. UrlTypes'
    <3>1. at' \in [Users -> UserPlaces] /\ tries' \in [Users -> 0 .. Retry + 1]
      BY <1>1, <1>10, <2>1, SizeIsNumber DEF UrlTypes, UserPlaces
    <3> QED
      BY <1>1, <1>4, <1>6, <1>7, <1>10, <3>1 DEF UrlTypes, madeVars, histVars
  <2>6. FileOK'
    <3>1. Misled' \/ Len(file') = Size
      BY <1>4, <1>5, <2>3 DEF Misled, histVars
    <3> QED
      BY <1>1, <1>4, <1>6, <1>10, <3>1 DEF FileOK, madeVars, histVars, Executable
  <2>7. UserOK(p)'
    BY <1>2, <1>4, <1>5, <1>10, <2>2 DEF UserOK, InLock
  <2> QED
    BY <2>4, <2>5, <2>6, <2>7, StepKeeps
<1> QED
  BY <1>9, <1>10 DEF Body

LEMMA SavedKeeps ==
  ASSUME UrlInv, NEW p \in Users, Saved(p)
  PROVE  UrlInv'
<1>1. UrlTypes /\ FileOK /\ UserOK(p) /\ at[p] = "saved"
  BY DEF UrlInv, Saved
<1>2. lock = p /\ \A q \in Users : at[q] # "body"
  BY <1>1, LockHolder DEF InLock
<1>3. UNCHANGED <<kind, readVars, fails, kills, histVars>>
  BY DEF Saved
<1>4. completed /\ file # NoFile /\ (file = Whole \/ Misled)
  <2>1. completed /\ file # NoFile
    BY <1>1 DEF UserOK
  <2>2. Misled \/ (file = Prefix(Len(file)) /\ Len(file) = Size)
    BY <1>1, <2>1 DEF FileOK, Misled
  <2> QED
    BY <2>1, <2>2, PrefixWhole
<1>5. CASE Executable
  <2>1. /\ source' = [source EXCEPT ![p] = file] /\ dest' = [there |-> TRUE, parts |-> {}]
        /\ at' = [at EXCEPT ![p] = "copy"] /\ UNCHANGED <<temp, lock, fileVars>>
    BY <1>5 DEF Saved, Goes
  <2>2. at'[p] = "copy" /\ source'[p] = file
        /\ \A q \in Users \ {p} : at'[q] = at[q] /\ source'[q] = source[q]
    BY <1>1, <2>1 DEF UrlTypes
  <2>3. GoesOn(p)
    BY <1>1, <1>2, <1>3, <2>1, <2>2 DEF GoesOn, Excused, UrlTypes, fileVars, readVars, histVars
  <2>4. UrlTypes'
    <3>1. at' \in [Users -> UserPlaces] /\ source' = [q \in Users |-> source'[q]]
      BY <1>1, <2>1 DEF UrlTypes, UserPlaces
    <3>2. dest' \in [there : BOOLEAN, parts : SUBSET Parts] /\ dest'.there
      BY <2>1
    <3> QED
      BY <1>1, <1>3, <2>1, <3>1, <3>2 DEF UrlTypes, fileVars, readVars, histVars
  <2>5. FileOK'
    BY <1>1, <1>2, <1>3, <2>1 DEF FileOK, Misled, fileVars, histVars, Executable
  <2>6. UserOK(p)'
    <3>1. Misled' = Misled /\ Executable' = Executable /\ lock' = lock
          /\ completed' = completed /\ file' = file
      BY <1>3, <2>1 DEF Misled, Executable, fileVars, histVars
    <3> QED
      BY <1>2, <1>4, <1>5, <2>2, <3>1 DEF UserOK, InLock
  <2> QED
    BY <2>3, <2>4, <2>5, <2>6, StepKeeps
<1>6. CASE ~ Executable
  <2>1. /\ temp' = file /\ file' = NoFile /\ completed' = FALSE /\ size' = NoSize
        /\ lock' = Free /\ at' = [at EXCEPT ![p] = "place"] /\ UNCHANGED <<source, dest>>
    BY <1>6 DEF Saved, Goes, Cleared
  <2>2. at'[p] = "place" /\ \A q \in Users \ {p} : at'[q] = at[q]
    BY <1>1, <2>1 DEF UrlTypes
  <2>3. GoesOn(p)
    BY <1>1, <1>2, <1>3, <1>4, <2>1, <2>2 DEF GoesOn, Excused, UrlTypes, readVars, histVars
  <2>4. UrlTypes'
    <3>1. at' \in [Users -> UserPlaces] /\ size' \in Sizes
      BY <1>1, <2>1, SizeIsNumber DEF UrlTypes, UserPlaces, Sizes
    <3> QED
      BY <1>1, <1>3, <2>1, <3>1 DEF UrlTypes, readVars, histVars
  <2>5. FileOK'
    BY <1>3, <1>4, <1>6, <2>1 DEF FileOK, Misled, histVars, Executable
  <2>6. UserOK(p)'
    BY <1>3, <1>4, <1>6, <2>1, <2>2 DEF UserOK, InLock, Executable
  <2> QED
    BY <2>3, <2>4, <2>5, <2>6, StepKeeps
<1> QED
  BY <1>5, <1>6

\* What is made of the file leaves the file as it is, if the one who makes it has no lock on it.
LEMMA FileStays ==
  ASSUME UrlInv, NEW p \in Users, GoesOn(p), at[p] # "body",
         UNCHANGED <<file, completed>>, early => early', ignored => ignored',
         loose => loose', fails' \in Nat,
         temp' = NoFile \/ temp' = temp
  PROVE  FileOK'
<1>1. FileOK
  BY DEF UrlInv
<1>2. (\E q \in Users : at[q] = "body") => \E q \in Users : at'[q] = "body"
  BY ReadersOn
<1>3. Executable' = Executable
  BY DEF GoesOn, Executable
<1>4. Misled => Misled'
  BY MisledStays DEF UrlInv, GoesOn
<1> QED
  BY <1>1, <1>2, <1>3, <1>4 DEF FileOK

LEMMA PlaceKeeps ==
  ASSUME UrlInv, NEW p \in Users, Place(p)
  PROVE  UrlInv'
<1>1. UrlTypes /\ FileOK /\ UserOK(p) /\ at[p] = "place"
  BY DEF UrlInv, Place
<1>2. ~ Executable
  BY <1>1 DEF UserOK
<1>3. UNCHANGED <<kind, lock, fileVars, readVars, fails, kills, histVars>>
  BY DEF Place
<1>4. Executable' = Executable /\ fileVars' = fileVars /\ file' = file /\ completed' = completed
      /\ (early => early') /\ (ignored => ignored') /\ (loose => loose')
      /\ fails' \in Nat /\ (Misled => Misled')
  BY <1>1, <1>3 DEF Executable, Misled, UrlTypes, fileVars, histVars
<1>5. CASE temp = NoFile
  <2>1. at' = [at EXCEPT ![p] = "raised"] /\ UNCHANGED <<temp, dest, source>>
    BY <1>5 DEF Place, Goes
  <2>2. at'[p] = "raised" /\ \A q \in Users \ {p} : at'[q] = at[q]
    BY <1>1, <2>1 DEF UrlTypes
  <2>3. GoesOn(p)
    BY <1>1, <1>3, <2>1, <2>2 DEF GoesOn, Excused, UrlTypes, fileVars, readVars, histVars
  <2>4. UrlTypes'
    BY <1>1, <1>3, <2>1 DEF UrlTypes, UserPlaces, fileVars, readVars, histVars
  <2>5. FileOK'
    BY <1>1, <1>4, <2>1, <2>3, FileStays
  <2>6. kills > 0 \/ OtherHas(p)
    BY <1>1, <1>5 DEF UserOK
  <2>7. OtherHas(p) => OtherHas(p)'
    BY <2>2 DEF OtherHas
  <2>8. UserOK(p)'
    BY <1>2, <1>3, <1>4, <2>2, <2>6, <2>7 DEF UserOK, InLock
  <2> QED
    BY <2>3, <2>4, <2>5, <2>8, StepKeeps
<1>6. CASE temp # NoFile /\ kind = "unpack"
  <2>1. /\ source' = [source EXCEPT ![p] = temp] /\ at' = [at EXCEPT ![p] = "copy"]
        /\ UNCHANGED <<temp, dest>>
    BY <1>6 DEF Place, Goes
  <2>2. at'[p] = "copy" /\ source'[p] = temp
        /\ \A q \in Users \ {p} : at'[q] = at[q] /\ source'[q] = source[q]
    BY <1>1, <2>1 DEF UrlTypes
  <2>3. GoesOn(p)
    BY <1>1, <1>3, <2>1, <2>2 DEF GoesOn, Excused, UrlTypes, fileVars, readVars, histVars
  <2>4. UrlTypes'
    <3>1. at' \in [Users -> UserPlaces] /\ source' = [q \in Users |-> source'[q]]
      BY <1>1, <2>1 DEF UrlTypes, UserPlaces
    <3> QED
      BY <1>1, <1>3, <2>1, <3>1 DEF UrlTypes, fileVars, readVars, histVars
  <2>5. FileOK'
    BY <1>1, <1>4, <2>1, <2>3, FileStays
  <2>6. UserOK(p)'
    BY <1>1, <1>2, <1>4, <1>6, <2>1, <2>2 DEF UserOK, InLock, FileOK, Misled
  <2> QED
    BY <2>3, <2>4, <2>5, <2>6, StepKeeps
<1>7. CASE temp # NoFile /\ kind # "unpack"
  <2> DEFINE where == IF temp = Whole THEN "done" ELSE "partial"
  <2>1. /\ dest' = [there |-> TRUE, parts |-> IF temp = Whole THEN Parts ELSE {}]
        /\ temp' = NoFile /\ at' = [at EXCEPT ![p] = where] /\ UNCHANGED source
    BY <1>7 DEF Place, Goes
  <2>2. at'[p] \in {"done", "partial"} /\ \A q \in Users \ {p} : at'[q] = at[q]
    BY <1>1, <2>1 DEF UrlTypes
  <2>3. GoesOn(p)
    BY <1>1, <1>3, <2>1, <2>2 DEF GoesOn, Excused, UrlTypes, fileVars, readVars, histVars
  <2>4. UrlTypes'
    <3>1. at' \in [Users -> UserPlaces]
      BY <1>1, <2>1 DEF UrlTypes, UserPlaces
    <3>2. dest' \in [there : BOOLEAN, parts : SUBSET Parts] /\ dest'.there
      BY <2>1
    <3> QED
      BY <1>1, <1>3, <2>1, <3>1, <3>2 DEF UrlTypes, fileVars, readVars, histVars
  <2>5. FileOK'
    BY <1>1, <1>4, <2>1, <2>3, FileStays
  <2>6. UserOK(p)'
    BY <2>2 DEF UserOK, InLock
  <2> QED
    BY <2>3, <2>4, <2>5, <2>6, StepKeeps
<1> QED
  BY <1>5, <1>6, <1>7

LEMMA CopyKeeps ==
  ASSUME UrlInv, NEW p \in Users, Copy(p)
  PROVE  UrlInv'
<1>1. UrlTypes /\ FileOK /\ UserOK(p) /\ at[p] = "copy"
  BY DEF UrlInv, Copy
<1>2. UNCHANGED <<kind, lock, fileVars, temp, source, at, readVars, fails, kills, histVars>>
  BY DEF Copy
<1>3. GoesOn(p)
  BY <1>1, <1>2 DEF GoesOn, Excused, UrlTypes, fileVars, readVars, histVars
<1>4. UrlTypes'
  <2>1. PICK part \in Parts : dest' = [there |-> TRUE, parts |-> dest.parts \cup {part}]
    BY DEF Copy
  <2>2. dest' \in [there : BOOLEAN, parts : SUBSET Parts] /\ dest'.there
    BY <1>1, <2>1 DEF UrlTypes
  <2> QED
    BY <1>1, <1>2, <2>2 DEF UrlTypes, fileVars, readVars, histVars
<1>5. FileOK'
  BY <1>1, <1>2, <1>3, FileStays DEF fileVars, histVars, UrlTypes
<1>6. UserOK(p)'
  <2>1. OtherHas(p)' = OtherHas(p) /\ Executable' = Executable /\ Misled' = Misled
        /\ Excused' = Excused
    BY <1>2 DEF OtherHas, Executable, Misled, Excused, histVars
  <2> QED
    BY <1>1, <1>2, <2>1 DEF UserOK, InLock, fileVars, histVars
<1> QED
  BY <1>3, <1>4, <1>5, <1>6, StepKeeps

LEMMA CopyFailsKeeps ==
  ASSUME UrlInv, NEW p \in Users, CopyFails(p)
  PROVE  UrlInv'
<1>1. UrlTypes /\ FileOK /\ UserOK(p) /\ at[p] = "copy" /\ source[p] # Whole
  BY DEF UrlInv, CopyFails
<1>2. Excused
  BY <1>1 DEF UserOK, Misled, Excused
<1>3. /\ at' = [at EXCEPT ![p] = "raised"] /\ torn' = (torn \/ dest.there)
      /\ lock' = IF Executable THEN Free ELSE lock
      /\ UNCHANGED <<kind, fileVars, madeVars, readVars, fails, kills, ignored, loose, early>>
  BY DEF CopyFails, Goes
<1>4. at'[p] = "raised" /\ \A q \in Users \ {p} : at'[q] = at[q]
  BY <1>1, <1>3 DEF UrlTypes
<1>5. Executable => lock = p
  BY <1>1 DEF UserOK, InLock
<1>6. GoesOn(p)
  BY <1>1, <1>3, <1>4, <1>5 DEF GoesOn, Excused, UrlTypes, fileVars, madeVars, readVars
<1>7. UrlTypes'
  <2>1. torn' \in BOOLEAN
    BY <1>3
  <2> QED
    BY <1>1, <1>3, <2>1 DEF UrlTypes, UserPlaces, fileVars, madeVars, readVars
<1>8. FileOK'
  BY <1>1, <1>3, <1>6, FileStays DEF fileVars, madeVars, UrlTypes
<1>9. UserOK(p)'
  BY <1>2, <1>3, <1>4 DEF UserOK, InLock, Excused
<1> QED
  BY <1>6, <1>7, <1>8, <1>9, StepKeeps

LEMMA CopyEndsKeeps ==
  ASSUME UrlInv, NEW p \in Users, CopyEnds(p)
  PROVE  UrlInv'
<1>1. UrlTypes /\ FileOK /\ UserOK(p) /\ at[p] = "copy"
  BY DEF UrlInv, CopyEnds
<1>2. UNCHANGED <<kind, dest, source, readVars, fails, kills, histVars>>
  BY DEF CopyEnds
<1>3. CASE Executable
  <2>1. /\ file' = NoFile /\ completed' = FALSE /\ size' = NoSize /\ lock' = Free
        /\ at' = [at EXCEPT ![p] = "done"] /\ UNCHANGED temp
    BY <1>3 DEF CopyEnds, Cleared, Goes
  <2>2. at'[p] = "done" /\ \A q \in Users \ {p} : at'[q] = at[q]
    BY <1>1, <2>1 DEF UrlTypes
  <2>3. lock = p
    BY <1>1, <1>3 DEF UserOK, InLock
  <2>4. GoesOn(p)
    BY <1>1, <1>2, <2>1, <2>2, <2>3 DEF GoesOn, Excused, UrlTypes, readVars, histVars
  <2>5. UrlTypes'
    <3>1. at' \in [Users -> UserPlaces] /\ size' \in Sizes
      BY <1>1, <2>1, SizeIsNumber DEF UrlTypes, UserPlaces, Sizes
    <3> QED
      BY <1>1, <1>2, <2>1, <3>1 DEF UrlTypes, readVars, histVars
  <2>6. FileOK'
    BY <1>1, <1>2, <2>1 DEF FileOK, Misled, histVars, Executable
  <2>7. UserOK(p)'
    BY <2>2 DEF UserOK, InLock
  <2> QED
    BY <2>4, <2>5, <2>6, <2>7, StepKeeps
<1>4. CASE ~ Executable
  <2> DEFINE where == IF temp = NoFile THEN "raised" ELSE "done"
  <2>1. /\ at' = [at EXCEPT ![p] = where] /\ temp' = NoFile /\ UNCHANGED <<fileVars, lock>>
    BY <1>4 DEF CopyEnds, Goes
  <2>2. /\ at'[p] = where /\ \A q \in Users \ {p} : at'[q] = at[q]
    BY <1>1, <2>1 DEF UrlTypes
  <2>3. GoesOn(p)
    BY <1>1, <1>2, <2>1, <2>2 DEF GoesOn, Excused, UrlTypes, fileVars, readVars, histVars
  <2>4. UrlTypes'
    <3>1. at' \in [Users -> UserPlaces]
      BY <1>1, <2>1 DEF UrlTypes, UserPlaces
    <3> QED
      BY <1>1, <1>2, <2>1, <3>1 DEF UrlTypes, fileVars, readVars, histVars
  <2>5. FileOK'
    BY <1>1, <1>2, <2>1, <2>3, FileStays DEF fileVars, histVars, UrlTypes
  <2>6. temp = NoFile => kills > 0 \/ OtherHas(p)
    BY <1>1, <1>4 DEF UserOK
  <2>7. OtherHas(p) => OtherHas(p)'
    BY <2>2 DEF OtherHas
  <2>8. Executable' = Executable
    BY <1>2 DEF Executable
  <2>9. UserOK(p)'
    BY <1>2, <1>4, <2>2, <2>6, <2>7, <2>8 DEF UserOK, InLock
  <2> QED
    BY <2>3, <2>4, <2>5, <2>9, StepKeeps
<1> QED
  BY <1>3, <1>4

LEMMA KillKeeps ==
  ASSUME UrlInv, NEW p \in Users, Kill(p)
  PROVE  UrlInv'
<1>1. UrlTypes /\ FileOK /\ UserOK(p)
  BY DEF UrlInv
<1>2. at[p] \in {"try", "body", "saved", "place", "copy"}
  BY DEF Kill
<1>3. /\ kills' = kills + 1 /\ at' = [at EXCEPT ![p] = "start"]
      /\ lock' = (IF lock = p THEN Free ELSE lock)
      /\ early' = (early \/ (at[p] \in {"try", "body"} /\ Len(Created) >= Size))
      /\ torn' = (torn \/ (at[p] = "copy" /\ dest.there /\ dest.parts # Parts))
      /\ UNCHANGED <<kind, fileVars, temp, dest, fails, ignored, loose>>
      /\ body' = [body EXCEPT ![p] = NoBody] /\ tries' = [tries EXCEPT ![p] = 0]
      /\ source' = [source EXCEPT ![p] = NoFile]
  BY DEF Kill, Goes
<1>4. at'[p] = "start" /\ \A q \in Users \ {p} : at'[q] = at[q]
  BY <1>1, <1>3 DEF UrlTypes
<1>5. Excused => Excused'
  BY <1>3 DEF Excused
<1>6. kills' \in Nat /\ kills' >= kills
  BY <1>1, <1>3 DEF UrlTypes
<1>7. GoesOn(p)
  BY <1>1, <1>2, <1>3, <1>4, <1>5, <1>6 DEF GoesOn, UrlTypes, fileVars
<1>8. UrlTypes'
  <2>1. early' \in BOOLEAN /\ torn' \in BOOLEAN
    BY <1>3
  <2>2. at' \in [Users -> UserPlaces]
    BY <1>1, <1>3 DEF UrlTypes, UserPlaces
  <2>3. tries' \in [Users -> 0 .. Retry + 1]
    <3>1. tries \in [Users -> 0 .. Retry + 1] /\ 0 \in 0 .. Retry + 1
      BY <1>1, SizeIsNumber DEF UrlTypes
    <3> QED
      BY <1>3, <3>1
  <2>5. source' = [q \in Users |-> source'[q]]
    BY <1>1, <1>3 DEF UrlTypes
  <2>4. /\ body' \in [Users -> [from : Nat, read : Nat]]
        /\ \A q \in Users : body'[q].from + body'[q].read <= Size
    BY <1>1, <1>3, SizeIsNumber DEF UrlTypes, NoBody
  <2> QED
    BY <1>1, <1>3, <1>6, <2>1, <2>2, <2>3, <2>4, <2>5 DEF UrlTypes, fileVars
<1>9. FileOK'
  <2>1. CASE at[p] # "body"
    BY <1>1, <1>3, <1>7, <2>1, FileStays DEF fileVars, UrlTypes
  <2>2. CASE at[p] = "body"
    <3>1. file # NoFile /\ Len(file) >= Size => early'
      BY <1>3, <2>2 DEF Created
    <3>2. Executable' = Executable /\ temp' = temp /\ ignored' = ignored /\ UNCHANGED fileVars
          /\ Misled' = Misled
      BY <1>3 DEF Executable, Misled
    <3> QED
      BY <1>1, <3>1, <3>2 DEF FileOK, Misled, fileVars
  <2> QED
    BY <2>1, <2>2
<1>10. UserOK(p)'
  BY <1>4 DEF UserOK, InLock
<1> QED
  BY <1>7, <1>8, <1>9, <1>10, StepKeeps

LEMMA UrlNextInv == UrlInv /\ [UrlNext]_urlVars => UrlInv'
<1> SUFFICES ASSUME UrlInv, [UrlNext]_urlVars PROVE UrlInv'
  OBVIOUS
<1>1. CASE UNCHANGED urlVars
  BY <1>1 DEF UrlInv, UrlTypes, FileOK, UserOK, InLock, OtherHas, Excused, Misled, Executable,
              urlVars, fileVars, madeVars, readVars, histVars
<1>2. CASE UrlNext
  BY <1>2, BeginKeeps, EnterKeeps, RequestKeeps, ChunkKeeps, BodyKeeps, SavedKeeps, PlaceKeeps,
     CopyKeeps, CopyFailsKeeps, CopyEndsKeeps, KillKeeps DEF UrlNext, UserStep
<1> QED
  BY <1>1, <1>2

\* For any number of processes, size of the file and tries, whatever connections drop and
\* processes are killed, whatever lengths answers give: a file marked complete is the server's
\* unless the check of an answer was misled, one process downloads at a time, and an error has
\* a reason (_url.py, _tools.py, frida/android.py).
THEOREM UrlHolds == UrlSpec => []UrlCorrect
<1>1. UrlInv => UrlCorrect
  <2> SUFFICES ASSUME UrlInv PROVE UrlCorrect
    OBVIOUS
  <2>1. UrlTypeOK
    BY DEF UrlInv, UrlTypes, UrlTypeOK, UserPlaces, Sizes
  <2>2. SavedWhole
    <3>1. completed /\ file # NoFile => Misled \/ (file = Prefix(Len(file)) /\ Len(file) = Size)
      BY DEF UrlInv, FileOK, Misled
    <3> QED
      BY <3>1, PrefixWhole DEF SavedWhole
  <2>3. OneWriter
    BY DEF UrlInv, UserOK, InLock, OneWriter
  <2>4. ErrorsExplained
    BY DEF UrlInv, UserOK, OtherHas, Excused, ErrorsExplained
  <2> QED
    BY <2>1, <2>2, <2>3, <2>4 DEF UrlCorrect
<1> QED
  BY <1>1, UrlInitInv, UrlNextInv, PTL DEF UrlSpec
-----------------------------------------------------------------------------
(* The output of a command.                                                *)

SubSpec == SubInit /\ [][SubNext]_subVars

Lines == {Line(s, n) : s \in Streams, n \in Nat \ {0}}

\* Q is the queue, T what each reader took, R how many lines were read of each stream: each of
\* these is in one place, those of a stream in their order.
Conserved(Q, T, R) ==
  \A s \in Streams : \A n \in 1 .. R[s] :
    \/ \E k \in DOMAIN Q : Q[k] = Line(s, n)
    \/ \E r \in Readers : \E i \in DOMAIN T[r] : T[r][i] = Line(s, n)
InPlace(Q, T, R) ==
  /\ Q \in Seq(Lines \cup {End}) /\ T \in [Readers -> Seq(Lines)] /\ R \in [Streams -> Nat]
  /\ \A k \in DOMAIN Q : Q[k] # End => Q[k].line <= R[Q[k].stream]
  /\ \A r \in Readers : \A i \in DOMAIN T[r] : T[r][i].line <= R[T[r][i].stream]
Ordered(Q, T) ==
  /\ \A i, k \in DOMAIN Q :
       i < k /\ Q[i] # End /\ Q[i].stream = Q[k].stream => Q[i].line < Q[k].line
  /\ \A r \in Readers : \A i \in DOMAIN T[r], k \in DOMAIN Q :
       T[r][i].stream = Q[k].stream => T[r][i].line < Q[k].line
  /\ \A r \in Readers : \A i, k \in DOMAIN T[r] :
       i < k /\ T[r][i].stream = T[r][k].stream => T[r][i].line < T[r][k].line
  /\ \A r, q \in Readers : r # q =>
       \A i \in DOMAIN T[r], k \in DOMAIN T[q] : T[r][i] # T[q][k]
LinesIn(Q, T, R) == InPlace(Q, T, R) /\ Ordered(Q, T) /\ Conserved(Q, T, R)

ReadOf == [s \in Streams |-> written[s] - Len(pipe[s])]

SubTypes ==
  /\ pipe \in [Streams -> Seq(Nat)] /\ written \in [Streams -> 0 .. MaxLines]
  /\ open \in [Streams -> BOOLEAN] /\ exit \in {"running", "zero", "failed", "killed"}
  /\ exit # "running" => \A s \in Streams : ~ open[s]
  /\ finished \in [Streams -> {"no", "set", "put"}]
  /\ step \in [Readers -> {"alive", "get", "drain", "poll", "ended"}]
  /\ answer \in [Readers -> {None, "ok", "error"}] /\ late \in BOOLEAN

\* What is in a pipe are the last lines that were written to it.
PipesOK ==
  \A s \in Streams :
    /\ Len(pipe[s]) <= written[s]
    /\ \A i \in DOMAIN pipe[s] : pipe[s][i] = written[s] - Len(pipe[s]) + i
    /\ finished[s] # "no" => ~ open[s] /\ pipe[s] = <<>>

\* Who stopped waiting, and not for the limit, saw both streams end, and left nothing.
StopsAtEnd ==
  ~ late =>
    \A r \in Readers :
      /\ step[r] \in {"drain", "poll", "ended"} => \A s \in Streams : finished[s] # "no"
      /\ step[r] \in {"poll", "ended"} => \A k \in DOMAIN queue : queue[k] = End

\* The answer is given at the end.
AnswerLast ==
  answer[Owner] # None =>
    /\ step[Owner] = "ended" /\ exit # "running"
    /\ answer[Owner] = "ok" /\ exit = "failed" =>
         \A k \in DOMAIN taken[Owner] : taken[Owner][k].stream # "err"

SubInv ==
  SubTypes /\ LinesIn(queue, taken, ReadOf) /\ PipesOK /\ StopsAtEnd /\ AnswerLast

LEMMA LineFields ==
  ASSUME NEW x \in Lines
  PROVE  /\ x.stream \in Streams /\ x.line \in Nat /\ x.line > 0
         /\ x = Line(x.stream, x.line) /\ x # End /\ x.stream # End.stream
<1>1. PICK s \in Streams, n \in Nat \ {0} : x = Line(s, n)
  BY DEF Lines
<1>2. x.stream = s /\ x.line = n
  BY <1>1 DEF Line
<1>3. x.stream # End.stream
  BY <1>2 DEF Streams, End
<1> QED
  BY <1>1, <1>2, <1>3

LEMMA LineIs ==
  ASSUME NEW s \in Streams, NEW n \in Nat \ {0}
  PROVE  Line(s, n) \in Lines /\ Line(s, n).stream = s /\ Line(s, n).line = n
  BY DEF Line, Lines

\* One more, as the members of the sequence see it, and one less.
LEMMA LastAdded ==
  ASSUME NEW S, NEW Q \in Seq(S), NEW x \in S
  PROVE  /\ Append(Q, x) \in Seq(S)
         /\ \A k \in DOMAIN Append(Q, x) :
              \/ k \in DOMAIN Q /\ Append(Q, x)[k] = Q[k]
              \/ k = Len(Q) + 1 /\ Append(Q, x)[k] = x
         /\ \A k \in DOMAIN Q : /\ k \in DOMAIN Append(Q, x) /\ Append(Q, x)[k] = Q[k]
                                /\ k \in Nat /\ k < Len(Q) + 1
         /\ Len(Q) + 1 \in DOMAIN Append(Q, x) /\ Append(Q, x)[Len(Q) + 1] = x
         /\ Len(Q) + 1 \in Nat
<1> DEFINE A == Append(Q, x)
           n == Len(Q)
<1>1. n \in Nat /\ DOMAIN Q = 1 .. n
  OBVIOUS
<1>2. /\ A \in Seq(S) /\ Len(A) = n + 1
      /\ \A k \in 1 .. n : A[k] = Q[k]
      /\ A[n + 1] = x
  OBVIOUS
<1>3. DOMAIN A = 1 .. n + 1
  BY <1>2
<1> HIDE DEF A, n
<1>4. \A k \in 1 .. n + 1 : k \in 1 .. n \/ k = n + 1
  BY <1>1
<1>5. \A k \in 1 .. n : k \in 1 .. n + 1 /\ k \in Nat /\ k < n + 1
  BY <1>1
<1>6. n + 1 \in Nat /\ n + 1 \in 1 .. n + 1
  BY <1>1
<1>7. /\ \A k \in DOMAIN A : (k \in DOMAIN Q /\ A[k] = Q[k]) \/ (k = n + 1 /\ A[k] = x)
      /\ \A k \in DOMAIN Q : k \in DOMAIN A /\ A[k] = Q[k] /\ k \in Nat /\ k < n + 1
      /\ n + 1 \in DOMAIN A
  BY <1>1, <1>2, <1>3, <1>4, <1>5, <1>6
<1> QED
  BY <1>2, <1>6, <1>7 DEF A, n

LEMMA FirstTaken ==
  ASSUME NEW S, NEW Q \in Seq(S), Q # <<>>
  PROVE  /\ Tail(Q) \in Seq(S) /\ 1 \in DOMAIN Q /\ Head(Q) = Q[1] /\ Head(Q) \in S
         /\ \A k \in DOMAIN Tail(Q) : /\ k \in Nat /\ k + 1 \in DOMAIN Q /\ 1 < k + 1
                                      /\ Tail(Q)[k] = Q[k + 1]
         /\ \A k \in DOMAIN Q : k = 1 \/ (k - 1 \in DOMAIN Tail(Q) /\ Tail(Q)[k - 1] = Q[k])
<1> DEFINE W == Tail(Q)
           n == Len(Q)
<1>1. n \in Nat /\ n > 0 /\ DOMAIN Q = 1 .. n /\ Len(W) = n - 1
  OBVIOUS
<1>2. W \in Seq(S) /\ \A k \in 1 .. n - 1 : W[k] = Q[k + 1]
  OBVIOUS
<1>3. DOMAIN W = 1 .. n - 1
  BY <1>1, <1>2
<1>4. Head(Q) = Q[1] /\ 1 \in DOMAIN Q /\ Head(Q) \in S
  BY <1>1
<1> HIDE DEF W, n
<1>5. \A k \in 1 .. n - 1 : k \in Nat /\ k + 1 \in 1 .. n /\ 1 < k + 1
  BY <1>1
<1>6. \A k \in 1 .. n : k = 1 \/ (k - 1 \in 1 .. n - 1 /\ (k - 1) + 1 = k)
  BY <1>1
<1>7. \A k \in DOMAIN W : k \in Nat /\ k + 1 \in DOMAIN Q /\ 1 < k + 1 /\ W[k] = Q[k + 1]
  BY <1>1, <1>2, <1>3, <1>5
<1>8. \A k \in DOMAIN Q : k = 1 \/ (k - 1 \in DOMAIN W /\ W[k - 1] = Q[k])
  <2>1. ASSUME NEW k \in 1 .. n, k # 1 PROVE k - 1 \in DOMAIN W /\ W[k - 1] = Q[k]
    <3>1. k - 1 \in 1 .. n - 1 /\ (k - 1) + 1 = k
      BY <1>6, <2>1
    <3> QED
      BY <1>2, <1>3, <3>1
  <2> QED
    BY <1>1, <2>1
<1> QED
  BY <1>2, <1>4, <1>7, <1>8 DEF W

-----------------------------------------------------------------------------
(* A line is read, an end is put, one is taken.                            *)

LEMMA LinePut ==
  ASSUME NEW Q, NEW T, NEW R, LinesIn(Q, T, R), NEW s \in Streams
  PROVE  LinesIn(Append(Q, Line(s, R[s] + 1)), T, [R EXCEPT ![s] = @ + 1])
<1> DEFINE x == Line(s, R[s] + 1)
           P == Append(Q, x)
           U == [R EXCEPT ![s] = @ + 1]
<1>1. InPlace(Q, T, R) /\ Ordered(Q, T) /\ Conserved(Q, T, R)
  BY DEF LinesIn
<1>2. R \in [Streams -> Nat] /\ Q \in Seq(Lines \cup {End}) /\ T \in [Readers -> Seq(Lines)]
  BY <1>1 DEF InPlace
<1>3. R[s] \in Nat /\ R[s] + 1 \in Nat \ {0}
  BY <1>2
<1>4. x \in Lines /\ x.stream = s /\ x.line = R[s] + 1 /\ x # End
  BY <1>3, LineIs, LineFields
<1>5. /\ P \in Seq(Lines \cup {End})
      /\ \A k \in DOMAIN P : (k \in DOMAIN Q /\ P[k] = Q[k]) \/ (k = Len(Q) + 1 /\ P[k] = x)
      /\ \A k \in DOMAIN Q : k \in DOMAIN P /\ P[k] = Q[k] /\ k \in Nat /\ k < Len(Q) + 1
      /\ Len(Q) + 1 \in DOMAIN P /\ P[Len(Q) + 1] = x /\ Len(Q) + 1 \in Nat
  <2>1. x \in Lines \cup {End}
    BY <1>4
  <2> HIDE DEF x
  <2> QED
    BY <1>2, <2>1, LastAdded
<1>6. U \in [Streams -> Nat] /\ U[s] = R[s] + 1
      /\ \A z \in Streams : z # s => U[z] = R[z]
  BY <1>2, <1>3
<1>7. \A z \in Streams : R[z] \in Nat /\ U[z] \in Nat /\ R[z] <= U[z]
  BY <1>2, <1>3, <1>6
<1>8. \A k \in DOMAIN Q : Q[k] \in Lines \/ Q[k] = End
  BY <1>2
<1>9. \A r \in Readers : \A i \in DOMAIN T[r] : T[r][i] \in Lines
  BY <1>2
<1> HIDE DEF x, P, U
<1>10. InPlace(P, T, U)
  <2>1. ASSUME NEW k \in DOMAIN P, P[k] # End PROVE P[k].line <= U[P[k].stream]
    <3>1. CASE k \in DOMAIN Q /\ P[k] = Q[k]
      <4>1. Q[k] \in Lines /\ Q[k].line <= R[Q[k].stream]
        BY <1>1, <1>8, <2>1, <3>1 DEF InPlace
      <4>2. Q[k].stream \in Streams /\ Q[k].line \in Nat
        BY <4>1, LineFields
      <4> QED
        BY <1>7, <3>1, <4>1, <4>2
    <3>2. CASE P[k] = x
      BY <1>3, <1>4, <1>6, <3>2
    <3> QED
      BY <1>5, <3>1, <3>2
  <2>2. ASSUME NEW r \in Readers, NEW i \in DOMAIN T[r]
        PROVE  T[r][i].line <= U[T[r][i].stream]
    <3>1. T[r][i].line <= R[T[r][i].stream]
      BY <1>1 DEF InPlace
    <3>2. T[r][i].stream \in Streams /\ T[r][i].line \in Nat
      BY <1>9, LineFields
    <3> QED
      BY <1>7, <3>1, <3>2
  <2> QED
    BY <1>2, <1>5, <1>6, <2>1, <2>2 DEF InPlace
<1>11. Ordered(P, T)
  <2>1. ASSUME NEW i \in DOMAIN P, NEW k \in DOMAIN P, i < k, P[i] # End,
               P[i].stream = P[k].stream
        PROVE  P[i].line < P[k].line
    <3>1. CASE k \in DOMAIN Q /\ P[k] = Q[k]
      <4>1. i \in DOMAIN Q /\ P[i] = Q[i]
        BY <1>5, <2>1, <3>1
      <4> QED
        BY <1>1, <2>1, <3>1, <4>1 DEF Ordered
    <3>2. CASE k = Len(Q) + 1 /\ P[k] = x
      <4>1. i \in DOMAIN Q /\ P[i] = Q[i]
        BY <1>5, <2>1, <3>2
      <4>2. Q[i] \in Lines /\ Q[i].stream = s
        BY <1>4, <1>8, <2>1, <3>2, <4>1
      <4>3. Q[i].line \in Nat /\ Q[i].line <= R[s]
        BY <1>1, <2>1, <4>1, <4>2, LineFields DEF InPlace
      <4> QED
        BY <1>3, <1>4, <3>2, <4>1, <4>3
    <3> QED
      BY <1>5, <3>1, <3>2
  <2>2. ASSUME NEW r \in Readers, NEW i \in DOMAIN T[r], NEW k \in DOMAIN P,
               T[r][i].stream = P[k].stream
        PROVE  T[r][i].line < P[k].line
    <3>1. CASE k \in DOMAIN Q /\ P[k] = Q[k]
      BY <1>1, <2>2, <3>1 DEF Ordered
    <3>2. CASE P[k] = x
      <4>1. T[r][i].line <= R[s] /\ T[r][i].line \in Nat
        BY <1>1, <1>4, <1>9, <2>2, <3>2, LineFields DEF InPlace
      <4> QED
        BY <1>3, <1>4, <3>2, <4>1
    <3> QED
      BY <1>5, <3>1, <3>2
  <2> QED
    BY <1>1, <2>1, <2>2 DEF Ordered
<1>12. Conserved(P, T, U)
  <2> SUFFICES ASSUME NEW z \in Streams, NEW n \in 1 .. U[z]
               PROVE  \/ \E k \in DOMAIN P : P[k] = Line(z, n)
                      \/ \E r \in Readers : \E i \in DOMAIN T[r] : T[r][i] = Line(z, n)
    BY DEF Conserved
  <2>1. CASE n \in 1 .. R[z]
    <3>1. \/ \E k \in DOMAIN Q : Q[k] = Line(z, n)
          \/ \E r \in Readers : \E i \in DOMAIN T[r] : T[r][i] = Line(z, n)
      BY <1>1, <2>1 DEF Conserved
    <3> QED
      BY <1>5, <3>1
  <2>2. CASE n \notin 1 .. R[z]
    <3>1. z = s /\ n = R[s] + 1
      BY <1>6, <1>7, <2>2
    <3> QED
      BY <1>5, <3>1 DEF x
  <2> QED
    BY <2>1, <2>2
<1> QED
  BY <1>10, <1>11, <1>12 DEF LinesIn, x, P, U

LEMMA EndIsPut ==
  ASSUME NEW Q, NEW T, NEW R, LinesIn(Q, T, R)
  PROVE  LinesIn(Append(Q, End), T, R)
<1> DEFINE P == Append(Q, End)
<1>1. InPlace(Q, T, R) /\ Ordered(Q, T) /\ Conserved(Q, T, R)
  BY DEF LinesIn
<1>2. R \in [Streams -> Nat] /\ Q \in Seq(Lines \cup {End}) /\ T \in [Readers -> Seq(Lines)]
  BY <1>1 DEF InPlace
<1>3. /\ P \in Seq(Lines \cup {End})
      /\ \A k \in DOMAIN P : (k \in DOMAIN Q /\ P[k] = Q[k]) \/ (k = Len(Q) + 1 /\ P[k] = End)
      /\ \A k \in DOMAIN Q : k \in DOMAIN P /\ P[k] = Q[k] /\ k \in Nat /\ k < Len(Q) + 1
  <2>1. End \in Lines \cup {End}
    OBVIOUS
  <2> QED
    BY <1>2, <2>1, LastAdded
<1>4. \A k \in DOMAIN Q : Q[k] = End \/ Q[k].stream # End.stream
  BY <1>2, LineFields
<1>5. \A r \in Readers : \A i \in DOMAIN T[r] : T[r][i].stream # End.stream
  BY <1>2, LineFields
<1> HIDE DEF P
<1>6. InPlace(P, T, R)
  BY <1>1, <1>2, <1>3 DEF InPlace
<1>7. Ordered(P, T)
  <2>1. ASSUME NEW i \in DOMAIN P, NEW k \in DOMAIN P, i < k, P[i] # End,
               P[i].stream = P[k].stream
        PROVE  P[i].line < P[k].line
    <3>1. i \in DOMAIN Q /\ P[i] = Q[i]
      BY <1>3, <2>1
    <3>2. k \in DOMAIN Q /\ P[k] = Q[k]
      BY <1>3, <1>4, <2>1, <3>1
    <3> QED
      BY <1>1, <2>1, <3>1, <3>2 DEF Ordered
  <2>2. ASSUME NEW r \in Readers, NEW i \in DOMAIN T[r], NEW k \in DOMAIN P,
               T[r][i].stream = P[k].stream
        PROVE  T[r][i].line < P[k].line
    <3>1. k \in DOMAIN Q /\ P[k] = Q[k]
      BY <1>3, <1>5, <2>2
    <3> QED
      BY <1>1, <2>2, <3>1 DEF Ordered
  <2> QED
    BY <1>1, <2>1, <2>2 DEF Ordered
<1>8. Conserved(P, T, R)
  BY <1>1, <1>3 DEF Conserved
<1> QED
  BY <1>6, <1>7, <1>8 DEF LinesIn, P

LEMMA EndTaken ==
  ASSUME NEW Q, NEW T, NEW R, LinesIn(Q, T, R), Q # <<>>, Head(Q) = End
  PROVE  LinesIn(Tail(Q), T, R)
<1> DEFINE W == Tail(Q)
<1>1. InPlace(Q, T, R) /\ Ordered(Q, T) /\ Conserved(Q, T, R)
  BY DEF LinesIn
<1>2. R \in [Streams -> Nat] /\ Q \in Seq(Lines \cup {End}) /\ T \in [Readers -> Seq(Lines)]
  BY <1>1 DEF InPlace
<1>3. /\ W \in Seq(Lines \cup {End}) /\ 1 \in DOMAIN Q /\ Q[1] = End
      /\ \A k \in DOMAIN W : k \in Nat /\ k + 1 \in DOMAIN Q /\ W[k] = Q[k + 1]
      /\ \A k \in DOMAIN Q : k = 1 \/ (k - 1 \in DOMAIN W /\ W[k - 1] = Q[k])
  BY <1>2, FirstTaken
<1> HIDE DEF W
<1>4. InPlace(W, T, R)
  BY <1>1, <1>2, <1>3 DEF InPlace
<1>5. Ordered(W, T)
  <2>1. ASSUME NEW i \in DOMAIN W, NEW k \in DOMAIN W, i < k, W[i] # End,
               W[i].stream = W[k].stream
        PROVE  W[i].line < W[k].line
    <3>1. i + 1 < k + 1
      BY <1>3, <2>1
    <3>2. /\ i + 1 \in DOMAIN Q /\ k + 1 \in DOMAIN Q
          /\ Q[i + 1] = W[i] /\ Q[k + 1] = W[k]
      BY <1>3
    <3>3. \A a, b \in DOMAIN Q :
            a < b /\ Q[a] # End /\ Q[a].stream = Q[b].stream => Q[a].line < Q[b].line
      BY <1>1 DEF Ordered
    <3> QED
      BY <2>1, <3>1, <3>2, <3>3
  <2>2. ASSUME NEW r \in Readers, NEW i \in DOMAIN T[r], NEW k \in DOMAIN W,
               T[r][i].stream = W[k].stream
        PROVE  T[r][i].line < W[k].line
    BY <1>1, <1>3, <2>2 DEF Ordered
  <2> QED
    BY <1>1, <2>1, <2>2 DEF Ordered
<1>6. Conserved(W, T, R)
  <2> SUFFICES ASSUME NEW s \in Streams, NEW n \in 1 .. R[s]
               PROVE  \/ \E k \in DOMAIN W : W[k] = Line(s, n)
                      \/ \E r \in Readers : \E i \in DOMAIN T[r] : T[r][i] = Line(s, n)
    BY DEF Conserved
  <2>1. \/ \E k \in DOMAIN Q : Q[k] = Line(s, n)
        \/ \E r \in Readers : \E i \in DOMAIN T[r] : T[r][i] = Line(s, n)
    BY <1>1 DEF Conserved
  <2>2. Line(s, n) # End
    <3>1. n \in Nat \ {0}
      BY <1>2
    <3> QED
      BY <3>1, LineIs, LineFields
  <2>3. ASSUME NEW k \in DOMAIN Q, Q[k] = Line(s, n) PROVE \E j \in DOMAIN W : W[j] = Line(s, n)
    BY <1>3, <2>2, <2>3
  <2> QED
    BY <2>1, <2>3
<1> QED
  BY <1>4, <1>5, <1>6 DEF LinesIn, W

LEMMA LineTaken ==
  ASSUME NEW Q, NEW T, NEW R, LinesIn(Q, T, R), Q # <<>>, Head(Q) # End, NEW r \in Readers
  PROVE  LinesIn(Tail(Q), [T EXCEPT ![r] = Append(@, Head(Q))], R)
<1> DEFINE W == Tail(Q)
           x == Head(Q)
           A == Append(T[r], x)
           V == [T EXCEPT ![r] = A]
           m == Len(T[r])
<1>1. InPlace(Q, T, R) /\ Ordered(Q, T) /\ Conserved(Q, T, R)
  BY DEF LinesIn
<1>2. R \in [Streams -> Nat] /\ Q \in Seq(Lines \cup {End}) /\ T \in [Readers -> Seq(Lines)]
  BY <1>1 DEF InPlace
<1>3. /\ W \in Seq(Lines \cup {End}) /\ 1 \in DOMAIN Q /\ Q[1] = x /\ x \in Lines
      /\ \A k \in DOMAIN W : k \in Nat /\ k + 1 \in DOMAIN Q /\ 1 < k + 1 /\ W[k] = Q[k + 1]
      /\ \A k \in DOMAIN Q : k = 1 \/ (k - 1 \in DOMAIN W /\ W[k - 1] = Q[k])
  BY <1>2, FirstTaken
<1>4. /\ A \in Seq(Lines)
      /\ \A k \in DOMAIN A : (k \in DOMAIN T[r] /\ A[k] = T[r][k]) \/ (k = m + 1 /\ A[k] = x)
      /\ \A k \in DOMAIN T[r] : k \in DOMAIN A /\ A[k] = T[r][k] /\ k \in Nat /\ k < m + 1
      /\ m + 1 \in DOMAIN A /\ A[m + 1] = x /\ m + 1 \in Nat
  <2>1. T[r] \in Seq(Lines)
    BY <1>2
  <2> HIDE DEF x
  <2> QED
    BY <1>3, <2>1, LastAdded
<1> HIDE DEF A, m
<1>5. /\ V \in [Readers -> Seq(Lines)] /\ V[r] = A
      /\ \A q \in Readers : q # r => V[q] = T[q]
  BY <1>2, <1>4
<1>6. \A q \in Readers : \A i \in DOMAIN V[q] :
        \/ i \in DOMAIN T[q] /\ V[q][i] = T[q][i]
        \/ q = r /\ i = m + 1 /\ V[q][i] = x
  BY <1>4, <1>5
<1>7. \A q \in Readers : \A i \in DOMAIN T[q] : i \in DOMAIN V[q] /\ V[q][i] = T[q][i]
  BY <1>4, <1>5
<1>8. x.stream \in Streams /\ x.line \in Nat /\ x.line <= R[x.stream] /\ x # End
  BY <1>1, <1>3, LineFields DEF InPlace
<1>9. \A q \in Readers : \A i \in DOMAIN T[q] : T[q][i] \in Lines
  BY <1>2
<1> HIDE DEF W, x, V
<1>10. InPlace(W, V, R)
  <2>1. \A k \in DOMAIN W : W[k] # End => W[k].line <= R[W[k].stream]
    BY <1>1, <1>3 DEF InPlace
  <2>2. ASSUME NEW q \in Readers, NEW i \in DOMAIN V[q]
        PROVE  V[q][i].line <= R[V[q][i].stream]
    BY <1>1, <1>6, <1>8 DEF InPlace
  <2> QED
    BY <1>2, <1>3, <1>5, <2>1, <2>2 DEF InPlace
<1>11. Ordered(W, V)
  <2>1. ASSUME NEW i \in DOMAIN W, NEW k \in DOMAIN W, i < k, W[i] # End,
               W[i].stream = W[k].stream
        PROVE  W[i].line < W[k].line
    <3>1. i + 1 < k + 1
      BY <1>3, <2>1
    <3> QED
      BY <1>1, <1>3, <2>1, <3>1 DEF Ordered
  <2>2. ASSUME NEW q \in Readers, NEW i \in DOMAIN V[q], NEW k \in DOMAIN W,
               V[q][i].stream = W[k].stream
        PROVE  V[q][i].line < W[k].line
    <3>1. CASE i \in DOMAIN T[q] /\ V[q][i] = T[q][i]
      BY <1>1, <1>3, <2>2, <3>1 DEF Ordered
    <3>2. CASE V[q][i] = x
      BY <1>1, <1>3, <1>8, <2>2, <3>2 DEF Ordered
    <3> QED
      BY <1>6, <3>1, <3>2
  <2>3. ASSUME NEW q \in Readers, NEW i \in DOMAIN V[q], NEW k \in DOMAIN V[q], i < k,
               V[q][i].stream = V[q][k].stream
        PROVE  V[q][i].line < V[q][k].line
    <3>1. CASE k \in DOMAIN T[q] /\ V[q][k] = T[q][k]
      <4>1. i \in DOMAIN T[q] /\ V[q][i] = T[q][i]
        <5>1. CASE q = r /\ i = m + 1
          BY <1>4, <2>3, <3>1, <5>1
        <5> QED
          BY <1>6, <5>1
      <4> QED
        BY <1>1, <2>3, <3>1, <4>1 DEF Ordered
    <3>2. CASE q = r /\ k = m + 1 /\ V[q][k] = x
      <4>1. i \in DOMAIN T[q] /\ V[q][i] = T[q][i]
        <5>1. i # m + 1
          BY <1>4, <2>3, <3>2
        <5> QED
          BY <1>6, <5>1
      <4> QED
        BY <1>1, <1>3, <2>3, <3>2, <4>1 DEF Ordered
    <3> QED
      BY <1>6, <3>1, <3>2
  <2>4. \A q \in Readers : \A i \in DOMAIN T[q] : T[q][i] # x
    <3> SUFFICES ASSUME NEW q \in Readers, NEW i \in DOMAIN T[q], T[q][i] = x PROVE FALSE
      OBVIOUS
    <3>1. x.line < x.line
      BY <1>1, <1>3 DEF Ordered
    <3> QED
      BY <1>8, <3>1
  <2>5. ASSUME NEW p \in Readers, NEW q \in Readers, p # q, NEW i \in DOMAIN V[p],
               NEW k \in DOMAIN V[q]
        PROVE  V[p][i] # V[q][k]
    <3>1. CASE /\ i \in DOMAIN T[p] /\ V[p][i] = T[p][i]
               /\ k \in DOMAIN T[q] /\ V[q][k] = T[q][k]
      BY <1>1, <2>5, <3>1 DEF Ordered
    <3>2. CASE p = r /\ V[p][i] = x
      <4>1. k \in DOMAIN T[q] /\ V[q][k] = T[q][k]
        BY <1>6, <2>5, <3>2
      <4> QED
        BY <2>4, <3>2, <4>1
    <3>3. CASE q = r /\ V[q][k] = x
      <4>1. i \in DOMAIN T[p] /\ V[p][i] = T[p][i]
        BY <1>6, <2>5, <3>3
      <4> QED
        BY <2>4, <3>3, <4>1
    <3> QED
      BY <1>6, <3>1, <3>2, <3>3
  <2> QED
    BY <2>1, <2>2, <2>3, <2>5 DEF Ordered
<1>12. Conserved(W, V, R)
  <2> SUFFICES ASSUME NEW s \in Streams, NEW n \in 1 .. R[s]
               PROVE  \/ \E k \in DOMAIN W : W[k] = Line(s, n)
                      \/ \E q \in Readers : \E i \in DOMAIN V[q] : V[q][i] = Line(s, n)
    BY DEF Conserved
  <2>1. \/ \E k \in DOMAIN Q : Q[k] = Line(s, n)
        \/ \E q \in Readers : \E i \in DOMAIN T[q] : T[q][i] = Line(s, n)
    BY <1>1 DEF Conserved
  <2>2. ASSUME NEW q \in Readers, NEW i \in DOMAIN T[q], T[q][i] = Line(s, n)
        PROVE  \E p \in Readers : \E j \in DOMAIN V[p] : V[p][j] = Line(s, n)
    BY <1>7, <2>2
  <2>3. ASSUME NEW k \in DOMAIN Q, Q[k] = Line(s, n)
        PROVE  \/ \E j \in DOMAIN W : W[j] = Line(s, n)
               \/ \E p \in Readers : \E j \in DOMAIN V[p] : V[p][j] = Line(s, n)
    BY <1>3, <1>4, <1>5, <2>3
  <2> QED
    BY <2>1, <2>2, <2>3
<1> QED
  BY <1>10, <1>11, <1>12 DEF LinesIn, W, V, A, x

-----------------------------------------------------------------------------
(* It holds at first, and every step keeps it.                             *)

LEMMA SubStarts ==
  ASSUME SubInit
  PROVE  SubInv
<1>1. OutputAssumption
  BY OutputAssumption
<1>2. SubTypes
  <2>1. 0 \in 0 .. MaxLines
    BY <1>1 DEF OutputAssumption
  <2> QED
    BY <2>1, EmptySeq DEF SubTypes, SubInit, None
<1>3. ReadOf = [s \in Streams |-> 0]
  BY DEF ReadOf, SubInit
<1>4. InPlace(queue, taken, ReadOf)
  BY <1>3, EmptySeq DEF SubInit, InPlace
<1>5. Ordered(queue, taken)
  BY DEF SubInit, Ordered
<1>6. Conserved(queue, taken, ReadOf)
  BY <1>3 DEF Conserved
<1>7. PipesOK /\ StopsAtEnd /\ AnswerLast
  BY <1>1 DEF SubInit, PipesOK, StopsAtEnd, AnswerLast, OutputAssumption
<1> QED
  BY <1>2, <1>4, <1>5, <1>6, <1>7 DEF SubInv, LinesIn

\* How much was read of each stream.
LEMMA ReadOfIs ==
  ASSUME SubTypes, PipesOK
  PROVE  /\ ReadOf \in [Streams -> Nat]
         /\ \A s \in Streams : /\ ReadOf[s] = written[s] - Len(pipe[s])
                               /\ ReadOf[s] \in Nat /\ ReadOf[s] <= MaxLines
                               /\ pipe[s] = <<>> => ReadOf[s] = written[s]
<1>1. MaxLines \in Nat
  BY OutputAssumption DEF OutputAssumption
<1>2. ASSUME NEW s \in Streams
      PROVE  /\ ReadOf[s] = written[s] - Len(pipe[s])
             /\ ReadOf[s] \in Nat /\ ReadOf[s] <= MaxLines
             /\ pipe[s] = <<>> => ReadOf[s] = written[s]
  <2>1. ReadOf[s] = written[s] - Len(pipe[s])
    BY DEF ReadOf
  <2>2. written[s] \in 0 .. MaxLines /\ pipe[s] \in Seq(Nat) /\ Len(pipe[s]) <= written[s]
    BY DEF SubTypes, PipesOK
  <2>3. Len(pipe[s]) \in Nat
    BY <2>2
  <2>4. pipe[s] = <<>> => Len(pipe[s]) = 0
    OBVIOUS
  <2> QED
    BY <1>1, <2>1, <2>2, <2>3, <2>4
<1>3. \A s \in Streams : written[s] - Len(pipe[s]) \in Nat
  BY <1>2
<1>4. ReadOf \in [Streams -> Nat]
  BY <1>3 DEF ReadOf
<1> QED
  BY <1>2, <1>4

\* The command writes.
LEMMA WritesKeeps ==
  ASSUME SubInv, NEW s \in Streams, Writes(s)
  PROVE  SubInv'
<1> DEFINE n == Len(pipe[s])
           P == Append(pipe[s], written[s] + 1)
<1>1. SubTypes /\ PipesOK /\ LinesIn(queue, taken, ReadOf) /\ StopsAtEnd /\ AnswerLast
  BY DEF SubInv
<1>2. /\ exit = "running" /\ open[s] /\ written[s] < MaxLines
      /\ written' = [written EXCEPT ![s] = @ + 1]
      /\ pipe' = [pipe EXCEPT ![s] = P]
      /\ UNCHANGED <<open, exit, finished, queue, step, taken, answer, late>>
  <2>1. written' = [written EXCEPT ![s] = @ + 1] /\ written \in [Streams -> 0 .. MaxLines]
    BY <1>1 DEF Writes, SubTypes
  <2>2. written'[s] = written[s] + 1
    BY <2>1
  <2> QED
    BY <2>1, <2>2 DEF Writes
<1>3. MaxLines \in Nat /\ written[s] \in 0 .. MaxLines /\ pipe[s] \in Seq(Nat)
  BY <1>1, OutputAssumption DEF SubTypes, OutputAssumption
<1>4. /\ n \in Nat /\ n <= written[s]
      /\ \A i \in 1 .. n : pipe[s][i] = written[s] - n + i
  <2>1. n \in Nat /\ DOMAIN pipe[s] = 1 .. n
    BY <1>3
  <2> QED
    BY <1>1, <2>1 DEF PipesOK
<1>5. written[s] + 1 \in Nat /\ written[s] + 1 \in 0 .. MaxLines
  BY <1>2, <1>3
<1>6. /\ P \in Seq(Nat) /\ Len(P) = n + 1 /\ P[n + 1] = written[s] + 1
      /\ \A i \in 1 .. n : P[i] = pipe[s][i]
  BY <1>3, <1>5
<1>7. DOMAIN P = 1 .. n + 1
  BY <1>4, <1>6
<1> HIDE DEF n, P
<1>8. \A i \in DOMAIN P : P[i] = (written[s] + 1) - Len(P) + i
  <2> SUFFICES ASSUME NEW i \in 1 .. n + 1 PROVE P[i] = (written[s] + 1) - (n + 1) + i
    BY <1>6, <1>7
  <2>1. CASE i \in 1 .. n
    <3>1. P[i] = written[s] - n + i
      BY <1>4, <1>6, <2>1
    <3> QED
      BY <1>3, <1>4, <2>1, <3>1
  <2>2. CASE i = n + 1
    BY <1>3, <1>4, <1>6, <2>2
  <2> QED
    BY <1>4, <2>1, <2>2
<1>9. /\ written' \in [Streams -> 0 .. MaxLines] /\ written'[s] = written[s] + 1
      /\ \A z \in Streams : z # s => written'[z] = written[z]
  BY <1>1, <1>2, <1>5 DEF SubTypes
<1>10. /\ pipe' \in [Streams -> Seq(Nat)] /\ pipe'[s] = P
       /\ \A z \in Streams : z # s => pipe'[z] = pipe[z]
  BY <1>1, <1>2, <1>6 DEF SubTypes
<1>11. SubTypes'
  BY <1>1, <1>2, <1>9, <1>10 DEF SubTypes
<1>12. finished[s] = "no"
  BY <1>1, <1>2 DEF PipesOK, SubTypes
<1>13. PipesOK'
  <2> SUFFICES ASSUME NEW z \in Streams
               PROVE  /\ Len(pipe'[z]) <= written'[z]
                      /\ \A i \in DOMAIN pipe'[z] :
                           pipe'[z][i] = written'[z] - Len(pipe'[z]) + i
                      /\ finished'[z] # "no" => ~ open'[z] /\ pipe'[z] = <<>>
    BY DEF PipesOK
  <2>1. CASE z = s
    <3>1. n + 1 <= written[s] + 1
      BY <1>3, <1>4
    <3> QED
      BY <1>2, <1>6, <1>8, <1>9, <1>10, <1>12, <2>1, <3>1
  <2>2. CASE z # s
    BY <1>1, <1>2, <1>9, <1>10, <2>2 DEF PipesOK
  <2> QED
    BY <2>1, <2>2
<1>14. ReadOf' = ReadOf
  <2>1. \A z \in Streams : written'[z] - Len(pipe'[z]) = written[z] - Len(pipe[z])
    <3>1. (written[s] + 1) - (n + 1) = written[s] - n
      BY <1>3, <1>4
    <3> QED
      BY <1>6, <1>9, <1>10, <3>1 DEF n
  <2> QED
    BY <2>1 DEF ReadOf
<1>15. LinesIn(queue, taken, ReadOf)'
  BY <1>1, <1>2, <1>14 DEF LinesIn, InPlace, Ordered, Conserved
<1>16. StopsAtEnd' /\ AnswerLast'
  BY <1>1, <1>2 DEF StopsAtEnd, AnswerLast
<1> QED
  BY <1>11, <1>13, <1>15, <1>16 DEF SubInv

\* A thread puts the next line of its stream on the queue.
LEMMA ReadLineKeeps ==
  ASSUME SubInv, NEW s \in Streams, ReadLine(s)
  PROVE  SubInv'
<1> DEFINE n == Len(pipe[s])
           P == Tail(pipe[s])
<1>1. SubTypes /\ PipesOK /\ LinesIn(queue, taken, ReadOf) /\ StopsAtEnd /\ AnswerLast
  BY DEF SubInv
<1>2. /\ pipe[s] # <<>> /\ pipe' = [pipe EXCEPT ![s] = P]
      /\ queue' = Append(queue, Line(s, Head(pipe[s])))
      /\ UNCHANGED <<written, open, exit, finished, step, taken, answer, late>>
  BY DEF ReadLine, commandVars
<1>3. MaxLines \in Nat /\ written[s] \in 0 .. MaxLines /\ pipe[s] \in Seq(Nat)
  BY <1>1, OutputAssumption DEF SubTypes, OutputAssumption
<1>4. n \in Nat /\ n > 0 /\ DOMAIN pipe[s] = 1 .. n /\ Head(pipe[s]) = pipe[s][1]
  BY <1>2, <1>3
<1>5. n <= written[s] /\ \A i \in 1 .. n : pipe[s][i] = written[s] - n + i
  BY <1>1, <1>4 DEF PipesOK
<1>6. /\ P \in Seq(Nat) /\ Len(P) = n - 1
      /\ \A i \in 1 .. n - 1 : P[i] = pipe[s][i + 1]
  BY <1>2, <1>3
<1>7. DOMAIN P = 1 .. n - 1
  BY <1>4, <1>6
<1>8. ReadOf[s] = written[s] - n /\ ReadOf[s] \in Nat
  BY <1>1, ReadOfIs
<1>9. Head(pipe[s]) = ReadOf[s] + 1
  BY <1>3, <1>4, <1>5, <1>8
<1> HIDE DEF n, P
<1>10. \A i \in DOMAIN P : P[i] = written[s] - Len(P) + i
  <2> SUFFICES ASSUME NEW i \in 1 .. n - 1 PROVE P[i] = written[s] - (n - 1) + i
    BY <1>6, <1>7
  <2>1. i + 1 \in 1 .. n
    BY <1>4
  <2>2. P[i] = written[s] - n + (i + 1)
    BY <1>5, <1>6, <2>1
  <2>3. i \in Nat /\ written[s] \in Nat
    BY <1>3
  <2>4. written[s] - n + (i + 1) = written[s] - (n - 1) + i
    BY <1>4, <2>3
  <2> QED
    BY <2>2, <2>4
<1>11. /\ pipe' \in [Streams -> Seq(Nat)] /\ pipe'[s] = P
       /\ \A z \in Streams : z # s => pipe'[z] = pipe[z]
  BY <1>1, <1>2, <1>6 DEF SubTypes
<1>12. SubTypes'
  BY <1>1, <1>2, <1>11 DEF SubTypes
<1>13. finished[s] = "no"
  BY <1>1, <1>2 DEF PipesOK, SubTypes
<1>14. PipesOK'
  <2> SUFFICES ASSUME NEW z \in Streams
               PROVE  /\ Len(pipe'[z]) <= written[z]
                      /\ \A i \in DOMAIN pipe'[z] :
                           pipe'[z][i] = written[z] - Len(pipe'[z]) + i
                      /\ finished[z] # "no" => ~ open[z] /\ pipe'[z] = <<>>
    BY <1>2 DEF PipesOK
  <2>1. CASE z = s
    <3>1. n - 1 <= written[s]
      BY <1>3, <1>4, <1>5
    <3> QED
      BY <1>6, <1>10, <1>11, <1>13, <2>1, <3>1
  <2>2. CASE z # s
    BY <1>1, <1>11, <2>2 DEF PipesOK
  <2> QED
    BY <2>1, <2>2
<1>15. ReadOf' = [ReadOf EXCEPT ![s] = @ + 1]
  <2>1. written[s] - (n - 1) = (written[s] - n) + 1
    BY <1>3, <1>4
  <2>2. \A z \in Streams : written'[z] - Len(pipe'[z]) = [ReadOf EXCEPT ![s] = @ + 1][z]
    BY <1>2, <1>6, <1>8, <1>11, <2>1 DEF ReadOf
  <2>3. [ReadOf EXCEPT ![s] = @ + 1] = [z \in Streams |-> [ReadOf EXCEPT ![s] = @ + 1][z]]
    BY DEF ReadOf
  <2> QED
    BY <2>2, <2>3 DEF ReadOf
<1>16. LinesIn(queue, taken, ReadOf)'
  <2>1. LinesIn(Append(queue, Line(s, ReadOf[s] + 1)), taken, [ReadOf EXCEPT ![s] = @ + 1])
    BY <1>1, LinePut
  <2>2. queue' = Append(queue, Line(s, ReadOf[s] + 1)) /\ taken' = taken
    BY <1>2, <1>9
  <2>3. LinesIn(queue', taken', ReadOf')
    BY <1>15, <2>1, <2>2
  <2> QED
    BY <2>3 DEF LinesIn, InPlace, Ordered, Conserved
<1>17. StopsAtEnd' /\ AnswerLast'
  BY <1>1, <1>2, <1>13 DEF StopsAtEnd, AnswerLast
<1> QED
  BY <1>12, <1>14, <1>16, <1>17 DEF SubInv

\* What is neither in a pipe nor on the queue changes, and nothing is answered.
LEMMA OthersKeep ==
  ASSUME SubInv, UNCHANGED <<pipe, written, queue, taken>>, SubTypes', PipesOK',
         StopsAtEnd', AnswerLast'
  PROVE  SubInv'
<1>1. ReadOf' = ReadOf
  BY DEF ReadOf
<1> QED
  BY <1>1 DEF SubInv, LinesIn, InPlace, Ordered, Conserved

LEMMA StreamStepKeeps ==
  ASSUME SubInv, NEW s \in Streams, StreamStep(s)
  PROVE  SubInv'
<1>1. SubTypes /\ PipesOK /\ LinesIn(queue, taken, ReadOf) /\ StopsAtEnd /\ AnswerLast
  BY DEF SubInv
<1>2. CASE ReadLine(s)
  BY <1>2, ReadLineKeeps
<1>3. CASE StreamEnds(s)
  <2>1. /\ ~ open[s] /\ pipe[s] = <<>> /\ finished' = [finished EXCEPT ![s] = "set"]
        /\ UNCHANGED <<pipe, written, open, exit, queue, step, taken, answer, late>>
    BY <1>3 DEF StreamEnds, commandVars
  <2>2. /\ finished' \in [Streams -> {"no", "set", "put"}] /\ finished'[s] = "set"
        /\ \A z \in Streams : z # s => finished'[z] = finished[z]
    BY <1>1, <2>1 DEF SubTypes
  <2>3. SubTypes'
    BY <1>1, <2>1, <2>2 DEF SubTypes
  <2>4. PipesOK'
    BY <1>1, <2>1, <2>2 DEF PipesOK
  <2>5. StopsAtEnd' /\ AnswerLast'
    BY <1>1, <2>1, <2>2 DEF StopsAtEnd, AnswerLast
  <2> QED
    BY <2>1, <2>3, <2>4, <2>5, OthersKeep
<1>4. CASE EndPut(s)
  <2>1. /\ finished[s] = "set" /\ finished' = [finished EXCEPT ![s] = "put"]
        /\ queue' = Append(queue, End)
        /\ UNCHANGED <<pipe, written, open, exit, step, taken, answer, late>>
    BY <1>4 DEF EndPut, commandVars
  <2>2. /\ finished' \in [Streams -> {"no", "set", "put"}] /\ finished'[s] = "put"
        /\ \A z \in Streams : z # s => finished'[z] = finished[z]
    BY <1>1, <2>1 DEF SubTypes
  <2>3. SubTypes'
    BY <1>1, <2>1, <2>2 DEF SubTypes
  <2>4. PipesOK'
    BY <1>1, <2>1, <2>2 DEF PipesOK
  <2>5. \A k \in DOMAIN queue' : queue'[k] = End \/ (k \in DOMAIN queue /\ queue'[k] = queue[k])
    <3>1. queue \in Seq(Lines \cup {End}) /\ End \in Lines \cup {End}
      BY <1>1 DEF LinesIn, InPlace
    <3> QED
      BY <2>1, <3>1, LastAdded
  <2>6. StopsAtEnd' /\ AnswerLast'
    BY <1>1, <2>1, <2>2, <2>5 DEF StopsAtEnd, AnswerLast
  <2>7. ReadOf' = ReadOf
    BY <2>1 DEF ReadOf
  <2>8. LinesIn(queue, taken, ReadOf)'
    <3>1. LinesIn(Append(queue, End), taken, ReadOf)
      BY <1>1, EndIsPut
    <3>2. LinesIn(queue', taken', ReadOf')
      BY <2>1, <2>7, <3>1
    <3> QED
      BY <3>2 DEF LinesIn, InPlace, Ordered, Conserved
  <2> QED
    BY <2>3, <2>4, <2>6, <2>8 DEF SubInv
<1> QED
  BY <1>2, <1>3, <1>4 DEF StreamStep

\* The command closes a stream, exits; the time is up.
LEMMA CommandKeeps ==
  ASSUME SubInv
  PROVE  /\ \A s \in Streams : Closes(s) => SubInv'
         /\ \A status \in {"zero", "failed"} : Exits(status) => SubInv'
         /\ Expires => SubInv'
<1>1. SubTypes /\ PipesOK /\ StopsAtEnd /\ AnswerLast
  BY DEF SubInv
<1>2. ASSUME NEW s \in Streams, Closes(s) PROVE SubInv'
  <2>1. /\ exit = "running" /\ open' = [open EXCEPT ![s] = FALSE]
        /\ UNCHANGED <<pipe, written, exit, finished, queue, step, taken, answer, late>>
    BY <1>2 DEF Closes
  <2>2. /\ open' \in [Streams -> BOOLEAN] /\ \A z \in Streams : open'[z] => open[z]
    BY <1>1, <2>1 DEF SubTypes
  <2>3. SubTypes'
    BY <1>1, <2>1, <2>2 DEF SubTypes
  <2>4. PipesOK' /\ StopsAtEnd' /\ AnswerLast'
    BY <1>1, <2>1, <2>2 DEF PipesOK, StopsAtEnd, AnswerLast
  <2> QED
    BY <2>1, <2>3, <2>4, OthersKeep
<1>3. ASSUME NEW status \in {"zero", "failed"}, Exits(status) PROVE SubInv'
  <2>1. /\ exit = "running" /\ exit' = status /\ open' = [s \in Streams |-> FALSE]
        /\ UNCHANGED <<pipe, written, finished, queue, step, taken, answer, late>>
    BY <1>3 DEF Exits
  <2>2. SubTypes'
    BY <1>1, <2>1 DEF SubTypes
  <2>3. PipesOK' /\ StopsAtEnd' /\ AnswerLast'
    BY <1>1, <2>1 DEF PipesOK, StopsAtEnd, AnswerLast
  <2> QED
    BY <2>1, <2>2, <2>3, OthersKeep
<1>4. ASSUME Expires PROVE SubInv'
  <2>1. /\ late' = TRUE
        /\ UNCHANGED <<pipe, written, open, exit, finished, queue, step, taken, answer>>
    BY <1>4 DEF Expires, commandVars
  <2>2. SubTypes' /\ PipesOK' /\ StopsAtEnd' /\ AnswerLast'
    BY <1>1, <2>1 DEF SubTypes, PipesOK, StopsAtEnd, AnswerLast
  <2> QED
    BY <2>1, <2>2, OthersKeep
<1> QED
  BY <1>2, <1>3, <1>4

\* A reader takes what is first on the queue.
LEMMA TakesFirst ==
  ASSUME SubTypes, PipesOK, LinesIn(queue, taken, ReadOf), NEW r \in Readers, queue # <<>>,
         queue' = Tail(queue), taken' = With(r, Head(queue)), UNCHANGED <<pipe, written>>
  PROVE  /\ LinesIn(queue, taken, ReadOf)'
         /\ \A k \in DOMAIN queue' : k + 1 \in DOMAIN queue /\ queue'[k] = queue[k + 1]
         /\ \A q \in Readers : q # r => taken'[q] = taken[q]
<1>1. ReadOf' = ReadOf
  BY DEF ReadOf
<1>2. queue \in Seq(Lines \cup {End}) /\ taken \in [Readers -> Seq(Lines)]
  BY DEF LinesIn, InPlace
<1>3. LinesIn(queue', taken', ReadOf')
  <2>1. CASE Head(queue) = End
    <3>1. taken' = taken
      BY <2>1 DEF With
    <3> QED
      BY <1>1, <2>1, <3>1, EndTaken
  <2>2. CASE Head(queue) # End
    <3>1. taken' = [taken EXCEPT ![r] = Append(@, Head(queue))]
      BY <2>2 DEF With
    <3> QED
      BY <1>1, <2>2, <3>1, LineTaken
  <2> QED
    BY <2>1, <2>2
<1>4. \A k \in DOMAIN queue' : k + 1 \in DOMAIN queue /\ queue'[k] = queue[k + 1]
  BY <1>2, FirstTaken
<1>5. \A q \in Readers : q # r => taken'[q] = taken[q]
  BY <1>2 DEF With
<1> QED
  BY <1>3, <1>4, <1>5 DEF LinesIn, InPlace, Ordered, Conserved

\* A reader whose step is not yet to answer.
LEMMA ReaderGoesOn ==
  ASSUME SubInv, NEW r \in Readers,
         NEW to \in {"alive", "get", "drain", "poll", "ended"},
         step' = [step EXCEPT ![r] = to], step[r] # "ended",
         UNCHANGED <<pipe, written, open, exit, finished, answer, late>>,
         LinesIn(queue, taken, ReadOf)',
         \A q \in Readers : q # r => taken'[q] = taken[q],
         \A k \in DOMAIN queue' : \E j \in DOMAIN queue : queue'[k] = queue[j],
         ~ late /\ to \in {"drain", "poll", "ended"} => \A s \in Streams : finished[s] # "no",
         ~ late /\ to \in {"poll", "ended"} => \A k \in DOMAIN queue' : queue'[k] = End
  PROVE  SubInv'
<1>1. SubTypes /\ PipesOK /\ StopsAtEnd /\ AnswerLast
  BY DEF SubInv
<1>2. /\ step' \in [Readers -> {"alive", "get", "drain", "poll", "ended"}] /\ step'[r] = to
      /\ \A q \in Readers : q # r => step'[q] = step[q]
  BY <1>1 DEF SubTypes
<1>3. SubTypes' /\ PipesOK'
  BY <1>1, <1>2 DEF SubTypes, PipesOK
<1>4. StopsAtEnd'
  <2> SUFFICES ASSUME ~ late, NEW q \in Readers
               PROVE  /\ step'[q] \in {"drain", "poll", "ended"} =>
                           \A s \in Streams : finished[s] # "no"
                      /\ step'[q] \in {"poll", "ended"} => \A k \in DOMAIN queue' : queue'[k] = End
    BY DEF StopsAtEnd
  <2>1. CASE q = r
    BY <1>2, <2>1
  <2>2. CASE q # r
    BY <1>1, <1>2, <2>2 DEF StopsAtEnd
  <2> QED
    BY <2>1, <2>2
<1>5. AnswerLast'
  <2> SUFFICES ASSUME answer[Owner] # None PROVE AnswerLast'
    BY DEF AnswerLast
  <2>1. step[Owner] = "ended" /\ Owner \in Readers /\ Owner # r
    BY <1>1, OutputAssumption DEF AnswerLast, OutputAssumption
  <2>2. step'[Owner] = "ended" /\ taken'[Owner] = taken[Owner]
    BY <1>2, <2>1
  <2> QED
    BY <1>1, <2>2 DEF AnswerLast
<1> QED
  BY <1>3, <1>4, <1>5 DEF SubInv

\* A reader looks whether anything can still come, takes a line, or stops.
LEMMA ReaderStepKeeps ==
  ASSUME SubInv, NEW r \in Readers, LookAlive(r) \/ Get(r) \/ Nothing(r) \/ Drain(r)
  PROVE  SubInv'
<1>1. /\ SubTypes /\ PipesOK /\ LinesIn(queue, taken, ReadOf) /\ StopsAtEnd /\ AnswerLast
      /\ step \in [Readers -> {"alive", "get", "drain", "poll", "ended"}]
  BY DEF SubInv, SubTypes
<1>2. ASSUME UNCHANGED <<pipe, written, queue, taken>> PROVE LinesIn(queue, taken, ReadOf)'
  <2>1. ReadOf' = ReadOf
    BY <1>2 DEF ReadOf
  <2> QED
    BY <1>1, <1>2, <2>1 DEF LinesIn, InPlace, Ordered, Conserved
<1>3. CASE LookAlive(r)
  <2> DEFINE to == IF Alive THEN "get" ELSE "drain"
  <2>1. /\ step[r] = "alive" /\ step' = [step EXCEPT ![r] = to]
        /\ UNCHANGED <<pipe, written, open, exit, finished, queue, taken, answer, late>>
    BY <1>3 DEF LookAlive, commandVars
  <2>2. to \in {"get", "drain"} /\ (to = "drain" => \A s \in Streams : finished[s] # "no")
    BY DEF Alive
  <2>3. LinesIn(queue, taken, ReadOf)'
    BY <1>2, <2>1
  <2> HIDE DEF to
  <2> QED
    BY <2>1, <2>2, <2>3, ReaderGoesOn
<1>4. CASE Get(r)
  <2>1. /\ step[r] = "get" /\ queue # <<>> /\ step' = [step EXCEPT ![r] = "alive"]
        /\ queue' = Tail(queue) /\ taken' = With(r, Head(queue))
        /\ UNCHANGED <<pipe, written, open, exit, finished, answer, late>>
    BY <1>4 DEF Get, commandVars
  <2>2. /\ LinesIn(queue, taken, ReadOf)'
        /\ \A k \in DOMAIN queue' : k + 1 \in DOMAIN queue /\ queue'[k] = queue[k + 1]
        /\ \A q \in Readers : q # r => taken'[q] = taken[q]
    BY <1>1, <2>1, TakesFirst
  <2>3. \A k \in DOMAIN queue' : \E j \in DOMAIN queue : queue'[k] = queue[j]
    BY <2>2
  <2> QED
    BY <2>1, <2>2, <2>3, ReaderGoesOn
<1>5. CASE Nothing(r)
  <2> DEFINE to == IF late THEN "drain" ELSE "alive"
  <2>1. /\ step[r] = "get" /\ step' = [step EXCEPT ![r] = to]
        /\ UNCHANGED <<pipe, written, open, exit, finished, queue, taken, answer, late>>
    BY <1>5 DEF Nothing, commandVars
  <2>2. to \in {"alive", "drain"} /\ (~ late => to = "alive")
    OBVIOUS
  <2>3. LinesIn(queue, taken, ReadOf)'
    BY <1>2, <2>1
  <2> HIDE DEF to
  <2> QED
    BY <2>1, <2>2, <2>3, ReaderGoesOn
<1>6. CASE Drain(r) /\ queue # <<>>
  <2>1. /\ step[r] = "drain" /\ step' = step
        /\ queue' = Tail(queue) /\ taken' = With(r, Head(queue))
        /\ UNCHANGED <<pipe, written, open, exit, finished, answer, late>>
    BY <1>6 DEF Drain, commandVars
  <2>2. /\ LinesIn(queue, taken, ReadOf)'
        /\ \A k \in DOMAIN queue' : k + 1 \in DOMAIN queue /\ queue'[k] = queue[k + 1]
        /\ \A q \in Readers : q # r => taken'[q] = taken[q]
    BY <1>1, <1>6, <2>1, TakesFirst
  <2>3. \A k \in DOMAIN queue' : \E j \in DOMAIN queue : queue'[k] = queue[j]
    BY <2>2
  <2>4. step' = [step EXCEPT ![r] = "drain"]
    BY <1>1, <2>1
  <2>5. ~ late => \A s \in Streams : finished[s] # "no"
    BY <1>1, <2>1 DEF StopsAtEnd
  <2> QED
    BY <2>1, <2>2, <2>3, <2>4, <2>5, ReaderGoesOn
<1>7. CASE Drain(r) /\ queue = <<>>
  <2> DEFINE to == IF r = Owner THEN "poll" ELSE "ended"
  <2>1. /\ step[r] = "drain" /\ step' = [step EXCEPT ![r] = to]
        /\ UNCHANGED <<pipe, written, open, exit, finished, queue, taken, answer, late>>
    BY <1>7 DEF Drain, commandVars
  <2>2. to \in {"poll", "ended"}
    OBVIOUS
  <2>3. LinesIn(queue, taken, ReadOf)'
    BY <1>2, <2>1
  <2>4. ~ late => \A s \in Streams : finished[s] # "no"
    BY <1>1, <2>1 DEF StopsAtEnd
  <2>5. \A k \in DOMAIN queue' : queue'[k] = End
    BY <1>7, <2>1
  <2> HIDE DEF to
  <2> QED
    BY <2>1, <2>2, <2>3, <2>4, <2>5, ReaderGoesOn
<1> QED
  BY <1>3, <1>4, <1>5, <1>6, <1>7

\* Tool.exec looks at how the command ended.
LEMMA PollKeeps ==
  ASSUME SubInv, NEW r \in Readers, Poll(r)
  PROVE  SubInv'
<1> DEFINE wrote == \E k \in DOMAIN taken[r] : taken[r][k].stream = "err"
           told == IF exit = "failed" /\ wrote THEN "error" ELSE "ok"
           final == IF exit = "running" THEN "killed" ELSE exit
<1>1. SubTypes /\ PipesOK /\ StopsAtEnd /\ AnswerLast /\ Owner \in Readers
  BY OutputAssumption DEF SubInv, OutputAssumption
<1>2. /\ step[r] = "poll" /\ answer' = [answer EXCEPT ![r] = told] /\ exit' = final
      /\ open' = [s \in Streams |-> FALSE] /\ step' = [step EXCEPT ![r] = "ended"]
      /\ UNCHANGED <<pipe, written, finished, queue, taken, late>>
  BY DEF Poll
<1>3. /\ told \in {"ok", "error"}
      /\ told = "ok" /\ exit = "failed" => \A k \in DOMAIN taken[r] : taken[r][k].stream # "err"
  OBVIOUS
<1>4. /\ final \in {"zero", "failed", "killed"} /\ (final = "failed" => exit = "failed")
  BY <1>1 DEF SubTypes
<1> HIDE DEF told, final, wrote
<1>5. /\ step' \in [Readers -> {"alive", "get", "drain", "poll", "ended"}] /\ step'[r] = "ended"
      /\ \A q \in Readers : q # r => step'[q] = step[q]
      /\ answer' \in [Readers -> {None, "ok", "error"}] /\ answer'[r] = told
      /\ \A q \in Readers : q # r => answer'[q] = answer[q]
  BY <1>1, <1>2, <1>3 DEF SubTypes
<1>6. SubTypes'
  BY <1>1, <1>2, <1>4, <1>5 DEF SubTypes
<1>7. PipesOK'
  BY <1>1, <1>2 DEF PipesOK
<1>8. StopsAtEnd'
  BY <1>1, <1>2, <1>5 DEF StopsAtEnd
<1>9. AnswerLast'
  <2>1. CASE r = Owner
    BY <1>2, <1>3, <1>4, <1>5, <2>1 DEF AnswerLast
  <2>2. CASE r # Owner
    BY <1>1, <1>2, <1>4, <1>5, <2>2 DEF AnswerLast
  <2> QED
    BY <2>1, <2>2
<1> QED
  BY <1>2, <1>6, <1>7, <1>8, <1>9, OthersKeep

LEMMA SubStep ==
  ASSUME SubInv, [SubNext]_subVars
  PROVE  SubInv'
<1>1. ASSUME NEW s \in Streams, Writes(s) \/ Closes(s) \/ StreamStep(s) PROVE SubInv'
  BY <1>1, WritesKeeps, CommandKeeps, StreamStepKeeps
<1>2. ASSUME NEW status \in {"zero", "failed"}, Exits(status) PROVE SubInv'
  BY <1>2, CommandKeeps
<1>3. ASSUME Expires PROVE SubInv'
  BY <1>3, CommandKeeps
<1>4. ASSUME NEW r \in Readers, ReaderStep(r) PROVE SubInv'
  BY <1>4, ReaderStepKeeps, PollKeeps DEF ReaderStep
<1>5. ASSUME UNCHANGED subVars PROVE SubInv'
  <2>1. UNCHANGED <<pipe, written, open, exit, finished, queue, step, taken, answer, late>>
    BY <1>5 DEF subVars, commandVars
  <2>2. SubTypes' /\ PipesOK' /\ StopsAtEnd' /\ AnswerLast'
    BY <2>1 DEF SubInv, SubTypes, PipesOK, StopsAtEnd, AnswerLast
  <2> QED
    BY <2>1, <2>2, OthersKeep
<1> QED
  BY <1>1, <1>2, <1>3, <1>4, <1>5 DEF SubNext

\* What the run checks follows.
LEMMA SubInvShows ==
  ASSUME SubInv
  PROVE  OutputCorrect
<1>1. /\ SubTypes /\ PipesOK /\ StopsAtEnd /\ AnswerLast
      /\ InPlace(queue, taken, ReadOf) /\ Ordered(queue, taken)
      /\ Conserved(queue, taken, ReadOf)
  BY DEF SubInv, LinesIn
<1>2. MaxLines \in Nat /\ Owner \in Readers
  BY OutputAssumption DEF OutputAssumption
<1>3. SubTypeOK
  <2>1. ASSUME NEW k \in DOMAIN queue
        PROVE  queue[k] \in {Line(s, n) : s \in Streams, n \in 1 .. MaxLines} \cup {End}
    <3>1. queue[k] \in Lines \/ queue[k] = End
      BY <1>1 DEF InPlace
    <3>2. CASE queue[k] \in Lines
      <4>1. /\ queue[k].stream \in Streams /\ queue[k].line \in Nat /\ queue[k].line > 0
            /\ queue[k] = Line(queue[k].stream, queue[k].line) /\ queue[k] # End
        BY <3>2, LineFields
      <4>2. queue[k].line <= ReadOf[queue[k].stream]
        BY <1>1, <4>1 DEF InPlace
      <4>3. /\ ReadOf[queue[k].stream] \in Nat /\ ReadOf[queue[k].stream] <= MaxLines
        BY <1>1, <4>1, ReadOfIs
      <4>4. queue[k].line \in 1 .. MaxLines
        BY <1>2, <4>1, <4>2, <4>3
      <4> QED
        BY <4>1, <4>4
    <3> QED
      BY <3>1, <3>2
  <2>2. ToSet(queue) \subseteq {Line(s, n) : s \in Streams, n \in 1 .. MaxLines} \cup {End}
    BY <2>1 DEF ToSet
  <2> QED
    BY <1>1, <2>2 DEF SubTypeOK, SubTypes
<1>4. LinesKept
  <2>1. \A r, q \in Readers : r # q => ToSet(taken[r]) \cap ToSet(taken[q]) = {}
    BY <1>1 DEF Ordered, ToSet
  <2>2. ASSUME \A r \in Readers : step[r] = "ended", ~ late,
               NEW s \in Streams, NEW n \in 1 .. written[s]
        PROVE  \E r \in Readers : Line(s, n) \in ToSet(taken[r])
    <3>1. finished[s] # "no" /\ \A k \in DOMAIN queue : queue[k] = End
      BY <1>1, <1>2, <2>2 DEF StopsAtEnd
    <3>2. ReadOf[s] = written[s]
      BY <1>1, <3>1, ReadOfIs DEF PipesOK
    <3>3. Line(s, n) # End
      <4>1. n \in Nat \ {0}
        BY <1>1 DEF SubTypes
      <4> QED
        BY <4>1, LineIs, LineFields
    <3>4. \E r \in Readers : \E i \in DOMAIN taken[r] : taken[r][i] = Line(s, n)
      BY <1>1, <3>1, <3>2, <3>3 DEF Conserved
    <3> QED
      BY <3>4 DEF ToSet
  <2> QED
    BY <1>1, <2>1, <2>2 DEF LinesKept, Ordered
<1>5. FailureTold
  BY <1>1 DEF FailureTold, AnswerLast, None
<1> QED
  BY <1>3, <1>4, <1>5 DEF OutputCorrect

\* The output of a command (utils/_subprocess.py, _tools.py): whatever the command writes and
\* however many threads read it, no line is lost, doubled or out of its place, each thread stops
\* only at the end of both streams or for the limit, and a failure that wrote to stderr is told.
THEOREM OutputHolds == SubSpec => []OutputCorrect
<1>1. SubInit => SubInv
  BY SubStarts
<1>2. SubInv /\ [SubNext]_subVars => SubInv'
  BY SubStep
<1>3. SubInv => OutputCorrect
  BY SubInvShows
<1> QED
  BY <1>1, <1>2, <1>3, PTL DEF SubSpec
-----------------------------------------------------------------------------
(* Tunnels over ssh.                                                       *)

SshSpec == SshInit /\ [][SshNext]_sshVars

\* Of n that were sent, I are the last ones, still to be sent on, and O are in order of those
\* before; they are all of them where nothing was cut.
Flow(I, O, n, whole) ==
  /\ I \in Seq(Nat) /\ O \in Seq(Nat) /\ n \in Nat /\ Len(I) <= n
  /\ \A i \in DOMAIN I : I[i] = n - Len(I) + i
  /\ \A i \in DOMAIN O : O[i] <= n - Len(I)
  /\ \A i, k \in DOMAIN O : i < k => O[i] < O[k]
  /\ whole => Len(O) = n - Len(I) /\ \A i \in DOMAIN O : O[i] = i

Stations == {"none", "opening", "opened", "copy", "send", "closing", "gone"}

SshTypes ==
  /\ SshTypeOK
  /\ sent \in [Tunnels -> [Sides -> Nat]] /\ over \in [Tunnels -> [Sides -> BOOLEAN]]
  /\ input \in [Tunnels -> [Sides -> Seq(Nat)]] /\ output \in [Tunnels -> [Sides -> Seq(Nat)]]
  /\ reason \in [Tunnels -> Sides \cup {"none", "broken"}] /\ cut \subseteq Tunnels

Uncut(t, side) == side = "channel" \/ t \notin cut

FlowsOK ==
  \A t \in Tunnels : \A side \in Sides :
    /\ Flow(input[t][side], output[t][Other(side)], sent[t][side], Uncut(t, side))
    /\ reason[t] = side => over[t][side] /\ input[t][side] = <<>>

\* Where a thread is says what is open, and what is on the list.
EndsOK(t) ==
  /\ handler[t] = "none" => \A side \in Sides : ends[t][side] = "none"
  /\ handler[t] = "gone" => \A side \in Sides : ends[t][side] = "closed"
  /\ handler[t] = "opened" => \A side \in Sides : ends[t][side] = "open"
  /\ t \in channels <=> handler[t] \in {"copy", "send", "closing"}
  /\ t \in channels => ends[t]["sock"] = "open" /\ ends[t]["channel"] # "none"
  /\ stop = "swept" /\ (ends[t]["channel"] = "open" \/ handler[t] \in {"opening", "opened"})
       => t \in missed

\* What a thread has received is there to be sent on.
HeldOK(t) == handler[t] = "send" => held[t].n \in 1 .. Len(input[t][held[t].from])

SshInv == SshTypes /\ FlowsOK /\ \A t \in Tunnels : EndsOK(t) /\ HeldOK(t)

LEMMA OtherSide ==
  /\ \A side \in Sides : Other(side) \in Sides /\ Other(Other(side)) = side /\ Other(side) # side
  /\ \A side, o \in Sides : Other(side) = Other(o) => side = o
  BY DEF Sides, Other

\* One more was sent.
LEMMA FlowSent ==
  ASSUME NEW I, NEW O, NEW n, NEW whole, Flow(I, O, n, whole)
  PROVE  Flow(Append(I, n + 1), O, n + 1, whole)
<1> DEFINE J == Append(I, n + 1)
           m == Len(I)
<1>1. /\ I \in Seq(Nat) /\ O \in Seq(Nat) /\ n \in Nat /\ m <= n /\ m \in Nat
      /\ \A i \in 1 .. m : I[i] = n - m + i
      /\ \A i \in DOMAIN O : O[i] <= n - m
      /\ \A i, k \in DOMAIN O : i < k => O[i] < O[k]
      /\ whole => Len(O) = n - m /\ \A i \in DOMAIN O : O[i] = i
  BY DEF Flow
<1>2. /\ J \in Seq(Nat) /\ Len(J) = m + 1 /\ J[m + 1] = n + 1
      /\ \A i \in 1 .. m : J[i] = I[i]
  BY <1>1
<1>3. DOMAIN J = 1 .. m + 1
  BY <1>1, <1>2
<1> HIDE DEF J, m
<1>4. \A i \in 1 .. m + 1 : J[i] = (n + 1) - (m + 1) + i
  <2> SUFFICES ASSUME NEW i \in 1 .. m + 1 PROVE J[i] = (n + 1) - (m + 1) + i
    OBVIOUS
  <2>1. CASE i \in 1 .. m
    <3>1. J[i] = n - m + i
      BY <1>1, <1>2, <2>1
    <3> QED
      BY <1>1, <3>1
  <2>2. CASE i = m + 1
    BY <1>1, <1>2, <2>2
  <2> QED
    BY <1>1, <2>1, <2>2
<1>5. (n + 1) - (m + 1) = n - m /\ m + 1 <= n + 1 /\ n + 1 \in Nat
  BY <1>1
<1>6. Flow(J, O, n + 1, whole)
  BY <1>1, <1>2, <1>3, <1>4, <1>5 DEF Flow
<1> QED
  BY <1>6 DEF J

\* r were received, k of them sent on.
LEMMA FlowCopied ==
  ASSUME NEW I, NEW O, NEW n, NEW whole, Flow(I, O, n, whole),
         NEW r \in 1 .. Len(I), NEW k \in 0 .. r, NEW still, still => whole /\ k = r
  PROVE  Flow(SubSeq(I, r + 1, Len(I)), O \o SubSeq(SubSeq(I, 1, r), 1, k), n, still)
<1> DEFINE m == Len(I)
           o == Len(O)
           J == SubSeq(I, r + 1, m)
           X == SubSeq(SubSeq(I, 1, r), 1, k)
           P == O \o X
<1>1. /\ I \in Seq(Nat) /\ O \in Seq(Nat) /\ n \in Nat /\ m <= n /\ m \in Nat /\ o \in Nat
      /\ DOMAIN O = 1 .. o
      /\ \A i \in 1 .. m : I[i] = n - m + i
      /\ \A i \in 1 .. o : O[i] <= n - m /\ O[i] \in Nat
      /\ \A i, j \in 1 .. o : i < j => O[i] < O[j]
      /\ whole => o = n - m /\ \A i \in 1 .. o : O[i] = i
  <2>1. I \in Seq(Nat) /\ O \in Seq(Nat) /\ n \in Nat /\ Len(I) <= n
    BY DEF Flow
  <2>2. m \in Nat /\ o \in Nat /\ DOMAIN I = 1 .. m /\ DOMAIN O = 1 .. o
    BY <2>1
  <2>3. /\ \A i \in 1 .. m : I[i] = n - m + i
        /\ \A i \in 1 .. o : O[i] <= n - m
        /\ \A i, j \in 1 .. o : i < j => O[i] < O[j]
        /\ whole => o = n - m /\ \A i \in 1 .. o : O[i] = i
    BY <2>2 DEF Flow
  <2>4. \A i \in 1 .. o : O[i] \in Nat
    BY <2>1, <2>2
  <2> QED
    BY <2>1, <2>2, <2>3, <2>4
<1>2. r \in Nat /\ r <= m /\ k \in Nat /\ k <= r
  BY <1>1
<1>3. /\ J \in Seq(Nat) /\ Len(J) = m - r
      /\ \A i \in 1 .. m - r : J[i] = I[r + i]
  <2>1. I \in Seq(Nat) /\ Len(I) = m /\ m \in Nat
    BY <1>1
  <2>2. J \in Seq(Nat) /\ Len(J) = m - r
    BY <1>2, <2>1
  <2>3. \A i \in 1 .. m - r : (r + 1) + i - 1 = r + i
    BY <1>2, <2>1
  <2>4. \A i \in 1 .. m - r : J[i] = I[(r + 1) + i - 1]
    BY <1>2, <2>1
  <2> QED
    BY <2>2, <2>3, <2>4
<1>4. /\ X \in Seq(Nat) /\ Len(X) = k
      /\ \A i \in 1 .. k : X[i] = I[i]
  <2> DEFINE Y == SubSeq(I, 1, r)
  <2>1. Y \in Seq(Nat) /\ Len(Y) = r /\ \A i \in 1 .. r : Y[i] = I[i]
    BY <1>1, <1>2
  <2> HIDE DEF Y
  <2>2. /\ SubSeq(Y, 1, k) \in Seq(Nat) /\ Len(SubSeq(Y, 1, k)) = k
        /\ \A i \in 1 .. k : SubSeq(Y, 1, k)[i] = Y[i]
    BY <1>2, <2>1
  <2>3. \A i \in 1 .. k : i \in 1 .. r
    BY <1>2
  <2> QED
    BY <2>1, <2>2, <2>3 DEF Y
<1> HIDE DEF J, X
<1>5. /\ P \in Seq(Nat) /\ Len(P) = o + k
      /\ \A i \in 1 .. o : P[i] = O[i]
      /\ \A i \in 1 .. k : P[o + i] = X[i]
  <2>1. /\ P \in Seq(Nat) /\ Len(P) = o + Len(X)
        /\ \A i \in 1 .. o + Len(X) : P[i] = IF i <= o THEN O[i] ELSE X[i - o]
    <3>1. O \in Seq(Nat) /\ X \in Seq(Nat)
      BY <1>1, <1>4
    <3> QED
      BY <3>1, ConcatProperties, SMTT(30)
  <2> HIDE DEF P, o
  <2>2. Len(P) = o + k
    BY <1>4, <2>1
  <2>3. ASSUME NEW i \in 1 .. o PROVE P[i] = O[i]
    <3>1. i \in 1 .. o + k /\ i <= o
      BY <1>1, <1>2
    <3> QED
      BY <2>1, <2>2, <3>1
  <2>4. ASSUME NEW i \in 1 .. k PROVE P[o + i] = X[i]
    <3>1. o + i \in 1 .. o + k /\ ~ (o + i <= o) /\ (o + i) - o = i
      BY <1>1, <1>2
    <3> QED
      BY <2>1, <2>2, <3>1
  <2> QED
    BY <2>1, <2>2, <2>3, <2>4
<1>6. DOMAIN J = 1 .. m - r /\ DOMAIN P = 1 .. o + k
  BY <1>1, <1>2, <1>3, <1>5
<1> HIDE DEF P, m, o
<1>7. m - r <= n /\ n - (m - r) = n - m + r
  BY <1>1, <1>2
<1>8. \A i \in 1 .. m - r : J[i] = n - (m - r) + i
  <2> SUFFICES ASSUME NEW i \in 1 .. m - r PROVE J[i] = n - (m - r) + i
    OBVIOUS
  <2>1. r + i \in 1 .. m
    BY <1>1, <1>2
  <2>2. J[i] = n - m + (r + i)
    BY <1>1, <1>3, <2>1
  <2> QED
    BY <1>1, <1>2, <2>2
<1>9. \A i \in 1 .. o + k : \/ i \in 1 .. o /\ P[i] = O[i]
                            \/ i > o /\ i - o \in 1 .. k /\ P[i] = n - m + (i - o)
  <2> SUFFICES ASSUME NEW i \in 1 .. o + k, i \notin 1 .. o
               PROVE  i > o /\ i - o \in 1 .. k /\ P[i] = n - m + (i - o)
    BY <1>5
  <2>1. i > o /\ i - o \in 1 .. k /\ i - o \in 1 .. m /\ o + (i - o) = i
    BY <1>1, <1>2
  <2>2. P[i] = X[i - o] /\ X[i - o] = I[i - o]
    BY <1>4, <1>5, <2>1
  <2> QED
    BY <1>1, <2>1, <2>2
<1>10. \A i \in 1 .. o + k : P[i] <= n - (m - r)
  <2> SUFFICES ASSUME NEW i \in 1 .. o + k PROVE P[i] <= n - m + r
    BY <1>7
  <2>1. CASE i \in 1 .. o /\ P[i] = O[i]
    BY <1>1, <1>2, <2>1
  <2>2. CASE i - o \in 1 .. k /\ P[i] = n - m + (i - o)
    BY <1>1, <1>2, <2>2
  <2> QED
    BY <1>9, <2>1, <2>2
<1>11. \A i, j \in 1 .. o + k : i < j => P[i] < P[j]
  <2> SUFFICES ASSUME NEW i \in 1 .. o + k, NEW j \in 1 .. o + k, i < j PROVE P[i] < P[j]
    OBVIOUS
  <2>1. CASE j \in 1 .. o /\ P[j] = O[j]
    <3>1. i \in 1 .. o
      BY <1>1, <2>1
    <3> QED
      BY <1>1, <1>5, <2>1, <3>1
  <2>2. CASE j > o /\ j - o \in 1 .. k /\ P[j] = n - m + (j - o)
    <3>1. CASE i \in 1 .. o /\ P[i] = O[i]
      BY <1>1, <1>2, <2>2, <3>1
    <3>2. CASE i > o /\ i - o \in 1 .. k /\ P[i] = n - m + (i - o)
      BY <1>1, <1>2, <2>2, <3>2
    <3> QED
      BY <1>9, <3>1, <3>2
  <2> QED
    BY <1>9, <2>1, <2>2
<1>12. ASSUME still PROVE o + k = n - (m - r) /\ \A i \in 1 .. o + k : P[i] = i
  <2>1. k = r /\ o = n - m /\ \A i \in 1 .. o : O[i] = i
    BY <1>1, <1>12
  <2>2. ASSUME NEW i \in 1 .. o + k PROVE P[i] = i
    <3>1. CASE i \in 1 .. o /\ P[i] = O[i]
      BY <2>1, <3>1
    <3>2. CASE i > o /\ i - o \in 1 .. k /\ P[i] = n - m + (i - o)
      BY <1>1, <1>2, <2>1, <3>2
    <3> QED
      BY <1>9, <3>1, <3>2
  <2> QED
    BY <1>1, <1>2, <1>7, <2>1, <2>2
<1>13. Flow(J, P, n, still)
  BY <1>1, <1>3, <1>5, <1>6, <1>7, <1>8, <1>10, <1>11, <1>12 DEF Flow
<1> QED
  BY <1>13 DEF J, P, X, m

LEMMA SshStarts ==
  ASSUME SshInit
  PROVE  SshInv
<1>1. SshTypes
  BY EmptySeq DEF SshInit, SshTypes, SshTypeOK, Sides
<1>2. ASSUME NEW t \in Tunnels, NEW side \in Sides
      PROVE  Flow(input[t][side], output[t][Other(side)], sent[t][side], Uncut(t, side))
  BY OtherSide, EmptySeq DEF SshInit, Flow
<1>3. FlowsOK
  BY <1>2 DEF FlowsOK, SshInit, Sides
<1>4. \A t \in Tunnels : EndsOK(t) /\ HeldOK(t)
  BY DEF EndsOK, HeldOK, SshInit
<1> QED
  BY <1>1, <1>3, <1>4 DEF SshInv

\* The handlers and stop, as far as they change what is open.
LEMMA EndsStep ==
  ASSUME SshInv, NEW t \in Tunnels, Accept(t) \/ Opens(t) \/ Registers(t) \/ TunnelCloses(t)
  PROVE  SshInv'
<1>1. SshTypes /\ FlowsOK /\ \A q \in Tunnels : EndsOK(q) /\ HeldOK(q)
  BY DEF SshInv
<1>2. UNCHANGED <<sent, over, full, held, input, output, stop, reason, cut, missed>>
  BY DEF Accept, Opens, Registers, TunnelCloses, peerVars, copyVars, stopVars
<1>3. FlowsOK'
  BY <1>1, <1>2 DEF FlowsOK, Uncut
<1>4. /\ handler \in [Tunnels -> Stations]
      /\ ends \in [Tunnels -> [Sides -> {"none", "open", "closed"}]]
      /\ channels \subseteq Tunnels
  BY <1>1 DEF SshTypes, SshTypeOK, Stations
<1>5. ASSUME NEW h \in {"opening", "opened", "copy", "gone"}, handler' = [handler EXCEPT ![t] = h],
             NEW e \in [Sides -> {"none", "open", "closed"}], ends' = [ends EXCEPT ![t] = e],
             channels' \subseteq Tunnels,
             \A q \in Tunnels \ {t} : q \in channels' <=> q \in channels,
             EndsOK(t)'
      PROVE  SshInv'
  <2>1. SshTypes'
    BY <1>1, <1>2, <1>4, <1>5 DEF SshTypes, SshTypeOK, Stations
  <2>3. ASSUME NEW q \in Tunnels PROVE HeldOK(q)'
    BY <1>1, <1>2, <1>4, <1>5 DEF HeldOK
  <2>2. ASSUME NEW q \in Tunnels PROVE EndsOK(q)'
    <3>1. CASE q # t
      <4>1. handler'[q] = handler[q] /\ ends'[q] = ends[q] /\ (q \in channels' <=> q \in channels)
        BY <1>4, <1>5, <3>1
      <4> QED
        BY <1>1, <1>2, <4>1 DEF EndsOK
    <3> QED
      BY <1>5, <3>1
  <2> QED
    BY <1>3, <2>1, <2>2, <2>3 DEF SshInv
<1>6. CASE Accept(t)
  <2>1. PICK side \in Sides : ends' = [ends EXCEPT ![t][side] = "open"]
    BY <1>6 DEF Accept
  <2> DEFINE e == [ends[t] EXCEPT ![side] = "open"]
  <2>2. /\ handler[t] = "none" /\ stop = "no" /\ handler' = [handler EXCEPT ![t] = "opening"]
        /\ channels' = channels /\ e \in [Sides -> {"none", "open", "closed"}]
        /\ ends' = [ends EXCEPT ![t] = e]
    BY <1>4, <1>6, <2>1 DEF Accept, stopVars
  <2>3. EndsOK(t)'
    BY <1>1, <1>2, <1>4, <2>2 DEF EndsOK
  <2> HIDE DEF e
  <2> QED
    BY <1>4, <1>5, <2>2, <2>3
<1>7. ASSUME Opens(t), handler' = [handler EXCEPT ![t] = "opened"],
             ends' = [ends EXCEPT ![t] = [side \in Sides |-> "open"]]
      PROVE  SshInv'
  <2>1. handler[t] = "opening" /\ channels' = channels
    BY <1>7 DEF Opens, stopVars
  <2>2. EndsOK(t)'
    BY <1>1, <1>2, <1>4, <1>7, <2>1 DEF EndsOK
  <2> QED
    BY <1>4, <1>5, <1>7, <2>1, <2>2
<1>8. ASSUME Opens(t) \/ TunnelCloses(t), handler' = [handler EXCEPT ![t] = "gone"],
             ends' = [ends EXCEPT ![t] = [side \in Sides |-> "closed"]]
      PROVE  SshInv'
  <2>1. t \notin channels' /\ channels' \subseteq channels
        /\ \A q \in Tunnels \ {t} : q \in channels' <=> q \in channels
    <3>1. CASE Opens(t)
      BY <1>1, <3>1 DEF Opens, EndsOK, stopVars
    <3>2. CASE TunnelCloses(t)
      BY <3>2 DEF TunnelCloses
    <3> QED
      BY <1>8, <3>1, <3>2
  <2>2. EndsOK(t)'
    BY <1>1, <1>2, <1>4, <1>8, <2>1 DEF EndsOK, Sides
  <2> QED
    BY <1>4, <1>5, <1>8, <2>1, <2>2
<1>9. CASE Registers(t)
  <2>1. /\ handler[t] = "opened" /\ handler' = [handler EXCEPT ![t] = "copy"]
        /\ channels' = channels \cup {t} /\ ends' = ends
    BY <1>9 DEF Registers, stopVars
  <2>2. ends' = [ends EXCEPT ![t] = ends[t]] /\ ends[t] \in [Sides -> {"none", "open", "closed"}]
    BY <1>4, <2>1
  <2>3. EndsOK(t)'
    BY <1>1, <1>2, <1>4, <2>1 DEF EndsOK, Sides
  <2> QED
    BY <1>4, <1>5, <2>1, <2>2, <2>3
<1>10. Opens(t) => SshInv'
  BY <1>7, <1>8 DEF Opens
<1>11. TunnelCloses(t) => SshInv'
  BY <1>8 DEF TunnelCloses
<1> QED
  BY <1>6, <1>9, <1>10, <1>11

LEMMA StopStep ==
  ASSUME SshInv, Shutdown \/ Sweeps
  PROVE  SshInv'
<1>1. SshTypes /\ FlowsOK /\ \A q \in Tunnels : EndsOK(q) /\ HeldOK(q)
  BY DEF SshInv
<1>2. UNCHANGED <<handler, sent, over, full, held, input, output, channels, reason, cut>>
  BY DEF Shutdown, Sweeps, peerVars, copyVars
<1>3. FlowsOK'
  BY <1>1, <1>2 DEF FlowsOK, Uncut
<1>4. /\ handler \in [Tunnels -> Stations]
      /\ ends \in [Tunnels -> [Sides -> {"none", "open", "closed"}]]
      /\ channels \subseteq Tunnels
  BY <1>1 DEF SshTypes, SshTypeOK, Stations
<1>5. CASE Shutdown
  BY <1>1, <1>2, <1>3, <1>5 DEF Shutdown, SshInv, SshTypes, SshTypeOK, EndsOK, HeldOK
<1>6. CASE Sweeps
  <2>1. /\ stop = "shutdown" /\ stop' = "swept"
        /\ ends' = [t \in Tunnels |-> IF t \in channels
                                        THEN [ends[t] EXCEPT !["channel"] = "closed"] ELSE ends[t]]
        /\ missed' = {t \in Tunnels : handler[t] \in {"opening", "opened"}}
    BY <1>6 DEF Sweeps
  <2>2. ASSUME NEW t \in Tunnels
        PROVE  /\ t \notin channels => ends'[t] = ends[t]
               /\ t \in channels =>
                    ends'[t]["channel"] = "closed" /\ ends'[t]["sock"] = ends[t]["sock"]
               /\ ends'[t] \in [Sides -> {"none", "open", "closed"}]
    BY <1>4, <2>1 DEF Sides
  <2>3. SshTypes'
    BY <1>1, <1>2, <2>1, <2>2 DEF SshTypes, SshTypeOK
  <2>4. ASSUME NEW t \in Tunnels PROVE EndsOK(t)'
    <3>1. CASE t \in channels
      BY <1>1, <1>2, <2>1, <2>2, <3>1 DEF EndsOK
    <3>2. CASE t \notin channels
      <4>1. ends[t]["channel"] = "open" => handler[t] \in {"opening", "opened"}
        BY <1>1, <1>4, <3>2 DEF EndsOK, Sides, Stations
      <4> QED
        BY <1>1, <1>2, <2>1, <2>2, <3>2, <4>1 DEF EndsOK
    <3> QED
      BY <3>1, <3>2
  <2>5. \A t \in Tunnels : HeldOK(t)'
    BY <1>1, <1>2 DEF HeldOK
  <2> QED
    BY <1>3, <2>3, <2>4, <2>5 DEF SshInv
<1> QED
  BY <1>5, <1>6

\* A step changes, of what is passed on, what one side of one tunnel sends, and opens and closes
\* nothing.
OnlyThat(t, side) ==
  /\ input' = [input EXCEPT ![t][side] = input'[t][side]]
  /\ output' = [output EXCEPT ![t][Other(side)] = output'[t][Other(side)]]
  /\ sent' = [sent EXCEPT ![t][side] = sent'[t][side]]
  /\ over' = [over EXCEPT ![t][side] = over'[t][side]]
  /\ reason' = [reason EXCEPT ![t] = reason'[t]]
  /\ cut' = cut \/ (side = "sock" /\ cut' = cut \cup {t})
  /\ \/ handler' = handler
     \/ /\ handler[t] \in {"copy", "send"} /\ handler'[t] \in {"copy", "send", "closing"}
        /\ handler' = [handler EXCEPT ![t] = handler'[t]]
  /\ held' = [held EXCEPT ![t] = held'[t]]
  /\ UNCHANGED <<ends, full, channels, stop, missed>>
EndsRight(t, side) ==
  /\ over'[t][side] \in BOOLEAN /\ reason'[t] \in Sides \cup {"none", "broken"}
  /\ reason'[t] # reason[t] => reason'[t] \in {side, "broken"}
  /\ reason'[t] = side => over'[t][side] /\ input'[t][side] = <<>>
  /\ held'[t] \in [from : Sides, n : Nat] /\ HeldOK(t)'

LEMMA FlowStep ==
  ASSUME SshInv, NEW t \in Tunnels, NEW side \in Sides, OnlyThat(t, side), EndsRight(t, side),
         Flow(input'[t][side], output'[t][Other(side)], sent'[t][side], Uncut(t, side)')
  PROVE  SshInv'
<1> DEFINE I == input'[t][side]
           O == output'[t][Other(side)]
           n == sent'[t][side]
           b == over'[t][side]
           r == reason'[t]
           d == held'[t]
           h == handler'[t]
<1>0. /\ input' = [input EXCEPT ![t][side] = I] /\ output' = [output EXCEPT ![t][Other(side)] = O]
      /\ sent' = [sent EXCEPT ![t][side] = n] /\ over' = [over EXCEPT ![t][side] = b]
      /\ reason' = [reason EXCEPT ![t] = r]
      /\ cut' = cut \/ (side = "sock" /\ cut' = cut \cup {t})
      /\ \/ handler' = handler
         \/ /\ handler[t] \in {"copy", "send"} /\ h \in {"copy", "send", "closing"}
            /\ handler' = [handler EXCEPT ![t] = h]
      /\ held' = [held EXCEPT ![t] = d] /\ d \in [from : Sides, n : Nat]
      /\ UNCHANGED <<ends, full, channels, stop, missed>>
      /\ I \in Seq(Nat) /\ O \in Seq(Nat) /\ n \in Nat /\ b \in BOOLEAN
      /\ r \in Sides \cup {"none", "broken"}
      /\ r # reason[t] => r \in {side, "broken"}
      /\ r = side => b /\ I = <<>>
      /\ Flow(I, O, n, Uncut(t, side)')
  BY DEF OnlyThat, EndsRight, Flow
<1> HIDE DEF I, O, n, b, r, d, h
<1>1. SshTypes /\ FlowsOK /\ \A q \in Tunnels : EndsOK(q) /\ HeldOK(q)
  BY DEF SshInv
<1>2. /\ handler \in [Tunnels -> Stations]
      /\ sent \in [Tunnels -> [Sides -> Nat]] /\ over \in [Tunnels -> [Sides -> BOOLEAN]]
      /\ input \in [Tunnels -> [Sides -> Seq(Nat)]] /\ output \in [Tunnels -> [Sides -> Seq(Nat)]]
      /\ reason \in [Tunnels -> Sides \cup {"none", "broken"}] /\ cut \subseteq Tunnels
      /\ held \in [Tunnels -> [from : Sides, n : Nat]]
  BY <1>1 DEF SshTypes, SshTypeOK, Stations
<1>3. /\ handler' \in [Tunnels -> Stations]
      /\ \A q \in Tunnels : /\ q # t => handler'[q] = handler[q]
                            /\ \/ handler'[q] = handler[q]
                               \/ /\ handler[q] \in {"copy", "send"}
                                  /\ handler'[q] \in {"copy", "send", "closing"}
  BY <1>0, <1>2 DEF Stations
<1>4. SshTypes'
  <2>1. /\ input' \in [Tunnels -> [Sides -> Seq(Nat)]]
        /\ output' \in [Tunnels -> [Sides -> Seq(Nat)]]
    BY <1>0, <1>2, OtherSide
  <2>2. sent' \in [Tunnels -> [Sides -> Nat]] /\ over' \in [Tunnels -> [Sides -> BOOLEAN]]
    BY <1>0, <1>2
  <2>3. reason' \in [Tunnels -> Sides \cup {"none", "broken"}] /\ cut' \subseteq Tunnels
    BY <1>0, <1>2
  <2>4. held' \in [Tunnels -> [from : Sides, n : Nat]]
    BY <1>0, <1>2
  <2> QED
    BY <1>0, <1>1, <1>3, <2>1, <2>2, <2>3, <2>4 DEF SshTypes, SshTypeOK, Stations
<1>5. ASSUME NEW q \in Tunnels, NEW o \in Sides, ~ (q = t /\ o = side)
      PROVE  /\ input'[q][o] = input[q][o] /\ output'[q][Other(o)] = output[q][Other(o)]
             /\ sent'[q][o] = sent[q][o] /\ over'[q][o] = over[q][o]
             /\ reason'[q] = o => reason[q] = o
             /\ Uncut(q, o)' => Uncut(q, o)
  <2>1. input'[q][o] = input[q][o] /\ sent'[q][o] = sent[q][o] /\ over'[q][o] = over[q][o]
    <3>1. input'[q][o] = input[q][o]
      BY <1>0, <1>2, <1>5
    <3>2. sent'[q][o] = sent[q][o]
      BY <1>0, <1>2, <1>5
    <3>3. over'[q][o] = over[q][o]
      BY <1>0, <1>2, <1>5
    <3> QED
      BY <3>1, <3>2, <3>3
  <2>2. output'[q][Other(o)] = output[q][Other(o)]
    BY <1>0, <1>2, <1>5, OtherSide
  <2>3. reason'[q] = o => reason[q] = o
    BY <1>0, <1>2, <1>5 DEF Sides
  <2>4. Uncut(q, o)' => Uncut(q, o)
    BY <1>0, <1>5 DEF Uncut
  <2> QED
    BY <2>1, <2>2, <2>3, <2>4
<1>6. /\ input'[t][side] = I /\ output'[t][Other(side)] = O /\ sent'[t][side] = n
      /\ over'[t][side] = b /\ reason'[t] = r
  BY <1>0, <1>2, OtherSide
<1>7. ASSUME NEW q \in Tunnels, NEW o \in Sides
      PROVE  /\ Flow(input'[q][o], output'[q][Other(o)], sent'[q][o], Uncut(q, o)')
             /\ reason'[q] = o => over'[q][o] /\ input'[q][o] = <<>>
  <2>1. CASE q = t /\ o = side
    BY <1>0, <1>6, <2>1
  <2>2. CASE ~ (q = t /\ o = side)
    <3>1. /\ Flow(input[q][o], output[q][Other(o)], sent[q][o], Uncut(q, o))
          /\ reason[q] = o => over[q][o] /\ input[q][o] = <<>>
      BY <1>1 DEF FlowsOK
    <3>2. Flow(input[q][o], output[q][Other(o)], sent[q][o], Uncut(q, o)')
      BY <1>5, <2>2, <3>1 DEF Flow
    <3> QED
      BY <1>5, <2>2, <3>1, <3>2
  <2> QED
    BY <2>1, <2>2
<1>8. FlowsOK'
  BY <1>7 DEF FlowsOK, Flow, Uncut, Other
<1>9. ASSUME NEW q \in Tunnels PROVE EndsOK(q)'
  BY <1>0, <1>1, <1>3 DEF EndsOK
<1>10. ASSUME NEW q \in Tunnels PROVE HeldOK(q)'
  <2>1. CASE q = t
    BY <2>1 DEF EndsRight
  <2>2. CASE q # t
    <3>1. handler'[q] = handler[q] /\ held'[q] = held[q] /\ held[q].from \in Sides
      BY <1>0, <1>2, <1>3, <2>2
    <3>2. input'[q][held[q].from] = input[q][held[q].from]
      BY <1>5, <2>2, <3>1
    <3> QED
      BY <1>1, <3>1, <3>2 DEF HeldOK
  <2> QED
    BY <2>1, <2>2
<1> QED
  BY <1>4, <1>8, <1>9, <1>10 DEF SshInv

\* What is put back where it was.
LEMMA PutBack ==
  ASSUME NEW t \in Tunnels, NEW side \in Sides, NEW S, NEW f \in [Tunnels -> [Sides -> S]]
  PROVE  f = [f EXCEPT ![t][side] = f[t][side]]
<1> DEFINE g == [f[t] EXCEPT ![side] = f[t][side]]
<1>1. f[t] \in [Sides -> S]
  OBVIOUS
<1>2. g = f[t]
  BY <1>1
<1>3. f = [f EXCEPT ![t] = f[t]]
  OBVIOUS
<1> QED
  BY <1>2, <1>3

LEMMA SshStep ==
  ASSUME SshInv, [SshNext]_sshVars
  PROVE  SshInv'
<1>1. SshTypes /\ FlowsOK /\ \A q \in Tunnels : EndsOK(q) /\ HeldOK(q)
  BY DEF SshInv
<1>2. /\ handler \in [Tunnels -> Stations]
      /\ ends \in [Tunnels -> [Sides -> {"none", "open", "closed"}]]
      /\ sent \in [Tunnels -> [Sides -> Nat]] /\ over \in [Tunnels -> [Sides -> BOOLEAN]]
      /\ input \in [Tunnels -> [Sides -> Seq(Nat)]] /\ output \in [Tunnels -> [Sides -> Seq(Nat)]]
      /\ reason \in [Tunnels -> Sides \cup {"none", "broken"}] /\ cut \subseteq Tunnels
      /\ held \in [Tunnels -> [from : Sides, n : Nat]] /\ full \in [Tunnels -> SUBSET Sides]
  BY <1>1 DEF SshTypes, SshTypeOK, Stations
<1>3. ASSUME NEW t \in Tunnels, NEW side \in Sides
      PROVE  /\ input[t][side] \in Seq(Nat) /\ output[t][Other(side)] \in Seq(Nat)
             /\ sent[t][side] \in Nat /\ over[t][side] \in BOOLEAN
             /\ reason[t] \in Sides \cup {"none", "broken"}
             /\ Flow(input[t][side], output[t][Other(side)], sent[t][side], Uncut(t, side))
             /\ reason[t] = side => over[t][side] /\ input[t][side] = <<>>
  BY <1>1, <1>2, OtherSide DEF FlowsOK
<1>0. ASSUME NEW t \in Tunnels, NEW side \in Sides
      PROVE  /\ input = [input EXCEPT ![t][side] = input[t][side]]
             /\ output = [output EXCEPT ![t][Other(side)] = output[t][Other(side)]]
             /\ sent = [sent EXCEPT ![t][side] = sent[t][side]]
             /\ over = [over EXCEPT ![t][side] = over[t][side]]
             /\ reason = [reason EXCEPT ![t] = reason[t]]
             /\ held = [held EXCEPT ![t] = held[t]]
  <2>1. Other(side) \in Sides
    BY OtherSide
  <2>2. /\ reason = [reason EXCEPT ![t] = reason[t]]
        /\ held = [held EXCEPT ![t] = held[t]]
    BY <1>2
  <2>3. /\ input = [input EXCEPT ![t][side] = input[t][side]]
        /\ sent = [sent EXCEPT ![t][side] = sent[t][side]]
        /\ over = [over EXCEPT ![t][side] = over[t][side]]
    BY <1>2, PutBack
  <2>4. output = [output EXCEPT ![t][Other(side)] = output[t][Other(side)]]
    BY <1>2, <2>1, PutBack
  <2> QED
    BY <2>2, <2>3, <2>4
<1>4. ASSUME NEW t \in Tunnels, NEW side \in Sides, Sends(t, side) PROVE SshInv'
  <2> DEFINE n == sent[t][side]
             I == Append(input[t][side], n + 1)
  <2>1. /\ ~ over[t][side] /\ sent' = [sent EXCEPT ![t][side] = n + 1] /\ sent'[t][side] = n + 1
        /\ input' = [input EXCEPT ![t][side] = I]
        /\ UNCHANGED <<handler, ends, over, full, held, output, channels, stop, reason, cut,
                        missed>>
    <3>1. sent' = [sent EXCEPT ![t][side] = @ + 1] /\ sent'[t][side] = n + 1
      BY <1>2, <1>4 DEF Sends
    <3> QED
      BY <1>4, <3>1 DEF Sends, stopVars
  <2>2. n + 1 \in Nat /\ I \in Seq(Nat)
    BY <1>3
  <2>3. Flow(I, output[t][Other(side)], n + 1, Uncut(t, side))
    BY <1>3, FlowSent
  <2> HIDE DEF I, n
  <2>4. input'[t][side] = I
    BY <1>2, <2>1
  <2>5. OnlyThat(t, side)
    <3>1. /\ input' = [input EXCEPT ![t][side] = input'[t][side]]
          /\ sent' = [sent EXCEPT ![t][side] = sent'[t][side]]
      BY <2>1, <2>4
    <3>2. /\ output' = [output EXCEPT ![t][Other(side)] = output'[t][Other(side)]]
          /\ over' = [over EXCEPT ![t][side] = over'[t][side]]
          /\ reason' = [reason EXCEPT ![t] = reason'[t]]
          /\ held' = [held EXCEPT ![t] = held'[t]]
      BY <1>0, <2>1
    <3> QED
      BY <2>1, <3>1, <3>2 DEF OnlyThat
  <2>8. HeldOK(t)'
    <3>1. Len(I) = Len(input[t][side]) + 1 /\ Len(input[t][side]) \in Nat
      BY <1>3 DEF I
    <3>2. handler'[t] = handler[t] /\ held'[t] = held[t] /\ held[t] \in [from : Sides, n : Nat]
      BY <1>2, <2>1
    <3>3. CASE held[t].from = side
      <4>1. handler[t] = "send" => held[t].n \in 1 .. Len(input[t][side])
        BY <1>1, <3>3 DEF HeldOK
      <4>2. input'[t][held'[t].from] = I
        BY <2>4, <3>2, <3>3
      <4> QED
        BY <3>1, <3>2, <4>1, <4>2 DEF HeldOK
    <3>4. CASE held[t].from # side
      <4>1. input'[t][held[t].from] = input[t][held[t].from]
        BY <1>2, <2>1, <3>2, <3>4
      <4> QED
        BY <1>1, <3>2, <4>1 DEF HeldOK
    <3> QED
      BY <3>3, <3>4
  <2>6. EndsRight(t, side)
    BY <1>2, <1>3, <2>1, <2>8 DEF EndsRight
  <2>7. Flow(input'[t][side], output'[t][Other(side)], sent'[t][side], Uncut(t, side)')
    BY <2>1, <2>3, <2>4 DEF Uncut
  <2> QED
    BY <2>5, <2>6, <2>7, FlowStep
<1>5. ASSUME NEW t \in Tunnels, NEW side \in Sides, Finishes(t, side) PROVE SshInv'
  <2>1. /\ over' = [over EXCEPT ![t][side] = TRUE] /\ over'[t][side] = TRUE
        /\ UNCHANGED <<handler, ends, sent, full, held, input, output, channels, stop, reason, cut,
                        missed>>
    BY <1>2, <1>5 DEF Finishes, copyVars, stopVars
  <2>2. OnlyThat(t, side)
    <3>1. /\ input' = [input EXCEPT ![t][side] = input'[t][side]]
          /\ sent' = [sent EXCEPT ![t][side] = sent'[t][side]]
          /\ output' = [output EXCEPT ![t][Other(side)] = output'[t][Other(side)]]
      BY <1>0, <2>1
    <3>2. /\ over' = [over EXCEPT ![t][side] = over'[t][side]]
          /\ reason' = [reason EXCEPT ![t] = reason'[t]]
          /\ held' = [held EXCEPT ![t] = held'[t]]
      BY <1>0, <2>1
    <3> QED
      BY <2>1, <3>1, <3>2 DEF OnlyThat
  <2>3. EndsRight(t, side)
    BY <1>1, <1>2, <1>3, <2>1 DEF EndsRight, HeldOK
  <2>4. Flow(input'[t][side], output'[t][Other(side)], sent'[t][side], Uncut(t, side)')
    BY <1>3, <2>1 DEF Uncut
  <2> QED
    BY <2>2, <2>3, <2>4, FlowStep
<1>6. ASSUME NEW t \in Tunnels, NEW side \in Sides, Receives(t, side) PROVE SshInv'
  <2> DEFINE I == input[t][side]
             X == Received(t, side)
  <2>1. /\ handler[t] = "copy" /\ side \in Ready(t)
        /\ UNCHANGED <<ends, sent, over, full, input, output, cut, channels, stop, missed>>
    BY <1>6 DEF Receives, peerVars, stopVars
  <2>2. Flow(input'[t][side], output'[t][Other(side)], sent'[t][side], Uncut(t, side)')
    BY <1>3, <2>1 DEF Uncut
  <2>3. /\ input' = [input EXCEPT ![t][side] = input'[t][side]]
        /\ output' = [output EXCEPT ![t][Other(side)] = output'[t][Other(side)]]
        /\ sent' = [sent EXCEPT ![t][side] = sent'[t][side]]
        /\ over' = [over EXCEPT ![t][side] = over'[t][side]]
    BY <1>0, <2>1
  <2>4. CASE I # <<>>
    <3> DEFINE d == [from |-> side, n |-> Len(X)]
    <3>1. /\ handler' = [handler EXCEPT ![t] = "send"] /\ reason' = reason
          /\ held' = [held EXCEPT ![t] = d]
      BY <1>6, <2>4 DEF Receives
    <3>2. Len(X) \in 1 .. Len(I)
      <4> DEFINE r == IF Len(I) < RecvSize THEN Len(I) ELSE RecvSize
      <4>1. I \in Seq(Nat) /\ Len(I) \in Nat /\ Len(I) > 0
        BY <1>3, <2>4
      <4>2. r \in 1 .. Len(I)
        BY <4>1, SshAssumption DEF SshAssumption
      <4>3. X = SubSeq(I, 1, r)
        BY DEF Received
      <4> HIDE DEF r, X, I
      <4> QED
        BY <4>1, <4>2, <4>3
    <3> HIDE DEF X
    <3>3. handler'[t] = "send" /\ held'[t] = d /\ d \in [from : Sides, n : Nat]
      BY <1>2, <3>1, <3>2
    <3>4. HeldOK(t)'
      BY <2>1, <3>2, <3>3 DEF HeldOK
    <3>5. OnlyThat(t, side)
      <4>1. reason' = [reason EXCEPT ![t] = reason'[t]]
        BY <1>0, <3>1
      <4> QED
        BY <2>1, <2>3, <3>1, <3>3, <4>1 DEF OnlyThat
    <3>6. EndsRight(t, side)
      BY <1>3, <2>1, <3>1, <3>3, <3>4 DEF EndsRight
    <3> QED
      BY <2>2, <3>5, <3>6, FlowStep
  <2>5. CASE I = <<>>
    <3> DEFINE r == IF ends[t]["channel"] = "closed" THEN "broken" ELSE side
    <3>1. /\ handler' = [handler EXCEPT ![t] = "closing"] /\ reason' = [reason EXCEPT ![t] = r]
          /\ held' = held
      BY <1>6, <2>5 DEF Receives, Ends
    <3>2. r = side => over[t][side]
      <4> SUFFICES ASSUME ends[t]["channel"] # "closed" PROVE over[t][side]
        BY DEF Sides
      <4>1. \A o \in Sides : ends[t][o] = "open"
        BY <1>1, <1>2, <2>1 DEF EndsOK, Sides
      <4> QED
        BY <2>1, <2>5, <4>1 DEF Ready, SideEnded
    <3>3. r \in {side, "broken"}
      OBVIOUS
    <3> HIDE DEF r
    <3>4. reason'[t] = r /\ handler'[t] = "closing"
      BY <1>2, <3>1
    <3>5. OnlyThat(t, side)
      <4>1. reason' = [reason EXCEPT ![t] = reason'[t]] /\ held' = [held EXCEPT ![t] = held'[t]]
        BY <1>0, <3>1, <3>4
      <4> QED
        BY <2>1, <2>3, <3>1, <3>4, <4>1 DEF OnlyThat
    <3>6. EndsRight(t, side)
      BY <1>2, <1>3, <2>1, <2>5, <3>1, <3>2, <3>3, <3>4 DEF EndsRight, HeldOK
    <3> QED
      BY <2>2, <3>5, <3>6, FlowStep
  <2> QED
    BY <2>4, <2>5
<1>8. ASSUME NEW t \in Tunnels, handler[t] \in {"copy", "send"}, Ends(t, "broken"),
             UNCHANGED <<ends, peerVars, held, input, output, cut, stopVars>>
      PROVE  SshInv'
  <2> DEFINE side == "sock"
  <2>1. side \in Sides /\ UNCHANGED <<ends, sent, over, full, channels, stop, missed>>
    BY <1>8 DEF Sides, peerVars, stopVars
  <2> HIDE DEF side
  <2>2. /\ handler' = [handler EXCEPT ![t] = "closing"] /\ handler'[t] = "closing"
        /\ reason' = [reason EXCEPT ![t] = "broken"] /\ reason'[t] = "broken"
    BY <1>2, <1>8 DEF Ends
  <2>3. OnlyThat(t, side)
    <3>1. /\ input' = [input EXCEPT ![t][side] = input'[t][side]]
          /\ output' = [output EXCEPT ![t][Other(side)] = output'[t][Other(side)]]
          /\ sent' = [sent EXCEPT ![t][side] = sent'[t][side]]
          /\ over' = [over EXCEPT ![t][side] = over'[t][side]]
          /\ held' = [held EXCEPT ![t] = held'[t]]
      BY <1>0, <1>8, <2>1
    <3> QED
      BY <1>8, <2>1, <2>2, <3>1 DEF OnlyThat
  <2>4. EndsRight(t, side)
    BY <1>2, <1>3, <1>8, <2>1, <2>2 DEF EndsRight, HeldOK, Sides
  <2>5. Flow(input'[t][side], output'[t][Other(side)], sent'[t][side], Uncut(t, side)')
    BY <1>3, <1>8, <2>1 DEF Uncut
  <2> QED
    BY <2>1, <2>3, <2>4, <2>5, FlowStep
<1>9. ASSUME NEW t \in Tunnels, handler[t] = "send", NEW k \in 0 .. held[t].n, SendsOn(t, k),
             held[t].from = "channel" => k = held[t].n
      PROVE  SshInv'
  <2>0. PICK side \in Sides, r \in Nat : side = held[t].from /\ r = held[t].n
    BY <1>2
  <2> DEFINE I == input[t][side]
             J == SubSeq(I, r + 1, Len(I))
             P == output[t][Other(side)] \o SubSeq(SubSeq(I, 1, r), 1, k)
  <2>1. r \in 1 .. Len(I) /\ k \in 0 .. r /\ k \in Nat /\ (side = "channel" => k = r)
    BY <1>1, <1>9, <2>0 DEF HeldOK
  <2>2. /\ handler' = [handler EXCEPT ![t] = "copy"] /\ handler'[t] = "copy"
        /\ input' = [input EXCEPT ![t][side] = J]
        /\ output' = [output EXCEPT ![t][Other(side)] = P]
        /\ cut' = (IF k < r THEN cut \cup {t} ELSE cut)
        /\ UNCHANGED <<ends, sent, over, full, held, reason, channels, stop, missed>>
    BY <1>2, <1>9, <2>0 DEF SendsOn, peerVars, stopVars
  <2>3. cut' = cut \/ (side = "sock" /\ cut' = cut \cup {t})
    BY <2>1, <2>2 DEF Sides
  <2>4. Uncut(t, side)' => Uncut(t, side) /\ k = r
    <3>1. k # r => t \in cut'
      BY <2>1, <2>2
    <3>2. t \notin cut' => t \notin cut
      BY <2>3
    <3>3. Uncut(t, side)' => side = "channel" \/ t \notin cut'
      BY <2>2 DEF Uncut
    <3> QED
      BY <2>1, <3>1, <3>2, <3>3 DEF Uncut
  <2>5. Flow(J, P, sent[t][side], Uncut(t, side)')
    <3>1. Flow(I, output[t][Other(side)], sent[t][side], Uncut(t, side))
      BY <1>3, <2>1
    <3> DEFINE w == Uncut(t, side)'
    <3>2. w => Uncut(t, side) /\ k = r
      BY <2>4
    <3> HIDE DEF w, I
    <3>3. Flow(J, P, sent[t][side], w)
      BY <2>1, <3>1, <3>2, FlowCopied
    <3> QED
      BY <3>3 DEF w
  <2>6. reason[t] # side
    <3>1. I # <<>>
      <4>1. Len(I) # 0
        BY <2>1
      <4> QED
        BY <4>1, EmptySeq
    <3> QED
      BY <1>3, <2>1, <3>1
  <2> HIDE DEF I, J, P
  <2>7. input'[t][side] = J /\ output'[t][Other(side)] = P
    BY <1>2, <2>1, <2>2, OtherSide
  <2>8. OnlyThat(t, side)
    <3>1. /\ sent' = [sent EXCEPT ![t][side] = sent'[t][side]]
          /\ over' = [over EXCEPT ![t][side] = over'[t][side]]
          /\ reason' = [reason EXCEPT ![t] = reason'[t]]
          /\ held' = [held EXCEPT ![t] = held'[t]]
      BY <1>0, <2>1, <2>2
    <3> QED
      BY <1>9, <2>2, <2>3, <2>7, <3>1 DEF OnlyThat
  <2>9. EndsRight(t, side)
    BY <1>2, <1>3, <2>1, <2>2, <2>6 DEF EndsRight, HeldOK
  <2>10. Flow(input'[t][side], output'[t][Other(side)], sent'[t][side], Uncut(t, side)')
    BY <2>2, <2>5, <2>7
  <2> QED
    BY <2>1, <2>8, <2>9, <2>10, FlowStep
<1>10. ASSUME NEW t \in Tunnels, CopyOne(t) PROVE SshInv'
  <2>1. handler[t] = "send" /\ held[t].n \in Nat /\ held[t].from \in Sides
    BY <1>2, <1>10 DEF CopyOne
  <2>2. CASE ends[t][Other(held[t].from)] = "open"
    <3>1. PICK k \in 1 .. held[t].n :
            (held[t].from = "channel" => k = held[t].n) /\ SendsOn(t, k)
      BY <1>10, <2>2 DEF CopyOne
    <3>2. k \in 0 .. held[t].n
      BY <2>1, <3>1
    <3> QED
      BY <1>9, <2>1, <3>1, <3>2
  <2>3. CASE ends[t][Other(held[t].from)] # "open"
    <3>1. held[t].from # "channel"
      BY <1>1, <2>1, <2>3 DEF EndsOK, Other
    <3>2. CASE SendsOn(t, 0)
      BY <1>9, <2>1, <3>1, <3>2
    <3>3. CASE Ends(t, "broken") /\ UNCHANGED <<ends, peerVars, held, input, output, cut, stopVars>>
      BY <1>8, <2>1, <3>3
    <3> QED
      BY <1>10, <2>3, <3>2, <3>3 DEF CopyOne
  <2> QED
    BY <2>2, <2>3
<1>11. ASSUME NEW t \in Tunnels, Breaks(t) PROVE SshInv'
  BY <1>8, <1>11 DEF Breaks
<1>12. ASSUME NEW t \in Tunnels, NEW side \in Sides, Stalls(t, side) \/ ReadsOn(t, side)
       PROVE  SshInv'
  <2>1. UNCHANGED <<handler, ends, sent, over, held, input, output, reason, cut, channels, stop,
                    missed>>
    BY <1>12 DEF Stalls, ReadsOn, copyVars, stopVars
  <2>2. full' \in [Tunnels -> SUBSET Sides]
    <3>1. full[t] \cup {side} \in SUBSET Sides /\ full[t] \ {side} \in SUBSET Sides
      BY <1>2
    <3>2. \/ full' = [full EXCEPT ![t] = full[t] \cup {side}]
          \/ full' = [full EXCEPT ![t] = full[t] \ {side}]
      BY <1>12 DEF Stalls, ReadsOn
    <3> QED
      BY <1>2, <3>1, <3>2
  <2>3. SshTypes'
    BY <1>1, <2>1, <2>2 DEF SshTypes, SshTypeOK
  <2>4. FlowsOK'
    BY <1>1, <2>1 DEF FlowsOK, Uncut
  <2>5. ASSUME NEW q \in Tunnels PROVE EndsOK(q)' /\ HeldOK(q)'
    BY <1>1, <2>1 DEF EndsOK, HeldOK
  <2> QED
    BY <2>3, <2>4, <2>5 DEF SshInv
<1>7. ASSUME UNCHANGED sshVars PROVE SshInv'
  BY <1>7 DEF SshInv, SshTypes, SshTypeOK, FlowsOK, EndsOK, HeldOK, Uncut, sshVars, peerVars,
              copyVars, stopVars
<1> QED
  BY <1>4, <1>5, <1>6, <1>7, <1>10, <1>11, <1>12, EndsStep, StopStep DEF SshNext, HandlerStep

\* A tunnel over ssh (ssh.py): for any connections, amounts and sizes of recv, what comes out is
\* what went in, in order, all of it up to an end but what a full channel did not take; and
\* after stop no channel is open that was on the list.
THEOREM TunnelsHold == SshSpec => []TunnelsCorrect
<1>1. SshInit => SshInv
  BY SshStarts
<1>2. SshInv /\ [SshNext]_sshVars => SshInv'
  BY SshStep
<1>3. SshInv => TunnelsCorrect
  <2> SUFFICES ASSUME SshInv PROVE TunnelsCorrect
    OBVIOUS
  <2>1. SshTypes /\ FlowsOK /\ \A t \in Tunnels : EndsOK(t)
    BY DEF SshInv
  <2>2. PassedOn
    <3> SUFFICES ASSUME NEW t \in Tunnels, NEW side \in Sides
                 PROVE  /\ \A i, k \in DOMAIN output[t][side] :
                             i < k => output[t][side][i] < output[t][side][k]
                        /\ (side = "sock" \/ t \notin cut) =>
                             /\ \A i \in DOMAIN output[t][side] : output[t][side][i] = i
                             /\ reason[t] = Other(side) =>
                                  Len(output[t][side]) = sent[t][Other(side)]
      BY DEF PassedOn
    <3> DEFINE o == Other(side)
               I == input[t][o]
               O == output[t][side]
    <3>1. o \in Sides /\ Other(o) = side /\ (o = "channel" <=> side = "sock")
      BY OtherSide DEF Sides, Other
    <3>2. Flow(I, O, sent[t][o], Uncut(t, o)) /\ (reason[t] = o => I = <<>>)
      BY <2>1, <3>1 DEF FlowsOK
    <3>3. side = "sock" \/ t \notin cut => Uncut(t, o)
      BY <3>1 DEF Uncut
    <3>4. I = <<>> => Len(I) = 0
      OBVIOUS
    <3> HIDE DEF o, I, O
    <3>5. ASSUME Uncut(t, o) PROVE /\ \A i \in DOMAIN O : O[i] = i
                                   /\ reason[t] = o => Len(O) = sent[t][o]
      BY <3>2, <3>4, <3>5 DEF Flow
    <3> QED
      BY <3>2, <3>3, <3>5 DEF Flow, o, O
  <2>3. StopCloses
    BY <2>1 DEF StopCloses, EndsOK
  <2> QED
    BY <2>1, <2>2, <2>3 DEF TunnelsCorrect, SshTypes
<1> QED
  BY <1>1, <1>2, <1>3, PTL DEF SshSpec
-----------------------------------------------------------------------------
(* FridaApp: sessions, their scripts and their ends.                       *)

FridaSpec == FridaInit /\ [][FridaNext]_fridaVars

FridaSessions ==
  [pid : Pids, detached : BOOLEAN, watched : BOOLEAN, scripts : Seq(Nat), told : Nat]
FridaJobs ==
  [do : {"load"}, pid : Pids, resume : BOOLEAN] \cup [do : {"cancel", "detached"}, session : Nat]
    \cup [do : {"change"}, id : Nat] \cup [do : {"stop"}]
Loaders ==
  [at : {"idle"}] \cup [at : {"attach"}, pid : Pids, resume : BOOLEAN]
    \cup [at : {"watch", "unload", "create"}, session : Nat, resume : BOOLEAN]

\* The sessions that jobs of q are about, and those whose end they report.
AskedOf(q) == {q[i].session : i \in {k \in DOMAIN q : q[k].do \in {"cancel", "detached"}}}
EndsIn(q) == {q[i].session : i \in {k \in DOMAIN q : q[k].do = "detached"}}
\* None is reported twice.
OncePerEnd(q) ==
  \A i, k \in DOMAIN q :
    i # k /\ q[i].do = "detached" /\ q[k].do = "detached" => q[i].session # q[k].session

FridaTypes ==
  /\ proc \in [Pids -> {"none", "suspended", "running"}] /\ spawns \in 0 .. MaxSpawns
  /\ stopping \in {"no", "asked", "done"}
  /\ sess \in Seq(FridaSessions) /\ registry \in [Pids -> 0 .. Len(sess)]
  /\ ending \subseteq DOMAIN sess /\ lost \subseteq DOMAIN sess /\ stranded \subseteq Pids
  /\ jobs \in Seq(FridaJobs) /\ AskedOf(jobs) \subseteq DOMAIN sess
  /\ loader \in Loaders
  /\ loader.at \in {"watch", "unload", "create"} => loader.session \in DOMAIN sess
  /\ version \in 1 .. MaxWrites + 1 /\ cached \in 0 .. version /\ unseen \in BOOLEAN
  /\ change \in Nat

\* Who is attached was not told of, and is the one its pid has, but for one that was lost; the
\* end of the others is told of once, by now, from the callback or by a job.
SessionOK(s) ==
  /\ Attached(s) => s \notin ending /\ s \notin EndsIn(jobs) /\ sess[s].told = 0
  /\ Attached(s) /\ s \notin lost => registry[sess[s].pid] = s
  /\ s \in ending => s \notin EndsIn(jobs)
  /\ s \in ending \cup EndsIn(jobs) => sess[s].told = 0
  /\ sess[s].told <= 1 /\ Len(sess[s].scripts) <= 1

LoaderOK ==
  /\ loader.at = "attach" => registry[loader.pid] = 0
  /\ loader.at = "create" => sess[loader.session].scripts = <<>>
  /\ stopping = "done" => loader = NoLoad /\ \A s \in DOMAIN sess : Attached(s) => s \in lost

FridaInv ==
  /\ FridaTypes /\ OncePerEnd(jobs) /\ LoaderOK
  /\ \A s \in DOMAIN sess : SessionOK(s)

StoodAt(i, k) == IF k < i THEN k ELSE k + 1

\* What is left of a list when one of it is taken is what was there, each at another place.
LEMMA JobTaken ==
  ASSUME NEW q \in Seq(FridaJobs), NEW i \in DOMAIN q
  PROVE  /\ RemoveAt(q, i) \in Seq(FridaJobs)
         /\ \A k \in DOMAIN RemoveAt(q, i) :
              StoodAt(i, k) \in DOMAIN q \ {i} /\ RemoveAt(q, i)[k] = q[StoodAt(i, k)]
         /\ \A m \in DOMAIN q \ {i} : \E k \in DOMAIN RemoveAt(q, i) : m = StoodAt(i, k)
<1> DEFINE n == Len(q)
           a == SubSeq(q, 1, i - 1)
           b == SubSeq(q, i + 1, n)
           p == a \o b
<1>1. n \in Nat /\ i \in 1 .. n /\ i \in Nat /\ DOMAIN q = 1 .. n
  OBVIOUS
<1>2. /\ a \in Seq(FridaJobs) /\ Len(a) = i - 1
      /\ \A k \in 1 .. i - 1 : a[k] = q[k]
  BY <1>1
<1>3. /\ b \in Seq(FridaJobs) /\ Len(b) = n - i
      /\ \A k \in 1 .. n - i : b[k] = q[k + i]
  <2>1. \A k \in 1 .. n - i : b[k] = q[(i + 1) + k - 1] /\ (i + 1) + k - 1 = k + i
    BY <1>1
  <2>2. b \in Seq(FridaJobs) /\ Len(b) = n - i
    BY <1>1
  <2> QED
    BY <2>1, <2>2
<1> HIDE DEF a, b
<1>4. /\ p \in Seq(FridaJobs) /\ Len(p) = Len(a) + Len(b)
      /\ \A k \in 1 .. Len(a) + Len(b) : p[k] = IF k <= Len(a) THEN a[k] ELSE b[k - Len(a)]
  BY <1>2, <1>3, ConcatProperties
<1> HIDE DEF n, p
<1>5. Len(p) = n - 1 /\ DOMAIN p = 1 .. n - 1
  <2>1. Len(p) = n - 1
    BY <1>1, <1>2, <1>3, <1>4
  <2> QED
    BY <1>4, <2>1
<1>6. ASSUME NEW k \in 1 .. n - 1 PROVE p[k] = q[IF k < i THEN k ELSE k + 1]
  <2>1. CASE k < i
    <3>1. k \in 1 .. (i - 1) + (n - i) /\ k <= i - 1 /\ k \in 1 .. i - 1
      BY <1>1, <2>1
    <3> QED
      BY <1>2, <1>3, <1>4, <2>1, <3>1
  <2>2. CASE ~ (k < i)
    <3>1. k \in 1 .. (i - 1) + (n - i) /\ ~ (k <= i - 1) /\ k - (i - 1) \in 1 .. n - i
          /\ (k - (i - 1)) + i = k + 1
      BY <1>1, <2>2
    <3> QED
      BY <1>2, <1>3, <1>4, <2>2, <3>1
  <2> QED
    BY <2>1, <2>2
<1>7. ASSUME NEW k \in 1 .. n - 1 PROVE StoodAt(i, k) \in (1 .. n) \ {i} /\ p[k] = q[StoodAt(i, k)]
  <2>1. StoodAt(i, k) \in (1 .. n) \ {i}
    BY <1>1 DEF StoodAt
  <2> QED
    BY <1>6, <2>1 DEF StoodAt
<1>8. ASSUME NEW m \in (1 .. n) \ {i} PROVE \E k \in 1 .. n - 1 : m = StoodAt(i, k)
  <2> DEFINE k == IF m < i THEN m ELSE m - 1
  <2>1. k \in 1 .. n - 1 /\ m = StoodAt(i, k)
    BY <1>1 DEF StoodAt
  <2> QED
    BY <2>1
<1>9. RemoveAt(q, i) = p
  BY DEF RemoveAt, p, a, b, n
<1> QED
  BY <1>1, <1>4, <1>5, <1>7, <1>8, <1>9

\* What the jobs left are about.
LEMMA TakenAsks ==
  ASSUME NEW q \in Seq(FridaJobs), NEW i \in DOMAIN q
  PROVE  /\ RemoveAt(q, i) \in Seq(FridaJobs)
         /\ AskedOf(RemoveAt(q, i)) \subseteq AskedOf(q)
         /\ EndsIn(RemoveAt(q, i)) \subseteq EndsIn(q)
         /\ OncePerEnd(q) => OncePerEnd(RemoveAt(q, i))
         /\ q[i].do # "detached" => EndsIn(RemoveAt(q, i)) = EndsIn(q)
         /\ q[i].do = "detached" =>
              /\ q[i].session \in EndsIn(q)
              /\ EndsIn(q) \subseteq EndsIn(RemoveAt(q, i)) \cup {q[i].session}
              /\ OncePerEnd(q) => q[i].session \notin EndsIn(RemoveAt(q, i))
<1> DEFINE r == RemoveAt(q, i)
<1>1. /\ r \in Seq(FridaJobs)
      /\ \A k \in DOMAIN r : StoodAt(i, k) \in DOMAIN q \ {i} /\ r[k] = q[StoodAt(i, k)]
      /\ \A m \in DOMAIN q \ {i} : \E k \in DOMAIN r : m = StoodAt(i, k)
  BY JobTaken
<1> HIDE DEF r
<1>2. \A k, m \in DOMAIN r : k # m => StoodAt(i, k) # StoodAt(i, m)
  <2>1. DOMAIN r \subseteq Nat /\ i \in Nat
    BY <1>1
  <2> QED
    BY <2>1 DEF StoodAt
<1>3. AskedOf(r) \subseteq AskedOf(q) /\ EndsIn(r) \subseteq EndsIn(q)
  BY <1>1 DEF AskedOf, EndsIn
<1>4. OncePerEnd(q) => OncePerEnd(r)
  BY <1>1, <1>2 DEF OncePerEnd
<1>5. ASSUME q[i].do # "detached" PROVE EndsIn(r) = EndsIn(q)
  BY <1>1, <1>3, <1>5 DEF EndsIn
<1>6. ASSUME q[i].do = "detached"
      PROVE  /\ q[i].session \in EndsIn(q) /\ EndsIn(q) \subseteq EndsIn(r) \cup {q[i].session}
             /\ OncePerEnd(q) => q[i].session \notin EndsIn(r)
  <2>1. q[i].session \in EndsIn(q)
    BY <1>6 DEF EndsIn
  <2>2. EndsIn(q) \subseteq EndsIn(r) \cup {q[i].session}
    BY <1>1 DEF EndsIn
  <2>3. OncePerEnd(q) => q[i].session \notin EndsIn(r)
    BY <1>1, <1>6 DEF EndsIn, OncePerEnd
  <2> QED
    BY <2>1, <2>2, <2>3
<1> QED
  BY <1>1, <1>3, <1>4, <1>5, <1>6 DEF r

\* What a list that gets more is about.
LEMMA MoreAsks ==
  ASSUME NEW q \in Seq(FridaJobs), NEW e \in Seq(FridaJobs)
  PROVE  /\ q \o e \in Seq(FridaJobs)
         /\ AskedOf(q \o e) = AskedOf(q) \cup AskedOf(e)
         /\ EndsIn(q \o e) = EndsIn(q) \cup EndsIn(e)
         /\ OncePerEnd(q) /\ OncePerEnd(e) /\ EndsIn(q) \cap EndsIn(e) = {} => OncePerEnd(q \o e)
<1> DEFINE p == q \o e
           n == Len(q)
           m == Len(e)
<1>1. n \in Nat /\ m \in Nat /\ DOMAIN q = 1 .. n /\ DOMAIN e = 1 .. m
  OBVIOUS
<1>2. /\ p \in Seq(FridaJobs) /\ Len(p) = n + m
      /\ \A k \in 1 .. n + m : p[k] = IF k <= n THEN q[k] ELSE e[k - n]
  BY ConcatProperties
<1> HIDE DEF p, n, m
<1>3. DOMAIN p = 1 .. n + m
  BY <1>2
<1>4. \A k \in 1 .. n : k \in 1 .. n + m /\ p[k] = q[k]
  BY <1>1, <1>2
<1>5. \A k \in 1 .. m : n + k \in 1 .. n + m /\ p[n + k] = e[k]
  <2> SUFFICES ASSUME NEW k \in 1 .. m PROVE n + k \in 1 .. n + m /\ p[n + k] = e[k]
    OBVIOUS
  <2>1. n + k \in 1 .. n + m /\ ~ (n + k <= n) /\ (n + k) - n = k
    BY <1>1
  <2> QED
    BY <1>2, <2>1
<1>6. \A k \in 1 .. n + m : (k \in 1 .. n /\ p[k] = q[k])
                            \/ (k \notin 1 .. n /\ k - n \in 1 .. m /\ p[k] = e[k - n])
  <2> SUFFICES ASSUME NEW k \in 1 .. n + m
               PROVE  (k \in 1 .. n /\ p[k] = q[k])
                      \/ (k \notin 1 .. n /\ k - n \in 1 .. m /\ p[k] = e[k - n])
    OBVIOUS
  <2>1. CASE k <= n
    BY <1>1, <1>2, <2>1
  <2>2. CASE ~ (k <= n)
    <3>1. k \notin 1 .. n /\ k - n \in 1 .. m
      BY <1>1, <2>2
    <3> QED
      BY <1>2, <2>2, <3>1
  <2> QED
    BY <2>1, <2>2
<1>7. AskedOf(p) = AskedOf(q) \cup AskedOf(e)
  <2>1. AskedOf(p) \subseteq AskedOf(q) \cup AskedOf(e)
    BY <1>1, <1>3, <1>6 DEF AskedOf
  <2>2. AskedOf(q) \subseteq AskedOf(p)
    BY <1>1, <1>3, <1>4 DEF AskedOf
  <2>3. AskedOf(e) \subseteq AskedOf(p)
    BY <1>1, <1>3, <1>5 DEF AskedOf
  <2> QED
    BY <2>1, <2>2, <2>3
<1>8. EndsIn(p) = EndsIn(q) \cup EndsIn(e)
  <2>1. EndsIn(p) \subseteq EndsIn(q) \cup EndsIn(e)
    BY <1>1, <1>3, <1>6 DEF EndsIn
  <2>2. EndsIn(q) \subseteq EndsIn(p)
    BY <1>1, <1>3, <1>4 DEF EndsIn
  <2>3. EndsIn(e) \subseteq EndsIn(p)
    BY <1>1, <1>3, <1>5 DEF EndsIn
  <2> QED
    BY <2>1, <2>2, <2>3
<1>9. ASSUME OncePerEnd(q), OncePerEnd(e), EndsIn(q) \cap EndsIn(e) = {} PROVE OncePerEnd(p)
  <2> SUFFICES ASSUME NEW i \in 1 .. n + m, NEW k \in 1 .. n + m, i # k,
                      p[i].do = "detached", p[k].do = "detached"
               PROVE  p[i].session # p[k].session
    BY <1>3 DEF OncePerEnd
  <2>1. CASE i \in 1 .. n /\ k \in 1 .. n
    BY <1>1, <1>4, <1>9, <2>1 DEF OncePerEnd
  <2>2. CASE i \notin 1 .. n /\ k \notin 1 .. n
    <3>1. i - n # k - n
      BY <1>1
    <3>2. /\ i - n \in DOMAIN e /\ k - n \in DOMAIN e /\ p[i] = e[i - n] /\ p[k] = e[k - n]
      BY <1>1, <1>6, <2>2
    <3> QED
      BY <1>9, <3>1, <3>2 DEF OncePerEnd
  <2>3. CASE (i \in 1 .. n /\ k \notin 1 .. n) \/ (i \notin 1 .. n /\ k \in 1 .. n)
    <3>1. \A j \in 1 .. n + m : p[j].do = "detached" =>
            /\ j \in 1 .. n => p[j].session \in EndsIn(q)
            /\ j \notin 1 .. n => p[j].session \in EndsIn(e)
      BY <1>1, <1>6 DEF EndsIn
    <3> QED
      BY <1>9, <2>3, <3>1
  <2> QED
    BY <2>1, <2>2, <2>3
<1> QED
  BY <1>2, <1>7, <1>8, <1>9 DEF p

\* Jobs that tell of no end.
LEMMA OneMore ==
  ASSUME NEW q \in Seq(FridaJobs), NEW x \in FridaJobs, ~ (x.do \in {"cancel", "detached"})
  PROVE  /\ Append(q, x) \in Seq(FridaJobs) /\ AskedOf(Append(q, x)) = AskedOf(q)
         /\ EndsIn(Append(q, x)) = EndsIn(q) /\ (OncePerEnd(q) => OncePerEnd(Append(q, x)))
<1> DEFINE e == <<x>>
<1>1. e \in Seq(FridaJobs) /\ DOMAIN e = 1 .. 1 /\ e[1] = x
  OBVIOUS
<1>2. Append(q, x) = q \o e
  BY AppendIsConcat
<1> HIDE DEF e
<1>3. AskedOf(e) = {} /\ EndsIn(e) = {} /\ OncePerEnd(e)
  BY <1>1 DEF AskedOf, EndsIn, OncePerEnd
<1>4. /\ q \o e \in Seq(FridaJobs) /\ AskedOf(q \o e) = AskedOf(q) \cup AskedOf(e)
      /\ EndsIn(q \o e) = EndsIn(q) \cup EndsIn(e)
      /\ OncePerEnd(q) /\ OncePerEnd(e) /\ EndsIn(q) \cap EndsIn(e) = {} => OncePerEnd(q \o e)
  BY <1>1, MoreAsks
<1>5. AskedOf(q) \cup {} = AskedOf(q) /\ EndsIn(q) \cup {} = EndsIn(q) /\ EndsIn(q) \cap {} = {}
  OBVIOUS
<1> QED
  BY <1>2, <1>3, <1>4, <1>5

\* A set in order.
LEMMA InOrder ==
  ASSUME NEW S, IsFiniteSet(S)
  PROVE  SetToSeq(S) \in Seq(S)
<1> DEFINE n == Cardinality(S)
<1>1. n \in Nat /\ ExistsBijection(1 .. n, S)
  BY FS_CardinalityType
<1>2. PICK f \in Bijection(1 .. n, S) : TRUE
  BY <1>1, Fun_IsBij DEF ExistsBijection
<1>3. f \in [1 .. n -> S] /\ IsInjective(f)
  BY DEF Bijection, Injection, IsInjective
<1>4. SetToSeq(S) \in [1 .. n -> S]
  BY <1>3 DEF SetToSeq
<1> QED
  BY <1>1, <1>4

\* Jobs that load.
LEMMA LoadsAsk ==
  ASSUME NEW L \in SUBSET [do : {"load"}, pid : Pids, resume : BOOLEAN], IsFiniteSet(L)
  PROVE  /\ SetToSeq(L) \in Seq(FridaJobs) /\ AskedOf(SetToSeq(L)) = {}
         /\ EndsIn(SetToSeq(L)) = {} /\ OncePerEnd(SetToSeq(L))
<1> DEFINE q == SetToSeq(L)
<1>1. q \in Seq(L)
  BY InOrder
<1> HIDE DEF q
<1>2. q \in Seq(FridaJobs)
  BY <1>1 DEF FridaJobs
<1>3. \A i \in DOMAIN q : q[i].do = "load"
  BY <1>1
<1>4. AskedOf(q) = {} /\ EndsIn(q) = {} /\ OncePerEnd(q)
  BY <1>3 DEF AskedOf, EndsIn, OncePerEnd
<1> QED
  BY <1>2, <1>4 DEF q

LEMMA LoadsFinite ==
  ASSUME NEW T, IsFiniteSet(T), NEW f \in [T -> Pids], NEW L,
         \A x \in T : Load(f[x], FALSE) \in L, \A y \in L : \E x \in T : y = Load(f[x], FALSE)
  PROVE  L \in SUBSET [do : {"load"}, pid : Pids, resume : BOOLEAN] /\ IsFiniteSet(L)
<1> DEFINE g == [x \in T |-> Load(f[x], FALSE)]
<1>1. g \in [T -> L] /\ \A y \in L : \E x \in T : g[x] = y
  OBVIOUS
<1>2. g \in Surjection(T, L)
  BY <1>1, Fun_IsSurj
<1>3. IsFiniteSet(L)
  BY <1>2, FS_Surjection
<1>4. ASSUME NEW y \in L PROVE y \in [do : {"load"}, pid : Pids, resume : BOOLEAN]
  <2>1. PICK x \in T : y = Load(f[x], FALSE)
    OBVIOUS
  <2>2. f[x] \in Pids
    OBVIOUS
  <2> QED
    BY <2>1, <2>2 DEF Load
<1> QED
  BY <1>3, <1>4

LEMMA LoadIsJob ==
  ASSUME NEW p \in Pids, NEW resume \in BOOLEAN
  PROVE  Load(p, resume) \in FridaJobs /\ Load(p, resume).do = "load"
  BY DEF Load, FridaJobs

LEMMA FridaStarts ==
  ASSUME FridaInit
  PROVE  FridaInv
<1>1. PICK targets \in SUBSET Pids :
        /\ proc = [p \in Pids |-> IF p \in targets THEN "running" ELSE "none"]
        /\ jobs = SetToSeq({Load(p, FALSE) : p \in targets})
  BY DEF FridaInit
<1> DEFINE f == [p \in targets |-> p]
           L == {Load(p, FALSE) : p \in targets}
<1>2. IsFiniteSet(targets)
  BY FS_Subset, FridaAssumption DEF FridaAssumption
<1>3. L \in SUBSET [do : {"load"}, pid : Pids, resume : BOOLEAN] /\ IsFiniteSet(L)
  <2>1. /\ f \in [targets -> Pids] /\ \A x \in targets : Load(f[x], FALSE) \in L
        /\ \A y \in L : \E x \in targets : y = Load(f[x], FALSE)
    OBVIOUS
  <2> HIDE DEF f, L
  <2> QED
    BY <1>2, <2>1, LoadsFinite
<1>4. /\ jobs \in Seq(FridaJobs) /\ AskedOf(jobs) = {} /\ EndsIn(jobs) = {} /\ OncePerEnd(jobs)
  BY <1>1, <1>3, LoadsAsk
<1>5. /\ spawns = 0 /\ stopping = "no" /\ loader = NoLoad
      /\ sess = <<>> /\ registry = [p \in Pids |-> 0] /\ ending = {} /\ lost = {} /\ stranded = {}
      /\ version = 1 /\ cached = 1 /\ unseen = FALSE /\ change = 0
  BY DEF FridaInit
<1>6. Len(sess) = 0 /\ DOMAIN sess = {} /\ sess \in Seq(FridaSessions)
  BY <1>5
<1>7. loader \in Loaders /\ loader.at = "idle"
  BY <1>5 DEF Loaders, NoLoad
<1>8. FridaTypes
  <2>1. version \in 1 .. MaxWrites + 1 /\ spawns \in 0 .. MaxSpawns /\ cached \in 0 .. version
    BY <1>5, FridaAssumption DEF FridaAssumption
  <2>2. registry \in [Pids -> 0 .. Len(sess)]
    BY <1>5, <1>6
  <2> QED
    BY <1>1, <1>4, <1>5, <1>6, <1>7, <2>1, <2>2 DEF FridaTypes
<1>9. LoaderOK
  BY <1>5, <1>7 DEF LoaderOK
<1> QED
  BY <1>4, <1>6, <1>8, <1>9 DEF FridaInv

\* Sessions end.
LEMMA DetachesKeeps ==
  ASSUME FridaInv, NEW ids \in SUBSET DOMAIN sess, \A s \in ids : Attached(s), Detaches(ids),
         proc' \in [Pids -> {"none", "suspended", "running"}],
         UNCHANGED <<spawns, jobs, stopping, loader, registry, lost, stranded, scriptVars>>
  PROVE  FridaInv'
<1>1. UNCHANGED <<version, cached, unseen, change>>
  BY DEF scriptVars
<1>2. FridaTypes /\ OncePerEnd(jobs) /\ LoaderOK /\ \A s \in DOMAIN sess : SessionOK(s)
  BY DEF FridaInv
<1>3. sess \in Seq(FridaSessions) /\ DOMAIN sess = 1 .. Len(sess) /\ Len(sess) \in Nat
  BY <1>2 DEF FridaTypes
<1>4. /\ sess' = [s \in DOMAIN sess |-> IF s \in ids THEN [sess[s] EXCEPT !.detached = TRUE]
                                         ELSE sess[s]]
      /\ ending' = ending \cup {s \in ids : sess[s].watched}
  BY DEF Detaches
<1>5. \A s \in DOMAIN sess : /\ sess'[s] \in FridaSessions
                             /\ sess'[s].pid = sess[s].pid /\ sess'[s].scripts = sess[s].scripts
                             /\ sess'[s].told = sess[s].told
                             /\ sess'[s].detached = (sess[s].detached \/ s \in ids)
  <2> SUFFICES ASSUME NEW s \in DOMAIN sess
               PROVE  /\ sess'[s] \in FridaSessions
                      /\ sess'[s].pid = sess[s].pid /\ sess'[s].scripts = sess[s].scripts
                      /\ sess'[s].told = sess[s].told
                      /\ sess'[s].detached = (sess[s].detached \/ s \in ids)
    OBVIOUS
  <2>1. sess[s] \in FridaSessions
    BY <1>3
  <2>2. sess'[s] = IF s \in ids THEN [sess[s] EXCEPT !.detached = TRUE] ELSE sess[s]
    BY <1>4
  <2> QED
    BY <2>1, <2>2 DEF FridaSessions
<1>6. sess' \in Seq(FridaSessions) /\ Len(sess') = Len(sess) /\ DOMAIN sess' = DOMAIN sess
  <2>1. DOMAIN sess' = 1 .. Len(sess)
    BY <1>3, <1>4
  <2>2. sess' \in [1 .. Len(sess) -> FridaSessions]
    BY <1>3, <1>4, <1>5
  <2>3. sess' \in Seq(FridaSessions) /\ Len(sess') = Len(sess)
    BY <1>3, <2>1, <2>2
  <2> QED
    BY <1>3, <2>1, <2>3
<1>7. ending' \subseteq DOMAIN sess'
  BY <1>2, <1>4, <1>6 DEF FridaTypes
<1>8. FridaTypes'
  BY <1>1, <1>2, <1>6, <1>7 DEF FridaTypes
<1>9. LoaderOK'
  <2>1. loader.at = "create" => loader.session \in DOMAIN sess
    BY <1>2 DEF FridaTypes
  <2>2. loader.at = "create" => sess'[loader.session].scripts = <<>>
    BY <1>2, <1>5, <2>1 DEF LoaderOK
  <2> QED
    BY <1>2, <1>5, <1>6, <2>2 DEF LoaderOK, Attached
<1>10. ASSUME NEW s \in DOMAIN sess PROVE SessionOK(s)'
  <2>1. SessionOK(s)
    BY <1>2
  <2>2. s \in ending' <=> s \in ending \/ (s \in ids /\ sess[s].watched)
    BY <1>4
  <2> QED
    BY <1>5, <2>1, <2>2 DEF SessionOK, Attached
<1> QED
  BY <1>2, <1>6, <1>8, <1>9, <1>10 DEF FridaInv

LEMMA SessionFacts ==
  ASSUME FridaTypes
  PROVE  /\ Len(sess) \in Nat /\ DOMAIN sess = 1 .. Len(sess)
         /\ \A t \in DOMAIN sess :
              sess[t] \in FridaSessions /\ sess[t].pid \in Pids /\ t \in 1 .. Len(sess)
              /\ t \in Nat /\ t # 0
<1>1. sess \in Seq(FridaSessions)
  BY DEF FridaTypes
<1>2. /\ Len(sess) \in Nat /\ DOMAIN sess = 1 .. Len(sess)
      /\ \A t \in DOMAIN sess : sess[t] \in FridaSessions
  BY <1>1
<1>3. \A r \in FridaSessions : r.pid \in Pids
  BY DEF FridaSessions
<1> QED
  BY <1>2, <1>3

\* Nothing of the sessions changes, and no job that tells of an end comes or goes.
LEMMA QuietKeeps ==
  ASSUME FridaInv, UNCHANGED <<sess, registry, ending, lost, stranded, loader>>,
         proc' \in [Pids -> {"none", "suspended", "running"}], spawns' \in 0 .. MaxSpawns,
         stopping' \in {"no", "asked"} \/ stopping' = stopping,
         jobs' \in Seq(FridaJobs), AskedOf(jobs') \subseteq AskedOf(jobs),
         EndsIn(jobs') = EndsIn(jobs), OncePerEnd(jobs'),
         version' \in 1 .. MaxWrites + 1, cached' \in 0 .. version', unseen' \in BOOLEAN,
         change' \in Nat
  PROVE  FridaInv'
<1>1. FridaTypes /\ LoaderOK /\ \A s \in DOMAIN sess : SessionOK(s)
  BY DEF FridaInv
<1>2. FridaTypes'
  BY <1>1 DEF FridaTypes
<1>3. LoaderOK'
  BY <1>1 DEF LoaderOK, Attached
<1>4. \A s \in DOMAIN sess : SessionOK(s)'
  BY <1>1 DEF SessionOK, Attached
<1> QED
  BY <1>2, <1>3, <1>4 DEF FridaInv

LEMMA FileChangeKeeps ==
  ASSUME FridaInv, NEW i \in DOMAIN jobs, FileChange(i)
  PROVE  FridaInv' /\ EndsIn(jobs') = EndsIn(jobs)
<1>1. FridaTypes /\ OncePerEnd(jobs)
  BY DEF FridaInv
<1>2. /\ proc \in [Pids -> {"none", "suspended", "running"}] /\ spawns \in 0 .. MaxSpawns
      /\ jobs \in Seq(FridaJobs) /\ sess \in Seq(FridaSessions)
      /\ version \in 1 .. MaxWrites + 1 /\ cached \in 0 .. version /\ unseen \in BOOLEAN
      /\ change \in Nat
  BY <1>1 DEF FridaTypes
<1> DEFINE q == RemoveAt(jobs, i)
           L == {Load(sess[s].pid, FALSE) : s \in Registered}
           e == IF jobs[i].id = change THEN SetToSeq(L) ELSE <<>>
<1>3. /\ jobs[i].do = "change" /\ jobs' = q \o e
      /\ UNCHANGED <<proc, spawns, stopping, loader, sess, registry, ending, lost, stranded,
                     version, cached, unseen, change>>
  BY DEF FileChange, Rest, sessVars, procVars, scriptVars
<1>4. /\ q \in Seq(FridaJobs) /\ AskedOf(q) \subseteq AskedOf(jobs)
      /\ EndsIn(q) = EndsIn(jobs) /\ OncePerEnd(q)
  BY <1>1, <1>2, <1>3, TakenAsks
<1>5. L \in SUBSET [do : {"load"}, pid : Pids, resume : BOOLEAN] /\ IsFiniteSet(L)
  <2> DEFINE f == [s \in Registered |-> sess[s].pid]
  <2>1. Registered \in SUBSET (1 .. Len(sess)) /\ 1 \in Int /\ Len(sess) \in Int
    BY <1>1, SessionFacts DEF Registered
  <2>2. IsFiniteSet(Registered)
    <3>1. IsFiniteSet(1 .. Len(sess))
      BY <2>1, FS_Interval
    <3> QED
      BY <2>1, <3>1, FS_Subset
  <2>3. \A s \in 1 .. Len(sess) : sess[s].pid \in Pids
    BY <1>1, SessionFacts
  <2>4. /\ f \in [Registered -> Pids] /\ \A s \in Registered : Load(f[s], FALSE) \in L
        /\ \A y \in L : \E s \in Registered : y = Load(f[s], FALSE)
    BY <2>1, <2>3
  <2> HIDE DEF f, L
  <2> QED
    BY <2>2, <2>4, LoadsFinite
<1> HIDE DEF L
<1>6. e \in Seq(FridaJobs) /\ AskedOf(e) = {} /\ EndsIn(e) = {} /\ OncePerEnd(e)
  <2>1. CASE jobs[i].id = change
    BY <1>5, <2>1, LoadsAsk
  <2>2. CASE jobs[i].id # change
    <3>1. e = <<>> /\ e \in Seq(FridaJobs) /\ DOMAIN e = {}
      BY <2>2
    <3> QED
      BY <3>1 DEF AskedOf, EndsIn, OncePerEnd
  <2> QED
    BY <2>1, <2>2
<1> HIDE DEF q, e
<1>7. /\ jobs' \in Seq(FridaJobs) /\ AskedOf(jobs') = AskedOf(q) \cup AskedOf(e)
      /\ EndsIn(jobs') = EndsIn(q) \cup EndsIn(e)
      /\ OncePerEnd(q) /\ OncePerEnd(e) /\ EndsIn(q) \cap EndsIn(e) = {} => OncePerEnd(jobs')
  BY <1>3, <1>4, <1>6, MoreAsks
<1>8. /\ AskedOf(jobs') \subseteq AskedOf(jobs) /\ EndsIn(jobs') = EndsIn(jobs)
      /\ OncePerEnd(jobs')
  <2>1. EndsIn(q) \cap EndsIn(e) = {}
    BY <1>6
  <2> QED
    BY <1>4, <1>6, <1>7, <2>1
<1> QED
  BY <1>2, <1>3, <1>7, <1>8, QuietKeeps

LEMMA NoSessionKeeps ==
  ASSUME FridaInv,
         \/ \E p \in Pids : SpawnAdded(p)
         \/ FileWritten \/ ChangeSeen \/ StopAsked
         \/ \E i \in DOMAIN jobs : FileChange(i)
         \/ UNCHANGED fridaVars
  PROVE  FridaInv'
<1>1. FridaTypes /\ OncePerEnd(jobs)
  BY DEF FridaInv
<1>2. /\ proc \in [Pids -> {"none", "suspended", "running"}] /\ spawns \in 0 .. MaxSpawns
      /\ jobs \in Seq(FridaJobs) /\ sess \in Seq(FridaSessions)
      /\ version \in 1 .. MaxWrites + 1 /\ cached \in 0 .. version /\ unseen \in BOOLEAN
      /\ change \in Nat
  BY <1>1 DEF FridaTypes
<1>3. ASSUME NEW p \in Pids, SpawnAdded(p) PROVE FridaInv'
  <2>1. /\ proc' = [proc EXCEPT ![p] = "suspended"] /\ spawns' = spawns + 1 /\ spawns < MaxSpawns
        /\ jobs' = Append(jobs, Load(p, TRUE))
        /\ UNCHANGED <<stopping, loader, sess, registry, ending, lost, stranded, version, cached,
                       unseen, change>>
    BY <1>3 DEF SpawnAdded, Starts, sessVars, scriptVars
  <2>2. proc' \in [Pids -> {"none", "suspended", "running"}]
    BY <1>2, <2>1
  <2>3. spawns' \in 0 .. MaxSpawns
    BY <1>2, <2>1, FridaAssumption DEF FridaAssumption
  <2>4. /\ jobs' \in Seq(FridaJobs) /\ AskedOf(jobs') = AskedOf(jobs)
        /\ EndsIn(jobs') = EndsIn(jobs) /\ OncePerEnd(jobs')
    BY <1>1, <1>2, <2>1, LoadIsJob, OneMore
  <2> QED
    BY <1>2, <2>1, <2>2, <2>3, <2>4, QuietKeeps
<1>4. CASE FileWritten
  <2>1. /\ version' = version + 1 /\ version <= MaxWrites /\ unseen' = TRUE
        /\ UNCHANGED <<proc, spawns, jobs, stopping, loader, sess, registry, ending, lost, stranded,
                       cached, change>>
    BY <1>4 DEF FileWritten, sessVars, procVars
  <2>2. version' \in 1 .. MaxWrites + 1 /\ cached' \in 0 .. version'
    BY <1>2, <2>1, FridaAssumption DEF FridaAssumption
  <2> QED
    BY <1>1, <1>2, <2>1, <2>2, QuietKeeps
<1>5. CASE ChangeSeen
  <2>1. /\ unseen' = FALSE /\ cached' = 0 /\ change' = change + 1
        /\ jobs' = Append(jobs, [do |-> "change", id |-> change'])
        /\ UNCHANGED <<proc, spawns, stopping, loader, sess, registry, ending, lost, stranded,
                       version>>
    BY <1>5 DEF ChangeSeen, sessVars, procVars
  <2>2. cached' \in 0 .. version' /\ change' \in Nat
    BY <1>2, <2>1, FridaAssumption DEF FridaAssumption
  <2>3. [do |-> "change", id |-> change'] \in FridaJobs
    BY <2>2 DEF FridaJobs
  <2>4. /\ jobs' \in Seq(FridaJobs) /\ AskedOf(jobs') = AskedOf(jobs)
        /\ EndsIn(jobs') = EndsIn(jobs) /\ OncePerEnd(jobs')
    BY <1>1, <1>2, <2>1, <2>3, OneMore
  <2> QED
    BY <1>2, <2>1, <2>2, <2>4, QuietKeeps
<1>6. CASE StopAsked
  <2>1. /\ stopping' = "asked" /\ jobs' = Append(jobs, [do |-> "stop"])
        /\ UNCHANGED <<proc, spawns, loader, sess, registry, ending, lost, stranded, version,
                       cached,
                       unseen, change>>
    BY <1>6 DEF StopAsked, sessVars, procVars, scriptVars
  <2>2. [do |-> "stop"] \in FridaJobs
    BY DEF FridaJobs
  <2>3. /\ jobs' \in Seq(FridaJobs) /\ AskedOf(jobs') = AskedOf(jobs)
        /\ EndsIn(jobs') = EndsIn(jobs) /\ OncePerEnd(jobs')
    BY <1>1, <1>2, <2>1, <2>2, OneMore
  <2> QED
    BY <1>2, <2>1, <2>3, QuietKeeps
<1>7. ASSUME NEW i \in DOMAIN jobs, FileChange(i) PROVE FridaInv'
  BY <1>7, FileChangeKeeps
<1>8. CASE UNCHANGED fridaVars
  BY <1>1, <1>2, <1>8, QuietKeeps DEF fridaVars, procVars, sessVars, scriptVars
<1> QED
  BY <1>3, <1>4, <1>5, <1>6, <1>7, <1>8

\* The callback of a session that ended: its end is told of once from then on, and who has the
\* pid by now is lost.
LEMMA CallbackKeeps ==
  ASSUME FridaInv, NEW s \in DOMAIN sess, DetachedCallback(s)
  PROVE  FridaInv' /\ EndsIn(jobs') = EndsIn(jobs) \cup {s}
<1> DEFINE p == sess[s].pid
           e == <<[do |-> "cancel", session |-> s], [do |-> "detached", session |-> s]>>
<1>1. FridaTypes /\ OncePerEnd(jobs) /\ LoaderOK /\ \A t \in DOMAIN sess : SessionOK(t)
  BY DEF FridaInv
<1>2. /\ s \in ending /\ ending' = ending \ {s} /\ registry' = [registry EXCEPT ![p] = 0]
      /\ lost' = IF registry[p] \notin {0, s} THEN lost \cup {registry[p]} ELSE lost
      /\ jobs' = jobs \o e
      /\ UNCHANGED <<proc, spawns, deaths, stopping, loader, sess, stranded, version, cached,
                     unseen,
                     change>>
  BY DEF DetachedCallback, procVars, scriptVars
<1>3. /\ s \in Nat /\ DOMAIN sess = 1 .. Len(sess)
      /\ \A t \in DOMAIN sess : sess[t].pid \in Pids /\ t \in 1 .. Len(sess) /\ t # 0
  BY <1>1, SessionFacts
<1>4. /\ e \in Seq(FridaJobs) /\ DOMAIN e = 1 .. 2
      /\ e[1] = [do |-> "cancel", session |-> s] /\ e[2] = [do |-> "detached", session |-> s]
  <2>1. /\ [do |-> "cancel", session |-> s] \in FridaJobs
        /\ [do |-> "detached", session |-> s] \in FridaJobs
    BY <1>3 DEF FridaJobs
  <2> QED
    BY <2>1
<1> HIDE DEF e
<1>5. AskedOf(e) = {s} /\ EndsIn(e) = {s} /\ OncePerEnd(e)
  <2>1. \A i \in DOMAIN e : i = 1 \/ i = 2
    BY <1>4
  <2>2. 1 \in DOMAIN e /\ 2 \in DOMAIN e
    BY <1>4
  <2> QED
    BY <1>4, <2>1, <2>2 DEF AskedOf, EndsIn, OncePerEnd
<1>6. /\ jobs' \in Seq(FridaJobs) /\ AskedOf(jobs') = AskedOf(jobs) \cup {s}
      /\ EndsIn(jobs') = EndsIn(jobs) \cup {s}
      /\ OncePerEnd(jobs) /\ OncePerEnd(e) /\ EndsIn(jobs) \cap {s} = {} => OncePerEnd(jobs')
  <2>1. jobs \in Seq(FridaJobs)
    BY <1>1 DEF FridaTypes
  <2> QED
    BY <1>2, <1>4, <1>5, <2>1, MoreAsks
<1>7. s \notin EndsIn(jobs) /\ sess[s].told = 0 /\ ~ Attached(s)
  BY <1>1, <1>2 DEF SessionOK
<1>8. OncePerEnd(jobs')
  BY <1>1, <1>5, <1>6, <1>7
<1>9. /\ registry' \in [Pids -> 0 .. Len(sess)] /\ registry'[p] = 0
      /\ \A r \in Pids : r # p => registry'[r] = registry[r]
  <2>1. registry \in [Pids -> 0 .. Len(sess)] /\ p \in Pids /\ 0 \in 0 .. Len(sess)
    BY <1>1, <1>3 DEF FridaTypes
  <2> QED
    BY <1>2, <2>1
<1>10. /\ lost' \subseteq DOMAIN sess /\ lost \subseteq lost'
       /\ registry[p] \notin {0, s} => registry[p] \in lost'
  <2>1. registry[p] \in 0 .. Len(sess) /\ DOMAIN sess = 1 .. Len(sess) /\ lost \subseteq DOMAIN sess
    BY <1>1, <1>3 DEF FridaTypes
  <2> QED
    BY <1>2, <2>1
<1>11. FridaTypes'
  <2>1. ending' \subseteq DOMAIN sess /\ AskedOf(jobs') \subseteq DOMAIN sess
    BY <1>1, <1>2, <1>6 DEF FridaTypes
  <2> QED
    BY <1>1, <1>2, <1>6, <1>9, <1>10, <2>1 DEF FridaTypes
<1>12. LoaderOK'
  <2>1. loader.at = "attach" => loader.pid \in Pids
    BY <1>1 DEF FridaTypes, Loaders
  <2> QED
    BY <1>1, <1>2, <1>9, <1>10, <2>1 DEF LoaderOK, Attached
<1>13. ASSUME NEW t \in DOMAIN sess PROVE SessionOK(t)'
  <2>1. SessionOK(t) /\ sess[t].pid \in Pids /\ t # 0
    BY <1>1, <1>3
  <2>2. Attached(t)' <=> Attached(t)
    BY <1>2 DEF Attached
  <2>3. Attached(t) /\ t \notin lost' => registry'[sess[t].pid] = t
    <3>1. CASE sess[t].pid = p
      BY <1>7, <1>10, <2>1, <3>1 DEF SessionOK
    <3>2. CASE sess[t].pid # p
      BY <1>9, <1>10, <2>1, <3>2 DEF SessionOK
    <3> QED
      BY <3>1, <3>2
  <2> QED
    BY <1>2, <1>6, <1>7, <2>1, <2>2, <2>3 DEF SessionOK
<1> QED
  BY <1>2, <1>6, <1>8, <1>11, <1>12, <1>13 DEF FridaInv

\* One session changes.
LEMMA OneSession ==
  ASSUME FridaTypes, NEW s \in DOMAIN sess, NEW v \in FridaSessions, sess' = [sess EXCEPT ![s] = v]
  PROVE  /\ sess' \in Seq(FridaSessions) /\ Len(sess') = Len(sess) /\ DOMAIN sess' = DOMAIN sess
         /\ sess'[s] = v /\ \A t \in DOMAIN sess \ {s} : sess'[t] = sess[t]
<1>1. sess \in Seq(FridaSessions)
  BY DEF FridaTypes
<1> QED
  BY <1>1

\* A load begins.
LEMMA LoadBeginsKeeps ==
  ASSUME FridaInv, NEW i \in DOMAIN jobs, LoadBegins(i)
  PROVE  FridaInv' /\ EndsIn(jobs') = EndsIn(jobs)
<1> DEFINE p == jobs[i].pid
           s == registry[p]
           known == s # 0 /\ Attached(s)
<1>1. FridaTypes /\ OncePerEnd(jobs) /\ LoaderOK /\ \A t \in DOMAIN sess : SessionOK(t)
  BY DEF FridaInv
<1>2. /\ loader = NoLoad /\ stopping # "done" /\ jobs[i].do = "load" /\ jobs' = RemoveAt(jobs, i)
      /\ registry' = (IF known THEN registry ELSE [registry EXCEPT ![p] = 0])
      /\ loader' = (IF known THEN [at |-> "unload", session |-> s, resume |-> jobs[i].resume]
                    ELSE IF Lives(p) THEN [at |-> "attach", pid |-> p, resume |-> jobs[i].resume]
                    ELSE NoLoad)
      /\ UNCHANGED <<proc, spawns, deaths, stopping, sess, ending, lost, stranded, version, cached,
                     unseen, change>>
  BY DEF LoadBegins, Due, Rest, procVars, scriptVars
<1>3. p \in Pids /\ jobs[i].resume \in BOOLEAN
  <2>1. jobs[i] \in FridaJobs
    BY <1>1 DEF FridaTypes
  <2> QED
    BY <1>2, <2>1 DEF FridaJobs
<1>4. /\ jobs' \in Seq(FridaJobs) /\ AskedOf(jobs') \subseteq AskedOf(jobs)
      /\ EndsIn(jobs') = EndsIn(jobs) /\ OncePerEnd(jobs')
  <2>1. jobs \in Seq(FridaJobs)
    BY <1>1 DEF FridaTypes
  <2> QED
    BY <1>1, <1>2, <2>1, TakenAsks
<1>5. s \in 0 .. Len(sess) /\ Len(sess) \in Nat /\ DOMAIN sess = 1 .. Len(sess)
      /\ registry \in [Pids -> 0 .. Len(sess)]
  BY <1>1, <1>3, SessionFacts DEF FridaTypes
<1>6. /\ registry' \in [Pids -> 0 .. Len(sess)] /\ (~ known => registry'[p] = 0)
      /\ (known => registry' = registry)
      /\ \A r \in Pids : r # p => registry'[r] = registry[r]
  BY <1>2, <1>3, <1>5
<1>7. /\ loader' \in Loaders /\ loader'.at \in {"unload", "attach", "idle"}
      /\ loader'.at = "unload" => loader'.session \in DOMAIN sess
      /\ loader'.at = "attach" => loader'.pid = p /\ ~ known
  <2>1. CASE known
    <3>1. s \in Nat /\ s \in DOMAIN sess
      BY <1>5, <2>1
    <3> HIDE DEF s, p, known
    <3>2. loader' = [at |-> "unload", session |-> s, resume |-> jobs[i].resume]
      BY <1>2, <2>1
    <3> QED
      BY <1>3, <3>1, <3>2 DEF Loaders
  <2>2. CASE ~ known
    <3> HIDE DEF s, p, known
    <3>1. \/ loader' = [at |-> "attach", pid |-> p, resume |-> jobs[i].resume]
          \/ loader' = NoLoad
      BY <1>2, <2>2
    <3> QED
      BY <1>3, <2>2, <3>1 DEF Loaders, NoLoad
  <2> QED
    BY <2>1, <2>2
<1> HIDE DEF s, p, known
<1>8. FridaTypes'
  BY <1>1, <1>2, <1>4, <1>6, <1>7 DEF FridaTypes
<1>9. LoaderOK'
  BY <1>2, <1>6, <1>7 DEF LoaderOK
<1>10. ASSUME NEW t \in DOMAIN sess PROVE SessionOK(t)'
  <2>1. SessionOK(t) /\ sess[t].pid \in Pids /\ t # 0
    BY <1>1, SessionFacts
  <2>2. Attached(t)' <=> Attached(t)
    BY <1>2 DEF Attached
  <2>3. Attached(t) /\ t \notin lost => registry'[sess[t].pid] = t
    <3>1. CASE sess[t].pid = p
      BY <1>6, <2>1, <3>1 DEF SessionOK, known, s
    <3>2. CASE sess[t].pid # p
      BY <1>6, <2>1, <3>2 DEF SessionOK
    <3> QED
      BY <3>1, <3>2
  <2> QED
    BY <1>2, <1>4, <2>1, <2>2, <2>3 DEF SessionOK
<1> QED
  BY <1>2, <1>4, <1>8, <1>9, <1>10 DEF FridaInv

\* It attaches: the new session is its pid's, and any other is lost or ended.
LEMMA AttachKeeps ==
  ASSUME FridaInv, Attach
  PROVE  FridaInv'
<1> DEFINE p == loader.pid
           n == Len(sess) + 1
           v == [pid |-> p, detached |-> FALSE, watched |-> FALSE, scripts |-> <<>>, told |-> 0]
<1>1. FridaTypes /\ OncePerEnd(jobs) /\ LoaderOK /\ \A t \in DOMAIN sess : SessionOK(t)
  BY DEF FridaInv
<1>2. /\ loader.at = "attach" /\ stopping # "done"
      /\ UNCHANGED <<proc, spawns, deaths, jobs, stopping, ending, lost, stranded, version, cached,
                     unseen, change>>
  BY <1>1 DEF Attach, procVars, scriptVars, LoaderOK, NoLoad
<1>3. p \in Pids /\ loader.resume \in BOOLEAN /\ registry[p] = 0
  BY <1>1, <1>2 DEF FridaTypes, Loaders, LoaderOK
<1>4. CASE Lives(p)
  <2>1. /\ sess' = Append(sess, v) /\ registry' = [registry EXCEPT ![p] = Len(sess')]
        /\ loader' = [at |-> "watch", session |-> Len(sess'), resume |-> loader.resume]
    BY <1>4 DEF Attach
  <2>2. v \in FridaSessions /\ v.told = 0 /\ v.scripts = <<>> /\ v.pid = p
    BY <1>3 DEF FridaSessions
  <2>3. Len(sess) \in Nat /\ DOMAIN sess = 1 .. Len(sess) /\ sess \in Seq(FridaSessions)
    BY <1>1, SessionFacts DEF FridaTypes
  <2> HIDE DEF v
  <2>4. /\ sess' \in Seq(FridaSessions) /\ Len(sess') = n /\ DOMAIN sess' = 1 .. n
        /\ sess'[n] = v /\ \A t \in DOMAIN sess : sess'[t] = sess[t]
    BY <2>1, <2>2, <2>3
  <2>5. n \in DOMAIN sess' /\ n \notin DOMAIN sess /\ n # 0 /\ n \in Nat
        /\ DOMAIN sess \subseteq DOMAIN sess'
        /\ (\A t \in DOMAIN sess' : t = n \/ t \in DOMAIN sess) /\ 0 .. Len(sess) \subseteq 0 .. n
    BY <2>3, <2>4
  <2> HIDE DEF n, p
  <2>6. registry' \in [Pids -> 0 .. Len(sess')] /\ registry'[p] = n
        /\ \A r \in Pids : r # p => registry'[r] = registry[r]
    <3>1. registry \in [Pids -> 0 .. n] /\ n \in 0 .. n
      <4>1. registry \in [Pids -> 0 .. Len(sess)]
        BY <1>1 DEF FridaTypes
      <4> QED
        BY <2>5, <4>1
    <3> QED
      BY <1>3, <2>1, <2>4, <3>1
  <2>7. loader' \in Loaders /\ loader'.at = "watch" /\ loader'.session = n
    BY <1>3, <2>1, <2>4, <2>5 DEF Loaders
  <2>8. FridaTypes'
    <3>1. AskedOf(jobs') \subseteq DOMAIN sess' /\ ending' \subseteq DOMAIN sess'
          /\ lost' \subseteq DOMAIN sess'
      BY <1>1, <1>2, <2>5 DEF FridaTypes
    <3> QED
      BY <1>1, <1>2, <2>4, <2>5, <2>6, <2>7, <3>1 DEF FridaTypes
  <2>9. LoaderOK'
    BY <1>2, <2>7 DEF LoaderOK
  <2>10. ASSUME NEW t \in DOMAIN sess PROVE SessionOK(t)'
    <3>1. SessionOK(t) /\ sess[t].pid \in Pids /\ t # 0 /\ sess'[t] = sess[t]
      BY <1>1, <2>4, SessionFacts
    <3>2. Attached(t)' <=> Attached(t)
      BY <3>1 DEF Attached
    <3>3. Attached(t) /\ t \notin lost => registry'[sess[t].pid] = t
      <4>1. CASE sess[t].pid = p
        BY <1>3, <3>1, <4>1 DEF SessionOK
      <4>2. CASE sess[t].pid # p
        BY <2>6, <3>1, <4>2 DEF SessionOK
      <4> QED
        BY <4>1, <4>2
    <3> QED
      BY <1>2, <3>1, <3>2, <3>3 DEF SessionOK
  <2>11. ASSUME NEW t \in DOMAIN sess', t = n PROVE SessionOK(t)'
    <3>1. t \notin ending /\ t \notin EndsIn(jobs)
      <4>1. ending \subseteq DOMAIN sess /\ EndsIn(jobs) \subseteq AskedOf(jobs)
            /\ AskedOf(jobs) \subseteq DOMAIN sess
        BY <1>1 DEF FridaTypes, EndsIn, AskedOf
      <4> QED
        BY <2>5, <2>11, <4>1
    <3>2. sess'[t].pid = p /\ registry'[sess'[t].pid] = t /\ sess'[t].told = 0
          /\ sess'[t].scripts = <<>> /\ Len(sess'[t].scripts) = 0
      BY <2>2, <2>4, <2>6, <2>11
    <3> QED
      BY <1>2, <3>1, <3>2 DEF SessionOK
  <2> QED
    BY <1>1, <1>2, <2>5, <2>8, <2>9, <2>10, <2>11 DEF FridaInv
<1>5. CASE ~ Lives(p)
  <2>1. loader' = NoLoad /\ UNCHANGED <<sess, registry>>
    BY <1>5 DEF Attach
  <2>2. loader' \in Loaders /\ loader'.at = "idle"
    BY <2>1 DEF Loaders, NoLoad
  <2>3. FridaTypes' /\ LoaderOK'
    BY <1>1, <1>2, <2>1, <2>2 DEF FridaTypes, LoaderOK
  <2>4. \A t \in DOMAIN sess : SessionOK(t)'
    BY <1>1, <1>2, <2>1 DEF SessionOK, Attached
  <2> QED
    BY <1>1, <1>2, <2>1, <2>3, <2>4 DEF FridaInv
<1> QED
  BY <1>4, <1>5

LEMMA NoScripts == <<>> \in Seq(Nat) /\ Len(<<>>) = 0
  BY EmptySeq

\* A session is the one before in all that the invariant asks of it, but its scripts.
LEMMA ScriptsKeep ==
  ASSUME FridaInv, NEW s \in DOMAIN sess, NEW v \in FridaSessions, sess' = [sess EXCEPT ![s] = v],
         v.pid = sess[s].pid, v.detached = sess[s].detached, v.told = sess[s].told,
         Len(v.scripts) <= 1,
         jobs' \in Seq(FridaJobs), AskedOf(jobs') \subseteq AskedOf(jobs),
         EndsIn(jobs') = EndsIn(jobs), OncePerEnd(jobs'),
         UNCHANGED <<spawns, stopping, registry, ending, lost, stranded, version, unseen, change>>,
         proc' \in [Pids -> {"none", "suspended", "running"}], cached' \in 0 .. version,
         loader' \in Loaders, loader'.at # "attach",
         loader'.at \in {"watch", "unload", "create"} => loader'.session \in DOMAIN sess,
         loader'.at = "create" => sess'[loader'.session].scripts = <<>>,
         stopping = "done" => loader' = NoLoad
  PROVE  FridaInv'
<1>1. FridaTypes /\ OncePerEnd(jobs) /\ LoaderOK /\ \A t \in DOMAIN sess : SessionOK(t)
  BY DEF FridaInv
<1>2. /\ sess' \in Seq(FridaSessions) /\ Len(sess') = Len(sess) /\ DOMAIN sess' = DOMAIN sess
      /\ sess'[s] = v /\ \A t \in DOMAIN sess \ {s} : sess'[t] = sess[t]
  BY <1>1, OneSession
<1>3. FridaTypes'
  BY <1>1, <1>2 DEF FridaTypes
<1>4. \A t \in DOMAIN sess : Attached(t)' <=> Attached(t)
  BY <1>2 DEF Attached
<1>5. LoaderOK'
  BY <1>1, <1>2, <1>4 DEF LoaderOK
<1>6. ASSUME NEW t \in DOMAIN sess PROVE SessionOK(t)'
  <2>1. SessionOK(t) /\ sess'[t].pid = sess[t].pid /\ sess'[t].told = sess[t].told
    BY <1>1, <1>2
  <2>2. Len(sess'[t].scripts) <= 1
    BY <1>1, <1>2 DEF SessionOK
  <2> QED
    BY <1>4, <2>1, <2>2 DEF SessionOK
<1> QED
  BY <1>2, <1>3, <1>5, <1>6 DEF FridaInv

LEMMA LoadGoesOn ==
  ASSUME FridaInv, Watch \/ Unload \/ Create
  PROVE  FridaInv'
<1> DEFINE s == loader.session
<1>1. FridaTypes /\ OncePerEnd(jobs) /\ LoaderOK /\ \A t \in DOMAIN sess : SessionOK(t)
  BY DEF FridaInv
<1>2. /\ loader.at \in {"watch", "unload", "create"} /\ stopping # "done"
      /\ UNCHANGED <<spawns, deaths, jobs, stopping, registry, ending, lost, version, unseen,
                     change>>
  BY <1>1 DEF Watch, Unload, Create, procVars, scriptVars, LoaderOK, NoLoad
<1>3. s \in DOMAIN sess /\ sess[s] \in FridaSessions /\ loader.resume \in BOOLEAN /\ s \in Nat
      /\ loader = [at |-> loader.at, session |-> s, resume |-> loader.resume]
  BY <1>1, <1>2, SessionFacts DEF FridaTypes, Loaders
<1>4. /\ jobs' \in Seq(FridaJobs) /\ AskedOf(jobs') \subseteq AskedOf(jobs)
      /\ EndsIn(jobs') = EndsIn(jobs) /\ OncePerEnd(jobs')
      /\ proc \in [Pids -> {"none", "suspended", "running"}]
      /\ cached \in 0 .. version /\ version \in 1 .. MaxWrites + 1
  BY <1>1, <1>2 DEF FridaTypes
<1>5. Len(sess[s].scripts) <= 1
  BY <1>1, <1>3 DEF SessionOK
<1>6. CASE Watch
  <2> DEFINE v == [sess[s] EXCEPT !.watched = TRUE]
  <2>1. /\ sess' = [sess EXCEPT ![s] = v] /\ loader' = [loader EXCEPT !.at = "unload"]
        /\ UNCHANGED <<proc, stranded, cached>>
    BY <1>3, <1>6 DEF Watch, procVars, scriptVars
  <2>2. /\ v \in FridaSessions /\ v.pid = sess[s].pid /\ v.detached = sess[s].detached
        /\ v.told = sess[s].told /\ v.scripts = sess[s].scripts
    BY <1>3 DEF FridaSessions
  <2>3. loader' \in Loaders /\ loader'.at = "unload" /\ loader'.session = s
    BY <1>3, <2>1 DEF Loaders
  <2> HIDE DEF v, s
  <2>4. loader'.session \in DOMAIN sess
    BY <1>3, <2>3
  <2>5. Len(v.scripts) <= 1
    BY <1>5, <2>2
  <2> QED
    BY <1>2, <1>3, <1>4, <2>1, <2>2, <2>3, <2>4, <2>5, ScriptsKeep
<1>7. CASE Unload
  <2> DEFINE v == [sess[s] EXCEPT !.scripts = <<>>]
  <2>1. /\ sess' = [sess EXCEPT ![s] = v] /\ loader' = [loader EXCEPT !.at = "create"]
        /\ UNCHANGED <<proc, stranded, cached>>
    BY <1>3, <1>7 DEF Unload, procVars, scriptVars
  <2>2. /\ v \in FridaSessions /\ v.pid = sess[s].pid /\ v.detached = sess[s].detached
        /\ v.told = sess[s].told /\ v.scripts = <<>> /\ Len(v.scripts) <= 1
    <3> DEFINE x == <<>>
    <3>1. x \in Seq(Nat) /\ Len(x) = 0 /\ v = [sess[s] EXCEPT !.scripts = x] /\ x = <<>>
      BY NoScripts
    <3> HIDE DEF x
    <3>2. /\ v \in FridaSessions /\ v.pid = sess[s].pid /\ v.detached = sess[s].detached
          /\ v.told = sess[s].told /\ v.scripts = x
      BY <1>3, <3>1 DEF FridaSessions
    <3> HIDE DEF v
    <3> QED
      BY <3>1, <3>2
  <2>3. loader' \in Loaders /\ loader'.at = "create" /\ loader'.session = s
    BY <1>3, <2>1 DEF Loaders
  <2> HIDE DEF v, s
  <2>4. loader'.session \in DOMAIN sess /\ sess'[loader'.session] = v
    BY <1>1, <1>3, <2>1, <2>2, <2>3, OneSession
  <2> QED
    BY <1>2, <1>3, <1>4, <2>1, <2>2, <2>3, <2>4, ScriptsKeep
<1>8. CASE Create
  <2>1. loader' = NoLoad /\ loader.at = "create" /\ loader' \in Loaders /\ loader'.at = "idle"
    BY <1>8 DEF Create, NoLoad, Loaders
  <2>2. sess[s].scripts = <<>>
    BY <1>1, <2>1 DEF LoaderOK
  <2>3. CASE ~ Attached(s) /\ UNCHANGED <<proc, sess, cached>>
    <3>1. stranded' \subseteq Pids
      BY <1>1, <1>3, <1>8, <2>3, SessionFacts DEF Create, FridaTypes
    <3>2. FridaTypes' /\ LoaderOK'
      BY <1>1, <1>2, <2>1, <2>3, <3>1 DEF FridaTypes, LoaderOK
    <3>3. \A t \in DOMAIN sess : SessionOK(t)'
      BY <1>1, <1>2, <2>3 DEF SessionOK, Attached
    <3> QED
      BY <1>2, <1>4, <2>3, <3>2, <3>3 DEF FridaInv
  <2>4. CASE /\ UNCHANGED stranded /\ cached' = (IF cached = 0 THEN version ELSE cached)
             /\ sess' = [sess EXCEPT ![s].scripts = Append(@, cached')]
             /\ proc' = Resumed(sess[s].pid)
    <3> DEFINE x == Append(<<>>, cached')
               v == [sess[s] EXCEPT !.scripts = x]
    <3>1. cached' \in 0 .. version /\ cached' \in Nat
      BY <1>4, <2>4, FridaAssumption DEF FridaAssumption
    <3>2. sess' = [sess EXCEPT ![s] = v]
      BY <1>3, <2>2, <2>4
    <3>3. /\ v \in FridaSessions /\ v.pid = sess[s].pid /\ v.detached = sess[s].detached
          /\ v.told = sess[s].told /\ Len(v.scripts) <= 1
      <4>1. x \in Seq(Nat) /\ Len(x) = 1
        BY <3>1, NoScripts
      <4> HIDE DEF x
      <4>2. /\ v \in FridaSessions /\ v.pid = sess[s].pid /\ v.detached = sess[s].detached
            /\ v.told = sess[s].told /\ v.scripts = x
        BY <1>3, <4>1 DEF FridaSessions
      <4> HIDE DEF v, s
      <4>3. Len(v.scripts) = 1
        BY <4>1, <4>2
      <4> QED
        BY <4>2, <4>3
    <3>4. proc' \in [Pids -> {"none", "suspended", "running"}]
      BY <1>4, <2>4 DEF Resumed
    <3> HIDE DEF v, s
    <3> QED
      BY <1>2, <1>3, <1>4, <2>1, <2>4, <3>1, <3>2, <3>3, <3>4, ScriptsKeep
  <2> QED
    BY <1>8, <2>3, <2>4 DEF Create
<1> QED
  BY <1>6, <1>7, <1>8

LEMMA CancelKeeps ==
  ASSUME FridaInv, NEW i \in DOMAIN jobs, Cancel(i)
  PROVE  FridaInv' /\ EndsIn(jobs') = EndsIn(jobs)
<1> DEFINE s == jobs[i].session
           v == [sess[s] EXCEPT !.watched = FALSE]
<1>1. FridaTypes /\ OncePerEnd(jobs) /\ LoaderOK /\ \A t \in DOMAIN sess : SessionOK(t)
  BY DEF FridaInv
<1>2. /\ loader = NoLoad /\ jobs[i].do = "cancel" /\ jobs' = RemoveAt(jobs, i)
      /\ sess' = [sess EXCEPT ![s].watched = FALSE]
      /\ UNCHANGED <<proc, spawns, deaths, stopping, loader, registry, ending, lost, stranded,
                     version, cached, unseen, change>>
  BY DEF Cancel, Due, Rest, procVars, scriptVars
<1>3. s \in DOMAIN sess /\ sess[s] \in FridaSessions
  <2>1. s \in AskedOf(jobs)
    BY <1>2 DEF AskedOf
  <2> QED
    BY <1>1, <2>1, SessionFacts DEF FridaTypes
<1>4. /\ jobs' \in Seq(FridaJobs) /\ AskedOf(jobs') \subseteq AskedOf(jobs)
      /\ EndsIn(jobs') = EndsIn(jobs) /\ OncePerEnd(jobs')
  <2>1. jobs \in Seq(FridaJobs)
    BY <1>1 DEF FridaTypes
  <2> QED
    BY <1>1, <1>2, <2>1, TakenAsks
<1>5. /\ v \in FridaSessions /\ v.pid = sess[s].pid /\ v.detached = sess[s].detached
      /\ v.told = sess[s].told /\ v.scripts = sess[s].scripts
  BY <1>3 DEF FridaSessions
<1>6. sess' = [sess EXCEPT ![s] = v] /\ loader.at = "idle" /\ loader \in Loaders
  BY <1>1, <1>2, <1>3 DEF NoLoad, FridaTypes
<1>7. Len(v.scripts) <= 1
  BY <1>1, <1>3, <1>5 DEF SessionOK
<1>8. proc \in [Pids -> {"none", "suspended", "running"}] /\ cached \in 0 .. version
  BY <1>1 DEF FridaTypes
<1> HIDE DEF v, s
<1> QED
  BY <1>2, <1>3, <1>4, <1>5, <1>6, <1>7, <1>8, ScriptsKeep

\* The end of a session is told.
LEMMA SessionDetachedKeeps ==
  ASSUME FridaInv, NEW i \in DOMAIN jobs, SessionDetached(i)
  PROVE  /\ FridaInv'
         /\ EndsIn(jobs) \subseteq EndsIn(jobs') \cup {jobs[i].session}
         /\ jobs[i].session \in DOMAIN sess /\ sess'[jobs[i].session].told = 1
<1> DEFINE s == jobs[i].session
           v == [sess[s] EXCEPT !.told = @ + 1]
           q == RemoveAt(jobs, i)
<1>1. FridaTypes /\ OncePerEnd(jobs) /\ LoaderOK /\ \A t \in DOMAIN sess : SessionOK(t)
  BY DEF FridaInv
<1>2. /\ loader = NoLoad /\ jobs[i].do = "detached" /\ sess' = [sess EXCEPT ![s].told = @ + 1]
      /\ UNCHANGED <<stopping, loader, registry, ending, lost, stranded, version, cached, unseen,
                     change>>
  BY DEF SessionDetached, Due, scriptVars
<1>3. /\ s \in DOMAIN sess /\ sess[s] \in FridaSessions /\ s \in EndsIn(jobs)
      /\ jobs \in Seq(FridaJobs)
  <2>1. s \in AskedOf(jobs) /\ s \in EndsIn(jobs)
    BY <1>2 DEF AskedOf, EndsIn
  <2> QED
    BY <1>1, <2>1, SessionFacts DEF FridaTypes
<1>4. /\ q \in Seq(FridaJobs) /\ AskedOf(q) \subseteq AskedOf(jobs)
      /\ EndsIn(q) \subseteq EndsIn(jobs) /\ EndsIn(jobs) \subseteq EndsIn(q) \cup {s}
      /\ s \notin EndsIn(q) /\ OncePerEnd(q)
  BY <1>1, <1>2, <1>3, TakenAsks
<1> HIDE DEF q
<1>5. /\ jobs' \in Seq(FridaJobs) /\ AskedOf(jobs') = AskedOf(q)
      /\ EndsIn(jobs') = EndsIn(q) /\ OncePerEnd(jobs')
      /\ proc' \in [Pids -> {"none", "suspended", "running"}] /\ spawns' \in 0 .. MaxSpawns
  <2>1. proc \in [Pids -> {"none", "suspended", "running"}] /\ spawns \in 0 .. MaxSpawns
    BY <1>1 DEF FridaTypes
  <2>2. CASE jobs' = q /\ UNCHANGED procVars
    BY <1>4, <2>1, <2>2 DEF procVars
  <2>3. ASSUME NEW p \in Pids, Starts(p), jobs' = Append(q, Load(p, TRUE))
        PROVE  /\ jobs' \in Seq(FridaJobs) /\ AskedOf(jobs') = AskedOf(q)
               /\ EndsIn(jobs') = EndsIn(q) /\ OncePerEnd(jobs')
               /\ proc' \in [Pids -> {"none", "suspended", "running"}] /\ spawns' \in 0 .. MaxSpawns
    <3>1. proc' \in [Pids -> {"none", "suspended", "running"}]
      BY <2>1, <2>3 DEF Starts
    <3>2. spawns' \in 0 .. MaxSpawns
      BY <2>1, <2>3, FridaAssumption DEF FridaAssumption, Starts
    <3> QED
      BY <1>4, <2>3, <3>1, <3>2, LoadIsJob, OneMore
  <2> QED
    BY <2>2, <2>3 DEF SessionDetached, Rest, q
<1>6. s \notin ending /\ sess[s].told = 0 /\ ~ Attached(s)
  BY <1>1, <1>3 DEF SessionOK
<1>7. /\ v \in FridaSessions /\ v.pid = sess[s].pid /\ v.detached = sess[s].detached
      /\ v.told = 1 /\ v.scripts = sess[s].scripts
  <2>1. /\ v.pid = sess[s].pid /\ v.detached = sess[s].detached
        /\ v.told = sess[s].told + 1 /\ v.scripts = sess[s].scripts
    BY <1>3 DEF FridaSessions
  <2>2. v \in FridaSessions
    BY <1>3 DEF FridaSessions
  <2> QED
    BY <1>6, <2>1, <2>2
<1>8. sess' = [sess EXCEPT ![s] = v]
  BY <1>2, <1>3
<1> HIDE DEF v, s
<1>9. /\ sess' \in Seq(FridaSessions) /\ Len(sess') = Len(sess) /\ DOMAIN sess' = DOMAIN sess
      /\ sess'[s] = v /\ \A t \in DOMAIN sess \ {s} : sess'[t] = sess[t]
  BY <1>1, <1>3, <1>7, <1>8, OneSession
<1>10. FridaTypes'
  BY <1>1, <1>2, <1>4, <1>5, <1>9 DEF FridaTypes
<1>11. \A t \in DOMAIN sess : Attached(t)' <=> Attached(t)
  BY <1>7, <1>9 DEF Attached
<1>12. LoaderOK'
  BY <1>1, <1>2, <1>9, <1>11 DEF LoaderOK, NoLoad
<1>13. ASSUME NEW t \in DOMAIN sess PROVE SessionOK(t)'
  <2>1. SessionOK(t)
    BY <1>1
  <2>2. CASE t = s
    <3>1. /\ sess'[t].told = 1 /\ sess'[t].pid = sess[t].pid /\ Len(sess'[t].scripts) <= 1
          /\ t \notin ending' \cup EndsIn(jobs') /\ ~ Attached(t)'
      <4>1. sess'[t] = v /\ t \notin EndsIn(jobs') /\ t \notin ending'
        BY <1>2, <1>4, <1>5, <1>6, <1>9, <2>2
      <4>2. ~ Attached(t)'
        BY <1>6, <1>11, <2>2
      <4>3. Len(sess[t].scripts) <= 1
        BY <2>1 DEF SessionOK
      <4> QED
        BY <1>7, <2>2, <4>1, <4>2, <4>3
    <3> QED
      BY <3>1 DEF SessionOK
  <2>3. CASE t # s
    BY <1>2, <1>4, <1>5, <1>9, <1>11, <2>1, <2>3 DEF SessionOK
  <2> QED
    BY <2>2, <2>3
<1>14. s = jobs[i].session
  BY DEF s
<1> QED
  BY <1>3, <1>4, <1>5, <1>7, <1>9, <1>10, <1>12, <1>13, <1>14 DEF FridaInv

\* The application stops.
LEMMA StopKeeps ==
  ASSUME FridaInv, NEW i \in DOMAIN jobs, Stop(i)
  PROVE  FridaInv' /\ stopping' = "done"
<1>1. FridaTypes /\ OncePerEnd(jobs) /\ LoaderOK /\ \A t \in DOMAIN sess : SessionOK(t)
  BY DEF FridaInv
<1>2. /\ loader = NoLoad /\ stopping' = "done" /\ jobs' = <<>>
      /\ sess' = [s \in DOMAIN sess |->
                   IF s \in Registered THEN [sess[s] EXCEPT !.detached = TRUE, !.scripts = <<>>]
                   ELSE sess[s]]
      /\ UNCHANGED <<proc, spawns, loader, registry, ending, lost, stranded, version, cached,
                     unseen,
                     change>>
  BY DEF Stop, Due, procVars, scriptVars
<1>3. sess \in Seq(FridaSessions) /\ DOMAIN sess = 1 .. Len(sess) /\ Len(sess) \in Nat
  BY <1>1, SessionFacts DEF FridaTypes
<1>4. \A s \in DOMAIN sess : /\ sess'[s] \in FridaSessions
                             /\ sess'[s].pid = sess[s].pid /\ sess'[s].told = sess[s].told
                             /\ sess'[s].scripts \in {<<>>, sess[s].scripts}
                             /\ sess'[s].detached = (sess[s].detached \/ s \in Registered)
  <2> SUFFICES ASSUME NEW s \in DOMAIN sess
               PROVE  /\ sess'[s] \in FridaSessions
                      /\ sess'[s].pid = sess[s].pid /\ sess'[s].told = sess[s].told
                      /\ sess'[s].scripts \in {<<>>, sess[s].scripts}
                      /\ sess'[s].detached = (sess[s].detached \/ s \in Registered)
    OBVIOUS
  <2>1. sess[s] \in FridaSessions
    BY <1>3
  <2>2. sess'[s] = IF s \in Registered THEN [sess[s] EXCEPT !.detached = TRUE, !.scripts = <<>>]
                   ELSE sess[s]
    BY <1>2
  <2>3. CASE s \in Registered
    <3> DEFINE x == <<>>
    <3>1. x \in Seq(Nat) /\ x = <<>>
          /\ sess'[s] = [sess[s] EXCEPT !.detached = TRUE, !.scripts = x]
      BY <2>2, <2>3, NoScripts
    <3> HIDE DEF x
    <3>2. sess'[s] \in FridaSessions /\ sess'[s].pid = sess[s].pid /\ sess'[s].told = sess[s].told
          /\ sess'[s].detached = TRUE /\ sess'[s].scripts = x
      BY <2>1, <3>1 DEF FridaSessions
    <3> QED
      BY <2>3, <3>1, <3>2
  <2>4. CASE s \notin Registered
    BY <2>1, <2>2, <2>4 DEF FridaSessions
  <2> QED
    BY <2>3, <2>4
<1>5. sess' \in Seq(FridaSessions) /\ Len(sess') = Len(sess) /\ DOMAIN sess' = DOMAIN sess
  <2>1. DOMAIN sess' = 1 .. Len(sess)
    BY <1>2, <1>3
  <2>2. sess' \in [1 .. Len(sess) -> FridaSessions]
    BY <1>2, <1>3, <1>4
  <2>3. sess' \in Seq(FridaSessions) /\ Len(sess') = Len(sess)
    BY <1>3, <2>1, <2>2
  <2> QED
    BY <1>3, <2>1, <2>3
<1>6. jobs' \in Seq(FridaJobs) /\ AskedOf(jobs') = {} /\ EndsIn(jobs') = {} /\ OncePerEnd(jobs')
  <2>1. jobs' \in Seq(FridaJobs) /\ Len(jobs') = 0
    BY <1>2, EmptySeq
  <2>2. DOMAIN jobs' = {}
    BY <2>1
  <2> QED
    BY <2>1, <2>2 DEF AskedOf, EndsIn, OncePerEnd
<1>7. FridaTypes'
  BY <1>1, <1>2, <1>5, <1>6 DEF FridaTypes
<1>8. ASSUME NEW s \in DOMAIN sess PROVE SessionOK(s)' /\ (Attached(s)' => s \in lost)
  <2>1. SessionOK(s) /\ Len(sess'[s].scripts) <= 1
    BY <1>1, <1>4 DEF SessionOK
  <2>2. Attached(s)' <=> Attached(s) /\ s \notin Registered
    BY <1>4 DEF Attached
  <2>3. Attached(s) /\ s \notin lost => s \in Registered
    BY <2>1 DEF SessionOK, Registered
  <2> QED
    BY <1>2, <1>4, <1>6, <2>1, <2>2, <2>3 DEF SessionOK
<1>9. LoaderOK'
  BY <1>1, <1>2, <1>5, <1>8 DEF LoaderOK, NoLoad
<1> QED
  BY <1>2, <1>5, <1>6, <1>7, <1>8, <1>9 DEF FridaInv

LEMMA FridaKeeps ==
  ASSUME FridaInv, [FridaNext]_fridaVars
  PROVE  FridaInv'
<1>1. FridaTypes
  BY DEF FridaInv
<1>2. CASE UNCHANGED fridaVars
  BY <1>2, NoSessionKeeps
<1>3. ASSUME NEW p \in Pids, Dies(p) PROVE FridaInv'
  <2> DEFINE ids == {s \in DOMAIN sess : sess[s].pid = p /\ Attached(s)}
  <2>1. proc' \in [Pids -> {"none", "suspended", "running"}]
    BY <1>1, <1>3 DEF Dies, FridaTypes
  <2>2. /\ Detaches(ids)
        /\ UNCHANGED <<spawns, jobs, stopping, loader, registry, lost, stranded, scriptVars>>
    BY <1>3 DEF Dies
  <2>3. ids \in SUBSET DOMAIN sess /\ \A s \in ids : Attached(s)
    OBVIOUS
  <2> HIDE DEF ids
  <2> QED
    BY <2>1, <2>2, <2>3, DetachesKeeps
<1>4. ASSUME NEW s \in DOMAIN sess, Drops(s) PROVE FridaInv'
  <2>1. proc' \in [Pids -> {"none", "suspended", "running"}]
    BY <1>1, <1>4 DEF Drops, FridaTypes
  <2>2. /\ Detaches({s}) /\ Attached(s)
        /\ UNCHANGED <<spawns, jobs, stopping, loader, registry, lost, stranded, scriptVars>>
    BY <1>4 DEF Drops
  <2> QED
    BY <2>1, <2>2, DetachesKeeps
<1>5. ASSUME NEW p \in Pids, SpawnAdded(p) PROVE FridaInv'
  BY <1>5, NoSessionKeeps
<1>6. ASSUME NEW s \in DOMAIN sess, DetachedCallback(s) PROVE FridaInv'
  BY <1>6, CallbackKeeps
<1>7. CASE FileWritten \/ ChangeSeen \/ StopAsked
  BY <1>7, NoSessionKeeps
<1>8. CASE Attach
  BY <1>8, AttachKeeps
<1>9. CASE Watch \/ Unload \/ Create
  BY <1>9, LoadGoesOn
<1>10. ASSUME NEW i \in DOMAIN jobs,
              LoadBegins(i) \/ Cancel(i) \/ SessionDetached(i) \/ FileChange(i) \/ Stop(i)
       PROVE  FridaInv'
  BY <1>10, LoadBeginsKeeps, CancelKeeps, SessionDetachedKeeps, NoSessionKeeps, StopKeeps
<1> QED
  BY <1>2, <1>3, <1>4, <1>5, <1>6, <1>7, <1>8, <1>9, <1>10 DEF FridaNext, LoaderStep

LEMMA FridaFollows ==
  ASSUME FridaInv
  PROVE  FridaCorrect
<1>1. FridaTypes /\ LoaderOK /\ \A s \in DOMAIN sess : SessionOK(s)
  BY DEF FridaInv
<1>2. /\ Len(sess) \in Nat /\ DOMAIN sess = 1 .. Len(sess)
      /\ \A s \in DOMAIN sess : sess[s] \in FridaSessions /\ sess[s].pid \in Pids
  BY <1>1, SessionFacts
<1>3. FridaTypeOK
  <2>1. loader.at \in {"idle", "attach", "watch", "unload", "create"}
    BY <1>1 DEF FridaTypes, Loaders
  <2> QED
    BY <1>1, <1>2, <2>1 DEF FridaTypes, FridaTypeOK
<1>4. OneScript
  <2>1. \A s \in DOMAIN sess : Len(sess[s].scripts) <= 1
    BY <1>1 DEF SessionOK
  <2>2. ASSUME NEW s \in DOMAIN sess, NEW t \in DOMAIN sess, sess[s].pid = sess[t].pid,
               Attached(s), Attached(t), s # t
        PROVE  {s, t} \cap lost # {}
    <3>1. ASSUME s \notin lost, t \notin lost PROVE FALSE
      <4>1. registry[sess[s].pid] = s /\ registry[sess[t].pid] = t
        BY <1>1, <2>2, <3>1 DEF SessionOK
      <4> QED
        BY <2>2, <4>1
    <3> QED
      BY <3>1
  <2> QED
    BY <2>1, <2>2 DEF OneScript
<1>5. ToldOnce
  <2> SUFFICES ASSUME NEW s \in DOMAIN sess, sess[s].told > 0
               PROVE  sess[s].told = 1 /\ ~ Attached(s)
    BY DEF ToldOnce
  <2>1. sess[s].told \in Nat /\ sess[s].told <= 1 /\ (Attached(s) => sess[s].told = 0)
    BY <1>1, <1>2 DEF SessionOK, FridaSessions
  <2> QED
    BY <2>1
<1>6. StopLeavesNone
  BY <1>1 DEF LoaderOK, StopLeavesNone
<1> QED
  BY <1>3, <1>4, <1>5, <1>6 DEF FridaCorrect

\* The frida application, for any processes and any number of spawns, ends and changes of the
\* script's file: a session has one script at a time, a process one session that was not lost, no
\* end is told twice or early, and a stop leaves none attached but the lost.
THEOREM FridaHolds == FridaSpec => []FridaCorrect
<1>1. FridaInit => FridaInv
  BY FridaStarts
<1>2. FridaInv /\ [FridaNext]_fridaVars => FridaInv'
  BY FridaKeeps
<1>3. FridaInv => FridaCorrect
  BY FridaFollows
<1> QED
  BY <1>1, <1>2, <1>3, PTL DEF FridaSpec

LEMMA UnheardIs == Unheard = ending \cup EndsIn(jobs)
  BY DEF Unheard, EndsIn

\* What is on its way is told, goes on its way, or the application stops.
LEMMA EndKept ==
  ASSUME FridaInv, FridaNext, NEW s \in Unheard
  PROVE  s \in Unheard' \/ sess'[s].told = 1 \/ stopping' = "done"
<1>1. FridaTypes /\ jobs \in Seq(FridaJobs) /\ OncePerEnd(jobs)
  BY DEF FridaInv, FridaTypes
<1>2. s \in ending \cup EndsIn(jobs)
  BY UnheardIs
<1>3. Unheard' = ending' \cup EndsIn(jobs')
  BY DEF Unheard, EndsIn
<1>4. ASSUME NEW ids \in SUBSET DOMAIN sess, Detaches(ids), UNCHANGED jobs
      PROVE  s \in Unheard'
  BY <1>2, <1>3, <1>4 DEF Detaches, EndsIn
<1>5. ASSUME NEW p \in Pids, Dies(p) PROVE s \in Unheard'
  <2> DEFINE ids == {t \in DOMAIN sess : sess[t].pid = p /\ Attached(t)}
  <2>1. ids \in SUBSET DOMAIN sess /\ Detaches(ids) /\ UNCHANGED jobs
    BY <1>5 DEF Dies
  <2> HIDE DEF ids
  <2> QED
    BY <1>4, <2>1
<1>6. ASSUME NEW t \in DOMAIN sess, Drops(t) PROVE s \in Unheard'
  BY <1>4, <1>6 DEF Drops
<1>7. ASSUME NEW x \in FridaJobs, ~ (x.do \in {"cancel", "detached"}), jobs' = Append(jobs, x),
             UNCHANGED ending
      PROVE  s \in Unheard'
  BY <1>1, <1>2, <1>3, <1>7, OneMore
<1>8. ASSUME NEW p \in Pids, SpawnAdded(p) PROVE s \in Unheard'
  <2>1. jobs' = Append(jobs, Load(p, TRUE)) /\ UNCHANGED ending
    BY <1>8 DEF SpawnAdded, sessVars
  <2> QED
    BY <1>7, <2>1, LoadIsJob
<1>9. ASSUME NEW t \in DOMAIN sess, DetachedCallback(t) PROVE s \in Unheard'
  <2>1. EndsIn(jobs') = EndsIn(jobs) \cup {t}
    BY <1>9, CallbackKeeps
  <2>2. ending' = ending \ {t}
    BY <1>9 DEF DetachedCallback
  <2> QED
    BY <1>2, <1>3, <2>1, <2>2
<1>10. CASE FileWritten
  BY <1>2, <1>3, <1>10 DEF FileWritten, sessVars
<1>11. CASE ChangeSeen
  <2>1. /\ jobs' = Append(jobs, [do |-> "change", id |-> change']) /\ change' = change + 1
        /\ UNCHANGED ending
    BY <1>11 DEF ChangeSeen, sessVars
  <2>2. change' \in Nat
    BY <1>1, <2>1 DEF FridaTypes
  <2>3. [do |-> "change", id |-> change'] \in FridaJobs
    BY <2>2 DEF FridaJobs
  <2> QED
    BY <1>7, <2>1, <2>3
<1>12. CASE StopAsked
  <2>1. jobs' = Append(jobs, [do |-> "stop"]) /\ UNCHANGED ending
    BY <1>12 DEF StopAsked, sessVars
  <2>2. [do |-> "stop"] \in FridaJobs
    BY DEF FridaJobs
  <2> QED
    BY <1>7, <2>1, <2>2
<1>13. CASE Attach \/ Watch \/ Unload \/ Create
  BY <1>2, <1>3, <1>13 DEF Attach, Watch, Unload, Create
<1>14. ASSUME NEW i \in DOMAIN jobs, LoadBegins(i) \/ Cancel(i) PROVE s \in Unheard'
  <2>1. EndsIn(jobs') = EndsIn(jobs)
    BY <1>14, LoadBeginsKeeps, CancelKeeps
  <2>2. UNCHANGED ending
    BY <1>14 DEF LoadBegins, Cancel
  <2> QED
    BY <1>2, <1>3, <2>1, <2>2
<1>15. ASSUME NEW i \in DOMAIN jobs, SessionDetached(i) PROVE s \in Unheard' \/ sess'[s].told = 1
  <2>1. /\ EndsIn(jobs) \subseteq EndsIn(jobs') \cup {jobs[i].session}
        /\ sess'[jobs[i].session].told = 1
    BY <1>15, SessionDetachedKeeps
  <2>2. UNCHANGED ending
    BY <1>15 DEF SessionDetached
  <2> QED
    BY <1>2, <1>3, <2>1, <2>2
<1>16. ASSUME NEW i \in DOMAIN jobs, FileChange(i) PROVE s \in Unheard'
  <2>1. UNCHANGED ending
    BY <1>16 DEF FileChange, sessVars
  <2>2. EndsIn(jobs') = EndsIn(jobs)
    BY <1>16, FileChangeKeeps
  <2> QED
    BY <1>2, <1>3, <2>1, <2>2
<1>17. ASSUME NEW i \in DOMAIN jobs, Stop(i) PROVE stopping' = "done"
  BY <1>17 DEF Stop
<1> QED
  BY <1>5, <1>6, <1>8, <1>9, <1>10, <1>11, <1>12, <1>13, <1>14, <1>15, <1>16, <1>17
     DEF FridaNext, LoaderStep

\* No end of a session is forgotten on its way, whoever comes between.
THEOREM FridaEndsKeptHolds == FridaSpec => EndsKept
<1>1. FridaInit => FridaInv
  BY FridaStarts
<1>2. FridaInv /\ [FridaNext]_fridaVars => FridaInv'
  BY FridaKeeps
<1>3. FridaInv /\ [FridaNext]_fridaVars
        => [\A s \in Unheard : s \in Unheard' \/ sess'[s].told = 1 \/ stopping' = "done"]_fridaVars
  BY EndKept
<1> QED
  BY <1>1, <1>2, <1>3, PTL DEF FridaSpec, EndsKept
=============================================================================

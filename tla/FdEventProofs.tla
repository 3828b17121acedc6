--------------------------- MODULE FdEventProofs ---------------------------
(***************************************************************************)
(* Proofs about FdEventLoop for any set of descriptors and any bounds: the *)
(* tables of fdevent.c stay consistent whatever callbacks do, and an event *)
(* is only delivered to the fdevent it was noticed for.                    *)
(***************************************************************************)
EXTENDS FdEventLoop, WellFoundedInduction, TLAPS

USE DEF FdRegister, FdUnregister, FdConnect, FdDisconnect, FdUpdate, FdCheck

\* The consistency of the tables, of any loop record.
ListOK(L) ==
  /\ L.plist = L.pending
  /\ L.pending \subseteq L.active
  /\ \A f \in L.pending : L.events[f] # {}
SelectOK(L) ==
  \A f \in Fds : L.sel[f] = IF f \in L.active THEN L.wanted[f] ELSE {}
CoverOK(L) == \A f \in L.active : f < L.n
LeftoverOK(L) == \A f \in Fds \ L.pending : L.events[f] = {}
Good(L) == ListOK(L) /\ SelectOK(L) /\ CoverOK(L) /\ LeftoverOK(L)

-----------------------------------------------------------------------------
\* What each operation does to the fields, and that it keeps the record a table.

\* Before anything is installed the tables are consistent.
LEMMA EmptyGood == EmptyLoop(Fds) \in Tables /\ Good(EmptyLoop(Fds))
  BY DEF EmptyLoop, Tables, Good, ListOK, SelectOK, CoverOK, LeftoverOK, Events

\* Descriptors are numbers, so that they compare with select_n.
LEMMA FdsAreNumbers == \A f \in Fds : f \in Nat
  BY FdsAssumption

\* fdevent_install, field by field: select_n rises above the descriptor.
LEMMA InstallFields ==
  ASSUME NEW L \in Tables, NEW f \in Fds
  PROVE  LET M == FdInstall(L, f) IN
         /\ M \in Tables
         /\ M.active = L.active \cup {f}
         /\ M.pending = L.pending \ {f}
         /\ M.plist = L.plist
         /\ M.sel = L.sel
         /\ M.wanted = [L.wanted EXCEPT ![f] = {}]
         /\ M.events = [L.events EXCEPT ![f] = {}]
         /\ f < M.n /\ L.n <= M.n
<1> DEFINE M == FdInstall(L, f)
<1>1. f \in Nat /\ L.n \in Nat
  BY FdsAreNumbers DEF Tables
<1>2. M.n = IF f >= L.n THEN f + 1 ELSE L.n
  BY DEF FdInstall, Tables
<1>3. M.n \in Nat /\ f < M.n /\ L.n <= M.n
  BY <1>1, <1>2
<1>4. /\ M.active = L.active \cup {f}
      /\ M.pending = L.pending \ {f}
      /\ M.plist = L.plist
      /\ M.sel = L.sel
      /\ M.wanted = [L.wanted EXCEPT ![f] = {}]
      /\ M.events = [L.events EXCEPT ![f] = {}]
  BY DEF FdInstall, Tables
<1>5. M \in Tables
  <2> DEFINE w == [L.wanted EXCEPT ![f] = {}]
             e == [L.events EXCEPT ![f] = {}]
  <2>1. w \in [Fds -> SUBSET Events] /\ e \in [Fds -> SUBSET Events]
    BY DEF Tables
  <2>2. M = [L EXCEPT !.active = @ \cup {f}, !.pending = @ \ {f},
                      !.wanted = w, !.events = e, !.n = M.n]
    BY <1>2 DEF FdInstall, Tables
  <2> DEFINE k == M.n
  <2>3. k \in Nat /\ M = [L EXCEPT !.active = @ \cup {f}, !.pending = @ \ {f},
                                   !.wanted = w, !.events = e, !.n = k]
    BY <1>3, <2>2
  <2> HIDE DEF w, e, k, M
  <2>4. QED
    BY <2>1, <2>3 DEF Tables
<1>6. QED
  BY <1>3, <1>4, <1>5

\* fdevent_install on a free number keeps the tables consistent.
LEMMA InstallGood ==
  ASSUME NEW L \in Tables, Good(L), NEW f \in Fds \ L.active
  PROVE  FdInstall(L, f) \in Tables /\ Good(FdInstall(L, f))
<1> DEFINE M == FdInstall(L, f)
<1>1. M \in Tables
  BY InstallFields
<1>2. /\ M.active = L.active \cup {f}
      /\ M.pending = L.pending \ {f}
      /\ M.plist = L.plist
      /\ M.sel = L.sel
      /\ M.wanted = [L.wanted EXCEPT ![f] = {}]
      /\ M.events = [L.events EXCEPT ![f] = {}]
      /\ f < M.n /\ L.n <= M.n
  BY InstallFields
<1>3. /\ L.wanted \in [Fds -> SUBSET Events] /\ L.events \in [Fds -> SUBSET Events]
      /\ L.active \subseteq Fds /\ L.n \in Nat /\ M.n \in Nat
  BY <1>1 DEF Tables
<1> HIDE DEF M
<1>4. ListOK(M)
  BY <1>2, <1>3 DEF Good, ListOK
<1>5. SelectOK(M)
  BY <1>2, <1>3 DEF Good, SelectOK
<1>6. CoverOK(M)
  <2> SUFFICES ASSUME NEW g \in M.active PROVE g < M.n
    BY DEF CoverOK
  <2>1. g = f \/ (g \in L.active /\ g \in Nat /\ g < L.n)
    BY <1>2, <1>3, FdsAreNumbers DEF Good, CoverOK
  <2>2. QED
    BY <2>1, <1>2, <1>3
<1>7. LeftoverOK(M)
  BY <1>2, <1>3 DEF Good, LeftoverOK
<1>8. QED
  BY <1>1, <1>4, <1>5, <1>6, <1>7 DEF Good, M

\* select_n is well defined when a descriptor goes: the least number above the
\* registered descriptors that stays within the old select_n.
LEMMA ShrinkBounds ==
  ASSUME NEW L \in Tables, CoverOK(L), NEW f \in L.active
  PROVE  Shrink(L) \in Nat /\ \A g \in L.active : g < Shrink(L)
<1> DEFINE Above(m) == \A g \in L.active : g < L.n => g < m
           T == {m \in 1..L.n : Above(m)}
<1>1. L.active \subseteq Nat /\ L.n \in Nat /\ f \in Nat /\ f < L.n
  BY FdsAreNumbers DEF Tables, CoverOK
<1>2. L.n \in T
  BY <1>1
<1>3. PICK m \in T : \A k \in T : ~ (<<k, m>> \in OpToRel(<, Nat))
  <2>1. T \subseteq Nat /\ T # {}
    BY <1>1, <1>2
  <2>2. QED
    BY <2>1, NatLessThanWellFounded, WFMin
<1>4. \A k \in T : ~ (k < m)
  <2> SUFFICES ASSUME NEW k \in T, k < m PROVE FALSE
    OBVIOUS
  <2>1. k \in Nat /\ m \in Nat
    BY <1>1
  <2>2. <<k, m>> \in {ss \in Nat \X Nat : ss[1] < ss[2]}
    BY <2>1
  <2>3. QED
    BY <2>2, <1>3 DEF OpToRel
<1>5. m = 1 \/ m - 1 \in L.active
  <2> SUFFICES ASSUME m # 1, m - 1 \notin L.active PROVE FALSE
    OBVIOUS
  <2>1. m - 1 \in 1..L.n /\ m - 1 < m
    BY <1>1
  <2>2. ASSUME NEW g \in L.active, g < L.n PROVE g < m - 1
    <3>1. g < m /\ g \in Nat /\ g # m - 1
      BY <1>1, <2>2
    <3>2. QED
      BY <3>1, <1>1
  <2>3. m - 1 \in T
    BY <2>1, <2>2
  <2>4. QED
    BY <1>4, <2>1, <2>3
<1> DEFINE IsShrunk(k) == /\ \A g \in L.active : g < L.n => g < k
                          /\ k = 1 \/ k - 1 \in L.active
<1>6. m \in 1..L.n /\ IsShrunk(m)
  BY <1>5
<1>7. Shrink(L) = CHOOSE k \in 1..L.n : IsShrunk(k)
  BY DEF Shrink
<1>8. Shrink(L) \in 1..L.n /\ IsShrunk(Shrink(L))
  <2> HIDE DEF IsShrunk
  <2> QED
    BY <1>6, <1>7
<1>9. QED
  BY <1>1, <1>8 DEF CoverOK

\* select_n only depends on the table and on select_n.
LEMMA ShrinkSame ==
  ASSUME NEW L, NEW M, M.n = L.n, M.active = L.active
  PROVE  Shrink(M) = Shrink(L)
  BY DEF Shrink

\* fdevent_remove, field by field: the list and the select sets forget it.
LEMMA RemoveFields ==
  ASSUME NEW L \in Tables, Good(L), NEW f \in L.active
  PROVE  LET M == FdRemove(L, f) IN
         /\ M \in Tables
         /\ M.active = L.active \ {f}
         /\ M.pending = L.pending \ {f}
         /\ M.plist = L.plist \ {f}
         /\ M.sel = [L.sel EXCEPT ![f] = {}]
         /\ M.wanted = [L.wanted EXCEPT ![f] = {}]
         /\ M.events = [L.events EXCEPT ![f] = {}]
         /\ \A g \in L.active : g < M.n
<1> DEFINE M == FdRemove(L, f)
           k == Shrink(L)
<1>1. k \in Nat /\ \A g \in L.active : g < k
  BY ShrinkBounds DEF Good
<1> DEFINE unlisted == [L EXCEPT !.plist = L.plist \ {f}, !.pending = @ \ {f},
                                 !.wanted[f] = {}, !.events[f] = {}]
<1>a. Shrink(unlisted) = k
  <2>1. unlisted.n = L.n /\ unlisted.active = L.active
    BY DEF Tables
  <2>2. QED
    BY <2>1, ShrinkSame
<1>b. FdRemove(L, f) = [unlisted EXCEPT !.sel[f] = {}, !.n = k, !.active = @ \ {f}]
  <2>2. (IF f \in L.pending THEN L.plist \ {f} ELSE L.plist) = L.plist \ {f}
    BY DEF Good, ListOK
  <2> HIDE DEF k
  <2>3. FdRemove(L, f) = FdUnregister(FdDisconnect(unlisted, f), f)
    BY <2>2 DEF FdRemove
  <2>4. QED
    BY <1>a, <2>3 DEF Tables
<1> HIDE DEF k
<1>2. /\ M.active = L.active \ {f}
      /\ M.pending = L.pending \ {f}
      /\ M.sel = [L.sel EXCEPT ![f] = {}]
      /\ M.wanted = [L.wanted EXCEPT ![f] = {}]
      /\ M.events = [L.events EXCEPT ![f] = {}]
      /\ M.n = k
  BY <1>b DEF Tables
<1>3. M.plist = L.plist \ {f}
  BY <1>b DEF Tables
<1>4. f \in Fds
  BY DEF Tables
<1>5. M \in Tables
  <2> DEFINE base == [L EXCEPT !.plist = L.plist \ {f}, !.pending = @ \ {f},
                               !.wanted[f] = {}, !.events[f] = {}]
  <2>1. base \in Tables
    BY <1>4 DEF Tables
  <2>2. M = [base EXCEPT !.sel[f] = {}, !.n = k, !.active = @ \ {f}]
    BY <1>b
  <2> HIDE DEF base
  <2> DEFINE noSel == [base.sel EXCEPT ![f] = {}]
             rest == base.active \ {f}
  <2>3. noSel \in [Fds -> SUBSET Events] /\ rest \in SUBSET Fds
    BY <2>1, <1>4 DEF Tables
  <2>4. M = [base EXCEPT !.sel = noSel, !.n = k, !.active = rest]
    BY <2>1, <2>2 DEF Tables
  <2> HIDE DEF noSel, rest
  <2>5. QED
    BY <1>1, <2>1, <2>3, <2>4 DEF Tables
<1>6. QED
  BY <1>1, <1>2, <1>3, <1>5

\* fdevent_remove keeps the tables consistent.
LEMMA RemoveGood ==
  ASSUME NEW L \in Tables, Good(L), NEW f \in L.active
  PROVE  FdRemove(L, f) \in Tables /\ Good(FdRemove(L, f))
<1> DEFINE M == FdRemove(L, f)
<1>1. M \in Tables
  BY RemoveFields
<1>2. /\ M.active = L.active \ {f}
      /\ M.pending = L.pending \ {f}
      /\ M.plist = L.plist \ {f}
      /\ M.sel = [L.sel EXCEPT ![f] = {}]
      /\ M.wanted = [L.wanted EXCEPT ![f] = {}]
      /\ M.events = [L.events EXCEPT ![f] = {}]
      /\ \A g \in L.active : g < M.n
  BY RemoveFields
<1>3. /\ L.wanted \in [Fds -> SUBSET Events] /\ L.events \in [Fds -> SUBSET Events]
      /\ L.sel \in [Fds -> SUBSET Events]
      /\ L.active \subseteq Fds /\ f \in Fds
  BY DEF Tables
<1> HIDE DEF M
<1>4. ListOK(M)
  BY <1>2, <1>3 DEF Good, ListOK
<1>5. SelectOK(M)
  BY <1>2, <1>3 DEF Good, SelectOK
<1>6. CoverOK(M)
  BY <1>2 DEF CoverOK
<1>7. LeftoverOK(M)
  BY <1>2, <1>3 DEF Good, LeftoverOK
<1>8. QED
  BY <1>1, <1>4, <1>5, <1>6, <1>7 DEF Good, M

\* fdevent_set, field by field: the fdevent stays pending exactly when an event
\* is left for it.
LEMMA SetFields ==
  ASSUME NEW L \in Tables, Good(L), NEW f \in L.active, NEW evs \in SUBSET Events
  PROVE  LET M == FdSet(L, f, evs) IN
         /\ M \in Tables
         /\ M.active = L.active
         /\ M.n = L.n
         /\ M.wanted = [L.wanted EXCEPT ![f] = evs]
         /\ M.sel = [L.sel EXCEPT ![f] = evs]
         /\ M.plist = M.pending
         /\ M.pending \in {L.pending, L.pending \ {f}}
         /\ \A g \in Fds : g # f => M.events[g] = L.events[g]
         /\ f \in M.pending <=> M.events[f] # {}
<1> DEFINE M == FdSet(L, f, evs)
           left == L.events[f] \ evs
           gone == IF left = {} THEN {f} ELSE {}
<1>1. /\ L.wanted \in [Fds -> SUBSET Events] /\ L.events \in [Fds -> SUBSET Events]
      /\ L.sel \in [Fds -> SUBSET Events]
      /\ L.active \subseteq Fds /\ f \in Fds /\ L.plist \subseteq Fds
  BY DEF Tables
<1>2. L.plist = L.pending /\ L.sel[f] = L.wanted[f]
      /\ (f \in L.pending <=> L.events[f] # {})
  BY <1>1 DEF Good, ListOK, SelectOK, LeftoverOK
<1>3. CASE L.wanted[f] = evs
  <2>1. M = L
    BY <1>3 DEF FdSet
  <2>2. L.wanted = [L.wanted EXCEPT ![f] = evs] /\ L.sel = [L.sel EXCEPT ![f] = evs]
    BY <1>1, <1>2, <1>3
  <2>3. QED
    BY <1>2, <2>1, <2>2
<1>4. CASE L.wanted[f] # evs /\ f \notin L.pending
  <2>1. M = [L EXCEPT !.wanted[f] = evs, !.sel[f] = evs, !.events[f] = @,
                      !.pending = @ \ {}, !.plist = @ \ {}]
    BY <1>1, <1>4 DEF FdSet
  <2> DEFINE w == [L.wanted EXCEPT ![f] = evs]
             x == [L.sel EXCEPT ![f] = evs]
             e == [L.events EXCEPT ![f] = @]
  <2>2. M \in Tables
    <3>1. /\ w \in [Fds -> SUBSET Events] /\ x \in [Fds -> SUBSET Events]
          /\ e \in [Fds -> SUBSET Events]
      BY <1>1
    <3>2. M = [L EXCEPT !.wanted = w, !.sel = x, !.events = e,
                        !.pending = @ \ {}, !.plist = @ \ {}]
      BY <1>1, <2>1 DEF Tables
    <3> HIDE DEF M, w, x, e
    <3>3. QED
      BY <3>1, <3>2 DEF Tables
  <2>3. /\ M.active = L.active /\ M.n = L.n
        /\ M.wanted = [L.wanted EXCEPT ![f] = evs]
        /\ M.sel = [L.sel EXCEPT ![f] = evs]
        /\ M.plist = L.plist /\ M.pending = L.pending
        /\ M.events = L.events
    BY <1>1, <2>1 DEF Tables
  <2> HIDE DEF M
  <2>4. QED
    BY <1>2, <1>4, <2>2, <2>3 DEF M
<1>5. CASE L.wanted[f] # evs /\ f \in L.pending
  <2>1. M = [L EXCEPT !.wanted[f] = evs, !.sel[f] = evs, !.events[f] = left,
                      !.pending = @ \ gone, !.plist = @ \ gone]
    BY <1>1, <1>5 DEF FdSet
  <2>2. left \in SUBSET Events /\ gone \subseteq Fds
    BY <1>1
  <2>3. gone = IF left = {} THEN {f} ELSE {}
    OBVIOUS
  <2> HIDE DEF left, gone
  <2> DEFINE w == [L.wanted EXCEPT ![f] = evs]
             x == [L.sel EXCEPT ![f] = evs]
             e == [L.events EXCEPT ![f] = left]
  <2>4. M \in Tables
    <3>1. /\ w \in [Fds -> SUBSET Events] /\ x \in [Fds -> SUBSET Events]
          /\ e \in [Fds -> SUBSET Events]
      BY <1>1, <2>2
    <3>2. M = [L EXCEPT !.wanted = w, !.sel = x, !.events = e,
                        !.pending = @ \ gone, !.plist = @ \ gone]
      BY <1>1, <2>1 DEF Tables
    <3> HIDE DEF M, w, x, e
    <3>3. QED
      BY <3>1, <3>2 DEF Tables
  <2>5. /\ M.active = L.active /\ M.n = L.n
        /\ M.wanted = [L.wanted EXCEPT ![f] = evs]
        /\ M.sel = [L.sel EXCEPT ![f] = evs]
        /\ M.plist = L.plist \ gone /\ M.pending = L.pending \ gone
        /\ M.events = [L.events EXCEPT ![f] = left]
    BY <1>1, <2>1 DEF Tables
  <2> HIDE DEF M
  <2>6. M.events[f] = left /\ (\A g \in Fds : g # f => M.events[g] = L.events[g])
    BY <1>1, <2>5
  <2>7. f \in M.pending <=> left # {}
    BY <1>5, <2>3, <2>5
  <2>8. M.pending \in {L.pending, L.pending \ {f}} /\ M.plist = M.pending
    BY <1>2, <2>3, <2>5
  <2>9. QED
    BY <2>4, <2>5, <2>6, <2>7, <2>8 DEF M
<1>6. QED
  BY <1>3, <1>4, <1>5

\* fdevent_set keeps the tables consistent.
LEMMA SetGood ==
  ASSUME NEW L \in Tables, Good(L), NEW f \in L.active, NEW evs \in SUBSET Events
  PROVE  FdSet(L, f, evs) \in Tables /\ Good(FdSet(L, f, evs))
<1> DEFINE M == FdSet(L, f, evs)
<1>1. M \in Tables
  BY SetFields
<1>2. /\ M.active = L.active
      /\ M.n = L.n
      /\ M.wanted = [L.wanted EXCEPT ![f] = evs]
      /\ M.sel = [L.sel EXCEPT ![f] = evs]
      /\ M.plist = M.pending
      /\ M.pending \in {L.pending, L.pending \ {f}}
      /\ \A g \in Fds : g # f => M.events[g] = L.events[g]
      /\ f \in M.pending <=> M.events[f] # {}
  BY SetFields
<1>3. /\ L.wanted \in [Fds -> SUBSET Events]
      /\ L.sel \in [Fds -> SUBSET Events]
      /\ L.active \subseteq Fds /\ L.pending \subseteq Fds /\ f \in Fds
  BY DEF Tables
<1> HIDE DEF M
<1>4. ListOK(M)
  BY <1>2, <1>3 DEF Good, ListOK
<1>5. SelectOK(M)
  BY <1>2, <1>3 DEF Good, SelectOK
<1>6. CoverOK(M)
  BY <1>2 DEF Good, CoverOK
<1>7. LeftoverOK(M)
  BY <1>2, <1>3 DEF Good, LeftoverOK
<1>8. QED
  BY <1>1, <1>4, <1>5, <1>6, <1>7 DEF Good, M

\* Taking an fdevent off the list and calling its callback.
LEMMA CallGood ==
  ASSUME NEW L \in Tables, Good(L), NEW f \in Fds
  PROVE  LET M == FdCall(FdDequeue(L, f), f) IN
         /\ M \in Tables /\ Good(M)
         /\ M.active = L.active
         /\ M.pending = L.pending \ {f}
         /\ M.wanted = L.wanted
<1> DEFINE M == FdCall(FdDequeue(L, f), f)
<1>1. /\ L.events \in [Fds -> SUBSET Events] /\ L.active \subseteq Fds
      /\ L.pending \subseteq Fds
  BY DEF Tables
<1>2. M = [L EXCEPT !.plist = @ \ {f}, !.events[f] = {}, !.pending = @ \ {f}]
  BY DEF FdCall, FdDequeue, Tables
<1> DEFINE e == [L.events EXCEPT ![f] = {}]
<1>3. M \in Tables
  <2>1. e \in [Fds -> SUBSET Events]
    BY <1>1
  <2>2. M = [L EXCEPT !.plist = @ \ {f}, !.events = e, !.pending = @ \ {f}]
    BY <1>2 DEF Tables
  <2> HIDE DEF M, e
  <2>3. QED
    BY <2>1, <2>2 DEF Tables
<1>4. /\ M.active = L.active /\ M.n = L.n
      /\ M.wanted = L.wanted /\ M.sel = L.sel
      /\ M.plist = L.plist \ {f} /\ M.pending = L.pending \ {f}
      /\ M.events = [L.events EXCEPT ![f] = {}]
  BY <1>2 DEF Tables
<1> HIDE DEF M
<1>5. ListOK(M)
  BY <1>1, <1>4 DEF Good, ListOK
<1>6. SelectOK(M) /\ CoverOK(M)
  BY <1>4 DEF Good, SelectOK, CoverOK
<1>7. LeftoverOK(M)
  BY <1>1, <1>4 DEF Good, LeftoverOK
<1>8. QED
  BY <1>3, <1>4, <1>5, <1>6, <1>7 DEF Good, M

\* A pending fdevent gets one more event (fdevent_subproc_event_func).
LEMMA NudgeGood ==
  ASSUME NEW L \in Tables, Good(L), NEW f \in L.pending
  PROVE  LET M == [L EXCEPT !.events[f] = @ \cup {"R"}] IN
         M \in Tables /\ Good(M) /\ M.pending = L.pending
<1> DEFINE M == [L EXCEPT !.events[f] = @ \cup {"R"}]
<1>1. /\ L.events \in [Fds -> SUBSET Events] /\ L.active \subseteq Fds
      /\ L.pending \subseteq Fds /\ f \in Fds
  BY DEF Tables
<1>2. L.events[f] \cup {"R"} \in SUBSET Events
  BY <1>1 DEF Events
<1>3. M \in Tables
  BY <1>1, <1>2 DEF Tables
<1>4. /\ M.active = L.active /\ M.n = L.n /\ M.pending = L.pending
      /\ M.wanted = L.wanted /\ M.sel = L.sel /\ M.plist = L.plist
      /\ M.events = [L.events EXCEPT ![f] = L.events[f] \cup {"R"}]
  BY <1>1 DEF Tables
<1> HIDE DEF M
<1>5. ListOK(M)
  BY <1>1, <1>4 DEF Good, ListOK
<1>6. SelectOK(M) /\ CoverOK(M)
  BY <1>4 DEF Good, SelectOK, CoverOK
<1>7. LeftoverOK(M)
  BY <1>1, <1>4 DEF Good, LeftoverOK
<1>8. QED
  BY <1>3, <1>4, <1>5, <1>6, <1>7 DEF Good, M

\* The direct call of fdevent_subproc_event_func leaves the tables as they were.
LEMMA NudgeCallGood ==
  ASSUME NEW L \in Tables, Good(L), NEW f \in L.active \ L.pending
  PROVE  FdCall([L EXCEPT !.events[f] = @ \cup {"R"}], f) = L
<1>1. /\ L.events \in [Fds -> SUBSET Events] /\ f \in Fds /\ L.events[f] = {}
      /\ L.pending \ {f} = L.pending
  BY DEF Tables, Good, LeftoverOK
<1>2. [L.events EXCEPT ![f] = {}] = L.events
  BY <1>1
<1> DEFINE M == FdCall([L EXCEPT !.events[f] = @ \cup {"R"}], f)
<1>3. M = [L EXCEPT !.events = [L.events EXCEPT ![f] = {}], !.pending = L.pending \ {f}]
  BY <1>1 DEF FdCall, Tables
<1>4. M = [L EXCEPT !.events = L.events, !.pending = L.pending]
  BY <1>1, <1>2, <1>3
<1>5. QED
  BY <1>4 DEF Tables

\* fdevent_process only finds events of registered descriptors.
LEMMA HitsAreRegistered ==
  ASSUME NEW L \in Tables, Good(L), NEW r \in [Fds -> SUBSET Events], NEW closed
  PROVE  LET hits == FdHits(L, r, closed) IN
         /\ hits \in [Fds -> SUBSET Events]
         /\ HitSet(hits) \subseteq L.active
<1> DEFINE hits == FdHits(L, r, closed)
<1>1. /\ L.wanted \in [Fds -> SUBSET Events]
      /\ L.sel \in [Fds -> SUBSET Events] /\ L.active \subseteq Fds
  BY DEF Tables
<1>2. /\ DOMAIN hits = Fds
      /\ \A f \in Fds : hits[f] \in {{}, {"R"}, L.sel[f] \cap r[f]}
      /\ \A f \in Fds : hits[f] = {"R"} => (f \in L.active \/ hits[f] \subseteq L.sel[f])
  BY <1>1 DEF FdHits, Descriptors
<1>3. hits = [f \in Fds |-> hits[f]]
  BY <1>1 DEF FdHits, Descriptors
<1> HIDE DEF hits
<1>4. hits \in [Fds -> SUBSET Events]
  BY <1>1, <1>2, <1>3 DEF Events
<1>5. ASSUME NEW f \in Fds, hits[f] # {} PROVE f \in L.active
  BY <1>1, <1>2, <1>5 DEF Good, SelectOK
<1>6. HitSet(hits) \subseteq L.active
  BY <1>2, <1>5 DEF HitSet
<1>7. QED
  BY <1>4, <1>6 DEF hits

\* fdevent_process puts on the list what it finds, and keeps the tables
\* consistent.
LEMMA NoticeGood ==
  ASSUME NEW L \in Tables, Good(L), NEW hits \in [Fds -> SUBSET Events],
         HitSet(hits) \subseteq L.active
  PROVE  LET M == FdNotice(L, hits) IN
         /\ M \in Tables /\ Good(M)
         /\ M.pending = L.pending \cup HitSet(hits)
<1> DEFINE M == FdNotice(L, hits)
           H == HitSet(hits)
           e == [f \in Fds |-> L.events[f] \cup hits[f]]
<1>1. /\ L.events \in [Fds -> SUBSET Events] /\ L.active \subseteq Fds
      /\ L.pending \subseteq Fds /\ DOMAIN L.wanted = Fds
  BY DEF Tables
<1>2. /\ \A f \in Fds : f \in H <=> hits[f] # {}
      /\ H \subseteq Fds
  BY DEF HitSet
<1>3. e \in [Fds -> SUBSET Events] /\ (\A f \in Fds : e[f] = L.events[f] \cup hits[f])
  BY <1>1
<1>4. M = [L EXCEPT !.events = e, !.plist = @ \cup (H \ L.pending),
                    !.pending = @ \cup H]
  BY <1>1 DEF FdNotice, Descriptors, Tables
<1> HIDE DEF M, H, e
<1>5. M \in Tables
  BY <1>2, <1>3, <1>4 DEF Tables
<1>6. /\ M.active = L.active /\ M.n = L.n
      /\ M.wanted = L.wanted /\ M.sel = L.sel /\ M.events = e
      /\ M.plist = L.plist \cup (H \ L.pending) /\ M.pending = L.pending \cup H
  BY <1>4 DEF Tables
<1>7. ListOK(M)
  BY <1>1, <1>2, <1>3, <1>6 DEF Good, ListOK, H
<1>8. SelectOK(M) /\ CoverOK(M)
  BY <1>6 DEF Good, SelectOK, CoverOK
<1>9. LeftoverOK(M)
  BY <1>1, <1>2, <1>3, <1>6 DEF Good, LeftoverOK
<1>10. QED
  BY <1>5, <1>6, <1>7, <1>8, <1>9 DEF Good, M, H

\* The registered fdevents after fdevent_install.
LEMMA InstallActive ==
  ASSUME NEW L \in Tables, NEW f \in Fds
  PROVE  FdInstall(L, f).active = L.active \cup {f}
  BY InstallFields

\* The registered fdevents after fdevent_remove.
LEMMA RemoveActive ==
  ASSUME NEW L \in Tables, Good(L), NEW f \in L.active
  PROVE  FdRemove(L, f).active = L.active \ {f}
  BY RemoveFields

\* The registered fdevents after fdevent_set, and the pending ones.
LEMMA SetActive ==
  ASSUME NEW L \in Tables, Good(L), NEW f \in L.active, NEW evs \in SUBSET Events
  PROVE  /\ FdSet(L, f, evs).active = L.active
         /\ FdSet(L, f, evs).pending \subseteq L.pending
<1>1. FdSet(L, f, evs).active = L.active
  BY DEF FdSet, Tables
<1>2. FdSet(L, f, evs).pending \in {L.pending, L.pending \ {f}}
  BY SetFields
<1>3. QED
  BY <1>1, <1>2

-----------------------------------------------------------------------------
\* The fdevent of subprocess exits is not there before main enters the loop.
SetupFirst == running = Setup => ExitFd \notin loop.active

\* The inductive invariant: the types, the tables, and what was noticed.
Inv == TypeOK /\ Good(loop) /\ NoticedInThisUse /\ SetupFirst

\* The tables are empty and main is in its setup: the invariant holds.
LEMMA InitInv == Init => Inv
<1> SUFFICES ASSUME Init PROVE Inv
  OBVIOUS
<1>1. loop \in Tables /\ Good(loop)
  BY EmptyGood DEF Init
<1>2. loop.pending = {} /\ loop.plist = {}
  BY DEF Init, EmptyLoop
<1>3. TypeOK
  BY <1>1, FdsAssumption DEF Init, TypeOK, Setup, Callback, Events
<1>4. QED
  BY <1>1, <1>2, <1>3 DEF Inv, NoticedInThisUse, SetupFirst, Init, EmptyLoop

\* A step after which fewer fdevents are pending, none of them installed anew.
LEMMA FewerPending ==
  ASSUME Inv, Good(loop)', loop'.pending \subseteq loop.pending,
         UNCHANGED noticed, \A f \in loop'.pending : use'[f] = use[f]
  PROVE  NoticedInThisUse'
  BY DEF Inv, Good, ListOK, NoticedInThisUse

\* Once in the loop, main never is in the setup again.
LEMMA InLoop ==
  ASSUME running' = Loop \/ running'.fd # 0
  PROVE  SetupFirst'
  BY DEF SetupFirst, Setup, Loop, Callback

\* Every step of main, of a callback, of the kernel or of another thread keeps it.
LEMMA StepInv == Inv /\ [Next]_vars => Inv'
<1> SUFFICES ASSUME Inv, [Next]_vars PROVE Inv'
  OBVIOUS
<1> USE DEF Inv
<1>a. /\ loop \in Tables /\ Good(loop)
      /\ loop.active \subseteq Fds /\ loop.pending \subseteq Fds
      /\ loop.wanted \in [Fds -> SUBSET Events]
  BY DEF TypeOK, Tables
<1>b. ExitFd \in Fds /\ Clients \subseteq Fds
  BY FdsAssumption DEF Clients
<1>1. ASSUME NEW f \in Clients, Install(f) PROVE Inv'
  <2>1. loop' \in Tables /\ Good(loop)' /\ loop'.pending = loop.pending \ {f}
    BY <1>1, <1>a, <1>b, InstallGood, InstallFields DEF Install
  <2>2. TypeOK'
    <3>1. /\ ready' \in [Fds -> SUBSET Events] /\ use' \in [Fds -> Nat]
          /\ forced' \in [Fds -> Nat] /\ f \in Fds
      <4>1. /\ f \in Fds
            /\ use' = [use EXCEPT ![f] = @ + 1] /\ use \in [Fds -> Nat]
            /\ forced' = [forced EXCEPT ![f] = 0] /\ forced \in [Fds -> Nat]
            /\ ready' = [ready EXCEPT ![f] = {}] /\ ready \in [Fds -> SUBSET Events]
        BY <1>1, <1>b DEF Install, TypeOK
      <4>2. ready' \in [Fds -> SUBSET Events]
        BY <4>1
      <4>3. use' \in [Fds -> Nat] /\ forced' \in [Fds -> Nat]
        BY <4>1
      <4>4. QED
        BY <4>1, <4>2, <4>3
    <3>2. Process(f, use'[f]) \in [fd : Fds, use : Nat]
      BY <3>1 DEF Process
    <3>3. procs' \subseteq [fd : Fds, use : Nat]
      BY <1>1, <3>2 DEF Install, TypeOK
    <3>4. ops' \in 0..MaxOps
      BY <1>1, FdsAssumption DEF Install, CallsFdevent, TypeOK
    <3>5. QED
      BY <1>1, <2>1, <3>1, <3>3, <3>4 DEF Install, TypeOK
  <2>3. NoticedInThisUse'
    BY <1>1, <1>a, <1>b, <2>1, FewerPending DEF Install, TypeOK
  <2>4. SetupFirst'
    <3>1. f \in Fds /\ f # ExitFd /\ UNCHANGED running
      BY <1>1, <1>b DEF Install, Clients
    <3>2. loop'.active = loop.active \cup {f}
      BY <1>1, <1>a, <3>1, InstallActive DEF Install
    <3>3. QED
      BY <3>1, <3>2 DEF SetupFirst
  <2>5. QED
    BY <2>1, <2>2, <2>3, <2>4
<1>2. ASSUME NEW f \in Clients, Remove(f) PROVE Inv'
  <2>1. loop' \in Tables /\ Good(loop)' /\ loop'.pending = loop.pending \ {f}
    BY <1>2, <1>a, RemoveGood, RemoveFields DEF Remove
  <2>2. TypeOK'
    <3>1. ops' \in 0..MaxOps
      BY <1>2, FdsAssumption DEF Remove, CallsFdevent, TypeOK
    <3>2. bad' \subseteq Fds
      BY <1>2 DEF Remove, TypeOK
    <3>3. QED
      BY <1>2, <2>1, <3>1, <3>2 DEF Remove, TypeOK
  <2>3. NoticedInThisUse'
    BY <1>2, <2>1, FewerPending DEF Remove
  <2>4. SetupFirst'
    <3>1. f \in loop.active /\ loop' = FdRemove(loop, f) /\ UNCHANGED running
      BY <1>2 DEF Remove
    <3>2. loop'.active = loop.active \ {f}
      BY <1>a, <3>1, RemoveActive
    <3>3. QED
      BY <3>1, <3>2 DEF SetupFirst
  <2>5. QED
    BY <2>1, <2>2, <2>3, <2>4
<1>3. ASSUME NEW f \in Clients, NEW evs \in SUBSET Events, SetEvents(f, evs)
      PROVE Inv'
  <2>1. loop' \in Tables /\ Good(loop)' /\ loop'.pending \subseteq loop.pending
    <3>1. f \in loop.active /\ loop' = FdSet(loop, f, evs)
      BY <1>3 DEF SetEvents
    <3>2. FdSet(loop, f, evs) \in Tables /\ Good(FdSet(loop, f, evs))
      BY <1>a, <3>1, SetGood
    <3>3. FdSet(loop, f, evs).pending \subseteq loop.pending
      BY <1>a, <3>1, SetActive
    <3>4. QED
      BY <3>1, <3>2, <3>3
  <2>2. TypeOK'
    BY <1>3, <2>1, FdsAssumption DEF SetEvents, CallsFdevent, TypeOK
  <2>3. NoticedInThisUse'
    BY <1>3, <2>1, FewerPending DEF SetEvents
  <2>4. SetupFirst'
    <3>1. f \in loop.active /\ loop' = FdSet(loop, f, evs) /\ UNCHANGED running
      BY <1>3 DEF SetEvents
    <3>2. loop'.active = loop.active
      BY <1>a, <3>1, SetActive
    <3>3. QED
      BY <3>1, <3>2 DEF SetupFirst
  <2>5. QED
    BY <2>1, <2>2, <2>3, <2>4
<1>4. ASSUME EnterLoop PROVE Inv'
  <2> DEFINE M == FdInstall(loop, ExitFd)
  <2>1. M \in Tables /\ ExitFd \in M.active /\ M.pending = loop.pending \ {ExitFd}
    <3>1. M \in Tables
      BY <1>a, <1>b, InstallFields
    <3>2. M.active = loop.active \cup {ExitFd} /\ M.pending = loop.pending \ {ExitFd}
      BY <1>a, <1>b, InstallFields
    <3>3. QED
      BY <3>1, <3>2
  <2>2. Good(M)
    <3>1. ExitFd \in Fds \ loop.active
      BY <1>4, <1>b DEF EnterLoop, SetupFirst
    <3>2. QED
      BY <3>1, <1>a, InstallGood
  <2> HIDE DEF M
  <2>3. {"R"} \in SUBSET Events /\ M.wanted[ExitFd] \cup {"R"} \in SUBSET Events
    BY <1>b, <2>1 DEF Tables, Events
  <2>4. loop' = FdSet(M, ExitFd, M.wanted[ExitFd] \cup {"R"})
    BY <1>4 DEF EnterLoop, FdAdd, M
  <2>5. loop' \in Tables /\ Good(loop)'
    BY <2>1, <2>2, <2>3, <2>4, SetGood
  <2>6. loop'.pending \in {M.pending, M.pending \ {ExitFd}}
    BY <2>1, <2>2, <2>3, <2>4, SetFields
  <2>7. TypeOK'
    BY <1>4, <1>b, <2>5 DEF EnterLoop, TypeOK, Loop, Callback
  <2>8. loop'.pending \subseteq loop.pending \ {ExitFd}
    BY <2>1, <2>6
  <2>9. NoticedInThisUse'
    BY <1>4, <1>a, <1>b, <2>5, <2>8, FewerPending DEF EnterLoop, TypeOK
  <2>10. SetupFirst'
    BY <1>4, InLoop DEF EnterLoop
  <2>11. QED
    BY <2>5, <2>7, <2>9, <2>10
<1>5. ASSUME Return PROVE Inv'
  <2>1. TypeOK'
    BY <1>5 DEF Return, TypeOK, Loop, Callback
  <2>2. SetupFirst'
    BY <1>5, InLoop DEF Return
  <2>3. QED
    BY <1>5, <2>1, <2>2 DEF Return, NoticedInThisUse
<1>6. ASSUME Select PROVE Inv'
  <2> DEFINE hits == FdHits(loop, Known, bad)
  <2>1. Known \in [Fds -> SUBSET Events]
    BY DEF Known, TypeOK, Events
  <2>2. hits \in [Fds -> SUBSET Events] /\ HitSet(hits) \subseteq loop.active
    BY <1>a, <2>1, HitsAreRegistered
  <2> HIDE DEF hits
  <2>3. loop' = FdNotice(loop, hits)
        /\ noticed' = [f \in Fds |->
                         IF f \in HitSet(hits) THEN use[f] ELSE noticed[f]]
    BY <1>6 DEF Select, hits
  <2>4. loop' \in Tables /\ Good(loop)'
    BY <1>a, <2>2, <2>3, NoticeGood
  <2>5. loop'.pending = loop.pending \cup HitSet(hits)
    BY <1>a, <2>2, <2>3, NoticeGood
  <2>6. TypeOK'
    BY <1>6, <2>3, <2>4 DEF Select, TypeOK
  <2>7. NoticedInThisUse'
    <3>1. loop'.plist = loop'.pending
      BY <2>4 DEF Good, ListOK
    <3>2. use' = use
      BY <1>6 DEF Select
    <3>3. \A f \in loop'.pending : f \in Fds /\ noticed'[f] = use[f]
      BY <1>a, <2>2, <2>3, <2>5 DEF NoticedInThisUse
    <3>4. QED
      BY <3>1, <3>2, <3>3 DEF NoticedInThisUse
  <2>8. SetupFirst'
    BY <1>6, InLoop DEF Select
  <2>9. QED
    BY <2>4, <2>6, <2>7, <2>8
<1>7. ASSUME NEW f \in Fds, Dispatch(f) PROVE Inv'
  <2>1. loop' \in Tables /\ Good(loop)' /\ loop'.pending = loop.pending \ {f}
    BY <1>7, <1>a, CallGood DEF Dispatch
  <2>2. running'.fd = f /\ running'.ev \subseteq Events
    BY <1>7, <1>a DEF Dispatch, Callback, Tables
  <2>3. TypeOK'
    BY <1>7, <2>1, <2>2 DEF Dispatch, TypeOK
  <2>4. NoticedInThisUse'
    BY <1>7, <2>1, FewerPending DEF Dispatch
  <2>5. SetupFirst'
    BY <2>2, FdsAssumption, InLoop
  <2>6. QED
    BY <2>1, <2>3, <2>4, <2>5
<1>8. ASSUME DispatchExit PROVE Inv'
  <2> DEFINE M == FdCall(FdDequeue(loop, ExitFd), ExitFd)
             called == FdAdd(M, ExitFd, {"R"})
             f == Head(notices).fd
             nudged == [called EXCEPT !.events[f] = @ \cup {"R"}]
  <2>1. ExitFd \in loop.active
    BY <1>8, <1>a DEF DispatchExit, First, Good, ListOK
  <2>2. M \in Tables /\ Good(M) /\ M.active = loop.active
        /\ M.pending \subseteq loop.pending
    BY <1>a, <1>b, CallGood
  <2> HIDE DEF M
  <2>3. M.wanted[ExitFd] \cup {"R"} \in SUBSET Events
    BY <1>b, <2>2 DEF Tables, Events
  <2>4. called \in Tables /\ Good(called)
    BY <2>1, <2>2, <2>3, SetGood DEF FdAdd
  <2>5. called.active = loop.active /\ called.pending \subseteq loop.pending
    <3>1. called = FdSet(M, ExitFd, M.wanted[ExitFd] \cup {"R"})
      BY DEF FdAdd
    <3>2. called.active = M.active /\ called.pending \subseteq M.pending
      BY <2>1, <2>2, <2>3, <3>1, SetActive
    <3>3. QED
      BY <2>2, <3>2
  <2> HIDE DEF called, f, nudged
  <2>6. /\ notices # <<>> /\ notices' = Tail(notices)
        /\ UNCHANGED <<ready, bad, ops, badCount, use, procs, noticed>>
        /\ \/ loop' = called /\ UNCHANGED <<forced, running>>
           \/ /\ f \in loop.active
              /\ forced' = [forced EXCEPT ![f] = Head(notices).use]
              /\ \/ loop' = called /\ UNCHANGED running
                 \/ f \in called.pending /\ loop' = nudged /\ UNCHANGED running
                 \/ /\ f \notin called.pending
                    /\ loop' = FdCall(nudged, f)
                    /\ running' = Callback(f, nudged.events[f])
    BY <1>8 DEF DispatchExit, M, called, f, nudged
  <2>7. f \in called.pending =>
          nudged \in Tables /\ Good(nudged) /\ nudged.pending = called.pending
    BY <2>4, NudgeGood DEF nudged
  <2>8. f \in loop.active \ called.pending => FdCall(nudged, f) = called
    BY <2>4, <2>5, NudgeCallGood DEF nudged
  <2>9. loop' \in Tables /\ Good(loop)' /\ loop'.pending \subseteq loop.pending
    BY <2>4, <2>5, <2>6, <2>7, <2>8
  <2>10. NoticedInThisUse'
    BY <2>6, <2>9, FewerPending
  <2>11. Head(notices) \in [fd : Fds, use : Nat]
         /\ notices' \in Seq([fd : Fds, use : Nat])
    <3> DEFINE S == [fd : Fds, use : Nat]
    <3>1. notices \in Seq(S)
      BY DEF TypeOK
    <3> HIDE DEF S
    <3>2. Head(notices) \in S /\ Tail(notices) \in Seq(S)
      BY <2>6, <3>1
    <3>3. QED
      BY <2>6, <3>2 DEF S
  <2>12. forced' \in [Fds -> Nat]
    BY <2>6, <2>11 DEF TypeOK
  <2>13. running'.fd \in Fds \cup {0} /\ running'.ev \subseteq Events
    <3>1. f \in loop.active => nudged.events[f] \subseteq Events
      BY <1>a, <2>4 DEF nudged, Tables, Events
    <3>2. running' = running
          \/ (f \in loop.active /\ running' = Callback(f, nudged.events[f]))
      BY <2>6
    <3>3. running.fd \in Fds \cup {0} /\ running.ev \subseteq Events
      BY DEF TypeOK
    <3>4. QED
      BY <1>a, <3>1, <3>2, <3>3 DEF Callback
  <2>14. TypeOK'
    BY <2>6, <2>9, <2>11, <2>12, <2>13 DEF TypeOK
  <2>15. SetupFirst'
    <3>1. running = Loop
      BY <1>8 DEF DispatchExit, First
    <3>2. running' = running
          \/ (f \in loop.active /\ running' = Callback(f, nudged.events[f]))
      BY <2>6
    <3>3. QED
      BY <1>a, <3>1, <3>2, FdsAssumption, InLoop DEF Callback
  <2>16. QED
    BY <2>9, <2>10, <2>14, <2>15
<1>9. ASSUME NEW f \in Clients, NEW evs \in SUBSET Events, ReadyChanges(f, evs)
      PROVE Inv'
  <2>1. TypeOK'
    BY <1>9 DEF ReadyChanges, TypeOK
  <2>2. QED
    BY <1>9, <2>1 DEF ReadyChanges, NoticedInThisUse, SetupFirst
<1>10. ASSUME NEW f \in Clients, ClosedElsewhere(f) PROVE Inv'
  <2>1. badCount' \in 0..MaxBad
    BY <1>10, FdsAssumption DEF ClosedElsewhere, TypeOK
  <2>2. bad' \subseteq Fds
    BY <1>10, <1>b DEF ClosedElsewhere, TypeOK
  <2>3. TypeOK'
    BY <1>10, <2>1, <2>2 DEF ClosedElsewhere, TypeOK
  <2>4. QED
    BY <1>10, <2>3 DEF ClosedElsewhere, NoticedInThisUse, SetupFirst
<1>11. ASSUME NEW p \in procs, SubprocessExits(p) PROVE Inv'
  <2>1. p \in [fd : Fds, use : Nat] /\ procs' \subseteq [fd : Fds, use : Nat]
    BY <1>11 DEF SubprocessExits, TypeOK
  <2>2. notices' \in Seq([fd : Fds, use : Nat])
    BY <1>11, <2>1 DEF SubprocessExits, TypeOK
  <2>3. TypeOK'
    BY <1>11, <2>1, <2>2 DEF SubprocessExits, TypeOK
  <2>4. QED
    BY <1>11, <2>3 DEF SubprocessExits, NoticedInThisUse, SetupFirst
<1>12. CASE UNCHANGED vars
  <2>1. TypeOK'
    BY <1>12 DEF vars, TypeOK
  <2>2. QED
    BY <1>12, <2>1 DEF vars, NoticedInThisUse, SetupFirst
<1>13. QED
  BY <1>1, <1>2, <1>3, <1>4, <1>5, <1>6, <1>7, <1>8, <1>9, <1>10, <1>11, <1>12
     DEF Next, CallbackStep, LoopStep, EnvStep

\* The invariant holds of every state the loop reaches.
THEOREM Invariance == Spec => []Inv
  BY InitInv, StepInv, PTL DEF Spec

\* Types, select_n included: every descriptor number and event is one the tables
\* can hold, whatever callbacks and other threads do.
THEOREM LoopTypeCorrect == Spec => []TypeOK
  BY Invariance, PTL DEF Inv

\* list_pending holds the fdevents flagged FDE_PENDING and no other, all of them
\* registered: a callback that removes another never leaves a dangling entry.
THEOREM PendingListConsistent == Spec => []ListMatchesFlags
<1>1. Inv => ListMatchesFlags
  BY DEF Inv, Good, ListOK, ListMatchesFlags
<1>2. QED
  BY <1>1, Invariance, PTL

\* The select sets follow the registered fdevents: no "missing fde".
THEOREM SelectSetsConsistent == Spec => []SelectMatches
<1>1. Inv => SelectMatches
  BY DEF Inv, Good, SelectOK, SelectMatches
<1>2. QED
  BY <1>1, Invariance, PTL

\* Both together, whatever the order in which callbacks, other threads and exits of
\* subprocesses come: the tables of fdevent.c agree at every moment.
THEOREM TablesHold == Spec => []TablesConsistent
  BY PendingListConsistent, SelectSetsConsistent, PTL DEF TablesConsistent

\* select_n covers every registered descriptor after any number of removals.
THEOREM SelectLimitCovers == Spec => []SelectCoversAll
<1>1. Inv => SelectCoversAll
  BY DEF Inv, Good, CoverOK, SelectCoversAll
<1>2. QED
  BY <1>1, Invariance, PTL

\* No event is left with an fdevent that is not pending: a callback is told of nothing that
\* was noticed before the fdevent was last called, set or installed.
THEOREM NothingLeftOver == Spec => []NoLeftover
<1>1. Inv => NoLeftover
  BY DEF Inv, Good, LeftoverOK, NoLeftover
<1>2. QED
  BY <1>1, Invariance, PTL

\* An event is delivered to the fdevent it was noticed for, even when the number
\* of its descriptor was reused within the round.
THEOREM EventsReachTheirFdevent == Spec => []NoticedInThisUse
  BY Invariance, PTL DEF Inv
=============================================================================

-------------------------- MODULE AdbSocketsProofs --------------------------
(***************************************************************************)
(* Proofs about AdbSockets, for any streams, kinds of service, packet and  *)
(* buffer sizes: the sockets of adbd keep flow control and peers right,    *)
(* lose nothing and say nothing after the end (SocketsHold), and with the  *)
(* host and the services they are the streams of AdbStream                 *)
(* (SocketsImplementStreams).                                              *)
(***************************************************************************)
EXTENDS AdbSockets, SequenceTheorems, FiniteSetTheorems, WellFoundedInduction, TLAPS

-----------------------------------------------------------------------------
\* Queues of packets, as one stream sees them.

Is(p, cmd, s) == p.cmd = cmd /\ p.s = s
Has(q, cmd, s) == \E i \in DOMAIN q : Is(q[i], cmd, s)
Sole(q, cmd, s) ==
  \A i, j \in DOMAIN q : Is(q[i], cmd, s) /\ Is(q[j], cmd, s) => i = j

\* Nothing of the stream comes after its CLOSE, and no WRITE before its READY.
Ends(q, s) ==
  \A i, j \in DOMAIN q : i < j /\ q[i].s = s /\ q[j].s = s => q[i].cmd # "CLSE"
Led(q, s) ==
  \A j \in DOMAIN q : Is(q[j], "WRTE", s) =>
    \E i \in DOMAIN q : i < j /\ Is(q[i], "OKAY", s)

\* The data q continues a stream of which a chunks are known.
Run(q, a) == \A i \in DOMAIN q : q[i] = a + i

\* The WRITEs of the stream in q take it from a chunks to b, in order and without
\* gap: pos counts the chunks up to each packet.
Counts(q, s, pos) ==
  \A i \in 1..Len(q) :
    IF Is(q[i], "WRTE", s)
      THEN /\ Len(q[i].data) > 0 /\ pos[i] = pos[i - 1] + Len(q[i].data)
           /\ Run(q[i].data, pos[i - 1])
      ELSE pos[i] = pos[i - 1]
Counter(q, s, a, b, pos) ==
  /\ pos \in [0..Len(q) -> Nat]
  /\ pos[0] = a /\ pos[Len(q)] = b
  /\ \A i, j \in 0..Len(q) : i <= j =>
       /\ pos[i] <= pos[j]
       /\ pos[i] # pos[j] => \E k \in i + 1..j : Is(q[k], "WRTE", s)
  /\ Counts(q, s, pos)
Chain(q, s, a, b) == \E pos : Counter(q, s, a, b, pos)

-----------------------------------------------------------------------------
\* What a packet more, or the first one less, changes.

\* The fields of a queue with one packet more (TLA+'s Append), for the lemmas below.
LEMMA AppendIndex ==
  ASSUME NEW q \in Seq(Packets), NEW p \in Packets
  PROVE  /\ Append(q, p) \in Seq(Packets)
         /\ Len(q) \in Nat /\ Len(Append(q, p)) = Len(q) + 1
         /\ DOMAIN q = 1..Len(q) /\ DOMAIN Append(q, p) = 1..(Len(q) + 1)
         /\ \A i \in 1..Len(q) : Append(q, p)[i] = q[i]
         /\ Append(q, p)[Len(q) + 1] = p
  OBVIOUS

\* The fields of a queue without its first packet.
LEMMA TailIndex ==
  ASSUME NEW q \in Seq(Packets), q # <<>>
  PROVE  /\ Tail(q) \in Seq(Packets)
         /\ Len(q) \in Nat /\ Len(q) > 0 /\ Len(Tail(q)) = Len(q) - 1
         /\ DOMAIN q = 1..Len(q) /\ DOMAIN Tail(q) = 1..(Len(q) - 1)
         /\ \A i \in 1..(Len(q) - 1) : Tail(q)[i] = q[i + 1]
         /\ Head(q) = q[1] /\ q[1] \in Packets
  OBVIOUS

\* A packet is found in a longer queue where it was, or at the end.
LEMMA HasAppend ==
  ASSUME NEW q \in Seq(Packets), NEW p \in Packets, NEW c, NEW s
  PROVE  Has(Append(q, p), c, s) <=> Has(q, c, s) \/ Is(p, c, s)
<1> DEFINE r == Append(q, p)
           n == Len(q)
<1>1. /\ n \in Nat /\ DOMAIN q = 1..n /\ DOMAIN r = 1..(n + 1)
      /\ \A i \in 1..n : r[i] = q[i]
      /\ r[n + 1] = p
  BY AppendIndex
<1> HIDE DEF r, n
<1>2. ASSUME Has(q, c, s) \/ Is(p, c, s) PROVE Has(r, c, s)
  <2>1. CASE Has(q, c, s)
    BY <1>1, <2>1 DEF Has
  <2>2. CASE Is(p, c, s)
    <3>1. n + 1 \in DOMAIN r
      BY <1>1
    <3>2. QED
      BY <1>1, <2>2, <3>1 DEF Has
  <2>3. QED
    BY <1>2, <2>1, <2>2
<1>3. ASSUME Has(r, c, s) PROVE Has(q, c, s) \/ Is(p, c, s)
  <2>1. PICK i \in 1..(n + 1) : Is(r[i], c, s)
    BY <1>1, <1>3 DEF Has
  <2>2. i \in 1..n \/ i = n + 1
    BY <1>1
  <2>3. QED
    BY <1>1, <2>1, <2>2 DEF Has
<1>4. QED
  BY <1>2, <1>3 DEF r

\* A second packet of the kind is the only way not to be the sole one any more.
LEMMA SoleAppend ==
  ASSUME NEW q \in Seq(Packets), NEW p \in Packets, NEW c, NEW s,
         Sole(q, c, s), ~ (Has(q, c, s) /\ Is(p, c, s))
  PROVE  Sole(Append(q, p), c, s)
<1> DEFINE r == Append(q, p)
           n == Len(q)
<1>1. /\ n \in Nat /\ DOMAIN q = 1..n /\ DOMAIN r = 1..(n + 1)
      /\ \A i \in 1..n : r[i] = q[i]
      /\ r[n + 1] = p
  BY AppendIndex
<1> HIDE DEF r, n
<1>2. SUFFICES ASSUME NEW i \in 1..(n + 1), NEW j \in 1..(n + 1),
                      Is(r[i], c, s), Is(r[j], c, s)
               PROVE  i = j
  BY <1>1 DEF Sole, r
<1>3. (i \in 1..n \/ i = n + 1) /\ (j \in 1..n \/ j = n + 1)
  BY <1>1
<1>4. CASE i \in 1..n /\ j \in 1..n
  BY <1>1, <1>2, <1>4 DEF Sole
<1>5. CASE i = n + 1 /\ j \in 1..n
  BY <1>1, <1>2, <1>5 DEF Has
<1>6. CASE j = n + 1 /\ i \in 1..n
  BY <1>1, <1>2, <1>6 DEF Has
<1>7. QED
  BY <1>3, <1>4, <1>5, <1>6

\* What a shorter queue has, the longer one had, unless it was the first packet.
LEMMA HasTail ==
  ASSUME NEW q \in Seq(Packets), q # <<>>, NEW c, NEW s
  PROVE  /\ Has(q, c, s) <=> Has(Tail(q), c, s) \/ Is(Head(q), c, s)
         /\ Sole(q, c, s) => /\ Sole(Tail(q), c, s)
                             /\ Is(Head(q), c, s) => ~ Has(Tail(q), c, s)
<1> DEFINE r == Tail(q)
           n == Len(q)
<1>1. /\ n \in Nat /\ n > 0 /\ DOMAIN q = 1..n /\ DOMAIN r = 1..(n - 1)
      /\ \A i \in 1..(n - 1) : r[i] = q[i + 1]
      /\ Head(q) = q[1]
  BY TailIndex
<1> HIDE DEF r, n
<1>2. \A i \in 1..(n - 1) : i + 1 \in 1..n /\ i + 1 # 1
  BY <1>1
<1>3. ASSUME NEW i \in 1..n, i # 1 PROVE i - 1 \in 1..(n - 1) /\ r[i - 1] = q[i]
  <2>1. i - 1 \in 1..(n - 1) /\ (i - 1) + 1 = i
    BY <1>1, <1>3
  <2>2. QED
    BY <1>1, <2>1
<1>4. 1 \in 1..n
  BY <1>1
<1>5. Has(q, c, s) <=> Has(r, c, s) \/ Is(Head(q), c, s)
  BY <1>1, <1>2, <1>3, <1>4 DEF Has
<1>6. ASSUME Sole(q, c, s) PROVE Sole(r, c, s)
  <2>1. SUFFICES ASSUME NEW i \in 1..(n - 1), NEW j \in 1..(n - 1),
                        Is(r[i], c, s), Is(r[j], c, s)
                 PROVE  i = j
    BY <1>1 DEF Sole
  <2>2. i + 1 = j + 1
    BY <1>1, <1>2, <1>6, <2>1 DEF Sole
  <2>3. QED
    BY <2>2
<1>7. ASSUME Sole(q, c, s), Is(Head(q), c, s) PROVE ~ Has(r, c, s)
  BY <1>1, <1>2, <1>4, <1>7 DEF Sole, Has
<1>8. QED
  BY <1>5, <1>6, <1>7 DEF r

\* The order of a stream's packets is that of the shorter queue, then p.
LEMMA EndsAppend ==
  ASSUME NEW q \in Seq(Packets), NEW p \in Packets, NEW s,
         Ends(q, s), p.s = s => ~ Has(q, "CLSE", s)
  PROVE  Ends(Append(q, p), s)
<1> DEFINE r == Append(q, p)
           n == Len(q)
<1>1. /\ n \in Nat /\ DOMAIN q = 1..n /\ DOMAIN r = 1..(n + 1)
      /\ \A i \in 1..n : r[i] = q[i]
      /\ r[n + 1] = p
  BY AppendIndex
<1> HIDE DEF r, n
<1>2. SUFFICES ASSUME NEW i \in 1..(n + 1), NEW j \in 1..(n + 1),
                      i < j, r[i].s = s, r[j].s = s
               PROVE  r[i].cmd # "CLSE"
  BY <1>1 DEF Ends, r
<1>3. i \in 1..n /\ (j \in 1..n \/ j = n + 1)
  BY <1>1, <1>2
<1>4. CASE j \in 1..n
  BY <1>1, <1>2, <1>3, <1>4 DEF Ends
<1>5. CASE j = n + 1
  BY <1>1, <1>2, <1>3, <1>5 DEF Has, Is
<1>6. QED
  BY <1>3, <1>4, <1>5

\* The order is kept when the first packet goes; if it is a CLOSE, no other follows.
LEMMA EndsTail ==
  ASSUME NEW q \in Seq(Packets), q # <<>>, NEW s, Ends(q, s)
  PROVE  /\ Ends(Tail(q), s)
         /\ Is(Head(q), "CLSE", s) => \A c : ~ Has(Tail(q), c, s)
<1> DEFINE r == Tail(q)
           n == Len(q)
<1>1. /\ n \in Nat /\ n > 0 /\ DOMAIN q = 1..n /\ DOMAIN r = 1..(n - 1)
      /\ \A i \in 1..(n - 1) : r[i] = q[i + 1]
      /\ Head(q) = q[1]
  BY TailIndex
<1> HIDE DEF r, n
<1>2. \A i \in 1..(n - 1) : i + 1 \in 1..n /\ 1 < i + 1
  BY <1>1
<1>3. \A i, j \in 1..(n - 1) : i < j => i + 1 < j + 1
  BY <1>1
<1>4. Ends(r, s)
  BY <1>1, <1>2, <1>3 DEF Ends
<1>5. 1 \in 1..n
  BY <1>1
<1>6. Is(Head(q), "CLSE", s) => \A c : ~ Has(r, c, s)
  BY <1>1, <1>2, <1>5 DEF Ends, Has, Is
<1>7. QED
  BY <1>4, <1>6 DEF r

\* A WRITE added to a queue that has a READY comes after it.
LEMMA LedAppend ==
  ASSUME NEW q \in Seq(Packets), NEW p \in Packets, NEW s,
         Led(q, s), Is(p, "WRTE", s) => Has(q, "OKAY", s)
  PROVE  Led(Append(q, p), s)
<1> DEFINE r == Append(q, p)
           n == Len(q)
<1>1. /\ n \in Nat /\ DOMAIN q = 1..n /\ DOMAIN r = 1..(n + 1)
      /\ \A i \in 1..n : r[i] = q[i]
      /\ r[n + 1] = p
  BY AppendIndex
<1> HIDE DEF r, n
<1>2. SUFFICES ASSUME NEW j \in 1..(n + 1), Is(r[j], "WRTE", s)
               PROVE  \E i \in 1..(n + 1) : i < j /\ Is(r[i], "OKAY", s)
  BY <1>1 DEF Led, r
<1>3. j \in 1..n \/ j = n + 1
  BY <1>1
<1>4. CASE j \in 1..n
  <2>1. PICK i \in 1..n : i < j /\ Is(q[i], "OKAY", s)
    BY <1>1, <1>2, <1>4 DEF Led
  <2>2. i \in 1..(n + 1) /\ r[i] = q[i]
    BY <1>1
  <2>3. QED
    BY <2>1, <2>2
<1>5. CASE j = n + 1
  <2>1. PICK i \in 1..n : Is(q[i], "OKAY", s)
    BY <1>1, <1>2, <1>5 DEF Has
  <2>2. i \in 1..(n + 1) /\ r[i] = q[i] /\ i < j
    BY <1>1, <1>5
  <2>3. QED
    BY <2>1, <2>2
<1>6. QED
  BY <1>3, <1>4, <1>5

\* The first packet is no WRITE then, and if it is no READY the rest is led as well.
LEMMA LedTail ==
  ASSUME NEW q \in Seq(Packets), q # <<>>, NEW s, Led(q, s)
  PROVE  /\ ~ Is(Head(q), "WRTE", s)
         /\ ~ Is(Head(q), "OKAY", s) => Led(Tail(q), s)
<1> DEFINE r == Tail(q)
           n == Len(q)
<1>1. /\ n \in Nat /\ n > 0 /\ DOMAIN q = 1..n /\ DOMAIN r = 1..(n - 1)
      /\ \A i \in 1..(n - 1) : r[i] = q[i + 1]
      /\ Head(q) = q[1]
  BY TailIndex
<1> HIDE DEF r, n
<1>2. ~ Is(Head(q), "WRTE", s)
  <2>1. 1 \in 1..n /\ ~ \E i \in 1..n : i < 1
    BY <1>1
  <2>2. QED
    BY <1>1, <2>1 DEF Led
<1>3. ASSUME ~ Is(Head(q), "OKAY", s), NEW j \in 1..(n - 1), Is(r[j], "WRTE", s)
      PROVE  \E i \in 1..(n - 1) : i < j /\ Is(r[i], "OKAY", s)
  <2>1. j + 1 \in 1..n /\ Is(q[j + 1], "WRTE", s)
    BY <1>1, <1>3
  <2>2. PICK i \in 1..n : i < j + 1 /\ Is(q[i], "OKAY", s)
    BY <1>1, <2>1 DEF Led
  <2>3. i # 1
    BY <1>1, <1>3, <2>2
  <2>4. i - 1 \in 1..(n - 1) /\ i - 1 < j /\ r[i - 1] = q[i]
    BY <1>1, <2>2, <2>3
  <2>5. QED
    BY <2>2, <2>4
<1>4. ~ Is(Head(q), "OKAY", s) => Led(r, s)
  BY <1>1, <1>3 DEF Led
<1>5. QED
  BY <1>2, <1>4 DEF r

-----------------------------------------------------------------------------
\* Data.

\* A piece and the one that continues it make one.
LEMMA RunConcat ==
  ASSUME NEW p \in Seq(Chunks), NEW q \in Seq(Chunks), NEW a \in Nat,
         Run(p, a), Run(q, a + Len(p))
  PROVE  Run(p \o q, a)
<1> DEFINE r == p \o q
           m == Len(p)
           n == Len(q)
<1>1. /\ m \in Nat /\ n \in Nat /\ DOMAIN p = 1..m /\ DOMAIN q = 1..n /\ DOMAIN r = 1..(m + n)
      /\ \A i \in 1..(m + n) : r[i] = IF i <= m THEN p[i] ELSE q[i - m]
  OBVIOUS
<1> HIDE DEF r, m, n
<1>2. SUFFICES ASSUME NEW i \in 1..(m + n) PROVE r[i] = a + i
  BY <1>1 DEF Run, r
<1>3. CASE i <= m
  BY <1>1, <1>3, SMTT(30) DEF Run
<1>4. CASE i > m
  <2>1. i - m \in 1..n /\ r[i] = q[i - m]
    BY <1>1, <1>4
  <2>2. q[i - m] = a + m + (i - m)
    BY <1>1, <2>1 DEF Run, m
  <2>3. QED
    BY <1>1, <2>1, <2>2
<1>5. QED
  BY <1>1, <1>3, <1>4

\* The first k chunks, and the others, which continue them.
LEMMA RunSplit ==
  ASSUME NEW q \in Seq(Chunks), NEW k \in 0..Len(q)
  PROVE  /\ First(q, k) \in Seq(Chunks) /\ Len(First(q, k)) = k
         /\ Rest(q, k) \in Seq(Chunks) /\ Len(Rest(q, k)) = Len(q) - k
         /\ \A a \in Nat : Run(q, a) => Run(First(q, k), a) /\ Run(Rest(q, k), a + k)
<1> DEFINE n == Len(q)
           f == First(q, k)
           r == Rest(q, k)
<1>1. n \in Nat /\ k \in Nat /\ k <= n /\ DOMAIN q = 1..n /\ \A i \in 1..n : q[i] \in Chunks
  OBVIOUS
<1>2. /\ f \in Seq(Chunks) /\ Len(f) = k
      /\ \A i \in 1..k : f[i] = q[i]
  <2>1. \A i \in 1..k : q[i] \in Chunks
    BY <1>1
  <2>2. /\ f \in Seq(Chunks) /\ Len(f) = IF 1 <= k THEN k - 1 + 1 ELSE 0
        /\ \A i \in 1..(k - 1 + 1) : f[i] = q[1 + i - 1]
    BY <1>1, <2>1, SubSeqProperties DEF First
  <2> HIDE DEF f
  <2>3. k - 1 + 1 = k /\ \A i \in 1..k : 1 + i - 1 = i
    BY <1>1
  <2>4. QED
    BY <1>1, <2>2, <2>3
<1>3. /\ r \in Seq(Chunks) /\ Len(r) = n - k
      /\ \A i \in 1..(n - k) : r[i] = q[k + i]
  <2>1. \A i \in (k + 1)..n : q[i] \in Chunks
    BY <1>1
  <2>2. /\ r \in Seq(Chunks) /\ Len(r) = IF k + 1 <= n THEN n - (k + 1) + 1 ELSE 0
        /\ \A i \in 1..(n - (k + 1) + 1) : r[i] = q[k + 1 + i - 1]
    BY <1>1, <2>1, SubSeqProperties DEF Rest
  <2> HIDE DEF r
  <2> HIDE DEF n
  <2>3. n - (k + 1) + 1 = n - k /\ \A i \in 1..(n - k) : k + 1 + i - 1 = k + i
    BY <1>1
  <2>4. (IF k + 1 <= n THEN n - (k + 1) + 1 ELSE 0) = n - k
    BY <1>1
  <2>5. \A i \in 1..(n - k) : r[i] = q[k + i]
    <3>1. \A i \in 1..(n - k) : r[i] = q[k + 1 + i - 1]
      BY <2>2, <2>3
    <3>2. QED
      BY <2>3, <3>1
  <2>6. QED
    BY <2>2, <2>4, <2>5
<1> HIDE DEF f, r, n
<1>4. DOMAIN f = 1..k /\ DOMAIN r = 1..(n - k)
  BY <1>2, <1>3
<1>5. ASSUME NEW a \in Nat, Run(q, a) PROVE Run(f, a) /\ Run(r, a + k)
  <2>1. \A i \in 1..n : q[i] = a + i
    BY <1>1, <1>5 DEF Run
  <2>2. \A i \in 1..k : i \in 1..n
    BY <1>1
  <2>3. \A i \in 1..(n - k) : k + i \in 1..n /\ a + (k + i) = a + k + i
    BY <1>1
  <2>4. Run(f, a)
    BY <1>2, <1>4, <2>1, <2>2 DEF Run
  <2>5. Run(r, a + k)
    BY <1>3, <1>4, <2>1, <2>3 DEF Run
  <2>6. QED
    BY <2>4, <2>5
<1>6. QED
  BY <1>2, <1>3, <1>5 DEF f, r, n

\* One chunk moves from the head of one piece to the end of the one before it.
LEMMA RunMove ==
  ASSUME NEW p \in Seq(Chunks), NEW q \in Seq(Chunks), q # <<>>, Run(p, 0), Run(q, Len(p))
  PROVE  /\ Append(p, Head(q)) \in Seq(Chunks) /\ Len(Append(p, Head(q))) = Len(p) + 1
         /\ Tail(q) \in Seq(Chunks) /\ Len(Tail(q)) = Len(q) - 1
         /\ Run(Append(p, Head(q)), 0) /\ Run(Tail(q), Len(p) + 1)
<1> DEFINE m == Len(p)
           n == Len(q)
           r == Append(p, Head(q))
           t == Tail(q)
<1>1. /\ m \in Nat /\ n \in Nat /\ n > 0
      /\ DOMAIN p = 1..m /\ DOMAIN q = 1..n /\ DOMAIN r = 1..(m + 1) /\ DOMAIN t = 1..(n - 1)
      /\ \A i \in 1..m : r[i] = p[i]
      /\ r[m + 1] = q[1]
      /\ \A i \in 1..(n - 1) : t[i] = q[i + 1]
  OBVIOUS
<1>2. /\ r \in Seq(Chunks) /\ Len(r) = m + 1
      /\ t \in Seq(Chunks) /\ Len(t) = n - 1
  OBVIOUS
<1> HIDE DEF r, t, n
<1>3. Run(r, 0)
  <2>1. \A i \in 1..m : p[i] = i
    BY <1>1 DEF Run
  <2>2. q[1] = m + 1
    <3>1. 1 \in 1..n
      BY <1>1
    <3>2. QED
      BY <1>1, <3>1 DEF Run
  <2> HIDE DEF m
  <2>3. \A i \in 1..(m + 1) : (i \in 1..m \/ i = m + 1) /\ 0 + i = i
    BY <1>1
  <2>4. QED
    BY <1>1, <2>1, <2>2, <2>3 DEF Run
<1>4. Run(t, m + 1)
  <2>1. \A i \in 1..n : q[i] = m + i
    BY <1>1 DEF Run
  <2> HIDE DEF m
  <2>2. \A i \in 1..(n - 1) : i + 1 \in 1..n /\ m + (i + 1) = m + 1 + i
    BY <1>1
  <2>3. QED
    BY <1>1, <2>1, <2>2 DEF Run
<1>5. QED
  BY <1>2, <1>3, <1>4 DEF r, t, n

\* Pieces of one length that start at one place are the same.
LEMMA RunSame ==
  ASSUME NEW p \in Seq(Chunks), NEW q \in Seq(Chunks), NEW a \in Nat,
         Run(p, a), Run(q, a), Len(p) = Len(q)
  PROVE  p = q
<1>1. DOMAIN p = 1..Len(p) /\ DOMAIN q = 1..Len(q)
  OBVIOUS
<1>2. \A i \in 1..Len(p) : p[i] = q[i]
  BY <1>1 DEF Run
<1>3. QED
  BY <1>2, SeqEqual

-----------------------------------------------------------------------------
\* The WRITEs of a stream in a queue.

\* What a chain says of its ends.
LEMMA ChainBounds ==
  ASSUME NEW q \in Seq(Packets), NEW s, NEW a, NEW b, Chain(q, s, a, b)
  PROVE  /\ a \in Nat /\ b \in Nat /\ a <= b
         /\ ~ Has(q, "WRTE", s) => a = b
         /\ Has(q, "WRTE", s) => a < b
<1> DEFINE n == Len(q)
<1>1. PICK pos : Counter(q, s, a, b, pos)
  BY DEF Chain
<1>2. n \in Nat /\ DOMAIN q = 1..n
  OBVIOUS
<1>3. /\ pos \in [0..n -> Nat] /\ pos[0] = a /\ pos[n] = b
      /\ \A i, j \in 0..n : i <= j =>
           /\ pos[i] <= pos[j]
           /\ pos[i] # pos[j] => \E k \in i + 1..j : Is(q[k], "WRTE", s)
  BY <1>1 DEF Counter
<1> HIDE DEF n
<1>4. 0 \in 0..n /\ n \in 0..n /\ 0 <= n
  BY <1>2
<1>5. a \in Nat /\ b \in Nat /\ a <= b
  BY <1>3, <1>4
<1>6. ASSUME a # b PROVE Has(q, "WRTE", s)
  <2>1. PICK k \in 0 + 1..n : Is(q[k], "WRTE", s)
    BY <1>3, <1>4, <1>6
  <2>2. k \in 1..n
    OBVIOUS
  <2>3. QED
    BY <1>2, <2>1, <2>2 DEF Has
<1>7. ASSUME Has(q, "WRTE", s) PROVE a < b
  <2>1. PICK i \in 1..n : Is(q[i], "WRTE", s)
    BY <1>2, <1>7 DEF Has
  <2>2. i \in 0..n /\ i - 1 \in 0..n /\ 0 <= i - 1 /\ i <= n
    BY <1>2
  <2>3. a <= pos[i - 1] /\ pos[i] <= b
    BY <1>3, <1>4, <2>2
  <2>4. Len(q[i].data) > 0 /\ pos[i] = pos[i - 1] + Len(q[i].data)
    BY <1>1, <2>1 DEF Counter, Counts, n
  <2>5. Len(q[i].data) \in Nat
    <3>1. q[i] \in Packets
      BY <1>2, <2>1 DEF n
    <3>2. QED
      BY <3>1 DEF Packets
  <2>6. pos[i - 1] \in Nat /\ pos[i] \in Nat
    BY <1>3, <2>2
  <2>7. QED
    BY <1>5, <2>3, <2>4, <2>5, <2>6
<1>8. QED
  BY <1>5, <1>6, <1>7

\* A queue without WRITEs of the stream leaves it where it is.
LEMMA ChainNone ==
  ASSUME NEW q \in Seq(Packets), NEW s, NEW a \in Nat, ~ Has(q, "WRTE", s)
  PROVE  Chain(q, s, a, a)
<1> DEFINE pos == [i \in 0..Len(q) |-> a]
<1>1. Len(q) \in Nat /\ DOMAIN q = 1..Len(q)
  OBVIOUS
<1>2. \A i \in 0..Len(q) : pos[i] = a
  OBVIOUS
<1>3. pos \in [0..Len(q) -> Nat]
  OBVIOUS
<1> HIDE DEF pos
<1>4. \A i \in 1..Len(q) : i \in 0..Len(q) /\ i - 1 \in 0..Len(q)
  BY <1>1
<1>5. Counts(q, s, pos)
  BY <1>1, <1>2, <1>4 DEF Counts, Has
<1>6. 0 \in 0..Len(q) /\ Len(q) \in 0..Len(q)
  BY <1>1
<1>7. Counter(q, s, a, a, pos)
  BY <1>2, <1>3, <1>5, <1>6 DEF Counter
<1>8. QED
  BY <1>7 DEF Chain

\* A packet more carries the chain on if it is a WRITE of the stream.
LEMMA ChainAppend ==
  ASSUME NEW q \in Seq(Packets), NEW p \in Packets, NEW s, NEW a, NEW b, NEW c,
         Chain(q, s, a, b),
         IF Is(p, "WRTE", s) THEN Len(p.data) > 0 /\ c = b + Len(p.data) /\ Run(p.data, b)
         ELSE c = b
  PROVE  Chain(Append(q, p), s, a, c)
<1> DEFINE r == Append(q, p)
           n == Len(q)
<1>1. /\ n \in Nat /\ Len(r) = n + 1
      /\ \A i \in 1..n : r[i] = q[i]
      /\ r[n + 1] = p
  BY AppendIndex
<1>2. PICK pos : Counter(q, s, a, b, pos)
  BY DEF Chain
<1> HIDE DEF r, n
<1>3. /\ pos \in [0..n -> Nat] /\ pos[0] = a /\ pos[n] = b
      /\ \A i, j \in 0..n : i <= j =>
           /\ pos[i] <= pos[j]
           /\ pos[i] # pos[j] => \E k \in i + 1..j : Is(q[k], "WRTE", s)
  BY <1>2 DEF Counter, n
<1>4. Len(p.data) \in Nat
  BY DEF Packets
<1>5. b \in Nat /\ c \in Nat /\ b <= c /\ (b # c => Is(p, "WRTE", s))
  <2>1. b \in Nat
    BY <1>1, <1>3
  <2>2. QED
    BY <1>4, <2>1
<1> DEFINE new == [i \in 0..(n + 1) |-> IF i = n + 1 THEN c ELSE pos[i]]
<1>6. \A i \in 0..n : i \in 0..(n + 1) /\ i # n + 1
  BY <1>1
<1>7. n + 1 \in 0..(n + 1) /\ 0 \in 0..n /\ n \in 0..n
  BY <1>1
<1>8. (\A i \in 0..n : new[i] = pos[i]) /\ new[n + 1] = c
  BY <1>6, <1>7
<1>9. new \in [0..(n + 1) -> Nat]
  <2>1. \A i \in 0..(n + 1) : i = n + 1 \/ i \in 0..n
    BY <1>1
  <2>2. \A i \in 0..(n + 1) : new[i] \in Nat
    BY <1>3, <1>5, <1>8, <2>1
  <2>3. QED
    BY <2>2
<1> HIDE DEF new
<1>10. ASSUME NEW i \in 0..(n + 1), NEW j \in 0..(n + 1), i <= j
       PROVE  /\ new[i] <= new[j]
              /\ new[i] # new[j] => \E k \in i + 1..j : Is(r[k], "WRTE", s)
  <2>1. CASE j \in 0..n
    <3>1. i \in 0..n
      BY <1>1, <1>10, <2>1
    <3>2. pos[i] <= pos[j] /\ (pos[i] # pos[j] => \E k \in i + 1..j : Is(q[k], "WRTE", s))
      BY <1>3, <1>10, <2>1, <3>1
    <3>3. \A k \in i + 1..j : k \in 1..n
      BY <1>1, <2>1, <3>1
    <3>4. QED
      BY <1>1, <1>8, <2>1, <3>1, <3>2, <3>3
  <2>2. CASE j = n + 1 /\ i \in 0..n
    <3>1. i <= n
      BY <1>1, <2>2
    <3>2. pos[i] <= b /\ (pos[i] # b => \E k \in i + 1..n : Is(q[k], "WRTE", s))
      BY <1>3, <1>7, <2>2, <3>1
    <3>3. pos[i] \in Nat
      BY <1>3, <2>2
    <3>4. new[i] <= new[j]
      BY <1>5, <1>8, <2>2, <3>2, <3>3
    <3>5. ASSUME new[i] # new[j] PROVE \E k \in i + 1..j : Is(r[k], "WRTE", s)
      <4>1. CASE pos[i] # b
        <5>1. PICK k \in i + 1..n : Is(q[k], "WRTE", s)
          BY <3>2, <4>1
        <5>2. k \in 1..n /\ k \in i + 1..j
          BY <1>1, <2>2
        <5>3. QED
          BY <1>1, <5>1, <5>2
      <4>2. CASE pos[i] = b
        <5>1. Is(p, "WRTE", s)
          BY <1>5, <1>8, <2>2, <3>5, <4>2
        <5>2. n + 1 \in i + 1..j
          BY <1>1, <2>2
        <5>3. QED
          BY <1>1, <5>1, <5>2
      <4>3. QED
        BY <4>1, <4>2
    <3>6. QED
      BY <3>4, <3>5
  <2>3. CASE i = n + 1 /\ j = n + 1
    BY <1>5, <1>8, <2>3
  <2>4. QED
    BY <1>1, <1>10, <2>1, <2>2, <2>3
<1>11. Counts(r, s, new)
  <2>1. SUFFICES ASSUME NEW i \in 1..(n + 1)
                 PROVE  IF Is(r[i], "WRTE", s)
                          THEN /\ Len(r[i].data) > 0 /\ new[i] = new[i - 1] + Len(r[i].data)
                               /\ Run(r[i].data, new[i - 1])
                          ELSE new[i] = new[i - 1]
    BY <1>1 DEF Counts
  <2>2. CASE i \in 1..n
    <3>1. i \in 0..n /\ i - 1 \in 0..n
      BY <1>1, <2>2
    <3>2. QED
      BY <1>1, <1>2, <1>8, <2>2, <3>1 DEF Counter, Counts, n
  <2>3. CASE i = n + 1
    <3>1. i - 1 = n
      BY <1>1, <2>3
    <3>2. new[i - 1] = b /\ new[i] = c /\ r[i] = p
      BY <1>1, <1>3, <1>7, <1>8, <2>3, <3>1
    <3>3. QED
      BY <3>2
  <2>4. QED
    BY <1>1, <2>2, <2>3
<1>12. new[0] = a /\ new[n + 1] = c
  BY <1>3, <1>7, <1>8
<1>13. Counter(r, s, a, c, new)
  BY <1>1, <1>9, <1>10, <1>11, <1>12 DEF Counter
<1>14. QED
  BY <1>13 DEF Chain, r

\* The first packet takes the chain on, if it is a WRITE of the stream.
LEMMA ChainTail ==
  ASSUME NEW q \in Seq(Packets), q # <<>>, NEW s, NEW a, NEW b, Chain(q, s, a, b)
  PROVE  IF Is(Head(q), "WRTE", s)
           THEN /\ Len(Head(q).data) > 0 /\ Run(Head(q).data, a)
                /\ Chain(Tail(q), s, a + Len(Head(q).data), b)
           ELSE Chain(Tail(q), s, a, b)
<1> DEFINE r == Tail(q)
           n == Len(q)
<1>1. /\ n \in Nat /\ n > 0 /\ Len(r) = n - 1
      /\ \A i \in 1..(n - 1) : r[i] = q[i + 1]
      /\ Head(q) = q[1]
  BY TailIndex
<1>2. PICK pos : Counter(q, s, a, b, pos)
  BY DEF Chain
<1> HIDE DEF r, n
<1>3. /\ pos \in [0..n -> Nat] /\ pos[0] = a /\ pos[n] = b
      /\ \A i, j \in 0..n : i <= j =>
           /\ pos[i] <= pos[j]
           /\ pos[i] # pos[j] => \E k \in i + 1..j : Is(q[k], "WRTE", s)
  BY <1>2 DEF Counter, n
<1> DEFINE new == [i \in 0..(n - 1) |-> pos[i + 1]]
<1>4. \A i \in 0..(n - 1) : i + 1 \in 0..n /\ i + 1 \in 1..n /\ (i + 1) - 1 = i
  BY <1>1
<1>5. (\A i \in 0..(n - 1) : new[i] = pos[i + 1]) /\ new \in [0..(n - 1) -> Nat]
  BY <1>3, <1>4
<1> HIDE DEF new
<1>6. 0 \in 0..(n - 1) /\ n - 1 \in 0..(n - 1) /\ 0 + 1 = 1 /\ (n - 1) + 1 = n
  BY <1>1
<1>7. new[0] = pos[1] /\ new[n - 1] = b
  BY <1>3, <1>5, <1>6
<1>8. ASSUME NEW i \in 0..(n - 1), NEW j \in 0..(n - 1), i <= j
      PROVE  /\ new[i] <= new[j]
             /\ new[i] # new[j] => \E k \in i + 1..j : Is(r[k], "WRTE", s)
  <2>1. i + 1 <= j + 1 /\ i + 1 \in 0..n /\ j + 1 \in 0..n
    BY <1>4, <1>8
  <2>2. /\ pos[i + 1] <= pos[j + 1]
        /\ pos[i + 1] # pos[j + 1] => \E k \in (i + 1) + 1..j + 1 : Is(q[k], "WRTE", s)
    BY <1>3, <2>1
  <2>3. ASSUME NEW k \in (i + 1) + 1..j + 1, Is(q[k], "WRTE", s)
        PROVE  \E l \in i + 1..j : Is(r[l], "WRTE", s)
    <3>1. k - 1 \in i + 1..j /\ k - 1 \in 1..(n - 1) /\ (k - 1) + 1 = k
      BY <1>1, <2>3
    <3>2. r[k - 1] = q[k]
      BY <1>1, <3>1
    <3>3. QED
      BY <2>3, <3>1, <3>2
  <2>4. QED
    BY <1>5, <2>2, <2>3
<1>9. Counts(q, s, pos)
  BY <1>2 DEF Counter
<1>10. Counts(r, s, new)
  <2>1. SUFFICES ASSUME NEW i \in 1..(n - 1)
                 PROVE  IF Is(r[i], "WRTE", s)
                          THEN /\ Len(r[i].data) > 0 /\ new[i] = new[i - 1] + Len(r[i].data)
                               /\ Run(r[i].data, new[i - 1])
                          ELSE new[i] = new[i - 1]
    BY <1>1 DEF Counts
  <2>2. /\ i \in 0..(n - 1) /\ i - 1 \in 0..(n - 1) /\ (i - 1) + 1 = i
        /\ i + 1 \in 1..n /\ (i + 1) - 1 = i
    BY <1>1
  <2>3. new[i] = pos[i + 1] /\ new[i - 1] = pos[i] /\ r[i] = q[i + 1]
    BY <1>1, <1>5, <2>2
  <2>4. IF Is(q[i + 1], "WRTE", s)
          THEN /\ Len(q[i + 1].data) > 0
               /\ pos[i + 1] = pos[(i + 1) - 1] + Len(q[i + 1].data)
               /\ Run(q[i + 1].data, pos[(i + 1) - 1])
          ELSE pos[i + 1] = pos[(i + 1) - 1]
    BY <1>9, <2>2 DEF Counts, n
  <2>5. QED
    BY <2>2, <2>3, <2>4
<1>11. Counter(r, s, pos[1], b, new)
  BY <1>1, <1>5, <1>7, <1>8, <1>10 DEF Counter
<1>12. Chain(r, s, pos[1], b)
  BY <1>11 DEF Chain
<1>13. IF Is(q[1], "WRTE", s)
         THEN Len(q[1].data) > 0 /\ pos[1] = a + Len(q[1].data) /\ Run(q[1].data, a)
         ELSE pos[1] = a
  <2>1. 1 \in 1..n /\ 1 - 1 = 0
    BY <1>1
  <2>2. IF Is(q[1], "WRTE", s)
          THEN /\ Len(q[1].data) > 0 /\ pos[1] = pos[1 - 1] + Len(q[1].data)
               /\ Run(q[1].data, pos[1 - 1])
          ELSE pos[1] = pos[1 - 1]
    BY <1>9, <2>1 DEF Counts, n
  <2>3. QED
    BY <1>3, <2>1, <2>2
<1>14. QED
  BY <1>1, <1>12, <1>13 DEF r

-----------------------------------------------------------------------------
\* The fdevents: what is pending is registered, and select looks for what the
\* registered ones want.  (select_n is FdEventProofs' subject.)

LoopOK(L) ==
  /\ L \in [active : SUBSET Fds, pending : SUBSET Fds, plist : SUBSET Fds, n : {L.n},
            wanted : [Fds -> SUBSET Events], events : [Fds -> SUBSET Events],
            sel : [Fds -> SUBSET Events]]
  /\ L.plist \subseteq L.pending /\ L.pending \subseteq L.active
  /\ \A f \in Fds : L.sel[f] = IF f \in L.active THEN L.wanted[f] ELSE {}

\* fdevent_set: the others are not concerned, and no event is added.
LEMMA SetLoop ==
  ASSUME NEW L, LoopOK(L), NEW f \in L.active, NEW evs \in SUBSET Events
  PROVE  LET M == FdSet(L, f, evs) IN
         /\ LoopOK(M) /\ M.active = L.active
         /\ M.wanted = [L.wanted EXCEPT ![f] = evs]
         /\ M.events[f] \subseteq L.events[f]
         /\ \A g \in Fds \ {f} : M.events[g] = L.events[g]
<1> DEFINE M == FdSet(L, f, evs)
           isPending == f \in L.pending
           left == L.events[f] \ evs
           gone == IF isPending /\ left = {} THEN {f} ELSE {}
           updated == [L EXCEPT !.wanted[f] = evs, !.sel[f] = evs]
           kept == IF isPending THEN left ELSE L.events[f]
           rest == L.pending \ gone
           list == L.plist \ gone
           noted == [L.events EXCEPT ![f] = kept]
<1>1. f \in Fds /\ L.events[f] \subseteq Events
  BY DEF LoopOK
<1>2. CASE L.wanted[f] = evs
  <2>1. M = L
    BY <1>2 DEF FdSet
  <2>2. L.wanted = [L.wanted EXCEPT ![f] = evs]
    BY <1>2 DEF LoopOK
  <2>3. QED
    BY <2>1, <2>2
<1>3. CASE L.wanted[f] # evs
  <2>1. M = [updated EXCEPT !.events[f] = kept, !.pending = @ \ gone, !.plist = @ \ gone]
    BY <1>3 DEF FdSet, FdUpdate, LoopOK
  <2>2. updated = [active |-> L.active, pending |-> L.pending, plist |-> L.plist, n |-> L.n,
                   wanted |-> [L.wanted EXCEPT ![f] = evs], events |-> L.events,
                   sel |-> [L.sel EXCEPT ![f] = evs]]
    <3> DEFINE w == [L.wanted EXCEPT ![f] = evs]
               r == [L.sel EXCEPT ![f] = evs]
    <3>1. updated = [L EXCEPT !.wanted = w, !.sel = r]
      BY DEF LoopOK
    <3> HIDE DEF w, r, updated
    <3>2. updated = [active |-> L.active, pending |-> L.pending, plist |-> L.plist, n |-> L.n,
                     wanted |-> w, events |-> L.events, sel |-> r]
      BY <3>1 DEF LoopOK
    <3>3. QED
      BY <3>2 DEF w, r
  <2> HIDE DEF updated, kept, gone
  <2>3. M = [active |-> L.active, pending |-> rest, plist |-> list, n |-> L.n,
             wanted |-> [L.wanted EXCEPT ![f] = evs], events |-> noted,
             sel |-> [L.sel EXCEPT ![f] = evs]]
    BY <2>1, <2>2
  <2>4. kept \subseteq L.events[f]
    BY DEF kept
  <2> HIDE DEF M
  <2>5. noted \in [Fds -> SUBSET Events] /\ noted[f] = kept
        /\ \A g \in Fds \ {f} : noted[g] = L.events[g]
    BY <1>1, <2>4 DEF LoopOK
  <2> HIDE DEF noted
  <2>6. /\ [L.wanted EXCEPT ![f] = evs] \in [Fds -> SUBSET Events]
        /\ [L.sel EXCEPT ![f] = evs] \in [Fds -> SUBSET Events]
    BY <1>1 DEF LoopOK
  <2>7. /\ M.active = L.active /\ M.pending = rest /\ M.plist = list /\ M.n = L.n
        /\ M.wanted = [L.wanted EXCEPT ![f] = evs] /\ M.events = noted
        /\ M.sel = [L.sel EXCEPT ![f] = evs]
    BY <2>3
  <2>8. M.plist \subseteq M.pending /\ M.pending \subseteq M.active
    BY <2>7 DEF LoopOK
  <2>9. \A g \in Fds : M.sel[g] = IF g \in M.active THEN M.wanted[g] ELSE {}
    BY <1>1, <2>7 DEF LoopOK
  <2>10. M \in [active : SUBSET Fds, pending : SUBSET Fds, plist : SUBSET Fds, n : {M.n},
                wanted : [Fds -> SUBSET Events], events : [Fds -> SUBSET Events],
                sel : [Fds -> SUBSET Events]]
    <3>1. L.active \in SUBSET Fds /\ rest \in SUBSET Fds /\ list \in SUBSET Fds
      BY DEF LoopOK
    <3>2. QED
      BY <2>3, <2>5, <2>6, <2>7, <3>1
  <2>11. QED
    BY <2>4, <2>5, <2>7, <2>8, <2>9, <2>10 DEF LoopOK, M
<1>4. QED
  BY <1>2, <1>3

\* fdevent_remove: the descriptor is forgotten.
LEMMA RemoveLoop ==
  ASSUME NEW L, LoopOK(L), NEW f \in L.active
  PROVE  LET M == FdRemove(L, f) IN
         /\ LoopOK(M) /\ M.active = L.active \ {f}
         /\ M.wanted = [L.wanted EXCEPT ![f] = {}]
         /\ M.events = [L.events EXCEPT ![f] = {}]
<1> DEFINE M == FdRemove(L, f)
           list == IF f \in L.pending THEN L.plist \ {f} ELSE L.plist
           base == [L EXCEPT !.plist = list, !.pending = @ \ {f},
                             !.wanted[f] = {}, !.events[f] = {}]
           k == Shrink(base)
<1>1. f \in Fds
  BY DEF LoopOK
<1>2. list = L.plist \ {f}
  BY DEF LoopOK
<1>3. M = FdUnregister(FdDisconnect(base, f), f)
  BY DEF FdRemove
<1> HIDE DEF list
<1>4. base = [active |-> L.active, pending |-> L.pending \ {f}, plist |-> L.plist \ {f},
              n |-> L.n, wanted |-> [L.wanted EXCEPT ![f] = {}],
              events |-> [L.events EXCEPT ![f] = {}], sel |-> L.sel]
  <2> DEFINE w == [L.wanted EXCEPT ![f] = {}]
             v == [L.events EXCEPT ![f] = {}]
             p == L.pending \ {f}
             q == L.plist \ {f}
  <2>1. base = [L EXCEPT !.plist = q, !.pending = p, !.wanted = w, !.events = v]
    BY <1>2 DEF LoopOK
  <2> HIDE DEF w, v, p, q, base
  <2>2. base = [active |-> L.active, pending |-> p, plist |-> q, n |-> L.n, wanted |-> w,
                events |-> v, sel |-> L.sel]
    BY <2>1 DEF LoopOK
  <2>3. QED
    BY <2>2 DEF w, v, p, q
<1> HIDE DEF base, k
<1>5. M = [[base EXCEPT !.sel[f] = {}, !.n = k] EXCEPT !.active = @ \ {f}]
  BY <1>3 DEF FdUnregister, FdDisconnect, k
<1> HIDE DEF M
<1>6. M = [active |-> L.active \ {f}, pending |-> L.pending \ {f}, plist |-> L.plist \ {f},
           n |-> k, wanted |-> [L.wanted EXCEPT ![f] = {}],
           events |-> [L.events EXCEPT ![f] = {}], sel |-> [L.sel EXCEPT ![f] = {}]]
  BY <1>4, <1>5
<1>7. /\ M.active = L.active \ {f} /\ M.pending = L.pending \ {f} /\ M.plist = L.plist \ {f}
      /\ M.n = k /\ M.wanted = [L.wanted EXCEPT ![f] = {}]
      /\ M.events = [L.events EXCEPT ![f] = {}] /\ M.sel = [L.sel EXCEPT ![f] = {}]
  BY <1>6
<1>8. /\ [L.wanted EXCEPT ![f] = {}] \in [Fds -> SUBSET Events]
      /\ [L.events EXCEPT ![f] = {}] \in [Fds -> SUBSET Events]
      /\ [L.sel EXCEPT ![f] = {}] \in [Fds -> SUBSET Events]
  BY <1>1 DEF LoopOK
<1>9. /\ L.active \ {f} \in SUBSET Fds /\ L.pending \ {f} \in SUBSET Fds
      /\ L.plist \ {f} \in SUBSET Fds
  BY DEF LoopOK
<1>10. M \in [active : SUBSET Fds, pending : SUBSET Fds, plist : SUBSET Fds, n : {M.n},
              wanted : [Fds -> SUBSET Events], events : [Fds -> SUBSET Events],
              sel : [Fds -> SUBSET Events]]
  BY <1>6, <1>7, <1>8, <1>9
<1>11. M.plist \subseteq M.pending /\ M.pending \subseteq M.active
  BY <1>7 DEF LoopOK
<1>12. \A g \in Fds : M.sel[g] = IF g \in M.active THEN M.wanted[g] ELSE {}
  BY <1>1, <1>7 DEF LoopOK
<1>13. QED
  BY <1>7, <1>10, <1>11, <1>12 DEF LoopOK, M

\* fdevent_install of a descriptor that is not registered: it wants nothing yet.
LEMMA InstallLoop ==
  ASSUME NEW L, LoopOK(L), NEW f \in Fds, f \notin L.active
  PROVE  LET M == FdInstall(L, f) IN
         /\ LoopOK(M) /\ M.active = L.active \cup {f}
         /\ M.wanted = [L.wanted EXCEPT ![f] = {}]
         /\ M.events = [L.events EXCEPT ![f] = {}]
<1> DEFINE M == FdInstall(L, f)
           k == IF f >= L.n THEN f + 1 ELSE L.n
           cleared == [L EXCEPT !.pending = @ \ {f}, !.wanted[f] = {}, !.events[f] = {}]
<1>1. cleared = [active |-> L.active, pending |-> L.pending \ {f}, plist |-> L.plist,
                 n |-> L.n, wanted |-> [L.wanted EXCEPT ![f] = {}],
                 events |-> [L.events EXCEPT ![f] = {}], sel |-> L.sel]
  <2> DEFINE w == [L.wanted EXCEPT ![f] = {}]
             v == [L.events EXCEPT ![f] = {}]
             p == L.pending \ {f}
  <2>1. cleared = [L EXCEPT !.pending = p, !.wanted = w, !.events = v]
    BY DEF LoopOK
  <2> HIDE DEF w, v, p, cleared
  <2>2. cleared = [active |-> L.active, pending |-> p, plist |-> L.plist, n |-> L.n,
                   wanted |-> w, events |-> v, sel |-> L.sel]
    BY <2>1 DEF LoopOK
  <2>3. QED
    BY <2>2 DEF w, v, p
<1>2. M = [[cleared EXCEPT !.active = @ \cup {f}] EXCEPT !.n = IF f >= @ THEN f + 1 ELSE @]
  BY DEF FdInstall, FdConnect, FdRegister
<1> HIDE DEF cleared, M
<1>3. M = [active |-> L.active \cup {f}, pending |-> L.pending \ {f}, plist |-> L.plist,
           n |-> k, wanted |-> [L.wanted EXCEPT ![f] = {}],
           events |-> [L.events EXCEPT ![f] = {}], sel |-> L.sel]
  BY <1>1, <1>2
<1> HIDE DEF k
<1>4. /\ M.active = L.active \cup {f} /\ M.pending = L.pending \ {f} /\ M.plist = L.plist
      /\ M.n = k /\ M.wanted = [L.wanted EXCEPT ![f] = {}]
      /\ M.events = [L.events EXCEPT ![f] = {}] /\ M.sel = L.sel
  BY <1>3
<1>5. /\ [L.wanted EXCEPT ![f] = {}] \in [Fds -> SUBSET Events]
      /\ [L.events EXCEPT ![f] = {}] \in [Fds -> SUBSET Events]
      /\ L.sel \in [Fds -> SUBSET Events]
  BY DEF LoopOK
<1>6. /\ L.active \cup {f} \in SUBSET Fds /\ L.pending \ {f} \in SUBSET Fds
      /\ L.plist \in SUBSET Fds
  BY DEF LoopOK
<1>7. M \in [active : SUBSET Fds, pending : SUBSET Fds, plist : SUBSET Fds, n : {M.n},
             wanted : [Fds -> SUBSET Events], events : [Fds -> SUBSET Events],
             sel : [Fds -> SUBSET Events]]
  BY <1>3, <1>4, <1>5, <1>6
<1>8. M.plist \subseteq M.pending /\ M.pending \subseteq M.active
  BY <1>4 DEF LoopOK
<1>9. \A g \in Fds : M.sel[g] = IF g \in M.active THEN M.wanted[g] ELSE {}
  BY <1>4 DEF LoopOK
<1>10. QED
  BY <1>4, <1>7, <1>8, <1>9 DEF LoopOK, M

\* Before a callback, its fdevent leaves the pending list with its events.
LEMMA CallLoop ==
  ASSUME NEW L, LoopOK(L), NEW f \in Fds
  PROVE  LET M == FdCall(FdDequeue(L, f), f) IN
         /\ LoopOK(M) /\ M.active = L.active /\ M.wanted = L.wanted
         /\ M.events = [L.events EXCEPT ![f] = {}]
<1> DEFINE M == FdCall(FdDequeue(L, f), f)
<1>1. M = [active |-> L.active, pending |-> L.pending \ {f}, plist |-> L.plist \ {f},
           n |-> L.n, wanted |-> L.wanted, events |-> [L.events EXCEPT ![f] = {}],
           sel |-> L.sel]
  <2> DEFINE v == [L.events EXCEPT ![f] = {}]
             p == L.pending \ {f}
             q == L.plist \ {f}
  <2>1. M = [[L EXCEPT !.plist = q] EXCEPT !.events = v, !.pending = p]
    BY DEF FdCall, FdDequeue, LoopOK
  <2> HIDE DEF v, p, q, M
  <2>2. M = [active |-> L.active, pending |-> p, plist |-> q, n |-> L.n, wanted |-> L.wanted,
             events |-> v, sel |-> L.sel]
    BY <2>1 DEF LoopOK
  <2>3. QED
    BY <2>2 DEF v, p, q
<1> HIDE DEF M
<1>2. /\ M.active = L.active /\ M.pending = L.pending \ {f} /\ M.plist = L.plist \ {f}
      /\ M.n = L.n /\ M.wanted = L.wanted
      /\ M.events = [L.events EXCEPT ![f] = {}] /\ M.sel = L.sel
  BY <1>1
<1>3. /\ [L.events EXCEPT ![f] = {}] \in [Fds -> SUBSET Events]
      /\ L.wanted \in [Fds -> SUBSET Events] /\ L.sel \in [Fds -> SUBSET Events]
      /\ L.active \in SUBSET Fds /\ L.pending \ {f} \in SUBSET Fds
      /\ L.plist \ {f} \in SUBSET Fds
  BY DEF LoopOK
<1>4. M \in [active : SUBSET Fds, pending : SUBSET Fds, plist : SUBSET Fds, n : {M.n},
             wanted : [Fds -> SUBSET Events], events : [Fds -> SUBSET Events],
             sel : [Fds -> SUBSET Events]]
  BY <1>1, <1>2, <1>3
<1>5. M.plist \subseteq M.pending /\ M.pending \subseteq M.active
  BY <1>2 DEF LoopOK
<1>6. \A g \in Fds : M.sel[g] = IF g \in M.active THEN M.wanted[g] ELSE {}
  BY <1>2 DEF LoopOK
<1>7. QED
  BY <1>2, <1>4, <1>5, <1>6 DEF LoopOK, M

\* A round of select adds events that are wanted, of registered fdevents.
LEMMA NoticeLoop ==
  ASSUME NEW L, LoopOK(L), NEW ready \in [Fds -> SUBSET Events]
  PROVE  LET M == FdNotice(L, FdHits(L, ready, {})) IN
         /\ LoopOK(M) /\ M.active = L.active /\ M.wanted = L.wanted
         /\ \A f \in Fds : M.events[f] \subseteq L.events[f] \cup L.wanted[f]
<1> DEFINE hits == FdHits(L, ready, {})
           M == FdNotice(L, hits)
           noted == [f \in Fds |-> L.events[f] \cup hits[f]]
<1>1. DOMAIN L.wanted = Fds
  BY DEF LoopOK
<1>2. hits = [f \in Fds |-> IF f < L.n THEN L.sel[f] \cap ready[f] ELSE {}]
  BY <1>1 DEF FdHits, SelectFails, Descriptors
<1>3. DOMAIN hits = Fds /\ \A f \in Fds : hits[f] \subseteq L.sel[f]
  BY <1>2
<1>4. M = [L EXCEPT !.events = [f \in Fds |-> @[f] \cup hits[f]],
                    !.plist = @ \cup (HitSet(hits) \ L.pending),
                    !.pending = @ \cup HitSet(hits)]
  BY <1>1 DEF FdNotice, Descriptors
<1> HIDE DEF hits, M
<1>5. HitSet(hits) \subseteq L.active
  BY <1>3 DEF HitSet, LoopOK
<1> DEFINE met == HitSet(hits)
<1>6. M = [active |-> L.active, pending |-> L.pending \cup met,
           plist |-> L.plist \cup (met \ L.pending), n |-> L.n, wanted |-> L.wanted,
           events |-> noted, sel |-> L.sel]
  BY <1>4 DEF LoopOK
<1> HIDE DEF met
<1>7. \A f \in Fds : noted[f] \subseteq L.events[f] \cup L.wanted[f]
  BY <1>3 DEF LoopOK
<1>8. noted \in [Fds -> SUBSET Events]
  BY <1>3 DEF LoopOK
<1> HIDE DEF noted
<1>9. /\ M.active = L.active /\ M.pending = L.pending \cup met
      /\ M.plist = L.plist \cup (met \ L.pending) /\ M.n = L.n /\ M.wanted = L.wanted
      /\ M.events = noted /\ M.sel = L.sel
  BY <1>6
<1>10. met \subseteq L.active
  BY <1>5 DEF met
<1>11. /\ L.wanted \in [Fds -> SUBSET Events] /\ L.sel \in [Fds -> SUBSET Events]
       /\ L.active \in SUBSET Fds /\ L.pending \cup met \in SUBSET Fds
       /\ L.plist \cup (met \ L.pending) \in SUBSET Fds
  BY <1>10 DEF LoopOK
<1>12. M \in [active : SUBSET Fds, pending : SUBSET Fds, plist : SUBSET Fds, n : {M.n},
              wanted : [Fds -> SUBSET Events], events : [Fds -> SUBSET Events],
              sel : [Fds -> SUBSET Events]]
  BY <1>6, <1>8, <1>9, <1>11
<1>13. M.plist \subseteq M.pending /\ M.pending \subseteq M.active
  BY <1>9, <1>10 DEF LoopOK
<1>14. \A g \in Fds : M.sel[g] = IF g \in M.active THEN M.wanted[g] ELSE {}
  BY <1>9 DEF LoopOK
<1>15. QED
  BY <1>7, <1>9, <1>12, <1>13, <1>14 DEF LoopOK, M, hits

\* The exit of a subprocess adds a read event to a fdevent that is pending.
LEMMA NudgeLoop ==
  ASSUME NEW L, LoopOK(L), NEW f \in L.pending
  PROVE  LET M == [L EXCEPT !.events[f] = @ \cup {"R"}] IN
         /\ LoopOK(M) /\ M.active = L.active /\ M.wanted = L.wanted
         /\ M.events = [L.events EXCEPT ![f] = @ \cup {"R"}]
<1> DEFINE noted == [L.events EXCEPT ![f] = @ \cup {"R"}]
           M == [L EXCEPT !.events = noted]
<1>1. f \in Fds
  BY DEF LoopOK
<1>2. noted \in [Fds -> SUBSET Events]
  BY <1>1 DEF LoopOK, Events
<1>3. [L EXCEPT !.events[f] = @ \cup {"R"}] = M
  BY DEF LoopOK
<1> HIDE DEF noted
<1>4. M = [active |-> L.active, pending |-> L.pending, plist |-> L.plist,
           n |-> L.n, wanted |-> L.wanted, events |-> noted, sel |-> L.sel]
  BY DEF LoopOK
<1> HIDE DEF M
<1>5. /\ M.active = L.active /\ M.pending = L.pending /\ M.plist = L.plist
      /\ M.n = L.n /\ M.wanted = L.wanted /\ M.events = noted /\ M.sel = L.sel
  BY <1>4
<1>6. M \in [active : SUBSET Fds, pending : SUBSET Fds, plist : SUBSET Fds, n : {M.n},
             wanted : [Fds -> SUBSET Events], events : [Fds -> SUBSET Events],
             sel : [Fds -> SUBSET Events]]
  BY <1>2, <1>4, <1>5 DEF LoopOK
<1>7. LoopOK(M)
  BY <1>5, <1>6 DEF LoopOK
<1>8. QED
  BY <1>3, <1>5, <1>7 DEF noted

-----------------------------------------------------------------------------
\* What one stream sees of a queue does not change with packets of the others.

Alike(p, q, t) ==
  /\ \A c : Has(q, c, t) <=> Has(p, c, t)
  /\ \A c : Sole(p, c, t) => Sole(q, c, t)
  /\ \A a, b : Chain(p, t, a, b) => Chain(q, t, a, b)
  /\ Ends(p, t) => Ends(q, t)
  /\ Led(p, t) => Led(q, t)

\* A queue is like itself.
LEMMA AlikeSame == \A q, t : Alike(q, q, t)
  BY DEF Alike

\* Two changes after each other.
LEMMA AlikeTrans ==
  ASSUME NEW p, NEW q, NEW r, NEW t, Alike(p, q, t), Alike(q, r, t)
  PROVE  Alike(p, r, t)
  BY DEF Alike

\* A packet of another stream is added.
LEMMA AlikeAppend ==
  ASSUME NEW q \in Seq(Packets), NEW p \in Packets, NEW t, p.s # t
  PROVE  Alike(q, Append(q, p), t)
<1>1. \A c : ~ Is(p, c, t)
  BY DEF Is
<1>2. \A c : Has(Append(q, p), c, t) <=> Has(q, c, t)
  BY <1>1, HasAppend
<1>3. \A c : Sole(q, c, t) => Sole(Append(q, p), c, t)
  BY <1>1, SoleAppend
<1>4. \A a, b : Chain(q, t, a, b) => Chain(Append(q, p), t, a, b)
  BY <1>1, ChainAppend
<1>5. Ends(q, t) => Ends(Append(q, p), t)
  BY EndsAppend
<1>6. Led(q, t) => Led(Append(q, p), t)
  BY <1>1, LedAppend
<1>7. QED
  BY <1>2, <1>3, <1>4, <1>5, <1>6 DEF Alike

\* A packet of another stream is taken.
LEMMA AlikeTail ==
  ASSUME NEW q \in Seq(Packets), q # <<>>, NEW t, Head(q).s # t
  PROVE  Alike(q, Tail(q), t)
<1>1. \A c : ~ Is(Head(q), c, t)
  BY DEF Is
<1>2. \A c : Has(Tail(q), c, t) <=> Has(q, c, t)
  BY <1>1, HasTail
<1>3. \A c : Sole(q, c, t) => Sole(Tail(q), c, t)
  BY HasTail
<1>4. \A a, b : Chain(q, t, a, b) => Chain(Tail(q), t, a, b)
  BY <1>1, ChainTail
<1>5. Ends(q, t) => Ends(Tail(q), t)
  BY EndsTail
<1>6. Led(q, t) => Led(Tail(q), t)
  BY <1>1, LedTail
<1>7. QED
  BY <1>2, <1>3, <1>4, <1>5, <1>6 DEF Alike

-----------------------------------------------------------------------------
\* The invariant of a stream s.  d is main's data and q the host's packets; the
\* variables of the host and of the services are gathered in a record h.

Ambient ==
  [host |-> host, credit |-> credit, owed |-> owed, sent |-> sent, gotUp |-> gotUp,
   svc |-> svc, kind |-> kind, wrote |-> wrote, gotDown |-> gotDown]

SockStates == {"none", "open", "closing", "gone"}
HostStates == {"none", "opening", "open", "closed", "refused"}

HostOK(h) ==
  /\ h.host \in [Streams -> HostStates]
  /\ h.credit \in [Streams -> BOOLEAN] /\ h.owed \in [Streams -> BOOLEAN]
  /\ h.sent \in [Streams -> 0..MaxDown] /\ h.wrote \in [Streams -> 0..MaxUp]
  /\ h.gotUp \in [Streams -> Seq(Chunks)] /\ h.gotDown \in [Streams -> Seq(Chunks)]
  /\ h.svc \in [Streams -> {"none", "open", "half", "closed"}]
  /\ h.kind \in [Streams -> Kinds \cup {"none"}]

QueueOK(q) ==
  /\ q \in Seq(Packets)
  /\ \A i \in DOMAIN q : q[i].cmd # "SYNC0" => q[i].s \in Streams

OutOK(q) ==
  /\ q \in Seq(Packets)
  /\ \A i \in DOMAIN q : q[i].s \in Streams

DevOK(d) ==
  /\ d \in [loop : {d.loop}, sock : [Streams -> SockStates], peer : [Streams -> BOOLEAN],
            queue : [Streams -> Seq(Chunks)], up : [Streams -> Seq(Chunks)],
            down : [Streams -> Seq(Chunks)], taken : [Streams -> Seq(Chunks)],
            out : Seq(Packets), closes : [Streams -> Nat]]
  /\ LoopOK(d.loop) /\ OutOK(d.out)
  /\ \A s \in Streams : Len(d.up[s]) <= BufCap /\ Len(d.down[s]) <= BufCap

\* The socket is on the list that its peer and its queue say, registered while it
\* is on one, and waits for write events only with something queued.
SocketOK(d, s) ==
  /\ d.sock[s] = "open" <=> d.peer[s]
  /\ d.sock[s] = "closing" => d.queue[s] # <<>>
  /\ d.sock[s] \in {"none", "gone"} => d.queue[s] = <<>> /\ s \notin d.loop.active
  /\ d.sock[s] \in {"open", "closing"} => s \in d.loop.active
  /\ "W" \in d.loop.wanted[s] \cup d.loop.events[s] => d.queue[s] # <<>>

\* Nothing precedes the OPEN and the answer to it, and the host's CLOSE is its last.
StartOK(h, d, q, s) ==
  /\ Sole(q, "OPEN", s)
  /\ Has(q, "OPEN", s) => h.host[s] = "opening"
  /\ h.host[s] \in {"none", "opening"} =>
       /\ ~ h.credit[s] /\ ~ h.owed[s] /\ h.sent[s] = 0 /\ h.gotUp[s] = <<>>
       /\ ~ Has(q, "OKAY", s) /\ ~ Has(q, "WRTE", s) /\ ~ Has(q, "CLSE", s)
  /\ Has(q, "CLSE", s) => h.host[s] = "closed"
  /\ h.host[s] = "none" \/ Has(q, "OPEN", s) =>
       /\ d.sock[s] = "none" /\ d.closes[s] = 0
       /\ \A c : ~ Has(d.out, c, s)
  /\ d.sock[s] = "none" =>
       /\ h.svc[s] = "none" /\ h.kind[s] = "none" /\ h.wrote[s] = 0 /\ h.gotDown[s] = <<>>
       /\ d.up[s] = <<>> /\ d.down[s] = <<>> /\ d.taken[s] = <<>>

\* One token goes round: main reads the service, a WRITE is on its way, the host owes
\* the READY, or the READY is on its way.
Reads(d, s) == d.peer[s] /\ "R" \in d.loop.wanted[s]
UpFlow(h, d, q, s) ==
  ~ Subprocess(h.kind[s]) =>
    /\ Sole(d.out, "WRTE", s) /\ Sole(q, "OKAY", s)
    /\ Has(d.out, "WRTE", s) => ~ h.owed[s] /\ ~ Has(q, "OKAY", s) /\ ~ Reads(d, s)
    /\ h.owed[s] => ~ Has(q, "OKAY", s) /\ ~ Reads(d, s)
    /\ Has(q, "OKAY", s) => ~ Reads(d, s)
    /\ d.peer[s] /\ "R" \in d.loop.events[s] => Reads(d, s)

\* And another: a READY is on its way, the host has it, a WRITE is on its way, or
\* something is queued.
Waits(d, s) == d.queue[s] # <<>>
DownFlow(h, d, q, s) ==
  /\ Sole(d.out, "OKAY", s) /\ Sole(q, "WRTE", s)
  /\ Has(d.out, "OKAY", s) => ~ h.credit[s] /\ ~ Has(q, "WRTE", s) /\ ~ Waits(d, s)
  /\ h.credit[s] => ~ Has(q, "WRTE", s) /\ ~ Waits(d, s)
  /\ Has(q, "WRTE", s) => ~ Waits(d, s)

\* Who was told of the end has no peer and will not get one.
CloseOK(d, q, s) ==
  /\ d.closes[s] <= 1
  /\ d.closes[s] = 1 => ~ d.peer[s] /\ ~ Has(q, "OPEN", s)
  /\ Has(d.out, "CLSE", s) => d.closes[s] = 1
  /\ Ends(d.out, s)

\* What the host has, what is on its way to it and what main did not read yet are all
\* that the service wrote; a CLOSE the host did not provoke comes after all of it.
ToHost(h, d, s, b) ==
  /\ Chain(d.out, s, Len(h.gotUp[s]), b) /\ b <= h.wrote[s]
  /\ d.peer[s] => b + Len(d.up[s]) = h.wrote[s] /\ Run(d.up[s], b)
  /\ Has(d.out, "CLSE", s) /\ h.sent[s] = 0 => b = h.wrote[s] /\ h.svc[s] # "open"
UpData(h, d, s) ==
  /\ Run(h.gotUp[s], 0)
  /\ h.host[s] = "opening" => Led(d.out, s) /\ (d.peer[s] => Has(d.out, "OKAY", s))
  /\ h.host[s] \notin {"closed", "refused"} => \E b \in Nat : ToHost(h, d, s, b)
  /\ h.host[s] = "refused" /\ h.sent[s] = 0 =>
       Len(h.gotUp[s]) = h.wrote[s] /\ h.svc[s] # "open"

\* What the service read, what it can read, what is queued and what is on its way are
\* all that the host sent.
Given(h, d, s) == Len(h.gotDown[s]) + Len(d.down[s])
Total(h, d, s) == Given(h, d, s) + Len(d.queue[s])
Kept(h, d, s) ==
  /\ Run(h.gotDown[s], 0) /\ Run(d.down[s], Len(h.gotDown[s]))
  /\ Run(d.queue[s], Given(h, d, s))
  /\ Total(h, d, s) <= h.sent[s]
  /\ h.svc[s] = "open" => Len(d.taken[s]) = Total(h, d, s) /\ Run(d.taken[s], 0)
DownData(h, d, q, s) ==
  /\ Kept(h, d, s)
  /\ d.peer[s] => Chain(q, s, Total(h, d, s), h.sent[s])

StreamOK(h, d, q, s) ==
  /\ SocketOK(d, s) /\ StartOK(h, d, q, s) /\ UpFlow(h, d, q, s) /\ DownFlow(h, d, q, s)
  /\ CloseOK(d, q, s) /\ UpData(h, d, s) /\ DownData(h, d, q, s)

\* The whole invariant.
SocketsInv ==
  /\ HostOK(Ambient) /\ DevOK(dev) /\ QueueOK(inbox) /\ link \in {"up", "broken"}
  /\ exits \subseteq {s \in Streams : Subprocess(kind[s])}
  /\ \A s \in Streams : StreamOK(Ambient, dev, inbox, s)

-----------------------------------------------------------------------------
\* A stream that a step does not concern.

SameHost(h, k, t) ==
  /\ k.host[t] = h.host[t] /\ k.credit[t] = h.credit[t] /\ k.owed[t] = h.owed[t]
  /\ k.sent[t] = h.sent[t] /\ k.gotUp[t] = h.gotUp[t] /\ k.svc[t] = h.svc[t]
  /\ k.kind[t] = h.kind[t] /\ k.wrote[t] = h.wrote[t] /\ k.gotDown[t] = h.gotDown[t]
SameSocket(d, e, t) ==
  /\ e.sock[t] = d.sock[t] /\ e.peer[t] = d.peer[t] /\ e.queue[t] = d.queue[t]
  /\ e.up[t] = d.up[t] /\ e.down[t] = d.down[t] /\ e.taken[t] = d.taken[t]
  /\ e.closes[t] = d.closes[t]
  /\ e.loop.wanted[t] = d.loop.wanted[t] /\ e.loop.events[t] = d.loop.events[t]
  /\ t \in e.loop.active <=> t \in d.loop.active
Others(d, e, s) ==
  \A t \in Streams \ {s} : SameSocket(d, e, t) /\ Alike(d.out, e.out, t)

\* Its invariant is kept.
LEMMA Frame ==
  ASSUME NEW h, NEW k, NEW d, NEW e, NEW q, NEW r, NEW t, StreamOK(h, d, q, t),
         SameHost(h, k, t), SameSocket(d, e, t), Alike(d.out, e.out, t), Alike(q, r, t)
  PROVE  StreamOK(k, e, r, t)
<1>1. /\ \A c : Has(e.out, c, t) <=> Has(d.out, c, t)
      /\ \A c : Sole(d.out, c, t) => Sole(e.out, c, t)
      /\ \A a, b : Chain(d.out, t, a, b) => Chain(e.out, t, a, b)
      /\ Ends(d.out, t) => Ends(e.out, t)
      /\ Led(d.out, t) => Led(e.out, t)
  BY DEF Alike
<1>2. /\ \A c : Has(r, c, t) <=> Has(q, c, t)
      /\ \A c : Sole(q, c, t) => Sole(r, c, t)
      /\ \A a, b : Chain(q, t, a, b) => Chain(r, t, a, b)
  BY DEF Alike
<1>3. SocketOK(e, t)
  BY DEF StreamOK, SocketOK, SameSocket
<1>4. StartOK(k, e, r, t)
  BY <1>1, <1>2 DEF StreamOK, StartOK, SameSocket, SameHost
<1>5. UpFlow(k, e, r, t)
  BY <1>1, <1>2 DEF StreamOK, UpFlow, Reads, SameSocket, SameHost
<1>6. DownFlow(k, e, r, t)
  BY <1>1, <1>2 DEF StreamOK, DownFlow, Waits, SameSocket, SameHost
<1>7. CloseOK(e, r, t)
  BY <1>1, <1>2 DEF StreamOK, CloseOK, SameSocket
<1>8. UpData(k, e, t)
  BY <1>1 DEF StreamOK, UpData, ToHost, SameSocket, SameHost
<1>9. DownData(k, e, r, t)
  BY <1>2 DEF StreamOK, DownData, Kept, Given, Total, SameSocket, SameHost
<1>10. QED
  BY <1>3, <1>4, <1>5, <1>6, <1>7, <1>8, <1>9 DEF StreamOK

\* What two steps of main leave alone, they leave alone together.
LEMMA OthersTrans ==
  ASSUME NEW c, NEW d, NEW e, NEW s, Others(c, d, s), Others(d, e, s)
  PROVE  Others(c, e, s)
<1>1. ASSUME NEW t \in Streams \ {s} PROVE SameSocket(c, e, t) /\ Alike(c.out, e.out, t)
  <2>1. SameSocket(c, e, t)
    BY DEF Others, SameSocket
  <2>2. Alike(c.out, e.out, t)
    BY AlikeTrans DEF Others
  <2>3. QED
    BY <2>1, <2>2
<1>2. QED
  BY <1>1 DEF Others

\* What main does for one stream keeps the invariant of the others.
LEMMA OthersKept ==
  ASSUME NEW h, NEW d, NEW e, NEW q, NEW r, NEW s \in Streams, Others(d, e, s),
         \A t \in Streams \ {s} : StreamOK(h, d, q, t),
         \A t \in Streams \ {s} : Alike(q, r, t),
         StreamOK(h, e, r, s)
  PROVE  \A t \in Streams : StreamOK(h, e, r, t)
<1>1. ASSUME NEW t \in Streams \ {s} PROVE StreamOK(h, e, r, t)
  <2>1. SameHost(h, h, t)
    BY DEF SameHost
  <2>2. QED
    BY <1>1, <2>1, Frame DEF Others
<1>2. QED
  BY <1>1

-----------------------------------------------------------------------------
\* What the functions of sockets.c change, field by field.

Untouched(d, e) ==
  /\ e.peer = d.peer /\ e.up = d.up /\ e.down = d.down /\ e.taken = d.taken
  /\ e.out = d.out /\ e.closes = d.closes

\* The fdevents of one stream change.
SameLoop(L, M, s) ==
  \A t \in Streams \ {s} :
    /\ M.wanted[t] = L.wanted[t] /\ M.events[t] = L.events[t]
    /\ t \in M.active <=> t \in L.active
\* A step that only touches the fdevents of one stream.
LEMMA WithLoop ==
  ASSUME NEW d, DevOK(d), NEW l, LoopOK(l), NEW s, SameLoop(d.loop, l, s)
  PROVE  LET e == [d EXCEPT !.loop = l] IN
         /\ DevOK(e) /\ Others(d, e, s)
         /\ e.loop = l /\ e.sock = d.sock /\ e.queue = d.queue /\ Untouched(d, e)
<1> DEFINE e == [d EXCEPT !.loop = l]
<1>1. e.loop = l /\ e.sock = d.sock /\ e.queue = d.queue /\ Untouched(d, e)
  BY DEF DevOK, Untouched
<1>2. e \in [loop : {l}, sock : [Streams -> SockStates], peer : [Streams -> BOOLEAN],
             queue : [Streams -> Seq(Chunks)], up : [Streams -> Seq(Chunks)],
             down : [Streams -> Seq(Chunks)], taken : [Streams -> Seq(Chunks)],
             out : Seq(Packets), closes : [Streams -> Nat]]
  BY DEF DevOK
<1> HIDE DEF e
<1>3. DevOK(e)
  BY <1>1, <1>2 DEF DevOK, Untouched
<1>4. Others(d, e, s)
  BY <1>1, AlikeSame DEF Others, SameSocket, Untouched, SameLoop
<1>5. QED
  BY <1>1, <1>3, <1>4 DEF e

\* The local sockets are among the descriptors of the loop.
LEMMA StreamIsFd == Streams \subseteq Fds
  BY DEF Fds

\* fdevent_set for a stream with a fdevent.
Wants(d, s, evs) == [d EXCEPT !.loop = FdSet(@, s, evs)]
\* fdevent_set of a local socket.
LEMMA LoopSet ==
  ASSUME NEW d, DevOK(d), NEW s \in Streams, s \in d.loop.active, NEW evs \in SUBSET Events
  PROVE  LET e == Wants(d, s, evs) IN
         /\ DevOK(e) /\ Others(d, e, s)
         /\ e.sock = d.sock /\ e.queue = d.queue /\ Untouched(d, e)
         /\ e.loop.active = d.loop.active /\ e.loop.wanted[s] = evs
         /\ e.loop.events[s] \subseteq d.loop.events[s]
<1> DEFINE l == FdSet(d.loop, s, evs)
           e == [d EXCEPT !.loop = l]
<1>1. LoopOK(d.loop)
  BY DEF DevOK
<1>2. /\ LoopOK(l) /\ l.active = d.loop.active
      /\ l.wanted = [d.loop.wanted EXCEPT ![s] = evs]
      /\ l.events[s] \subseteq d.loop.events[s]
      /\ \A g \in Fds \ {s} : l.events[g] = d.loop.events[g]
  BY <1>1, SetLoop
<1>3. Wants(d, s, evs) = e
  BY DEF DevOK, Wants
<1> HIDE DEF l
<1>4. d.loop.wanted \in [Fds -> SUBSET Events]
  BY <1>1 DEF LoopOK
<1>5. l.wanted[s] = evs /\ SameLoop(d.loop, l, s)
  BY <1>2, <1>4, StreamIsFd DEF SameLoop
<1>6. /\ DevOK(e) /\ Others(d, e, s)
      /\ e.loop = l /\ e.sock = d.sock /\ e.queue = d.queue /\ Untouched(d, e)
  BY <1>2, <1>5, WithLoop
<1>7. QED
  BY <1>2, <1>3, <1>5, <1>6

\* A packet of the stream is sent.
LEMMA SendFields ==
  ASSUME NEW d, DevOK(d), NEW s \in Streams, NEW cmd \in {"OKAY", "CLSE", "WRTE"},
         NEW data \in Seq(Chunks)
  PROVE  LET e == Send(d, cmd, s, data) IN
         /\ DevOK(e) /\ Others(d, e, s)
         /\ Packet(cmd, s, data) \in Packets
         /\ e.out = Append(d.out, Packet(cmd, s, data))
         /\ e.loop = d.loop /\ e.sock = d.sock /\ e.queue = d.queue /\ e.peer = d.peer
         /\ e.up = d.up /\ e.down = d.down /\ e.taken = d.taken /\ e.closes = d.closes
<1> DEFINE p == Packet(cmd, s, data)
           o == Append(d.out, p)
           e == [d EXCEPT !.out = o]
<1>1. p \in Packets /\ p.s = s
  BY StreamIsFd DEF Packet, Packets
<1>2. Send(d, cmd, s, data) = e
  BY DEF Send, DevOK
<1>3. d.out \in Seq(Packets) /\ \A i \in DOMAIN d.out : d.out[i].s \in Streams
  BY DEF DevOK, OutOK
<1> HIDE DEF p
<1>4. o \in Seq(Packets) /\ \A i \in DOMAIN o : o[i].s \in Streams
  <2>1. /\ o \in Seq(Packets) /\ DOMAIN d.out = 1..Len(d.out) /\ DOMAIN o = 1..(Len(d.out) + 1)
        /\ Len(d.out) \in Nat
        /\ (\A i \in 1..Len(d.out) : o[i] = d.out[i]) /\ o[Len(d.out) + 1] = p
    BY <1>1, <1>3, AppendIndex
  <2>2. \A i \in 1..(Len(d.out) + 1) : i \in 1..Len(d.out) \/ i = Len(d.out) + 1
    BY <2>1
  <2> HIDE DEF o
  <2>3. QED
    BY <1>1, <1>3, <2>1, <2>2
<1>5. \A t \in Streams \ {s} : Alike(d.out, o, t)
  BY <1>1, <1>3, AlikeAppend
<1> HIDE DEF o
<1>6. /\ e.out = o
      /\ e.loop = d.loop /\ e.sock = d.sock /\ e.queue = d.queue /\ e.peer = d.peer
      /\ e.up = d.up /\ e.down = d.down /\ e.taken = d.taken /\ e.closes = d.closes
  BY DEF DevOK
<1>7. DevOK(e)
  <2>1. e \in [loop : {d.loop}, sock : [Streams -> SockStates], peer : [Streams -> BOOLEAN],
               queue : [Streams -> Seq(Chunks)], up : [Streams -> Seq(Chunks)],
               down : [Streams -> Seq(Chunks)], taken : [Streams -> Seq(Chunks)],
               out : Seq(Packets), closes : [Streams -> Nat]]
    BY <1>4 DEF DevOK
  <2> HIDE DEF e
  <2>2. QED
    BY <1>4, <1>6, <2>1 DEF DevOK, OutOK
<1>8. Others(d, e, s)
  BY <1>5, <1>6 DEF Others, SameSocket
<1>9. QED
  BY <1>1, <1>2, <1>6, <1>7, <1>8 DEF p, o

\* The socket is freed, with what is queued.
Destroyed(d, e, s) ==
  /\ e.sock[s] = "gone" /\ e.queue[s] = <<>> /\ s \notin e.loop.active
  /\ e.loop.wanted[s] = {} /\ e.loop.events[s] = {}
\* local_socket_destroy.
LEMMA DestroyFields ==
  ASSUME NEW d, DevOK(d), NEW s \in Streams, s \in d.loop.active
  PROVE  LET e == Destroy(d, s) IN
         DevOK(e) /\ Others(d, e, s) /\ Untouched(d, e) /\ Destroyed(d, e, s)
<1> DEFINE l == FdRemove(d.loop, s)
           k == [d.sock EXCEPT ![s] = "gone"]
           q == [d.queue EXCEPT ![s] = <<>>]
           e == [d EXCEPT !.loop = l, !.queue = q, !.sock = k]
<1>1. LoopOK(d.loop)
  BY DEF DevOK
<1>2. /\ LoopOK(l) /\ l.active = d.loop.active \ {s}
      /\ l.wanted = [d.loop.wanted EXCEPT ![s] = {}]
      /\ l.events = [d.loop.events EXCEPT ![s] = {}]
  BY <1>1, RemoveLoop
<1>3. Destroy(d, s) = e
  BY DEF Destroy, RemoveSocket, DevOK
<1>4. d.loop.wanted \in [Fds -> SUBSET Events] /\ d.loop.events \in [Fds -> SUBSET Events]
  BY <1>1 DEF LoopOK
<1> HIDE DEF l
<1>5. l.wanted[s] = {} /\ l.events[s] = {} /\ SameLoop(d.loop, l, s)
  BY <1>2, <1>4, StreamIsFd DEF SameLoop
<1>6. /\ k \in [Streams -> SockStates] /\ k[s] = "gone"
      /\ \A t \in Streams \ {s} : k[t] = d.sock[t]
  BY DEF DevOK, SockStates
<1>7. /\ q \in [Streams -> Seq(Chunks)] /\ q[s] = <<>>
      /\ \A t \in Streams \ {s} : q[t] = d.queue[t]
  BY DEF DevOK
<1> HIDE DEF k, q
<1>8. e.loop = l /\ e.sock = k /\ e.queue = q /\ Untouched(d, e)
  BY DEF DevOK, Untouched
<1>9. e \in [loop : {l}, sock : [Streams -> SockStates], peer : [Streams -> BOOLEAN],
             queue : [Streams -> Seq(Chunks)], up : [Streams -> Seq(Chunks)],
             down : [Streams -> Seq(Chunks)], taken : [Streams -> Seq(Chunks)],
             out : Seq(Packets), closes : [Streams -> Nat]]
  BY <1>6, <1>7 DEF DevOK
<1> HIDE DEF e
<1>10. DevOK(e)
  BY <1>2, <1>8, <1>9 DEF DevOK, Untouched
<1>11. Others(d, e, s)
  BY <1>5, <1>6, <1>7, <1>8, AlikeSame DEF Others, SameSocket, SameLoop, Untouched
<1>12. Destroyed(d, e, s)
  BY <1>2, <1>5, <1>6, <1>7, <1>8 DEF Destroyed
<1>13. QED
  BY <1>3, <1>8, <1>10, <1>11, <1>12

\* Or it stays on the closing list until the queue is written.
Lingers(d, e, s) ==
  /\ e.sock[s] = "closing" /\ e.queue[s] = d.queue[s] /\ s \in e.loop.active
  /\ e.loop.wanted[s] = d.loop.wanted[s] \ {"R"}
  /\ e.loop.events[s] \subseteq d.loop.events[s]
\* local_socket_close_locked: destroyed, or on the closing list.
LEMMA FinishFields ==
  ASSUME NEW d, DevOK(d), NEW s \in Streams, s \in d.loop.active
  PROVE  LET e == Finish(d, s) IN
         /\ DevOK(e) /\ Others(d, e, s) /\ Untouched(d, e)
         /\ IF d.sock[s] = "closing" \/ d.queue[s] = <<>> THEN Destroyed(d, e, s)
            ELSE Lingers(d, e, s)
<1>1. CASE d.sock[s] = "closing" \/ d.queue[s] = <<>>
  <2>1. Finish(d, s) = Destroy(d, s)
    BY <1>1 DEF Finish
  <2>2. QED
    BY <1>1, <2>1, DestroyFields
<1>2. CASE ~ (d.sock[s] = "closing" \/ d.queue[s] = <<>>)
  <2> DEFINE c == [d EXCEPT !.loop = FdDel(@, s, {"R"})]
             k == [c.sock EXCEPT ![s] = "closing"]
             e == [c EXCEPT !.sock = k]
  <2>1. LoopOK(d.loop) /\ d.loop.wanted \in [Fds -> SUBSET Events]
    BY DEF DevOK, LoopOK
  <2> DEFINE evs == d.loop.wanted[s] \ {"R"}
  <2>2. evs \in SUBSET Events
    BY <2>1, StreamIsFd
  <2>3. c = Wants(d, s, evs)
    BY DEF FdDel, DevOK, Wants
  <2> HIDE DEF evs, c
  <2>4. /\ DevOK(c) /\ Others(d, c, s)
        /\ c.sock = d.sock /\ c.queue = d.queue /\ Untouched(d, c)
        /\ c.loop.active = d.loop.active /\ c.loop.wanted[s] = d.loop.wanted[s] \ {"R"}
        /\ c.loop.events[s] \subseteq d.loop.events[s]
    <3>1. /\ DevOK(c) /\ Others(d, c, s)
          /\ c.sock = d.sock /\ c.queue = d.queue /\ Untouched(d, c)
          /\ c.loop.active = d.loop.active /\ c.loop.wanted[s] = evs
          /\ c.loop.events[s] \subseteq d.loop.events[s]
      BY <2>2, <2>3, LoopSet
    <3>2. QED
      BY <3>1 DEF evs
  <2>5. Finish(d, s) = InsertLocal(c, s, "closing")
    BY <1>2 DEF Finish, c
  <2>6. Finish(d, s) = e
    BY <2>4, <2>5 DEF InsertLocal, DevOK
  <2>7. /\ k \in [Streams -> SockStates] /\ k[s] = "closing"
        /\ \A t \in Streams \ {s} : k[t] = c.sock[t]
    BY <2>4 DEF DevOK, SockStates
  <2> HIDE DEF k
  <2>8. e.loop = c.loop /\ e.sock = k /\ e.queue = c.queue /\ Untouched(c, e)
    BY <2>4 DEF DevOK, Untouched
  <2>9. e \in [loop : {c.loop}, sock : [Streams -> SockStates], peer : [Streams -> BOOLEAN],
               queue : [Streams -> Seq(Chunks)], up : [Streams -> Seq(Chunks)],
               down : [Streams -> Seq(Chunks)], taken : [Streams -> Seq(Chunks)],
               out : Seq(Packets), closes : [Streams -> Nat]]
    BY <2>4, <2>7 DEF DevOK
  <2> HIDE DEF e
  <2>10. DevOK(e)
    BY <2>4, <2>8, <2>9 DEF DevOK, Untouched
  <2>11. Others(c, e, s)
    BY <2>7, <2>8, AlikeSame DEF Others, SameSocket, Untouched
  <2>12. Others(d, e, s)
    BY <2>4, <2>11, OthersTrans
  <2>13. Untouched(d, e)
    BY <2>4, <2>8 DEF Untouched
  <2>14. Lingers(d, e, s)
    BY <2>4, <2>7, <2>8 DEF Lingers
  <2>15. QED
    BY <1>2, <2>6, <2>10, <2>12, <2>13, <2>14
<1>3. QED
  BY <1>1, <1>2

\* The peer goes.
LEMMA PeerGone ==
  ASSUME NEW d, DevOK(d), NEW s \in Streams
  PROVE  LET e == [d EXCEPT !.peer[s] = FALSE] IN
         /\ DevOK(e) /\ Others(d, e, s) /\ ~ e.peer[s]
         /\ e.loop = d.loop /\ e.sock = d.sock /\ e.queue = d.queue /\ e.out = d.out
         /\ e.up = d.up /\ e.down = d.down /\ e.taken = d.taken /\ e.closes = d.closes
<1> DEFINE k == [d.peer EXCEPT ![s] = FALSE]
           e == [d EXCEPT !.peer = k]
<1>1. [d EXCEPT !.peer[s] = FALSE] = e
  BY DEF DevOK
<1>2. /\ k \in [Streams -> BOOLEAN] /\ ~ k[s]
      /\ \A t \in Streams \ {s} : k[t] = d.peer[t]
  BY DEF DevOK
<1> HIDE DEF k
<1>3. /\ e.peer = k
      /\ e.loop = d.loop /\ e.sock = d.sock /\ e.queue = d.queue /\ e.out = d.out
      /\ e.up = d.up /\ e.down = d.down /\ e.taken = d.taken /\ e.closes = d.closes
  BY DEF DevOK
<1>4. e \in [loop : {d.loop}, sock : [Streams -> SockStates], peer : [Streams -> BOOLEAN],
             queue : [Streams -> Seq(Chunks)], up : [Streams -> Seq(Chunks)],
             down : [Streams -> Seq(Chunks)], taken : [Streams -> Seq(Chunks)],
             out : Seq(Packets), closes : [Streams -> Nat]]
  BY <1>2 DEF DevOK
<1> HIDE DEF e
<1>5. DevOK(e)
  BY <1>3, <1>4 DEF DevOK
<1>6. Others(d, e, s)
  BY <1>2, <1>3, AlikeSame DEF Others, SameSocket
<1>7. QED
  BY <1>1, <1>2, <1>3, <1>5, <1>6

\* The host is told of the end.
LEMMA SendCloseFields ==
  ASSUME NEW d, DevOK(d), NEW s \in Streams
  PROVE  LET e == SendClose(d, s) IN
         /\ DevOK(e) /\ Others(d, e, s)
         /\ Packet("CLSE", s, <<>>) \in Packets
         /\ e.out = Append(d.out, Packet("CLSE", s, <<>>))
         /\ e.closes[s] = d.closes[s] + 1
         /\ e.loop = d.loop /\ e.sock = d.sock /\ e.queue = d.queue /\ e.peer = d.peer
         /\ e.up = d.up /\ e.down = d.down /\ e.taken = d.taken
<1> DEFINE c == Send(d, "CLSE", s, <<>>)
           k == [c.closes EXCEPT ![s] = @ + 1]
           e == [c EXCEPT !.closes = k]
<1>1. <<>> \in Seq(Chunks)
  OBVIOUS
<1>2. /\ DevOK(c) /\ Others(d, c, s)
      /\ Packet("CLSE", s, <<>>) \in Packets
      /\ c.out = Append(d.out, Packet("CLSE", s, <<>>))
      /\ c.loop = d.loop /\ c.sock = d.sock /\ c.queue = d.queue /\ c.peer = d.peer
      /\ c.up = d.up /\ c.down = d.down /\ c.taken = d.taken /\ c.closes = d.closes
  BY <1>1, SendFields
<1> HIDE DEF c
<1>3. SendClose(d, s) = e
  BY <1>2 DEF SendClose, DevOK, c
<1>4. /\ k \in [Streams -> Nat] /\ k[s] = d.closes[s] + 1
      /\ \A t \in Streams \ {s} : k[t] = c.closes[t]
  BY <1>2 DEF DevOK
<1> HIDE DEF k
<1>5. /\ e.closes = k
      /\ e.loop = c.loop /\ e.sock = c.sock /\ e.queue = c.queue /\ e.out = c.out
      /\ e.up = c.up /\ e.down = c.down /\ e.taken = c.taken /\ e.peer = c.peer
  BY <1>2 DEF DevOK
<1>6. e \in [loop : {c.loop}, sock : [Streams -> SockStates], peer : [Streams -> BOOLEAN],
             queue : [Streams -> Seq(Chunks)], up : [Streams -> Seq(Chunks)],
             down : [Streams -> Seq(Chunks)], taken : [Streams -> Seq(Chunks)],
             out : Seq(Packets), closes : [Streams -> Nat]]
  BY <1>2, <1>4 DEF DevOK
<1> HIDE DEF e
<1>7. DevOK(e)
  BY <1>2, <1>5, <1>6 DEF DevOK
<1>8. Others(c, e, s)
  BY <1>4, <1>5, AlikeSame DEF Others, SameSocket
<1>9. Others(d, e, s)
  BY <1>2, <1>8, OthersTrans
<1>10. QED
  BY <1>2, <1>3, <1>4, <1>5, <1>7, <1>9

\* local_socket_close: without a peer the host is not told.
Told(d, e, s) ==
  /\ ~ e.peer[s]
  /\ IF d.peer[s]
       THEN e.out = Append(d.out, Packet("CLSE", s, <<>>)) /\ e.closes[s] = d.closes[s] + 1
       ELSE e.out = d.out /\ e.closes[s] = d.closes[s]
\* local_socket_close.
LEMMA CloseFields ==
  ASSUME NEW d, DevOK(d), NEW s \in Streams, s \in d.loop.active
  PROVE  LET e == Close(d, s) IN
         /\ DevOK(e) /\ Others(d, e, s) /\ Told(d, e, s)
         /\ e.up = d.up /\ e.down = d.down /\ e.taken = d.taken
         /\ IF d.sock[s] = "closing" \/ d.queue[s] = <<>> THEN Destroyed(d, e, s)
            ELSE Lingers(d, e, s)
<1>1. CASE d.peer[s]
  <2> DEFINE c == SendClose(d, s)
             b == [c EXCEPT !.peer[s] = FALSE]
             e == Finish(b, s)
  <2>1. Close(d, s) = e
    BY <1>1 DEF Close
  <2>2. /\ DevOK(c) /\ Others(d, c, s)
        /\ c.out = Append(d.out, Packet("CLSE", s, <<>>))
        /\ c.closes[s] = d.closes[s] + 1
        /\ c.loop = d.loop /\ c.sock = d.sock /\ c.queue = d.queue /\ c.peer = d.peer
        /\ c.up = d.up /\ c.down = d.down /\ c.taken = d.taken
    BY SendCloseFields
  <2> HIDE DEF c
  <2>3. /\ DevOK(b) /\ Others(c, b, s) /\ ~ b.peer[s]
        /\ b.loop = c.loop /\ b.sock = c.sock /\ b.queue = c.queue /\ b.out = c.out
        /\ b.up = c.up /\ b.down = c.down /\ b.taken = c.taken /\ b.closes = c.closes
    BY <2>2, PeerGone
  <2> HIDE DEF b
  <2>4. /\ DevOK(e) /\ Others(b, e, s) /\ Untouched(b, e)
        /\ IF b.sock[s] = "closing" \/ b.queue[s] = <<>> THEN Destroyed(b, e, s)
           ELSE Lingers(b, e, s)
    BY <2>2, <2>3, FinishFields
  <2> HIDE DEF e
  <2>5. Others(d, b, s)
    BY <2>2, <2>3, OthersTrans
  <2>6. Others(d, e, s)
    BY <2>4, <2>5, OthersTrans
  <2>7. Told(d, e, s)
    BY <1>1, <2>2, <2>3, <2>4 DEF Told, Untouched
  <2>8. IF d.sock[s] = "closing" \/ d.queue[s] = <<>> THEN Destroyed(d, e, s)
        ELSE Lingers(d, e, s)
    BY <2>2, <2>3, <2>4 DEF Destroyed, Lingers
  <2>9. QED
    BY <2>1, <2>2, <2>3, <2>4, <2>6, <2>7, <2>8 DEF Untouched
<1>2. CASE ~ d.peer[s]
  <2>1. Close(d, s) = Finish(d, s)
    BY <1>2 DEF Close
  <2> DEFINE e == Finish(d, s)
  <2>2. /\ DevOK(e) /\ Others(d, e, s) /\ Untouched(d, e)
        /\ IF d.sock[s] = "closing" \/ d.queue[s] = <<>> THEN Destroyed(d, e, s)
           ELSE Lingers(d, e, s)
    BY FinishFields
  <2> HIDE DEF e
  <2>3. Told(d, e, s)
    BY <1>2, <2>2 DEF Told, Untouched
  <2>4. QED
    BY <2>1, <2>2, <2>3 DEF Untouched, e
<1>3. QED
  BY <1>1, <1>2

\* remote_socket_disconnect of a stream that has its peer.
LEMMA DisconnectFields ==
  ASSUME NEW d, DevOK(d), NEW s \in Streams, s \in d.loop.active, d.peer[s]
  PROVE  LET e == Disconnect(d, s) IN
         /\ DevOK(e) /\ Others(d, e, s) /\ ~ e.peer[s]
         /\ e.out = d.out /\ e.closes = d.closes
         /\ e.up = d.up /\ e.down = d.down /\ e.taken = d.taken
         /\ IF d.sock[s] = "closing" \/ d.queue[s] = <<>> THEN Destroyed(d, e, s)
            ELSE Lingers(d, e, s)
<1> DEFINE b == [d EXCEPT !.peer[s] = FALSE]
           e == Finish(b, s)
<1>1. Disconnect(d, s) = e
  BY DEF Disconnect
<1>2. /\ DevOK(b) /\ Others(d, b, s) /\ ~ b.peer[s]
      /\ b.loop = d.loop /\ b.sock = d.sock /\ b.queue = d.queue /\ b.out = d.out
      /\ b.up = d.up /\ b.down = d.down /\ b.taken = d.taken /\ b.closes = d.closes
  BY PeerGone
<1> HIDE DEF b
<1>3. /\ DevOK(e) /\ Others(b, e, s) /\ Untouched(b, e)
      /\ IF b.sock[s] = "closing" \/ b.queue[s] = <<>> THEN Destroyed(b, e, s)
         ELSE Lingers(b, e, s)
  BY <1>2, FinishFields
<1> HIDE DEF e
<1>4. Others(d, e, s)
  BY <1>2, <1>3, OthersTrans
<1>5. IF d.sock[s] = "closing" \/ d.queue[s] = <<>> THEN Destroyed(d, e, s)
      ELSE Lingers(d, e, s)
  BY <1>2, <1>3 DEF Destroyed, Lingers
<1>6. QED
  BY <1>1, <1>2, <1>3, <1>4, <1>5 DEF Untouched

\* main reads the service again (fdevent_add).
LEMMA ReadyFields ==
  ASSUME NEW d, DevOK(d), NEW s \in Streams, s \in d.loop.active
  PROVE  LET e == LocalReady(d, s) IN
         /\ DevOK(e) /\ Others(d, e, s)
         /\ e.sock = d.sock /\ e.queue = d.queue /\ Untouched(d, e)
         /\ e.loop.active = d.loop.active
         /\ e.loop.wanted[s] = d.loop.wanted[s] \cup {"R"}
         /\ e.loop.events[s] \subseteq d.loop.events[s]
<1> DEFINE evs == d.loop.wanted[s] \cup {"R"}
<1>1. LoopOK(d.loop) /\ d.loop.wanted \in [Fds -> SUBSET Events]
  BY DEF DevOK, LoopOK
<1>2. evs \in SUBSET Events
  BY <1>1, StreamIsFd DEF Events
<1>3. LocalReady(d, s) = Wants(d, s, evs)
  BY DEF LocalReady, FdAdd, DevOK, Wants
<1> HIDE DEF evs
<1>4. LET e == Wants(d, s, evs) IN
      /\ DevOK(e) /\ Others(d, e, s)
      /\ e.sock = d.sock /\ e.queue = d.queue /\ Untouched(d, e)
      /\ e.loop.active = d.loop.active /\ e.loop.wanted[s] = evs
      /\ e.loop.events[s] \subseteq d.loop.events[s]
  BY <1>2, LoopSet
<1>5. QED
  BY <1>3, <1>4 DEF evs

\* main waits until the service takes more.
Wait(d, s) == [d EXCEPT !.loop = FdAdd(@, s, {"W"})]
\* Write events are asked for.
LEMMA WaitFields ==
  ASSUME NEW d, DevOK(d), NEW s \in Streams, s \in d.loop.active
  PROVE  LET e == Wait(d, s) IN
         /\ DevOK(e) /\ Others(d, e, s)
         /\ e.sock = d.sock /\ e.queue = d.queue /\ Untouched(d, e)
         /\ e.loop.active = d.loop.active
         /\ e.loop.wanted[s] = d.loop.wanted[s] \cup {"W"}
         /\ e.loop.events[s] \subseteq d.loop.events[s]
<1> DEFINE evs == d.loop.wanted[s] \cup {"W"}
<1>1. LoopOK(d.loop) /\ d.loop.wanted \in [Fds -> SUBSET Events]
  BY DEF DevOK, LoopOK
<1>2. evs \in SUBSET Events
  BY <1>1, StreamIsFd DEF Events
<1>3. Wait(d, s) = Wants(d, s, evs)
  BY DEF Wait, FdAdd, DevOK, Wants
<1> HIDE DEF evs
<1>4. LET e == Wants(d, s, evs) IN
      /\ DevOK(e) /\ Others(d, e, s)
      /\ e.sock = d.sock /\ e.queue = d.queue /\ Untouched(d, e)
      /\ e.loop.active = d.loop.active /\ e.loop.wanted[s] = evs
      /\ e.loop.events[s] \subseteq d.loop.events[s]
  BY <1>2, LoopSet
<1>5. QED
  BY <1>3, <1>4 DEF evs

\* main stops reading, or waiting to write.
Stop(d, s, ev) == [d EXCEPT !.loop = FdDel(@, s, {ev})]
\* An event is not asked for any more.
LEMMA StopFields ==
  ASSUME NEW d, DevOK(d), NEW s \in Streams, s \in d.loop.active, NEW ev \in Events
  PROVE  LET e == Stop(d, s, ev) IN
         /\ DevOK(e) /\ Others(d, e, s)
         /\ e.sock = d.sock /\ e.queue = d.queue /\ Untouched(d, e)
         /\ e.loop.active = d.loop.active
         /\ e.loop.wanted[s] = d.loop.wanted[s] \ {ev}
         /\ e.loop.events[s] \subseteq d.loop.events[s]
<1> DEFINE evs == d.loop.wanted[s] \ {ev}
<1>1. LoopOK(d.loop) /\ d.loop.wanted \in [Fds -> SUBSET Events]
  BY DEF DevOK, LoopOK
<1>2. evs \in SUBSET Events
  BY <1>1, StreamIsFd
<1>3. Stop(d, s, ev) = Wants(d, s, evs)
  BY DEF Stop, FdDel, DevOK, Wants
<1> HIDE DEF evs
<1>4. LET e == Wants(d, s, evs) IN
      /\ DevOK(e) /\ Others(d, e, s)
      /\ e.sock = d.sock /\ e.queue = d.queue /\ Untouched(d, e)
      /\ e.loop.active = d.loop.active /\ e.loop.wanted[s] = evs
      /\ e.loop.events[s] \subseteq d.loop.events[s]
  BY <1>2, LoopSet
<1>5. QED
  BY <1>3, <1>4 DEF evs

\* A callback begins: the fdevent is not pending any more.
CallOf(d, f) == [d EXCEPT !.loop = FdCall(FdDequeue(@, f), f)]
\* A callback begins: its events are taken.
LEMMA CallFields ==
  ASSUME NEW d, DevOK(d), NEW f \in Fds
  PROVE  LET e == CallOf(d, f) IN
         /\ DevOK(e) /\ Others(d, e, f)
         /\ e.sock = d.sock /\ e.queue = d.queue /\ Untouched(d, e)
         /\ e.loop.active = d.loop.active /\ e.loop.wanted = d.loop.wanted
         /\ e.loop.events[f] = {}
<1> DEFINE l == FdCall(FdDequeue(d.loop, f), f)
           e == [d EXCEPT !.loop = l]
<1>1. LoopOK(d.loop) /\ d.loop.events \in [Fds -> SUBSET Events]
  BY DEF DevOK, LoopOK
<1>2. /\ LoopOK(l) /\ l.active = d.loop.active /\ l.wanted = d.loop.wanted
      /\ l.events = [d.loop.events EXCEPT ![f] = {}]
  BY <1>1, CallLoop
<1>3. CallOf(d, f) = e
  BY DEF CallOf, DevOK
<1> HIDE DEF l
<1>4. l.events[f] = {} /\ SameLoop(d.loop, l, f)
  BY <1>1, <1>2, StreamIsFd DEF SameLoop
<1>5. /\ DevOK(e) /\ Others(d, e, f)
      /\ e.loop = l /\ e.sock = d.sock /\ e.queue = d.queue /\ Untouched(d, e)
  BY <1>2, <1>4, WithLoop
<1>6. QED
  BY <1>2, <1>3, <1>4, <1>5

\* Pump: what is queued moves to the service, in order, as far as there is room.
PutsOff(d, e, s) ==
  /\ e.peer = d.peer /\ e.up = d.up /\ e.taken = d.taken /\ e.out = d.out
  /\ e.closes = d.closes /\ e.loop = d.loop /\ e.sock = d.sock
\* adb_write in a loop: what leaves the queue is written, in order.
LEMMA PumpFields ==
  ASSUME NEW d, DevOK(d), NEW s \in Streams
  PROVE  LET e == Pump(d, s) IN
         /\ DevOK(e) /\ Others(d, e, s) /\ PutsOff(d, e, s)
         /\ Len(e.down[s]) + Len(e.queue[s]) = Len(d.down[s]) + Len(d.queue[s])
         /\ \A a \in Nat : Run(d.down[s], a) /\ Run(d.queue[s], a + Len(d.down[s])) =>
              Run(e.down[s], a) /\ Run(e.queue[s], a + Len(e.down[s]))
<1> DEFINE k == Least(BufCap - Len(d.down[s]), Len(d.queue[s]))
           f == First(d.queue[s], k)
           r == Rest(d.queue[s], k)
           g == d.down[s] \o f
           w == [d.down EXCEPT ![s] = g]
           q == [d.queue EXCEPT ![s] = r]
           e == [d EXCEPT !.down = w, !.queue = q]
<1>1. /\ d.down[s] \in Seq(Chunks) /\ d.queue[s] \in Seq(Chunks)
      /\ Len(d.down[s]) \in Nat /\ Len(d.queue[s]) \in Nat /\ Len(d.down[s]) <= BufCap
      /\ BufCap \in Nat
  BY SocketsAssumption DEF DevOK
<1> DEFINE x == Len(d.down[s])
           y == Len(d.queue[s])
<1>2. k \in 0..y /\ x + k <= BufCap
  <2>1. x \in Nat /\ y \in Nat /\ x <= BufCap /\ BufCap \in Nat /\ k = Least(BufCap - x, y)
    BY <1>1
  <2> HIDE DEF x, y, k
  <2>2. CASE BufCap - x < y
    <3>1. k = BufCap - x
      BY <2>1, <2>2 DEF Least
    <3>2. QED
      BY <2>1, <2>2, <3>1
  <2>3. CASE ~ (BufCap - x < y)
    <3>1. k = y
      BY <2>1, <2>3 DEF Least
    <3>2. QED
      BY <2>1, <2>3, <3>1
  <2>4. QED
    BY <2>2, <2>3
<1>3. Pump(d, s) = e
  BY DEF Pump, DevOK
<1> HIDE DEF k
<1>4. /\ f \in Seq(Chunks) /\ Len(f) = k
      /\ r \in Seq(Chunks) /\ Len(r) = Len(d.queue[s]) - k
      /\ \A a \in Nat : Run(d.queue[s], a) => Run(f, a) /\ Run(r, a + k)
  BY <1>1, <1>2, RunSplit
<1> HIDE DEF f, r
<1>5. g \in Seq(Chunks) /\ Len(g) = x + k
  BY <1>1, <1>4, ConcatProperties
<1>6. ASSUME NEW a \in Nat, Run(d.down[s], a), Run(d.queue[s], a + Len(d.down[s]))
      PROVE  Run(g, a) /\ Run(r, a + Len(g))
  <2>1. Run(f, a + Len(d.down[s])) /\ Run(r, a + Len(d.down[s]) + k)
    BY <1>1, <1>4, <1>6
  <2>2. Run(g, a)
    BY <1>1, <1>4, <1>6, <2>1, RunConcat
  <2>3. a + Len(g) = a + x + k
    <3>1. Len(g) = x + k /\ x \in Nat /\ k \in Nat
      BY <1>1, <1>2, <1>5
    <3> HIDE DEF x, g
    <3>2. QED
      BY <3>1
  <2>4. QED
    BY <2>1, <2>2, <2>3
<1> HIDE DEF g
<1>7. /\ w \in [Streams -> Seq(Chunks)] /\ w[s] = g
      /\ \A t \in Streams \ {s} : w[t] = d.down[t]
  BY <1>5 DEF DevOK
<1>8. /\ q \in [Streams -> Seq(Chunks)] /\ q[s] = r
      /\ \A t \in Streams \ {s} : q[t] = d.queue[t]
  BY <1>4 DEF DevOK
<1> HIDE DEF w, q
<1>9. e.down = w /\ e.queue = q /\ PutsOff(d, e, s)
  BY DEF DevOK, PutsOff
<1>10. e \in [loop : {d.loop}, sock : [Streams -> SockStates], peer : [Streams -> BOOLEAN],
              queue : [Streams -> Seq(Chunks)], up : [Streams -> Seq(Chunks)],
              down : [Streams -> Seq(Chunks)], taken : [Streams -> Seq(Chunks)],
              out : Seq(Packets), closes : [Streams -> Nat]]
  BY <1>7, <1>8 DEF DevOK
<1> HIDE DEF e
<1>11. \A t \in Streams : Len(w[t]) <= BufCap
  BY <1>2, <1>5, <1>7 DEF DevOK
<1>12. DevOK(e)
  BY <1>9, <1>10, <1>11 DEF DevOK, PutsOff
<1>13. Others(d, e, s)
  BY <1>7, <1>8, <1>9, AlikeSame DEF Others, SameSocket, PutsOff
<1>14. Len(e.down[s]) + Len(e.queue[s]) = x + y
  <2>1. Len(e.down[s]) = x + k /\ Len(e.queue[s]) = y - k
    BY <1>4, <1>5, <1>7, <1>8, <1>9
  <2>2. x \in Nat /\ y \in Nat /\ k \in 0..y
    BY <1>1, <1>2
  <2> HIDE DEF x, y
  <2>3. QED
    BY <2>1, <2>2
<1>15. QED
  BY <1>3, <1>6, <1>7, <1>8, <1>9, <1>12, <1>13, <1>14

\* The data of a packet is queued.
Queued(d, s, data) == [d EXCEPT !.queue[s] = @ \o data, !.taken[s] = @ \o data]
\* A packet goes to the queue.
LEMMA QueuedFields ==
  ASSUME NEW d, DevOK(d), NEW s \in Streams, NEW data \in Seq(Chunks)
  PROVE  LET e == Queued(d, s, data) IN
         /\ DevOK(e) /\ Others(d, e, s)
         /\ e.queue[s] = d.queue[s] \o data /\ e.taken[s] = d.taken[s] \o data
         /\ e.peer = d.peer /\ e.up = d.up /\ e.down = d.down /\ e.out = d.out
         /\ e.closes = d.closes /\ e.loop = d.loop /\ e.sock = d.sock
<1> DEFINE x == d.queue[s] \o data
           y == d.taken[s] \o data
           q == [d.queue EXCEPT ![s] = x]
           k == [d.taken EXCEPT ![s] = y]
           e == [d EXCEPT !.queue = q, !.taken = k]
<1>1. Queued(d, s, data) = e
  BY DEF Queued, DevOK
<1>2. x \in Seq(Chunks) /\ y \in Seq(Chunks)
  <2>1. d.queue[s] \in Seq(Chunks) /\ d.taken[s] \in Seq(Chunks)
    BY DEF DevOK
  <2>2. QED
    BY <2>1
<1> HIDE DEF x, y
<1>3. /\ q \in [Streams -> Seq(Chunks)] /\ q[s] = x
      /\ \A t \in Streams \ {s} : q[t] = d.queue[t]
  BY <1>2 DEF DevOK
<1>4. /\ k \in [Streams -> Seq(Chunks)] /\ k[s] = y
      /\ \A t \in Streams \ {s} : k[t] = d.taken[t]
  BY <1>2 DEF DevOK
<1> HIDE DEF q, k
<1>5. /\ e.queue = q /\ e.taken = k
      /\ e.peer = d.peer /\ e.up = d.up /\ e.down = d.down /\ e.out = d.out
      /\ e.closes = d.closes /\ e.loop = d.loop /\ e.sock = d.sock
  BY DEF DevOK
<1>6. e \in [loop : {d.loop}, sock : [Streams -> SockStates], peer : [Streams -> BOOLEAN],
             queue : [Streams -> Seq(Chunks)], up : [Streams -> Seq(Chunks)],
             down : [Streams -> Seq(Chunks)], taken : [Streams -> Seq(Chunks)],
             out : Seq(Packets), closes : [Streams -> Nat]]
  BY <1>3, <1>4 DEF DevOK
<1> HIDE DEF e
<1>7. DevOK(e)
  BY <1>5, <1>6 DEF DevOK
<1>8. Others(d, e, s)
  BY <1>3, <1>4, <1>5, AlikeSame DEF Others, SameSocket
<1>9. QED
  BY <1>1, <1>3, <1>4, <1>5, <1>7, <1>8 DEF x, y

\* Or only counted as taken, when it cannot be written.
Counted(d, s, data) == [d EXCEPT !.taken[s] = @ \o data]
\* A packet is taken for a service that closed.
LEMMA CountedFields ==
  ASSUME NEW d, DevOK(d), NEW s \in Streams, NEW data \in Seq(Chunks)
  PROVE  LET e == Counted(d, s, data) IN
         /\ DevOK(e) /\ Others(d, e, s)
         /\ e.queue = d.queue /\ e.peer = d.peer /\ e.up = d.up /\ e.down = d.down
         /\ e.out = d.out /\ e.closes = d.closes /\ e.loop = d.loop /\ e.sock = d.sock
<1> DEFINE y == d.taken[s] \o data
           k == [d.taken EXCEPT ![s] = y]
           e == [d EXCEPT !.taken = k]
<1>1. Counted(d, s, data) = e
  BY DEF Counted, DevOK
<1>2. y \in Seq(Chunks)
  <2>1. d.taken[s] \in Seq(Chunks)
    BY DEF DevOK
  <2>2. QED
    BY <2>1
<1> HIDE DEF y
<1>3. k \in [Streams -> Seq(Chunks)] /\ \A t \in Streams \ {s} : k[t] = d.taken[t]
  BY <1>2 DEF DevOK
<1> HIDE DEF k
<1>4. /\ e.taken = k
      /\ e.queue = d.queue /\ e.peer = d.peer /\ e.up = d.up /\ e.down = d.down
      /\ e.out = d.out /\ e.closes = d.closes /\ e.loop = d.loop /\ e.sock = d.sock
  BY DEF DevOK
<1>5. e \in [loop : {d.loop}, sock : [Streams -> SockStates], peer : [Streams -> BOOLEAN],
             queue : [Streams -> Seq(Chunks)], up : [Streams -> Seq(Chunks)],
             down : [Streams -> Seq(Chunks)], taken : [Streams -> Seq(Chunks)],
             out : Seq(Packets), closes : [Streams -> Nat]]
  BY <1>3 DEF DevOK
<1> HIDE DEF e
<1>6. DevOK(e)
  BY <1>4, <1>5 DEF DevOK
<1>7. Others(d, e, s)
  BY <1>3, <1>4, AlikeSame DEF Others, SameSocket
<1>8. QED
  BY <1>1, <1>4, <1>6, <1>7

\* Some chunks of the service are read.
ReadOff(d, s, n) == [d EXCEPT !.up[s] = Rest(@, n)]
\* main reads n chunks of the service.
LEMMA ReadOffFields ==
  ASSUME NEW d, DevOK(d), NEW s \in Streams, NEW n \in 0..Len(d.up[s])
  PROVE  LET e == ReadOff(d, s, n) IN
         /\ DevOK(e) /\ Others(d, e, s)
         /\ e.up[s] = Rest(d.up[s], n) /\ Len(e.up[s]) = Len(d.up[s]) - n
         /\ e.queue = d.queue /\ e.peer = d.peer /\ e.taken = d.taken /\ e.down = d.down
         /\ e.out = d.out /\ e.closes = d.closes /\ e.loop = d.loop /\ e.sock = d.sock
<1> DEFINE y == Rest(d.up[s], n)
           k == [d.up EXCEPT ![s] = y]
           e == [d EXCEPT !.up = k]
<1>1. ReadOff(d, s, n) = e
  BY DEF ReadOff, DevOK
<1>2. d.up[s] \in Seq(Chunks) /\ Len(d.up[s]) \in Nat /\ Len(d.up[s]) <= BufCap
  BY DEF DevOK
<1>3. y \in Seq(Chunks) /\ Len(y) = Len(d.up[s]) - n
  BY <1>2, RunSplit
<1> HIDE DEF y
<1>4. /\ k \in [Streams -> Seq(Chunks)] /\ k[s] = y
      /\ \A t \in Streams \ {s} : k[t] = d.up[t]
  BY <1>3 DEF DevOK
<1>5. \A t \in Streams : Len(k[t]) <= BufCap
  <2>1. Len(y) <= BufCap
    BY <1>2, <1>3, SocketsAssumption
  <2> HIDE DEF k
  <2>2. QED
    BY <1>4, <2>1 DEF DevOK
<1> HIDE DEF k
<1>6. /\ e.up = k
      /\ e.queue = d.queue /\ e.peer = d.peer /\ e.taken = d.taken /\ e.down = d.down
      /\ e.out = d.out /\ e.closes = d.closes /\ e.loop = d.loop /\ e.sock = d.sock
  BY DEF DevOK
<1>7. e \in [loop : {d.loop}, sock : [Streams -> SockStates], peer : [Streams -> BOOLEAN],
             queue : [Streams -> Seq(Chunks)], up : [Streams -> Seq(Chunks)],
             down : [Streams -> Seq(Chunks)], taken : [Streams -> Seq(Chunks)],
             out : Seq(Packets), closes : [Streams -> Nat]]
  BY <1>4 DEF DevOK
<1> HIDE DEF e
<1>8. DevOK(e)
  BY <1>5, <1>6, <1>7 DEF DevOK
<1>9. Others(d, e, s)
  BY <1>4, <1>6, AlikeSame DEF Others, SameSocket
<1>10. QED
  BY <1>1, <1>3, <1>4, <1>6, <1>8, <1>9 DEF y

\* An OPEN that is accepted: the socket, its peer, the READY, and main reads.
LEMMA AcceptedFields ==
  ASSUME NEW d, DevOK(d), NEW s \in Streams, s \notin d.loop.active
  PROVE  LET e == Accepted(d, s) IN
         /\ DevOK(e) /\ Others(d, e, s)
         /\ e.sock[s] = "open" /\ e.peer[s] /\ s \in e.loop.active
         /\ e.loop.wanted[s] = {"R"} /\ e.loop.events[s] = {}
         /\ Packet("OKAY", s, <<>>) \in Packets
         /\ e.out = Append(d.out, Packet("OKAY", s, <<>>))
         /\ e.queue = d.queue /\ e.up = d.up /\ e.down = d.down /\ e.taken = d.taken
         /\ e.closes = d.closes
<1> DEFINE l == FdInstall(d.loop, s)
           k == [d.sock EXCEPT ![s] = "open"]
           c == [d EXCEPT !.loop = l, !.sock = k]
           p == [c.peer EXCEPT ![s] = TRUE]
           b == [c EXCEPT !.peer = p]
           o == SendReady(b, s)
<1>1. LoopOK(d.loop)
  BY DEF DevOK
<1>2. /\ LoopOK(l) /\ l.active = d.loop.active \cup {s}
      /\ l.wanted = [d.loop.wanted EXCEPT ![s] = {}]
      /\ l.events = [d.loop.events EXCEPT ![s] = {}]
  BY <1>1, InstallLoop, StreamIsFd
<1>3. CreateLocal(d, s) = c
  BY DEF CreateLocal, InstallLocal, InsertLocal, DevOK
<1>4. d.loop.wanted \in [Fds -> SUBSET Events] /\ d.loop.events \in [Fds -> SUBSET Events]
  BY <1>1 DEF LoopOK
<1> HIDE DEF l
<1>5. l.wanted[s] = {} /\ l.events[s] = {} /\ SameLoop(d.loop, l, s)
  BY <1>2, <1>4, StreamIsFd DEF SameLoop
<1>6. /\ k \in [Streams -> SockStates] /\ k[s] = "open"
      /\ \A t \in Streams \ {s} : k[t] = d.sock[t]
  BY DEF DevOK, SockStates
<1> HIDE DEF k
<1>7. /\ c.loop = l /\ c.sock = k /\ c.queue = d.queue /\ Untouched(d, c)
      /\ c.peer \in [Streams -> BOOLEAN]
  BY DEF DevOK, Untouched
<1>8. c \in [loop : {l}, sock : [Streams -> SockStates], peer : [Streams -> BOOLEAN],
             queue : [Streams -> Seq(Chunks)], up : [Streams -> Seq(Chunks)],
             down : [Streams -> Seq(Chunks)], taken : [Streams -> Seq(Chunks)],
             out : Seq(Packets), closes : [Streams -> Nat]]
  BY <1>6 DEF DevOK
<1> HIDE DEF c
<1>9. CreateRemote(c, s) = b
  BY <1>8 DEF CreateRemote
<1>10. /\ p \in [Streams -> BOOLEAN] /\ p[s]
       /\ \A t \in Streams \ {s} : p[t] = c.peer[t]
  BY <1>7
<1> HIDE DEF p
<1>11. /\ b.loop = l /\ b.sock = k /\ b.queue = d.queue /\ b.peer = p /\ b.up = d.up
       /\ b.down = d.down /\ b.taken = d.taken /\ b.out = d.out /\ b.closes = d.closes
  BY <1>7, <1>8 DEF Untouched
<1>12. b \in [loop : {l}, sock : [Streams -> SockStates], peer : [Streams -> BOOLEAN],
              queue : [Streams -> Seq(Chunks)], up : [Streams -> Seq(Chunks)],
              down : [Streams -> Seq(Chunks)], taken : [Streams -> Seq(Chunks)],
              out : Seq(Packets), closes : [Streams -> Nat]]
  BY <1>8, <1>10
<1> HIDE DEF b
<1>13. DevOK(b)
  BY <1>2, <1>11, <1>12 DEF DevOK
<1>14. Others(d, b, s)
  BY <1>5, <1>6, <1>7, <1>10, <1>11, AlikeSame DEF Others, SameSocket, SameLoop, Untouched
<1>15. /\ DevOK(o) /\ Others(b, o, s)
       /\ Packet("OKAY", s, <<>>) \in Packets
       /\ o.out = Append(b.out, Packet("OKAY", s, <<>>))
       /\ o.loop = b.loop /\ o.sock = b.sock /\ o.queue = b.queue /\ o.peer = b.peer
       /\ o.up = b.up /\ o.down = b.down /\ o.taken = b.taken /\ o.closes = b.closes
  <2>1. <<>> \in Seq(Chunks)
    OBVIOUS
  <2>2. QED
    BY <1>13, <2>1, SendFields DEF SendReady
<1>16. Accepted(d, s) = LocalReady(o, s)
  BY <1>3, <1>9 DEF Accepted
<1> HIDE DEF o
<1> DEFINE e == LocalReady(o, s)
<1>17. /\ DevOK(e) /\ Others(o, e, s)
       /\ e.sock = o.sock /\ e.queue = o.queue /\ Untouched(o, e)
       /\ e.loop.active = o.loop.active
       /\ e.loop.wanted[s] = o.loop.wanted[s] \cup {"R"}
       /\ e.loop.events[s] \subseteq o.loop.events[s]
  BY <1>2, <1>11, <1>15, ReadyFields
<1> HIDE DEF e
<1>18. Others(d, o, s)
  BY <1>14, <1>15, OthersTrans
<1>19. Others(d, e, s)
  BY <1>17, <1>18, OthersTrans
<1>20. /\ e.sock[s] = "open" /\ e.peer[s] /\ s \in e.loop.active
       /\ e.loop.wanted[s] = {"R"} /\ e.loop.events[s] = {}
       /\ e.out = Append(d.out, Packet("OKAY", s, <<>>))
       /\ e.queue = d.queue /\ e.up = d.up /\ e.down = d.down /\ e.taken = d.taken
       /\ e.closes = d.closes
  <2>1. e.sock[s] = "open" /\ e.peer[s] /\ s \in e.loop.active
    BY <1>2, <1>6, <1>10, <1>11, <1>15, <1>17 DEF Untouched
  <2>2. e.loop.wanted[s] = {"R"} /\ e.loop.events[s] = {}
    BY <1>5, <1>11, <1>15, <1>17
  <2>3. /\ e.out = Append(d.out, Packet("OKAY", s, <<>>))
        /\ e.queue = d.queue /\ e.up = d.up /\ e.down = d.down /\ e.taken = d.taken
        /\ e.closes = d.closes
    BY <1>11, <1>15, <1>17 DEF Untouched
  <2>4. QED
    BY <2>1, <2>2, <2>3
<1>21. QED
  BY <1>15, <1>16, <1>17, <1>19, <1>20 DEF e

-----------------------------------------------------------------------------
\* What each thing that may happen to a stream does to its invariant.

\* A socket in the middle of a callback: on a list, with all of the invariant but what
\* the list says, and but the WRITE that main has just taken.
Working(h, d, q, s) ==
  /\ d.sock[s] \in {"open", "closing"} /\ (d.sock[s] = "open" <=> d.peer[s])
  /\ s \in d.loop.active
  /\ StartOK(h, d, q, s) /\ UpFlow(h, d, q, s) /\ DownFlow(h, d, q, s)
  /\ CloseOK(d, q, s) /\ UpData(h, d, s) /\ Kept(h, d, s)

\* What main does for the stream s keeps the invariant of s, and leaves the others alone.
Good(h, d, e, q, s) == DevOK(e) /\ Others(d, e, s) /\ StreamOK(h, e, q, s)

\* A step of main after another.
LEMMA GoodTrans ==
  ASSUME NEW h, NEW d, NEW e, NEW f, NEW q, NEW s, Others(d, e, s), Good(h, e, f, q, s)
  PROVE  Good(h, d, f, q, s)
  BY OthersTrans DEF Good

\* A socket on one of the lists is being worked on.
LEMMA WorkingStream ==
  ASSUME NEW h, NEW d, DevOK(d), NEW q, NEW s \in Streams, StreamOK(h, d, q, s),
         d.sock[s] \in {"open", "closing"}
  PROVE  Working(h, d, q, s)
  BY DEF StreamOK, SocketOK, DownData, Working

\* The numbers of chunks are numbers.
LEMMA Lengths ==
  ASSUME NEW h, HostOK(h), NEW d, DevOK(d), NEW s \in Streams
  PROVE  /\ h.gotUp[s] \in Seq(Chunks) /\ h.gotDown[s] \in Seq(Chunks)
         /\ d.up[s] \in Seq(Chunks) /\ d.down[s] \in Seq(Chunks)
         /\ d.queue[s] \in Seq(Chunks) /\ d.taken[s] \in Seq(Chunks)
         /\ Len(h.gotUp[s]) \in Nat /\ Len(h.gotDown[s]) \in Nat /\ Len(d.up[s]) \in Nat
         /\ Len(d.down[s]) \in Nat /\ Len(d.queue[s]) \in Nat /\ Len(d.taken[s]) \in Nat
         /\ Given(h, d, s) \in Nat /\ Total(h, d, s) \in Nat
         /\ h.sent[s] \in Nat /\ h.wrote[s] \in Nat /\ d.closes[s] \in Nat
         /\ d.out \in Seq(Packets)
<1>1. /\ h.gotUp[s] \in Seq(Chunks) /\ h.gotDown[s] \in Seq(Chunks)
      /\ h.sent[s] \in 0..MaxDown /\ h.wrote[s] \in 0..MaxUp
  BY DEF HostOK
<1>2. /\ d.up[s] \in Seq(Chunks) /\ d.down[s] \in Seq(Chunks)
      /\ d.queue[s] \in Seq(Chunks) /\ d.taken[s] \in Seq(Chunks) /\ d.closes[s] \in Nat
      /\ d.out \in Seq(Packets)
  BY DEF DevOK
<1>3. /\ Len(h.gotUp[s]) \in Nat /\ Len(h.gotDown[s]) \in Nat /\ Len(d.up[s]) \in Nat
      /\ Len(d.down[s]) \in Nat /\ Len(d.queue[s]) \in Nat /\ Len(d.taken[s]) \in Nat
  <2>1. \A x \in Seq(Chunks) : Len(x) \in Nat
    OBVIOUS
  <2>2. QED
    BY <1>1, <1>2, <2>1
<1>4. Given(h, d, s) \in Nat /\ Total(h, d, s) \in Nat
  <2> DEFINE x == Len(h.gotDown[s])
             y == Len(d.down[s])
             z == Len(d.queue[s])
  <2>1. x \in Nat /\ y \in Nat /\ z \in Nat
    BY <1>3
  <2>2. Given(h, d, s) = x + y /\ Total(h, d, s) = x + y + z
    BY DEF Given, Total
  <2> HIDE DEF x, y, z
  <2>3. QED
    BY <2>1, <2>2
<1>5. h.sent[s] \in Nat /\ h.wrote[s] \in Nat
  BY <1>1
<1>6. QED
  BY <1>1, <1>2, <1>3, <1>4, <1>5

\* A packet is taken by main, a WRITE for a stream with a peer excepted.
LEMMA PopStep ==
  ASSUME NEW h, NEW d, NEW q \in Seq(Packets), q # <<>>, NEW s, StreamOK(h, d, q, s),
         ~ (Is(Head(q), "WRTE", s) /\ d.peer[s])
  PROVE  StreamOK(h, d, Tail(q), s)
<1> DEFINE r == Tail(q)
<1>1. \A c : (Has(r, c, s) => Has(q, c, s)) /\ (Sole(q, c, s) => Sole(r, c, s))
  BY HasTail
<1>2. d.peer[s] => \A a, b : Chain(q, s, a, b) => Chain(r, s, a, b)
  BY ChainTail
<1> HIDE DEF r
<1>3. StartOK(h, d, r, s)
  BY <1>1 DEF StreamOK, StartOK
<1>4. UpFlow(h, d, r, s)
  BY <1>1 DEF StreamOK, UpFlow
<1>5. DownFlow(h, d, r, s)
  BY <1>1 DEF StreamOK, DownFlow
<1>6. CloseOK(d, r, s)
  BY <1>1 DEF StreamOK, CloseOK
<1>7. DownData(h, d, r, s)
  BY <1>2 DEF StreamOK, DownData
<1>8. QED
  BY <1>3, <1>4, <1>5, <1>6, <1>7 DEF StreamOK, r

\* Events are noticed or delivered; a read event that nobody asked for is for a subprocess.
LEMMA LoopStep ==
  ASSUME NEW h, NEW d, NEW e, NEW q, NEW s, StreamOK(h, d, q, s),
         e.sock = d.sock, e.queue = d.queue, Untouched(d, e),
         e.loop.active = d.loop.active, e.loop.wanted[s] = d.loop.wanted[s],
         \A v \in e.loop.events[s] : \/ v \in d.loop.events[s] \cup d.loop.wanted[s]
                                     \/ v = "R" /\ Subprocess(h.kind[s])
  PROVE  StreamOK(h, e, q, s)
<1>1. SocketOK(e, s)
  <2>1. "W" \in e.loop.events[s] => "W" \in d.loop.events[s] \cup d.loop.wanted[s]
    OBVIOUS
  <2>2. QED
    BY <2>1 DEF StreamOK, SocketOK, Untouched
<1>2. StartOK(h, e, q, s)
  BY DEF StreamOK, StartOK, Untouched
<1>3. UpFlow(h, e, q, s)
  <2>1. CASE Subprocess(h.kind[s])
    BY <2>1 DEF UpFlow
  <2>2. CASE ~ Subprocess(h.kind[s])
    <3>1. "R" \in e.loop.events[s] => "R" \in d.loop.events[s] \/ "R" \in d.loop.wanted[s]
      BY <2>2
    <3>2. UpFlow(h, d, q, s)
      BY DEF StreamOK
    <3>3. QED
      BY <2>2, <3>1, <3>2 DEF UpFlow, Reads, Untouched
  <2>3. QED
    BY <2>1, <2>2
<1>4. DownFlow(h, e, q, s)
  BY DEF StreamOK, DownFlow, Waits, Untouched
<1>5. CloseOK(e, q, s)
  BY DEF StreamOK, CloseOK, Untouched
<1>6. UpData(h, e, s)
  BY DEF StreamOK, UpData, ToHost, Untouched
<1>7. DownData(h, e, q, s)
  BY DEF StreamOK, DownData, Kept, Given, Total, Untouched
<1>8. QED
  BY <1>1, <1>2, <1>3, <1>4, <1>5, <1>6, <1>7 DEF StreamOK

\* A callback begins.
LEMMA CallStep ==
  ASSUME NEW h, NEW d, DevOK(d), NEW q, NEW s \in Streams, NEW f \in Fds,
         StreamOK(h, d, q, s)
  PROVE  StreamOK(h, CallOf(d, f), q, s)
<1> DEFINE e == CallOf(d, f)
<1>1. /\ Others(d, e, f)
      /\ e.sock = d.sock /\ e.queue = d.queue /\ Untouched(d, e)
      /\ e.loop.active = d.loop.active /\ e.loop.wanted = d.loop.wanted
      /\ e.loop.events[f] = {}
  BY CallFields
<1> HIDE DEF e
<1>2. e.loop.events[s] \subseteq d.loop.events[s]
  BY <1>1 DEF Others, SameSocket
<1>3. StreamOK(h, e, q, s)
  BY <1>1, <1>2, LoopStep
<1>4. QED
  BY <1>3 DEF e

\* The host's READY: main reads again.
LEMMA ReadyStep ==
  ASSUME NEW h, NEW d, DevOK(d), NEW q, NEW s \in Streams, StreamOK(h, d, q, s),
         s \in d.loop.active,
         ~ Subprocess(h.kind[s]) =>
           ~ Has(d.out, "WRTE", s) /\ ~ h.owed[s] /\ ~ Has(q, "OKAY", s)
  PROVE  Good(h, d, LocalReady(d, s), q, s)
<1> DEFINE e == LocalReady(d, s)
<1>1. /\ DevOK(e) /\ Others(d, e, s)
      /\ e.sock = d.sock /\ e.queue = d.queue /\ Untouched(d, e)
      /\ e.loop.active = d.loop.active
      /\ e.loop.wanted[s] = d.loop.wanted[s] \cup {"R"}
      /\ e.loop.events[s] \subseteq d.loop.events[s]
  BY ReadyFields
<1> HIDE DEF e
<1>2. SocketOK(e, s)
  BY <1>1 DEF StreamOK, SocketOK, Untouched
<1>3. StartOK(h, e, q, s)
  BY <1>1 DEF StreamOK, StartOK, Untouched
<1>4. UpFlow(h, e, q, s)
  BY <1>1 DEF StreamOK, UpFlow, Reads, Untouched
<1>5. DownFlow(h, e, q, s)
  BY <1>1 DEF StreamOK, DownFlow, Waits, Untouched
<1>6. CloseOK(e, q, s)
  BY <1>1 DEF StreamOK, CloseOK, Untouched
<1>7. UpData(h, e, s)
  BY <1>1 DEF StreamOK, UpData, ToHost, Untouched
<1>8. DownData(h, e, q, s)
  BY <1>1 DEF StreamOK, DownData, Kept, Given, Total, Untouched
<1>9. StreamOK(h, e, q, s)
  BY <1>2, <1>3, <1>4, <1>5, <1>6, <1>7, <1>8 DEF StreamOK
<1>10. QED
  BY <1>1, <1>9 DEF Good, e

\* main waits to write what is queued.
LEMMA WaitStep ==
  ASSUME NEW h, NEW d, DevOK(d), NEW q, NEW s \in Streams, StreamOK(h, d, q, s),
         s \in d.loop.active, d.queue[s] # <<>>
  PROVE  Good(h, d, Wait(d, s), q, s)
<1> DEFINE e == Wait(d, s)
<1>1. /\ DevOK(e) /\ Others(d, e, s)
      /\ e.sock = d.sock /\ e.queue = d.queue /\ Untouched(d, e)
      /\ e.loop.active = d.loop.active
      /\ e.loop.wanted[s] = d.loop.wanted[s] \cup {"W"}
      /\ e.loop.events[s] \subseteq d.loop.events[s]
  BY WaitFields
<1> HIDE DEF e
<1>2. SocketOK(e, s)
  BY <1>1 DEF StreamOK, SocketOK, Untouched
<1>3. StartOK(h, e, q, s)
  BY <1>1 DEF StreamOK, StartOK, Untouched
<1>4. UpFlow(h, e, q, s)
  <2>1. "R" \in e.loop.wanted[s] <=> "R" \in d.loop.wanted[s]
    BY <1>1
  <2>2. QED
    BY <1>1, <2>1 DEF StreamOK, UpFlow, Reads, Untouched
<1>5. DownFlow(h, e, q, s)
  BY <1>1 DEF StreamOK, DownFlow, Waits, Untouched
<1>6. CloseOK(e, q, s)
  BY <1>1 DEF StreamOK, CloseOK, Untouched
<1>7. UpData(h, e, s)
  BY <1>1 DEF StreamOK, UpData, ToHost, Untouched
<1>8. DownData(h, e, q, s)
  BY <1>1 DEF StreamOK, DownData, Kept, Given, Total, Untouched
<1>9. StreamOK(h, e, q, s)
  BY <1>2, <1>3, <1>4, <1>5, <1>6, <1>7, <1>8 DEF StreamOK
<1>10. QED
  BY <1>1, <1>9 DEF Good, e

\* main tells the host that it wants the next WRITE.
LEMMA ReadySentStep ==
  ASSUME NEW h, HostOK(h), NEW d, DevOK(d), NEW q, NEW s \in Streams, StreamOK(h, d, q, s),
         d.peer[s], ~ Has(d.out, "OKAY", s), ~ h.credit[s], ~ Has(q, "WRTE", s),
         ~ Waits(d, s)
  PROVE  Good(h, d, SendReady(d, s), q, s)
<1> DEFINE e == SendReady(d, s)
           p == Packet("OKAY", s, <<>>)
           o == Append(d.out, p)
<1>1. /\ DevOK(e) /\ Others(d, e, s)
      /\ p \in Packets /\ e.out = o
      /\ e.loop = d.loop /\ e.sock = d.sock /\ e.queue = d.queue /\ e.peer = d.peer
      /\ e.up = d.up /\ e.down = d.down /\ e.taken = d.taken /\ e.closes = d.closes
  <2>1. <<>> \in Seq(Chunks)
    OBVIOUS
  <2>2. e = Send(d, "OKAY", s, <<>>)
    BY DEF SendReady
  <2> HIDE DEF e
  <2>3. "OKAY" \in {"OKAY", "CLSE", "WRTE"}
    OBVIOUS
  <2>4. \A c \in {"OKAY", "CLSE", "WRTE"}, t \in Seq(Chunks) :
          /\ DevOK(Send(d, c, s, t)) /\ Others(d, Send(d, c, s, t), s)
          /\ Packet(c, s, t) \in Packets
          /\ Send(d, c, s, t).out = Append(d.out, Packet(c, s, t))
          /\ Send(d, c, s, t).loop = d.loop /\ Send(d, c, s, t).sock = d.sock
          /\ Send(d, c, s, t).queue = d.queue /\ Send(d, c, s, t).peer = d.peer
          /\ Send(d, c, s, t).up = d.up /\ Send(d, c, s, t).down = d.down
          /\ Send(d, c, s, t).taken = d.taken /\ Send(d, c, s, t).closes = d.closes
    BY SendFields
  <2>5. QED
    BY <2>1, <2>2, <2>3, <2>4
<1> HIDE DEF e
<1>2. d.out \in Seq(Packets)
  BY DEF DevOK
<1>3. p.s = s /\ Is(p, "OKAY", s) /\ ~ Is(p, "WRTE", s) /\ ~ Is(p, "CLSE", s)
  BY DEF p, Packet, Is
<1>4. d.closes[s] # 1 /\ ~ Has(d.out, "CLSE", s)
  BY DEF StreamOK, CloseOK
<1> HIDE DEF p
<1>5. /\ \A c : Has(o, c, s) <=> Has(d.out, c, s) \/ Is(p, c, s)
      /\ Sole(d.out, "WRTE", s) => Sole(o, "WRTE", s)
      /\ Sole(d.out, "OKAY", s) => Sole(o, "OKAY", s)
      /\ Ends(d.out, s) => Ends(o, s)
      /\ Led(d.out, s) => Led(o, s)
      /\ \A a, b : Chain(d.out, s, a, b) => Chain(o, s, a, b)
  BY <1>1, <1>2, <1>3, <1>4, HasAppend, SoleAppend, EndsAppend, LedAppend, ChainAppend
<1> HIDE DEF o
<1>6. SocketOK(e, s)
  BY <1>1 DEF StreamOK, SocketOK
<1>7. d.sock[s] = "open"
  BY DEF StreamOK, SocketOK
<1>8. StartOK(h, e, q, s)
  BY <1>1, <1>7 DEF StreamOK, StartOK
<1>9. UpFlow(h, e, q, s)
  BY <1>1, <1>3, <1>5 DEF StreamOK, UpFlow, Reads, Is
<1>10. DownFlow(h, e, q, s)
  BY <1>1, <1>5 DEF StreamOK, DownFlow, Waits
<1>11. CloseOK(e, q, s)
  BY <1>1, <1>3, <1>5 DEF StreamOK, CloseOK
<1>12. UpData(h, e, s)
  <2>1. \A b : ToHost(h, d, s, b) => ToHost(h, e, s, b)
    BY <1>1, <1>3, <1>5 DEF ToHost
  <2>2. QED
    BY <1>1, <1>3, <1>5, <2>1 DEF StreamOK, UpData
<1>13. DownData(h, e, q, s)
  BY <1>1 DEF StreamOK, DownData, Kept, Given, Total
<1>14. StreamOK(h, e, q, s)
  BY <1>6, <1>8, <1>9, <1>10, <1>11, <1>12, <1>13 DEF StreamOK
<1>15. QED
  BY <1>1, <1>14 DEF Good, e

\* local_socket_close.  Without the host's doing main only ends a stream when it has read
\* all, and only a service that has stopped writing loses its queue.
LEMMA CloseStep ==
  ASSUME NEW h, HostOK(h), NEW d, DevOK(d), NEW q, NEW s \in Streams, Working(h, d, q, s),
         d.peer[s] => \/ h.host[s] \in {"closed", "refused"} \/ h.sent[s] > 0
                      \/ h.svc[s] # "open" /\ d.up[s] = <<>>,
         d.sock[s] = "closing" /\ d.queue[s] # <<>> => h.svc[s] # "open"
  PROVE  Good(h, d, Close(d, s), q, s)
<1> DEFINE e == Close(d, s)
           p == Packet("CLSE", s, <<>>)
<1>1. /\ DevOK(e) /\ Others(d, e, s)
      /\ Told(d, e, s)
      /\ e.up = d.up /\ e.down = d.down /\ e.taken = d.taken
      /\ IF d.sock[s] = "closing" \/ d.queue[s] = <<>> THEN Destroyed(d, e, s)
         ELSE Lingers(d, e, s)
  BY CloseFields DEF Working
<1> HIDE DEF e
<1>2. /\ d.out \in Seq(Packets) /\ p \in Packets /\ Is(p, "CLSE", s) /\ p.s = s
      /\ \A c : c # "CLSE" => ~ Is(p, c, s)
  BY SendCloseFields DEF DevOK, Packet, Is
<1> HIDE DEF p
<1>3. d.peer[s] => ~ Has(d.out, "CLSE", s) /\ d.closes[s] = 0 /\ ~ Has(q, "OPEN", s)
  <2>1. d.closes[s] \in Nat
    BY Lengths
  <2>2. QED
    BY <2>1 DEF Working, CloseOK, StartOK
<1>4. /\ \A c : Has(e.out, c, s) <=> Has(d.out, c, s) \/ (d.peer[s] /\ c = "CLSE")
      /\ \A c : c # "CLSE" /\ Sole(d.out, c, s) => Sole(e.out, c, s)
      /\ Ends(d.out, s) => Ends(e.out, s)
      /\ Led(d.out, s) => Led(e.out, s)
      /\ \A a, b : Chain(d.out, s, a, b) => Chain(e.out, s, a, b)
  <2>1. CASE d.peer[s]
    <3>1. e.out = Append(d.out, p)
      BY <1>1, <2>1 DEF Told, p
    <3>2. /\ \A c : Has(e.out, c, s) <=> Has(d.out, c, s) \/ Is(p, c, s)
          /\ \A c : c # "CLSE" /\ Sole(d.out, c, s) => Sole(e.out, c, s)
          /\ Ends(d.out, s) => Ends(e.out, s)
          /\ Led(d.out, s) => Led(e.out, s)
          /\ \A a, b : Chain(d.out, s, a, b) => Chain(e.out, s, a, b)
      BY <1>2, <1>3, <2>1, <3>1, HasAppend, SoleAppend, EndsAppend, LedAppend, ChainAppend
    <3>3. QED
      BY <1>2, <2>1, <3>2
  <2>2. CASE ~ d.peer[s]
    BY <1>1, <2>2 DEF Told
  <2>3. QED
    BY <2>1, <2>2
<1>5. ~ e.peer[s] /\ e.sock[s] \in {"closing", "gone"}
  BY <1>1 DEF Told, Destroyed, Lingers
<1>6. SocketOK(e, s)
  BY <1>1, <1>5 DEF SocketOK, Destroyed, Lingers
<1>7. StartOK(h, e, q, s)
  BY <1>5 DEF Working, StartOK
<1>8. UpFlow(h, e, q, s)
  BY <1>4, <1>5 DEF Working, UpFlow, Reads
<1>9. e.queue[s] = <<>> \/ e.queue[s] = d.queue[s]
  BY <1>1 DEF Destroyed, Lingers
<1>10. DownFlow(h, e, q, s)
  BY <1>4, <1>9 DEF Working, DownFlow, Waits
<1>11. CloseOK(e, q, s)
  BY <1>1, <1>3, <1>4, <1>5 DEF Working, CloseOK, Told
<1>12. UpData(h, e, s)
  <2>1. ASSUME NEW b \in Nat, ToHost(h, d, s, b), h.host[s] \notin {"closed", "refused"}
        PROVE  ToHost(h, e, s, b)
    <3>1. ASSUME d.peer[s], h.sent[s] = 0 PROVE b = h.wrote[s] /\ h.svc[s] # "open"
      <4>1. h.svc[s] # "open" /\ Len(d.up[s]) = 0
        BY <2>1, <3>1
      <4>2. b + Len(d.up[s]) = h.wrote[s]
        BY <2>1, <3>1 DEF ToHost
      <4>3. QED
        BY <4>1, <4>2
    <3>2. QED
      BY <1>4, <1>5, <2>1, <3>1 DEF ToHost
  <2>2. QED
    BY <1>4, <1>5, <2>1 DEF Working, UpData
<1>13. Kept(h, e, s)
  <2>1. /\ d.queue[s] \in Seq(Chunks) /\ Len(d.queue[s]) \in Nat /\ Given(h, d, s) \in Nat
        /\ h.sent[s] \in Nat
    BY Lengths
  <2>2. CASE e.queue[s] = d.queue[s]
    BY <1>1, <2>2 DEF Working, Kept, Given, Total
  <2>3. CASE e.queue[s] = <<>> /\ d.queue[s] # <<>>
    <3>1. h.svc[s] # "open"
      BY <1>1, <2>3 DEF Lingers
    <3>2. Given(h, e, s) = Given(h, d, s)
      BY <1>1 DEF Given
    <3>3. Len(e.queue[s]) = 0 /\ Run(e.queue[s], Given(h, e, s))
      BY <2>3 DEF Run
    <3>4. Total(h, e, s) <= h.sent[s]
      <4> DEFINE x == Given(h, d, s)
                 y == Len(d.queue[s])
      <4>1. x + y <= h.sent[s] /\ Total(h, e, s) = x + 0
        BY <3>2, <3>3 DEF Working, Kept, Total
      <4> HIDE DEF x, y
      <4>2. x \in Nat /\ y \in Nat /\ h.sent[s] \in Nat
        BY <2>1 DEF x, y
      <4>3. QED
        BY <4>1, <4>2
    <3>5. QED
      BY <1>1, <3>1, <3>3, <3>4 DEF Working, Kept
  <2>4. QED
    BY <1>9, <2>2, <2>3
<1>14. StreamOK(h, e, q, s)
  BY <1>5, <1>6, <1>7, <1>8, <1>10, <1>11, <1>12, <1>13 DEF StreamOK, DownData
<1>15. QED
  BY <1>1, <1>14 DEF Good, e

\* The transport goes: the peer is dropped without a word.
LEMMA DisconnectStep ==
  ASSUME NEW h, HostOK(h), NEW d, DevOK(d), NEW q, NEW s \in Streams, StreamOK(h, d, q, s)
  PROVE  Good(h, d, Disconnect(d, s), q, s)
<1> DEFINE e == Disconnect(d, s)
<1>1. CASE ~ d.peer[s]
  <2>1. e = d
    BY <1>1 DEF Disconnect
  <2>2. Others(d, d, s)
    BY AlikeSame DEF Others, SameSocket
  <2>3. QED
    BY <2>1, <2>2 DEF Good
<1>2. CASE d.peer[s]
  <2>1. d.sock[s] = "open" /\ s \in d.loop.active
    BY <1>2 DEF StreamOK, SocketOK
  <2>2. /\ DevOK(e) /\ Others(d, e, s) /\ ~ e.peer[s]
        /\ e.out = d.out /\ e.closes = d.closes
        /\ e.up = d.up /\ e.down = d.down /\ e.taken = d.taken
        /\ IF d.sock[s] = "closing" \/ d.queue[s] = <<>> THEN Destroyed(d, e, s)
           ELSE Lingers(d, e, s)
    BY <1>2, <2>1, DisconnectFields
  <2> HIDE DEF e
  <2>3. e.sock[s] \in {"closing", "gone"} /\ e.queue[s] = d.queue[s]
    BY <2>1, <2>2 DEF Destroyed, Lingers
  <2>4. SocketOK(e, s)
    BY <2>1, <2>2, <2>3 DEF SocketOK, Destroyed, Lingers
  <2>5. StartOK(h, e, q, s)
    BY <2>1, <2>2, <2>3 DEF StreamOK, StartOK
  <2>6. UpFlow(h, e, q, s)
    BY <2>2 DEF StreamOK, UpFlow, Reads
  <2>7. DownFlow(h, e, q, s)
    BY <2>2, <2>3 DEF StreamOK, DownFlow, Waits
  <2>8. CloseOK(e, q, s)
    BY <2>2 DEF StreamOK, CloseOK
  <2>9. UpData(h, e, s)
    BY <2>2 DEF StreamOK, UpData, ToHost
  <2>10. DownData(h, e, q, s)
    BY <2>2, <2>3 DEF StreamOK, DownData, Kept, Given, Total
  <2>11. StreamOK(h, e, q, s)
    BY <2>4, <2>5, <2>6, <2>7, <2>8, <2>9, <2>10 DEF StreamOK
  <2>12. QED
    BY <2>2, <2>11 DEF Good, e
<1>3. QED
  BY <1>1, <1>2

\* The service takes what fits of the queue.
LEMMA PumpStep ==
  ASSUME NEW h, HostOK(h), NEW d, DevOK(d), NEW q, NEW s \in Streams, StreamOK(h, d, q, s),
         d.queue[s] # <<>>
  PROVE  LET e == Pump(d, s) IN
         /\ DevOK(e) /\ Others(d, e, s) /\ PutsOff(d, e, s)
         /\ Working(h, e, q, s)
         /\ d.peer[s] => Chain(q, s, Total(h, e, s), h.sent[s])
         /\ e.queue[s] # <<>> => StreamOK(h, e, q, s)
<1> DEFINE e == Pump(d, s)
           g == Len(h.gotDown[s])
<1>1. /\ DevOK(e) /\ Others(d, e, s) /\ PutsOff(d, e, s)
      /\ Len(e.down[s]) + Len(e.queue[s]) = Len(d.down[s]) + Len(d.queue[s])
      /\ \A a \in Nat : Run(d.down[s], a) /\ Run(d.queue[s], a + Len(d.down[s])) =>
           Run(e.down[s], a) /\ Run(e.queue[s], a + Len(e.down[s]))
  BY PumpFields
<1> HIDE DEF e
<1>2. d.sock[s] \in {"open", "closing"} /\ s \in d.loop.active
  <2>1. d.sock[s] \in SockStates
    BY DEF DevOK
  <2>2. QED
    BY <2>1 DEF StreamOK, SocketOK, SockStates
<1>3. /\ g \in Nat /\ Run(d.down[s], g) /\ Run(d.queue[s], g + Len(d.down[s]))
      /\ Run(h.gotDown[s], 0)
  BY Lengths DEF StreamOK, DownData, Kept, Given
<1>4. Run(e.down[s], g) /\ Run(e.queue[s], g + Len(e.down[s]))
  BY <1>1, <1>3
<1>5. Total(h, e, s) = Total(h, d, s)
  <2> DEFINE x == Len(d.down[s])
             y == Len(d.queue[s])
             u == Len(e.down[s])
             v == Len(e.queue[s])
  <2>1. x \in Nat /\ y \in Nat /\ u \in Nat /\ v \in Nat /\ u + v = x + y
    BY <1>1, Lengths
  <2>2. Total(h, d, s) = g + x + y /\ Total(h, e, s) = g + u + v
    BY DEF Total, Given
  <2> HIDE DEF x, y, u, v, g
  <2>3. QED
    BY <1>3, <2>1, <2>2
<1>6. Kept(h, e, s)
  <2>1. Run(e.down[s], Len(h.gotDown[s])) /\ Run(e.queue[s], Given(h, e, s))
    BY <1>4 DEF Given
  <2>2. QED
    BY <1>1, <1>3, <1>5, <2>1 DEF StreamOK, DownData, Kept, PutsOff
<1> HIDE DEF g
<1>7. StartOK(h, e, q, s)
  BY <1>1, <1>2 DEF StreamOK, StartOK, PutsOff
<1>8. UpFlow(h, e, q, s)
  BY <1>1 DEF StreamOK, UpFlow, Reads, PutsOff
<1>9. DownFlow(h, e, q, s)
  BY <1>1 DEF StreamOK, DownFlow, Waits, PutsOff
<1>10. CloseOK(e, q, s)
  BY <1>1 DEF StreamOK, CloseOK, PutsOff
<1>11. UpData(h, e, s)
  BY <1>1 DEF StreamOK, UpData, ToHost, PutsOff
<1>12. d.sock[s] = "open" <=> d.peer[s]
  BY DEF StreamOK, SocketOK
<1>13. Working(h, e, q, s)
  BY <1>1, <1>2, <1>6, <1>7, <1>8, <1>9, <1>10, <1>11, <1>12 DEF Working, PutsOff
<1>14. d.peer[s] => Chain(q, s, Total(h, e, s), h.sent[s])
  BY <1>5 DEF StreamOK, DownData
<1>15. ASSUME e.queue[s] # <<>> PROVE StreamOK(h, e, q, s)
  <2>1. SocketOK(e, s)
    BY <1>1, <1>2, <1>12, <1>15 DEF SocketOK, PutsOff
  <2>2. DownData(h, e, q, s)
    BY <1>1, <1>6, <1>14 DEF DownData, PutsOff
  <2>3. QED
    BY <1>7, <1>8, <1>9, <1>10, <1>11, <2>1, <2>2 DEF StreamOK
<1>16. QED
  BY <1>1, <1>13, <1>14, <1>15 DEF e

\* A socket that waits for nothing and has nothing queued satisfies the whole invariant.
LEMMA WorkingDone ==
  ASSUME NEW h, NEW d, NEW q, NEW s, Working(h, d, q, s), d.sock[s] = "open",
         d.queue[s] # <<>> \/ "W" \notin d.loop.wanted[s] \cup d.loop.events[s],
         d.peer[s] => Chain(q, s, Total(h, d, s), h.sent[s])
  PROVE  StreamOK(h, d, q, s)
<1>1. SocketOK(d, s)
  BY DEF Working, SocketOK
<1>2. QED
  BY <1>1 DEF Working, StreamOK, DownData

\* What a WRITE of the host finds, and what it leaves in the queue.
LEMMA QueuedStep ==
  ASSUME NEW h, HostOK(h), NEW d, DevOK(d), NEW q \in Seq(Packets), q # <<>>,
         NEW s \in Streams, StreamOK(h, d, q, s), Is(Head(q), "WRTE", s), d.peer[s]
  PROVE  LET e == Queued(d, s, Head(q).data) IN
         /\ d.queue[s] = <<>> /\ h.sent[s] > 0
         /\ DevOK(e) /\ Others(d, e, s) /\ e.loop = d.loop /\ e.peer = d.peer
         /\ e.queue[s] # <<>> /\ StreamOK(h, e, Tail(q), s)
<1> DEFINE data == Head(q).data
           e == Queued(d, s, data)
           r == Tail(q)
           g == Given(h, d, s)
<1>1. data \in Seq(Chunks)
  BY TailIndex DEF Packets
<1> HIDE DEF data
<1>2. /\ DevOK(e) /\ Others(d, e, s)
      /\ e.queue[s] = d.queue[s] \o data /\ e.taken[s] = d.taken[s] \o data
      /\ e.peer = d.peer /\ e.up = d.up /\ e.down = d.down /\ e.out = d.out
      /\ e.closes = d.closes /\ e.loop = d.loop /\ e.sock = d.sock
  BY <1>1, QueuedFields
<1> HIDE DEF e
<1>3. \A c : /\ Has(r, c, s) => Has(q, c, s)
             /\ Sole(q, c, s) => Sole(r, c, s)
             /\ Has(q, c, s) <=> Has(r, c, s) \/ Is(Head(q), c, s)
             /\ Sole(q, c, s) /\ Is(Head(q), c, s) => ~ Has(r, c, s)
  BY HasTail
<1>4. ~ Has(r, "WRTE", s) /\ ~ Waits(d, s) /\ ~ Has(d.out, "OKAY", s) /\ ~ h.credit[s]
  BY <1>3 DEF StreamOK, DownFlow
<1>5. d.queue[s] = <<>> /\ Len(d.queue[s]) = 0
  BY <1>4 DEF Waits
<1>6. g \in Nat /\ Total(h, d, s) = g
  <2>1. Given(h, d, s) \in Nat
    BY Lengths
  <2>2. QED
    BY <1>5, <2>1 DEF Total
<1> HIDE DEF g
<1>7. /\ Len(data) > 0 /\ Run(data, g)
      /\ Chain(r, s, g + Len(data), h.sent[s])
  <2>1. Chain(q, s, g, h.sent[s])
    BY <1>6 DEF StreamOK, DownData
  <2>2. QED
    BY <2>1, ChainTail DEF data
<1>8. r \in Seq(Packets) /\ Len(data) \in Nat
  BY <1>1, TailIndex
<1> HIDE DEF r
<1>9. g + Len(data) <= h.sent[s] /\ h.sent[s] > 0
  <2>1. g + Len(data) <= h.sent[s] /\ h.sent[s] \in Nat
    BY <1>7, <1>8, ChainBounds
  <2> DEFINE m == Len(data)
  <2> HIDE DEF m
  <2>2. m > 0 /\ m \in Nat /\ g + m <= h.sent[s]
    BY <1>7, <1>8, <2>1 DEF m
  <2>3. QED
    BY <1>6, <2>1, <2>2 DEF m
<1>10. e.queue[s] = data
  BY <1>1, <1>2, <1>5
<1>11. e.queue[s] # <<>>
  BY <1>7, <1>10
<1>12. Given(h, e, s) = g /\ Total(h, e, s) = g + Len(data)
  BY <1>2, <1>10 DEF Given, Total, g
<1>13. Kept(h, e, s)
  <2>1. ASSUME h.svc[s] = "open"
        PROVE  Len(e.taken[s]) = g + Len(data) /\ Run(e.taken[s], 0)
    <3>1. d.taken[s] \in Seq(Chunks) /\ Len(d.taken[s]) = g /\ Run(d.taken[s], 0)
      BY <1>6, <2>1, Lengths DEF StreamOK, DownData, Kept
    <3>2. Len(d.taken[s] \o data) = Len(d.taken[s]) + Len(data)
      BY <1>1, <3>1, ConcatProperties
    <3>3. Run(data, 0 + Len(d.taken[s]))
      BY <1>6, <1>7, <3>1
    <3>4. Run(d.taken[s] \o data, 0)
      BY <1>1, <3>1, <3>3, RunConcat
    <3>5. QED
      BY <1>2, <3>1, <3>2, <3>4
  <2>2. Run(h.gotDown[s], 0) /\ Run(d.down[s], Len(h.gotDown[s]))
    BY DEF StreamOK, DownData, Kept
  <2>3. QED
    BY <1>2, <1>7, <1>9, <1>10, <1>12, <2>1, <2>2 DEF Kept
<1>14. SocketOK(e, s)
  BY <1>2, <1>11 DEF StreamOK, SocketOK
<1>15. d.sock[s] = "open"
  BY DEF StreamOK, SocketOK
<1>16. StartOK(h, e, r, s)
  BY <1>2, <1>3, <1>15 DEF StreamOK, StartOK
<1>17. UpFlow(h, e, r, s)
  BY <1>2, <1>3 DEF StreamOK, UpFlow, Reads
<1>18. DownFlow(h, e, r, s)
  BY <1>2, <1>3, <1>4 DEF StreamOK, DownFlow, Waits
<1>19. CloseOK(e, r, s)
  BY <1>2, <1>3 DEF StreamOK, CloseOK
<1>20. UpData(h, e, s)
  BY <1>2 DEF StreamOK, UpData, ToHost
<1>21. DownData(h, e, r, s)
  BY <1>7, <1>12, <1>13 DEF DownData
<1>22. StreamOK(h, e, r, s)
  BY <1>14, <1>16, <1>17, <1>18, <1>19, <1>20, <1>21 DEF StreamOK
<1>23. QED
  BY <1>2, <1>5, <1>9, <1>11, <1>22 DEF e, r, data

-----------------------------------------------------------------------------
\* The functions of sockets.c.

\* The first packet of the host is handled while main works on the socket.
LEMMA PopWorking ==
  ASSUME NEW h, NEW d, NEW q \in Seq(Packets), q # <<>>, NEW s, Working(h, d, q, s)
  PROVE  Working(h, d, Tail(q), s)
<1> DEFINE r == Tail(q)
<1>1. \A c : (Has(r, c, s) => Has(q, c, s)) /\ (Sole(q, c, s) => Sole(r, c, s))
  BY HasTail
<1> HIDE DEF r
<1>2. StartOK(h, d, r, s)
  BY <1>1 DEF Working, StartOK
<1>3. UpFlow(h, d, r, s)
  BY <1>1 DEF Working, UpFlow
<1>4. DownFlow(h, d, r, s)
  BY <1>1 DEF Working, DownFlow
<1>5. CloseOK(d, r, s)
  BY <1>1 DEF Working, CloseOK
<1>6. QED
  BY <1>2, <1>3, <1>4, <1>5 DEF Working, r

\* local_socket_enqueue and the READY for it.
LEMMA EnqueueStep ==
  ASSUME NEW h, HostOK(h), h.svc = svc, NEW d, DevOK(d), NEW q \in Seq(Packets), q # <<>>,
         NEW s \in Streams, StreamOK(h, d, q, s), Is(Head(q), "WRTE", s), d.peer[s]
  PROVE  Good(h, d, Enqueue(d, s, Head(q).data), Tail(q), s)
<1> DEFINE data == Head(q).data
           r == Tail(q)
           k == Queued(d, s, data)
           p == Pump(k, s)
<1>1. /\ d.queue[s] = <<>> /\ h.sent[s] > 0
      /\ DevOK(k) /\ Others(d, k, s) /\ k.loop = d.loop /\ k.peer = d.peer
      /\ k.queue[s] # <<>> /\ StreamOK(h, k, r, s)
  BY QueuedStep
<1>2. data \in Seq(Chunks) /\ r \in Seq(Packets)
  BY TailIndex DEF Packets
<1>3. d.sock[s] = "open" /\ s \in d.loop.active
  BY DEF StreamOK, SocketOK
<1>4. Enqueue(d, s, data) = IF svc[s] = "closed" THEN Close(Counted(d, s, data), s)
                            ELSE IF p.queue[s] = <<>> THEN SendReady(p, s) ELSE Wait(p, s)
  <2> DEFINE c == Close(Counted(d, s, data), s)
  <2>1. Enqueue(d, s, data) = IF d.queue[s] # <<>> THEN Wait(k, s)
                              ELSE IF svc[s] = "closed" THEN c
                              ELSE IF p.queue[s] = <<>> THEN SendReady(p, s)
                              ELSE Wait(p, s)
    BY DEF Enqueue, Queued, Counted, Wait
  <2> HIDE DEF k, p, c
  <2>2. Enqueue(d, s, data) = IF svc[s] = "closed" THEN c
                              ELSE IF p.queue[s] = <<>> THEN SendReady(p, s)
                              ELSE Wait(p, s)
    BY <1>1, <2>1
  <2>3. QED
    BY <2>2 DEF c
<1> HIDE DEF k
<1>5. /\ DevOK(p) /\ Others(k, p, s) /\ PutsOff(k, p, s)
      /\ Working(h, p, r, s)
      /\ k.peer[s] => Chain(r, s, Total(h, p, s), h.sent[s])
      /\ p.queue[s] # <<>> => StreamOK(h, p, r, s)
  BY <1>1, PumpStep
<1> HIDE DEF p
<1>6. Others(d, p, s)
  BY <1>1, <1>5, OthersTrans
<1>7. CASE svc[s] = "closed"
  <2> DEFINE c == Counted(d, s, data)
  <2>1. /\ DevOK(c) /\ Others(d, c, s)
        /\ c.queue = d.queue /\ c.peer = d.peer /\ c.up = d.up /\ c.down = d.down
        /\ c.out = d.out /\ c.closes = d.closes /\ c.loop = d.loop /\ c.sock = d.sock
    BY <1>2, CountedFields
  <2> HIDE DEF c
  <2>2. Working(h, d, r, s)
    BY <1>3, WorkingStream, PopWorking
  <2>3. StartOK(h, c, r, s)
    BY <1>3, <2>1, <2>2 DEF Working, StartOK
  <2>4. Kept(h, c, s)
    BY <1>7, <2>1, <2>2 DEF Working, Kept, Given, Total
  <2>5. UpFlow(h, c, r, s) /\ DownFlow(h, c, r, s) /\ CloseOK(c, r, s)
    BY <2>1, <2>2 DEF Working, UpFlow, Reads, DownFlow, Waits, CloseOK
  <2>6. UpData(h, c, s)
    BY <2>1, <2>2 DEF Working, UpData, ToHost
  <2>7. Working(h, c, r, s)
    BY <2>1, <2>2, <2>3, <2>4, <2>5, <2>6 DEF Working
  <2>8. Good(h, c, Close(c, s), r, s)
    BY <1>1, <1>3, <1>7, <2>1, <2>7, CloseStep
  <2>9. Good(h, d, Close(c, s), r, s)
    BY <2>1, <2>8, GoodTrans
  <2>10. QED
    BY <1>4, <1>7, <2>9 DEF c
<1>8. CASE svc[s] # "closed" /\ p.queue[s] = <<>>
  <2>1. "W" \notin p.loop.wanted[s] \cup p.loop.events[s] /\ p.sock[s] = "open"
    <3>1. "W" \notin d.loop.wanted[s] \cup d.loop.events[s]
      BY <1>1 DEF StreamOK, SocketOK
    <3>2. p.loop = d.loop /\ p.peer[s]
      BY <1>1, <1>5 DEF PutsOff
    <3>3. QED
      BY <1>5, <3>1, <3>2 DEF Working
  <2>2. StreamOK(h, p, r, s) /\ p.peer[s]
    BY <1>1, <1>5, <2>1, WorkingDone DEF PutsOff
  <2>3. ~ Has(p.out, "OKAY", s) /\ ~ h.credit[s] /\ ~ Has(r, "WRTE", s)
    BY <1>1, <1>5 DEF StreamOK, DownFlow, Waits, PutsOff
  <2>4. ~ Waits(p, s)
    BY <1>8 DEF Waits
  <2>5. Good(h, p, SendReady(p, s), r, s)
    BY <1>5, <2>2, <2>3, <2>4, ReadySentStep
  <2>6. QED
    BY <1>4, <1>6, <1>8, <2>5, GoodTrans
<1>9. CASE svc[s] # "closed" /\ p.queue[s] # <<>>
  <2>1. Good(h, p, Wait(p, s), r, s)
    <3>1. s \in p.loop.active
      BY <1>5 DEF Working
    <3>2. QED
      BY <1>5, <1>9, <3>1, WaitStep
  <2>2. QED
    BY <1>4, <1>6, <1>9, <2>1, GoodTrans
<1>10. QED
  BY <1>7, <1>8, <1>9

\* main does not wait to write any more.
Quiet(h, d, e, q, s) ==
  /\ Good(h, d, e, q, s) /\ e.loop.events[s] = {}
  /\ "R" \in d.loop.wanted[s] => "R" \in e.loop.wanted[s]
  /\ e.sock = d.sock /\ e.queue = d.queue /\ Untouched(d, e)
\* Nothing is queued: write events are not asked for any more.
LEMMA QuietStep ==
  ASSUME NEW h, NEW d, DevOK(d), NEW q, NEW s \in Streams, Working(h, d, q, s),
         d.sock[s] = "open", d.loop.events[s] = {},
         d.peer[s] => Chain(q, s, Total(h, d, s), h.sent[s])
  PROVE  Quiet(h, d, Stop(d, s, "W"), q, s)
<1> DEFINE e == Stop(d, s, "W")
<1>1. /\ DevOK(e) /\ Others(d, e, s)
      /\ e.sock = d.sock /\ e.queue = d.queue /\ Untouched(d, e)
      /\ e.loop.active = d.loop.active
      /\ e.loop.wanted[s] = d.loop.wanted[s] \ {"W"}
      /\ e.loop.events[s] \subseteq d.loop.events[s]
  BY StopFields DEF Working, Events
<1> HIDE DEF e
<1>2. e.loop.events[s] = {} /\ ("R" \in e.loop.wanted[s] <=> "R" \in d.loop.wanted[s])
  BY <1>1
<1>3. StartOK(h, e, q, s)
  BY <1>1 DEF Working, StartOK, Untouched
<1>4. UpFlow(h, e, q, s)
  BY <1>1, <1>2 DEF Working, UpFlow, Reads, Untouched
<1>5. DownFlow(h, e, q, s)
  BY <1>1 DEF Working, DownFlow, Waits, Untouched
<1>6. CloseOK(e, q, s)
  BY <1>1 DEF Working, CloseOK, Untouched
<1>7. UpData(h, e, s)
  BY <1>1 DEF Working, UpData, ToHost, Untouched
<1>8. Kept(h, e, s) /\ Total(h, e, s) = Total(h, d, s)
  BY <1>1 DEF Working, Kept, Given, Total, Untouched
<1>9. Working(h, e, q, s)
  BY <1>1, <1>3, <1>4, <1>5, <1>6, <1>7, <1>8 DEF Working, Untouched
<1>10. "W" \notin e.loop.wanted[s] \cup e.loop.events[s]
  BY <1>1, <1>2
<1>11. StreamOK(h, e, q, s)
  BY <1>1, <1>8, <1>9, <1>10, WorkingDone DEF Untouched
<1>12. QED
  BY <1>1, <1>2, <1>11 DEF Quiet, Good, e

\* The FDE_WRITE part of local_socket_event_func, for a socket with something queued.
LEMMA WritableStep ==
  ASSUME NEW h, HostOK(h), h.svc = svc, NEW d, DevOK(d), NEW q \in Seq(Packets),
         NEW s \in Streams, StreamOK(h, d, q, s), d.queue[s] # <<>>, d.loop.events[s] = {}
  PROVE  LET e == OnWritable(d, s) IN
         /\ Good(h, d, e, q, s)
         /\ e.sock[s] = "open" /\ e.queue[s] = <<>> =>
              /\ e.peer = d.peer /\ e.loop.events[s] = {}
              /\ "R" \in d.loop.wanted[s] => "R" \in e.loop.wanted[s]
<1> DEFINE p == Pump(d, s)
           k == Stop(p, s, "W")
           e == OnWritable(d, s)
<1>1. d.sock[s] \in {"open", "closing"} /\ s \in d.loop.active
  <2>1. d.sock[s] \in SockStates
    BY DEF DevOK
  <2>2. QED
    BY <2>1 DEF StreamOK, SocketOK, SockStates
<1>2. e = IF d.queue[s] # <<>> /\ svc[s] = "closed" THEN Close(d, s)
          ELSE IF p.queue[s] # <<>> THEN p
          ELSE IF d.sock[s] = "closing" THEN Close(p, s)
          ELSE SendReady(k, s)
  BY DEF OnWritable, Stop
<1> HIDE DEF e, k
<1>3. /\ DevOK(p) /\ Others(d, p, s) /\ PutsOff(d, p, s)
      /\ Working(h, p, q, s)
      /\ d.peer[s] => Chain(q, s, Total(h, p, s), h.sent[s])
      /\ p.queue[s] # <<>> => StreamOK(h, p, q, s)
  BY PumpStep
<1> HIDE DEF p
<1>4. CASE svc[s] = "closed"
  <2>1. Working(h, d, q, s)
    BY <1>1, WorkingStream
  <2>2. h.sent[s] > 0
    <3> DEFINE x == Given(h, d, s)
               y == Len(d.queue[s])
    <3>1. x \in Nat /\ y \in Nat /\ h.sent[s] \in Nat /\ y # 0
      BY Lengths
    <3>2. x + y <= h.sent[s]
      BY DEF StreamOK, DownData, Kept, Total
    <3> HIDE DEF x, y
    <3>3. QED
      BY <3>1, <3>2
  <2>3. Good(h, d, Close(d, s), q, s)
    BY <1>4, <2>1, <2>2, CloseStep
  <2>4. e = Close(d, s)
    BY <1>2, <1>4
  <2>5. Close(d, s).sock[s] # "open"
    <3>1. LET c == Close(d, s) IN
          IF d.sock[s] = "closing" \/ d.queue[s] = <<>> THEN Destroyed(d, c, s)
          ELSE Lingers(d, c, s)
      BY <1>1, CloseFields
    <3>2. QED
      BY <3>1 DEF Destroyed, Lingers
  <2>6. QED
    BY <2>3, <2>4, <2>5 DEF e
<1>5. CASE svc[s] # "closed" /\ p.queue[s] # <<>>
  <2>1. e = p
    BY <1>2, <1>5
  <2>2. QED
    BY <1>3, <1>5, <2>1 DEF Good, e
<1>6. CASE svc[s] # "closed" /\ p.queue[s] = <<>> /\ d.sock[s] = "closing"
  <2>1. e = Close(p, s)
    BY <1>2, <1>6
  <2>2. p.sock = d.sock /\ ~ p.peer[s] /\ s \in p.loop.active
    BY <1>3, <1>6 DEF PutsOff, Working
  <2>3. Good(h, p, Close(p, s), q, s)
    BY <1>3, <1>6, <2>2, CloseStep
  <2>4. Good(h, d, Close(p, s), q, s)
    BY <1>3, <2>3, GoodTrans
  <2>5. Close(p, s).sock[s] # "open"
    <3>1. LET c == Close(p, s) IN
          IF p.sock[s] = "closing" \/ p.queue[s] = <<>> THEN Destroyed(p, c, s)
          ELSE Lingers(p, c, s)
      BY <1>3, <2>2, CloseFields
    <3>2. QED
      BY <3>1 DEF Destroyed, Lingers
  <2>6. QED
    BY <2>1, <2>4, <2>5 DEF e
<1>7. CASE svc[s] # "closed" /\ p.queue[s] = <<>> /\ d.sock[s] = "open"
  <2>1. e = SendReady(k, s)
    BY <1>2, <1>7
  <2>2. /\ p.sock = d.sock /\ p.peer = d.peer /\ p.loop = d.loop /\ p.out = d.out
        /\ p.peer[s]
    BY <1>3, <1>7 DEF PutsOff, Working
  <2>3. /\ Good(h, p, k, q, s) /\ k.loop.events[s] = {}
        /\ "R" \in p.loop.wanted[s] => "R" \in k.loop.wanted[s]
        /\ k.sock = p.sock /\ k.queue = p.queue /\ Untouched(p, k)
    <3>1. p.sock[s] = "open" /\ p.loop.events[s] = {}
      BY <1>7, <2>2
    <3>2. p.peer[s] => Chain(q, s, Total(h, p, s), h.sent[s])
      BY <1>3, <2>2
    <3>3. DevOK(p) /\ Working(h, p, q, s)
      BY <1>3
    <3>4. Quiet(h, p, Stop(p, s, "W"), q, s)
      BY <3>1, <3>2, <3>3, QuietStep
    <3>5. QED
      BY <3>4 DEF k, Quiet
  <2>4. ~ Has(d.out, "OKAY", s) /\ ~ h.credit[s] /\ ~ Has(q, "WRTE", s)
    BY DEF StreamOK, DownFlow, Waits
  <2>5. DevOK(k) /\ StreamOK(h, k, q, s) /\ k.peer[s] /\ k.out = d.out /\ ~ Waits(k, s)
    BY <1>7, <2>2, <2>3 DEF Good, Untouched, Waits
  <2>6. Good(h, k, SendReady(k, s), q, s)
    BY <2>4, <2>5, ReadySentStep
  <2>7. Others(d, k, s)
    BY <1>3, <2>3, OthersTrans DEF Good
  <2>8. Good(h, d, SendReady(k, s), q, s)
    BY <2>6, <2>7, GoodTrans
  <2>9. SendReady(k, s).loop = k.loop /\ SendReady(k, s).peer = k.peer
    BY <2>5 DEF SendReady, Send, DevOK
  <2>10. QED
    BY <2>1, <2>2, <2>3, <2>8, <2>9 DEF e, Untouched
<1>8. QED
  BY <1>1, <1>4, <1>5, <1>6, <1>7

\* Data is read: nothing, or for nobody.
LEMMA DropStep ==
  ASSUME NEW h, HostOK(h), NEW d, DevOK(d), NEW q, NEW s \in Streams, StreamOK(h, d, q, s),
         d.sock[s] \in {"open", "closing"},
         NEW n \in 0..Len(d.up[s]), n = 0 \/ ~ d.peer[s]
  PROVE  Good(h, d, ReadOff(d, s, n), q, s)
<1> DEFINE e == ReadOff(d, s, n)
<1>1. /\ DevOK(e) /\ Others(d, e, s)
      /\ e.up[s] = Rest(d.up[s], n) /\ Len(e.up[s]) = Len(d.up[s]) - n
      /\ e.queue = d.queue /\ e.peer = d.peer /\ e.taken = d.taken /\ e.down = d.down
      /\ e.out = d.out /\ e.closes = d.closes /\ e.loop = d.loop /\ e.sock = d.sock
  BY ReadOffFields
<1> HIDE DEF e
<1>2. SocketOK(e, s)
  BY <1>1 DEF StreamOK, SocketOK
<1>3. StartOK(h, e, q, s)
  BY <1>1 DEF StreamOK, StartOK
<1>4. UpFlow(h, e, q, s)
  BY <1>1 DEF StreamOK, UpFlow, Reads
<1>5. DownFlow(h, e, q, s)
  BY <1>1 DEF StreamOK, DownFlow, Waits
<1>6. CloseOK(e, q, s)
  BY <1>1 DEF StreamOK, CloseOK
<1>7. DownData(h, e, q, s)
  BY <1>1 DEF StreamOK, DownData, Kept, Given, Total
<1>8. ASSUME NEW b \in Nat, ToHost(h, d, s, b) PROVE ToHost(h, e, s, b)
  <2>1. ASSUME d.peer[s] PROVE b + Len(e.up[s]) = h.wrote[s] /\ Run(e.up[s], b)
    <3>1. d.up[s] \in Seq(Chunks) /\ Len(d.up[s]) \in Nat /\ n = 0
      BY <2>1, Lengths
    <3>2. Len(e.up[s]) = Len(d.up[s]) /\ b + 0 = b
      BY <1>1, <3>1
    <3>3. b + Len(d.up[s]) = h.wrote[s] /\ Run(d.up[s], b)
      BY <1>8, <2>1 DEF ToHost
    <3>4. Run(e.up[s], b + n)
      BY <1>1, <3>1, <3>3, RunSplit
    <3>5. QED
      BY <3>1, <3>2, <3>3, <3>4
  <2>2. QED
    BY <1>1, <1>8, <2>1 DEF ToHost
<1>9. UpData(h, e, s)
  BY <1>1, <1>8 DEF StreamOK, UpData
<1>10. QED
  BY <1>1, <1>2, <1>3, <1>4, <1>5, <1>6, <1>7, <1>9 DEF Good, StreamOK, e

\* Or sent to the host in a WRITE, after which main waits for the READY.
Passed(d, s, n) ==
  Stop(Send(ReadOff(d, s, n), "WRTE", s, First(d.up[s], n)), s, "R")
\* What main read goes to the host, and reading stops.
LEMMA PassedFields ==
  ASSUME NEW d, DevOK(d), NEW s \in Streams, s \in d.loop.active, NEW n \in 1..Len(d.up[s])
  PROVE  LET e == Passed(d, s, n)
             p == Packet("WRTE", s, First(d.up[s], n)) IN
         /\ DevOK(e) /\ Others(d, e, s)
         /\ p \in Packets /\ e.out = Append(d.out, p)
         /\ e.up[s] = Rest(d.up[s], n)
         /\ e.sock = d.sock /\ e.queue = d.queue /\ e.peer = d.peer
         /\ e.down = d.down /\ e.taken = d.taken /\ e.closes = d.closes
         /\ e.loop.active = d.loop.active
         /\ e.loop.wanted[s] = d.loop.wanted[s] \ {"R"}
         /\ e.loop.events[s] \subseteq d.loop.events[s]
<1> DEFINE f == First(d.up[s], n)
           b == ReadOff(d, s, n)
           c == Send(b, "WRTE", s, f)
           p == Packet("WRTE", s, f)
<1>1. n \in 0..Len(d.up[s]) /\ d.up[s] \in Seq(Chunks)
  BY DEF DevOK
<1>2. f \in Seq(Chunks)
  BY <1>1, RunSplit
<1> HIDE DEF f
<1>3. /\ DevOK(b) /\ Others(d, b, s)
      /\ b.up[s] = Rest(d.up[s], n)
      /\ b.queue = d.queue /\ b.peer = d.peer /\ b.taken = d.taken /\ b.down = d.down
      /\ b.out = d.out /\ b.closes = d.closes /\ b.loop = d.loop /\ b.sock = d.sock
  BY <1>1, ReadOffFields
<1> HIDE DEF b
<1>4. /\ DevOK(c) /\ Others(b, c, s)
      /\ p \in Packets /\ c.out = Append(b.out, p)
      /\ c.loop = b.loop /\ c.sock = b.sock /\ c.queue = b.queue /\ c.peer = b.peer
      /\ c.up = b.up /\ c.down = b.down /\ c.taken = b.taken /\ c.closes = b.closes
  BY <1>2, <1>3, SendFields
<1> HIDE DEF c, p
<1> DEFINE e == Stop(c, s, "R")
<1>5. /\ DevOK(e) /\ Others(c, e, s)
      /\ e.sock = c.sock /\ e.queue = c.queue /\ Untouched(c, e)
      /\ e.loop.active = c.loop.active
      /\ e.loop.wanted[s] = c.loop.wanted[s] \ {"R"}
      /\ e.loop.events[s] \subseteq c.loop.events[s]
  BY <1>3, <1>4, StopFields DEF Events
<1>6. Passed(d, s, n) = e
  BY DEF Passed, b, c, f
<1> HIDE DEF e
<1>7. Others(d, e, s)
  BY <1>3, <1>4, <1>5, OthersTrans
<1>8. /\ e.out = Append(d.out, p) /\ e.up[s] = Rest(d.up[s], n)
      /\ e.sock = d.sock /\ e.queue = d.queue /\ e.peer = d.peer
      /\ e.down = d.down /\ e.taken = d.taken /\ e.closes = d.closes
      /\ e.loop.active = d.loop.active
      /\ e.loop.wanted[s] = d.loop.wanted[s] \ {"R"}
      /\ e.loop.events[s] \subseteq d.loop.events[s]
  BY <1>3, <1>4, <1>5 DEF Untouched
<1>9. QED
  BY <1>4, <1>5, <1>6, <1>7, <1>8 DEF p, f

\* Passing it on keeps the invariant of the stream.
LEMMA PassStep ==
  ASSUME NEW h, HostOK(h), NEW d, DevOK(d), NEW q, NEW s \in Streams, StreamOK(h, d, q, s),
         d.peer[s], NEW n \in 1..Len(d.up[s]),
         ~ Subprocess(h.kind[s]) => "R" \in d.loop.wanted[s] /\ d.loop.events[s] = {}
  PROVE  Good(h, d, Passed(d, s, n), q, s)
<1> DEFINE e == Passed(d, s, n)
           f == First(d.up[s], n)
           p == Packet("WRTE", s, f)
<1>1. d.sock[s] = "open" /\ s \in d.loop.active
  BY DEF StreamOK, SocketOK
<1>2. /\ DevOK(e) /\ Others(d, e, s)
      /\ p \in Packets /\ e.out = Append(d.out, p)
      /\ e.up[s] = Rest(d.up[s], n)
      /\ e.sock = d.sock /\ e.queue = d.queue /\ e.peer = d.peer
      /\ e.down = d.down /\ e.taken = d.taken /\ e.closes = d.closes
      /\ e.loop.active = d.loop.active
      /\ e.loop.wanted[s] = d.loop.wanted[s] \ {"R"}
      /\ e.loop.events[s] \subseteq d.loop.events[s]
  BY <1>1, PassedFields
<1> HIDE DEF e
<1>3. /\ d.out \in Seq(Packets) /\ p.s = s /\ p.data = f
      /\ \A c : Is(p, c, s) <=> c = "WRTE"
  BY DEF DevOK, Packet, Is
<1>4. ~ Has(d.out, "CLSE", s)
  BY DEF StreamOK, CloseOK
<1>5. d.up[s] \in Seq(Chunks) /\ Len(d.up[s]) \in Nat /\ n \in 0..Len(d.up[s])
  BY Lengths
<1>6. /\ f \in Seq(Chunks) /\ Len(f) = n
      /\ Len(e.up[s]) = Len(d.up[s]) - n
      /\ \A a \in Nat : Run(d.up[s], a) => Run(f, a) /\ Run(e.up[s], a + n)
  <2>1. /\ f \in Seq(Chunks) /\ Len(f) = n
        /\ Len(Rest(d.up[s], n)) = Len(d.up[s]) - n
        /\ \A a \in Nat : Run(d.up[s], a) => Run(f, a) /\ Run(Rest(d.up[s], n), a + n)
    BY <1>5, RunSplit
  <2>2. QED
    BY <1>2, <2>1
<1> HIDE DEF f, p
<1>7. /\ \A c : Has(e.out, c, s) <=> Has(d.out, c, s) \/ c = "WRTE"
      /\ \A c : c # "WRTE" /\ Sole(d.out, c, s) => Sole(e.out, c, s)
      /\ Sole(d.out, "WRTE", s) /\ ~ Has(d.out, "WRTE", s) => Sole(e.out, "WRTE", s)
      /\ Ends(d.out, s) => Ends(e.out, s)
      /\ Has(d.out, "OKAY", s) /\ Led(d.out, s) => Led(e.out, s)
  BY <1>2, <1>3, <1>4, HasAppend, SoleAppend, EndsAppend, LedAppend
<1>8. n \in Nat /\ n > 0
  BY <1>5
<1>9. SocketOK(e, s)
  BY <1>2 DEF StreamOK, SocketOK
<1>10. StartOK(h, e, q, s)
  BY <1>1, <1>2 DEF StreamOK, StartOK
<1>11. UpFlow(h, e, q, s)
  <2>1. CASE Subprocess(h.kind[s])
    BY <2>1 DEF UpFlow
  <2>2. CASE ~ Subprocess(h.kind[s])
    <3>1. Reads(d, s) /\ e.loop.events[s] = {} /\ ~ Reads(e, s)
      BY <1>2, <2>2 DEF Reads
    <3>2. ~ Has(d.out, "WRTE", s) /\ ~ h.owed[s] /\ ~ Has(q, "OKAY", s)
      BY <2>2, <3>1 DEF StreamOK, UpFlow
    <3>3. QED
      BY <1>7, <2>2, <3>1, <3>2 DEF StreamOK, UpFlow
  <2>3. QED
    BY <2>1, <2>2
<1>12. DownFlow(h, e, q, s)
  BY <1>2, <1>7 DEF StreamOK, DownFlow, Waits
<1>13. CloseOK(e, q, s)
  BY <1>2, <1>7 DEF StreamOK, CloseOK
<1>14. ASSUME NEW b \in Nat, ToHost(h, d, s, b) PROVE ToHost(h, e, s, b + n)
  <2>1. b + Len(d.up[s]) = h.wrote[s] /\ Run(f, b) /\ Run(e.up[s], b + n)
    BY <1>6, <1>14 DEF ToHost
  <2>2. b + n + Len(e.up[s]) = h.wrote[s] /\ b + n <= h.wrote[s]
    <3> DEFINE x == Len(d.up[s])
               y == Len(e.up[s])
    <3>1. x \in Nat /\ y = x - n /\ n \in 0..x /\ b + x = h.wrote[s]
      BY <1>5, <1>6, <2>1
    <3> HIDE DEF x, y
    <3>2. b + n + y = h.wrote[s] /\ b + n <= h.wrote[s]
      BY <1>8, <3>1
    <3>3. QED
      BY <3>2 DEF y
  <2>3. Chain(d.out, s, Len(h.gotUp[s]), b)
    BY <1>14 DEF ToHost
  <2>4. Len(p.data) > 0 /\ b + n = b + Len(p.data) /\ Run(p.data, b)
    BY <1>3, <1>6, <1>8, <2>1
  <2>5. Chain(e.out, s, Len(h.gotUp[s]), b + n)
    BY <1>2, <1>3, <2>3, <2>4, ChainAppend
  <2>6. QED
    BY <1>4, <1>7, <2>1, <2>2, <2>5 DEF ToHost
<1>15. UpData(h, e, s)
  <2>1. ASSUME h.host[s] \notin {"closed", "refused"} PROVE \E b \in Nat : ToHost(h, e, s, b)
    <3>1. PICK b \in Nat : ToHost(h, d, s, b)
      BY <2>1 DEF StreamOK, UpData
    <3>2. b + n \in Nat
      BY <1>8
    <3>3. QED
      BY <1>14, <3>1, <3>2
  <2>2. QED
    BY <1>2, <1>7, <2>1 DEF StreamOK, UpData
<1>16. DownData(h, e, q, s)
  BY <1>2 DEF StreamOK, DownData, Kept, Given, Total
<1>17. QED
  BY <1>2, <1>9, <1>10, <1>11, <1>12, <1>13, <1>15, <1>16 DEF Good, StreamOK, e

\* The FDE_READ part.
LEMMA ReadableStep ==
  ASSUME NEW h, HostOK(h), h.svc = svc, NEW d, DevOK(d), NEW q, NEW s \in Streams,
         StreamOK(h, d, q, s), d.sock[s] \in {"open", "closing"},
         d.peer[s] /\ ~ Subprocess(h.kind[s]) =>
           "R" \in d.loop.wanted[s] /\ d.loop.events[s] = {}
  PROVE  Good(h, d, OnReadable(d, s), q, s)
<1> DEFINE n == Least(Len(d.up[s]), Payload)
           e == IF n = 0 \/ ~ d.peer[s] THEN ReadOff(d, s, n) ELSE Passed(d, s, n)
           eof == n < Payload /\ svc[s] \in {"half", "closed"}
<1>1. OnReadable(d, s) = IF eof THEN Close(e, s) ELSE e
  BY DEF OnReadable, Passed, ReadOff, Stop
<1>2. d.up[s] \in Seq(Chunks) /\ Len(d.up[s]) \in Nat /\ Payload \in Nat /\ Payload > 0
  BY Lengths, SocketsAssumption
<1>3. n \in 0..Len(d.up[s]) /\ (n < Payload => n = Len(d.up[s]))
  <2> DEFINE x == Len(d.up[s])
  <2> HIDE DEF x
  <2>1. x \in Nat
    BY <1>2 DEF x
  <2>2. Least(x, Payload) \in 0..x /\ (Least(x, Payload) < Payload => Least(x, Payload) = x)
    BY <1>2, <2>1 DEF Least
  <2>3. QED
    BY <2>2 DEF x
<1> HIDE DEF n
<1>4. /\ Good(h, d, e, q, s)
      /\ e.sock = d.sock /\ e.queue = d.queue
      /\ e.up[s] = Rest(d.up[s], n)
  <2>1. CASE n = 0 \/ ~ d.peer[s]
    <3>1. Good(h, d, ReadOff(d, s, n), q, s)
      BY <1>3, <2>1, DropStep
    <3>2. LET b == ReadOff(d, s, n) IN
          b.sock = d.sock /\ b.queue = d.queue /\ b.up[s] = Rest(d.up[s], n)
      BY <1>3, ReadOffFields
    <3>3. e = ReadOff(d, s, n)
      BY <2>1
    <3>4. QED
      BY <3>1, <3>2, <3>3
  <2>2. CASE n # 0 /\ d.peer[s]
    <3>1. n \in 1..Len(d.up[s]) /\ s \in d.loop.active
      BY <1>3, <2>2 DEF StreamOK, SocketOK
    <3>2. Good(h, d, Passed(d, s, n), q, s)
      BY <2>2, <3>1, PassStep
    <3>3. LET b == Passed(d, s, n) IN
          b.sock = d.sock /\ b.queue = d.queue /\ b.up[s] = Rest(d.up[s], n)
      BY <3>1, PassedFields
    <3>4. e = Passed(d, s, n)
      BY <2>2
    <3>5. QED
      BY <3>2, <3>3, <3>4
  <2>3. QED
    BY <2>1, <2>2
<1> HIDE DEF e
<1>5. CASE ~ eof
  BY <1>1, <1>4, <1>5
<1>6. CASE eof
  <2>1. h.svc[s] # "open"
    BY <1>6
  <2>2. e.up[s] = <<>>
    <3>1. Len(Rest(d.up[s], n)) = Len(d.up[s]) - n /\ Rest(d.up[s], n) \in Seq(Chunks)
      BY <1>2, <1>3, RunSplit
    <3>2. Len(Rest(d.up[s], n)) = 0
      BY <1>2, <1>3, <1>6, <3>1
    <3>3. QED
      BY <1>4, <3>1, <3>2
  <2>3. DevOK(e) /\ Others(d, e, s) /\ Working(h, e, q, s)
    BY <1>4, WorkingStream DEF Good
  <2>4. Good(h, e, Close(e, s), q, s)
    BY <2>1, <2>2, <2>3, CloseStep
  <2>5. Good(h, d, Close(e, s), q, s)
    BY <2>3, <2>4, GoodTrans
  <2>6. QED
    BY <1>1, <1>6, <2>5
<1>7. QED
  BY <1>5, <1>6

-----------------------------------------------------------------------------
\* handle_offline: the peers go one after the other.

\* The smallest of some sets of streams: all that a recursion over sets needs.
LEMMA SmallestSet ==
  ASSUME NEW P \in SUBSET (SUBSET Streams), P # {}
  PROVE  \E T \in P : \A U \in SUBSET T : U # T => U \notin P
<1> DEFINE N == {Cardinality(T) : T \in P}
           lt == OpToRel(<, Nat)
<1>1. \A T \in SUBSET Streams : IsFiniteSet(T)
  BY SocketsAssumption, FS_Subset
<1>2. N \subseteq Nat /\ N # {}
  BY <1>1, FS_CardinalityType
<1>3. \A m, n \in Nat : m < n => <<m, n>> \in lt
  BY DEF OpToRel
<1> HIDE DEF lt
<1>4. PICK m \in N : \A n \in N : ~ (<<n, m>> \in lt)
  <2>1. IsWellFoundedOn(lt, Nat)
    BY NatLessThanWellFounded DEF lt
  <2> HIDE DEF N
  <2>2. QED
    BY <1>2, <2>1, WFMin
<1>5. PICK T \in P : m = Cardinality(T)
  OBVIOUS
<1>6. ASSUME NEW U \in SUBSET T, U # T, U \in P PROVE FALSE
  <2>1. /\ IsFiniteSet(T) /\ Cardinality(U) \in Nat /\ Cardinality(T) \in Nat
        /\ Cardinality(U) <= Cardinality(T) /\ Cardinality(T) # Cardinality(U)
    BY <1>1, <1>6, FS_Subset, FS_CardinalityType
  <2>2. Cardinality(U) < Cardinality(T) /\ Cardinality(U) \in N
    BY <1>6, <2>1
  <2>3. QED
    BY <1>3, <1>4, <1>5, <2>1, <2>2
<1>7. QED
  BY <1>5, <1>6

Pick(S) == CHOOSE x \in S : TRUE
Rid(S) == S \ {Pick(S)}
Walks(f, d, T) ==
  f = [S \in SUBSET T |-> IF S = {} THEN d ELSE Disconnect(f[Rid(S)], Pick(S))]

\* A walk takes one socket of those left.
LEMMA RidIsSmaller ==
  ASSUME NEW S, S # {}
  PROVE  Pick(S) \in S /\ Rid(S) \in SUBSET S /\ Rid(S) # S
  BY DEF Pick, Rid

\* Two walks from the same data go the same way.
LEMMA WalksOnce ==
  ASSUME NEW d, NEW T \in SUBSET Streams, NEW U \in SUBSET Streams, NEW f, NEW g,
         Walks(f, d, T), Walks(g, d, U), NEW W \in SUBSET (T \cap U)
  PROVE  f[W] = g[W]
<1> DEFINE P == {S \in SUBSET (T \cap U) : f[S] # g[S]}
<1>1. SUFFICES ASSUME P # {} PROVE FALSE
  OBVIOUS
<1>2. PICK S \in P : \A R \in SUBSET S : R # S => R \notin P
  <2>1. P \in SUBSET (SUBSET Streams)
    OBVIOUS
  <2> HIDE DEF P
  <2>2. QED
    BY <1>1, <2>1, SmallestSet
<1>3. S \in SUBSET T /\ S \in SUBSET U
  OBVIOUS
<1>4. /\ f[S] = IF S = {} THEN d ELSE Disconnect(f[Rid(S)], Pick(S))
      /\ g[S] = IF S = {} THEN d ELSE Disconnect(g[Rid(S)], Pick(S))
  BY <1>3 DEF Walks
<1>5. S # {}
  BY <1>4
<1>6. f[Rid(S)] = g[Rid(S)]
  BY <1>2, <1>5, RidIsSmaller
<1>7. QED
  BY <1>4, <1>5, <1>6

\* There is a walk over any set of sockets.
LEMMA WalksExist ==
  ASSUME NEW d, NEW T \in SUBSET Streams
  PROVE  \E f : Walks(f, d, T)
<1> DEFINE P == {S \in SUBSET Streams : ~ \E f : Walks(f, d, S)}
<1>1. SUFFICES ASSUME P # {} PROVE FALSE
  OBVIOUS
<1>2. PICK S \in P : \A R \in SUBSET S : R # S => R \notin P
  <2>1. P \in SUBSET (SUBSET Streams)
    OBVIOUS
  <2> HIDE DEF P
  <2>2. QED
    BY <1>1, <2>1, SmallestSet
<1> DEFINE G(R) == CHOOSE f : Walks(f, d, R)
           g == [R \in SUBSET S |->
                   IF R = {} THEN d ELSE Disconnect(G(Rid(R))[Rid(R)], Pick(R))]
<1>3. \A R \in SUBSET S : R # S => Walks(G(R), d, R)
  BY <1>2
<1> HIDE DEF G
<1>4. ASSUME NEW R \in SUBSET S, R # S PROVE g[R] = G(R)[R]
  <2>1. G(R)[R] = IF R = {} THEN d ELSE Disconnect(G(R)[Rid(R)], Pick(R))
    BY <1>3, <1>4 DEF Walks
  <2>2. CASE R = {}
    BY <2>1, <2>2
  <2>3. CASE R # {}
    <3>1. Rid(R) \in SUBSET R /\ Rid(R) \in SUBSET S /\ Rid(R) # S
      BY <1>4, <2>3, RidIsSmaller
    <3>2. G(R)[Rid(R)] = G(Rid(R))[Rid(R)]
      BY <1>3, <1>4, <3>1, WalksOnce
    <3>3. QED
      BY <2>1, <2>3, <3>2
  <2>4. QED
    BY <2>2, <2>3
<1>5. \A R \in SUBSET S : R # {} => g[Rid(R)] = G(Rid(R))[Rid(R)]
  <2>1. ASSUME NEW R \in SUBSET S, R # {} PROVE g[Rid(R)] = G(Rid(R))[Rid(R)]
    <3>1. Rid(R) \in SUBSET S /\ Rid(R) # S
      BY <2>1, RidIsSmaller
    <3> HIDE DEF g
    <3>2. QED
      BY <1>4, <3>1
  <2>2. QED
    BY <2>1
<1>6. Walks(g, d, S)
  BY <1>5 DEF Walks
<1>7. QED
  BY <1>2, <1>6

\* Offline is that walk over all streams.
LEMMA OfflineIsWalk ==
  ASSUME NEW d
  PROVE  \E f : Walks(f, d, Streams) /\ Offline(d) = f[Streams]
<1> DEFINE f == CHOOSE f : Walks(f, d, Streams)
<1>1. Walks(f, d, Streams)
  BY WalksExist
<1>2. Offline(d) = f[Streams]
  BY DEF Offline, FoldSet, MapThenFoldSet, Walks, Pick, Rid
<1>3. QED
  BY <1>1, <1>2

AllOK(h, d, q) == DevOK(d) /\ \A s \in Streams : StreamOK(h, d, q, s)

\* A good step for one stream keeps the invariant of all.
LEMMA GoodForAll ==
  ASSUME NEW h, NEW d, NEW e, NEW q, NEW r, NEW s \in Streams, Good(h, d, e, r, s),
         \A t \in Streams \ {s} : StreamOK(h, d, q, t),
         \A t \in Streams \ {s} : Alike(q, r, t)
  PROVE  AllOK(h, e, r)
  BY OthersKept DEF Good, AllOK

\* The disconnect functions, one after the other, keep the invariant of all.
LEMMA OfflineStep ==
  ASSUME NEW h, HostOK(h), NEW d, NEW q, AllOK(h, d, q)
  PROVE  AllOK(h, Offline(d), q)
<1>1. PICK f : Walks(f, d, Streams) /\ Offline(d) = f[Streams]
  BY OfflineIsWalk
<1> DEFINE P == {S \in SUBSET Streams : ~ AllOK(h, f[S], q)}
<1>2. SUFFICES ASSUME P # {} PROVE FALSE
  BY <1>1
<1>3. PICK S \in P : \A R \in SUBSET S : R # S => R \notin P
  <2>1. P \in SUBSET (SUBSET Streams)
    OBVIOUS
  <2> HIDE DEF P
  <2>2. QED
    BY <1>2, <2>1, SmallestSet
<1>4. f[S] = IF S = {} THEN d ELSE Disconnect(f[Rid(S)], Pick(S))
  BY <1>1 DEF Walks
<1>5. S # {}
  BY <1>4
<1>6. Pick(S) \in Streams /\ AllOK(h, f[Rid(S)], q)
  BY <1>3, <1>5, RidIsSmaller
<1>7. Good(h, f[Rid(S)], Disconnect(f[Rid(S)], Pick(S)), q, Pick(S))
  BY <1>6, DisconnectStep DEF AllOK
<1>8. AllOK(h, Disconnect(f[Rid(S)], Pick(S)), q)
  BY <1>6, <1>7, GoodForAll, AlikeSame DEF AllOK
<1>9. QED
  BY <1>4, <1>5, <1>8

-----------------------------------------------------------------------------
\* The callbacks.

\* local_socket_event_func.
LEMMA EventStep ==
  ASSUME NEW h, HostOK(h), h.svc = svc, NEW d, DevOK(d), NEW q \in Seq(Packets),
         NEW s \in Streams, StreamOK(h, d, q, s), s \in d.loop.active, NEW ev,
         "W" \in ev => d.queue[s] # <<>> /\ d.loop.events[s] = {},
         "R" \in ev /\ d.peer[s] /\ ~ Subprocess(h.kind[s]) =>
           "R" \in d.loop.wanted[s] /\ d.loop.events[s] = {}
  PROVE  Good(h, d, EventFunc(d, s, ev), q, s)
<1> DEFINE w == IF "W" \in ev THEN OnWritable(d, s) ELSE d
           returned == "W" \in ev /\ (w.sock[s] # "open" \/ w.queue[s] # <<>>)
<1>1. EventFunc(d, s, ev) = IF "R" \in ev /\ ~ returned THEN OnReadable(w, s) ELSE w
  BY DEF EventFunc
<1>2. d.sock[s] \in {"open", "closing"}
  <2>1. d.sock[s] \in SockStates
    BY DEF DevOK
  <2>2. QED
    BY <2>1 DEF StreamOK, SocketOK, SockStates
<1>3. /\ Good(h, d, w, q, s)
      /\ "R" \in ev /\ ~ returned =>
           /\ w.sock[s] \in {"open", "closing"}
           /\ w.peer[s] /\ ~ Subprocess(h.kind[s]) =>
                "R" \in w.loop.wanted[s] /\ w.loop.events[s] = {}
  <2>1. CASE "W" \in ev
    <3>1. /\ Good(h, d, OnWritable(d, s), q, s)
          /\ OnWritable(d, s).sock[s] = "open" /\ OnWritable(d, s).queue[s] = <<>> =>
               /\ OnWritable(d, s).peer = d.peer /\ OnWritable(d, s).loop.events[s] = {}
               /\ "R" \in d.loop.wanted[s] => "R" \in OnWritable(d, s).loop.wanted[s]
      BY <2>1, WritableStep
    <3>2. w = OnWritable(d, s)
      BY <2>1
    <3> HIDE DEF w
    <3>3. QED
      BY <2>1, <3>1, <3>2
  <2>2. CASE "W" \notin ev
    <3>1. w = d
      BY <2>2
    <3>2. Others(d, d, s)
      BY AlikeSame DEF Others, SameSocket
    <3> HIDE DEF w
    <3>3. QED
      BY <1>2, <3>1, <3>2 DEF Good
  <2>3. QED
    BY <2>1, <2>2
<1> HIDE DEF w
<1>4. CASE "R" \in ev /\ ~ returned
  <2>1. Good(h, w, OnReadable(w, s), q, s)
    BY <1>3, <1>4, ReadableStep DEF Good
  <2>2. QED
    BY <1>1, <1>3, <1>4, <2>1, GoodTrans DEF Good
<1>5. CASE ~ ("R" \in ev /\ ~ returned)
  BY <1>1, <1>3, <1>5
<1>6. QED
  BY <1>4, <1>5

\* What an OPEN at the head of the queue says of its stream.
Fresh(h, d, r, s) ==
  /\ h.host[s] = "opening" /\ ~ h.credit[s] /\ ~ h.owed[s] /\ h.sent[s] = 0
  /\ h.gotUp[s] = <<>> /\ \A c \in {"OPEN", "OKAY", "WRTE", "CLSE"} : ~ Has(r, c, s)
  /\ d.sock[s] = "none" /\ ~ d.peer[s] /\ d.closes[s] = 0 /\ s \notin d.loop.active
  /\ \A c : ~ Has(d.out, c, s)
  /\ h.svc[s] = "none" /\ h.kind[s] = "none" /\ h.wrote[s] = 0
  /\ h.gotDown[s] = <<>> /\ d.queue[s] = <<>>
  /\ d.up[s] = <<>> /\ d.down[s] = <<>> /\ d.taken[s] = <<>>
\* An OPEN finds a stream that nothing has happened on.
LEMMA OpenFinds ==
  ASSUME NEW h, NEW d, NEW q \in Seq(Packets), q # <<>>, NEW s, StreamOK(h, d, q, s),
         Is(Head(q), "OPEN", s)
  PROVE  Fresh(h, d, Tail(q), s)
<1>1. Has(q, "OPEN", s) /\ (\A c : Has(Tail(q), c, s) => Has(q, c, s))
  BY HasTail
<1>2. ~ Has(Tail(q), "OPEN", s)
  BY HasTail DEF StreamOK, StartOK
<1>3. /\ h.host[s] = "opening" /\ d.sock[s] = "none" /\ d.closes[s] = 0
      /\ \A c : ~ Has(d.out, c, s)
  BY <1>1 DEF StreamOK, StartOK
<1>4. /\ ~ h.credit[s] /\ ~ h.owed[s] /\ h.sent[s] = 0 /\ h.gotUp[s] = <<>>
      /\ ~ Has(q, "OKAY", s) /\ ~ Has(q, "WRTE", s) /\ ~ Has(q, "CLSE", s)
  BY <1>3 DEF StreamOK, StartOK
<1>5. /\ h.svc[s] = "none" /\ h.kind[s] = "none" /\ h.wrote[s] = 0 /\ h.gotDown[s] = <<>>
      /\ d.up[s] = <<>> /\ d.down[s] = <<>> /\ d.taken[s] = <<>>
  BY <1>3 DEF StreamOK, StartOK
<1>6. ~ d.peer[s] /\ s \notin d.loop.active /\ d.queue[s] = <<>>
  BY <1>3 DEF StreamOK, SocketOK
<1>7. QED
  BY <1>1, <1>2, <1>3, <1>4, <1>5, <1>6 DEF Fresh

\* What is not there is there once at most.
LEMMA NoneIsSole ==
  \A q, c, s : ~ Has(q, c, s) => Sole(q, c, s)
  BY DEF Has, Sole

\* The OPEN is accepted: the service exists from here on.
LEMMA AcceptedStep ==
  ASSUME NEW h, HostOK(h), NEW k, HostOK(k), NEW d, DevOK(d), NEW q \in Seq(Packets),
         q # <<>>, NEW s \in Streams, StreamOK(h, d, q, s), Is(Head(q), "OPEN", s),
         k.host = h.host, k.credit = h.credit, k.owed = h.owed, k.sent = h.sent,
         k.gotUp = h.gotUp, k.wrote = h.wrote, k.gotDown = h.gotDown
  PROVE  Good(k, d, Accepted(d, s), Tail(q), s)
<1> DEFINE e == Accepted(d, s)
           p == Packet("OKAY", s, <<>>)
           r == Tail(q)
<1>1. /\ h.host[s] = "opening" /\ ~ h.credit[s] /\ ~ h.owed[s] /\ h.sent[s] = 0
      /\ h.gotUp[s] = <<>> /\ \A c \in {"OPEN", "OKAY", "WRTE", "CLSE"} : ~ Has(r, c, s)
      /\ d.closes[s] = 0 /\ s \notin d.loop.active
      /\ \A c : ~ Has(d.out, c, s)
      /\ h.wrote[s] = 0 /\ h.gotDown[s] = <<>> /\ d.queue[s] = <<>>
      /\ d.up[s] = <<>> /\ d.down[s] = <<>> /\ d.taken[s] = <<>>
  <2>1. Fresh(h, d, r, s)
    BY OpenFinds
  <2> HIDE DEF r
  <2>2. QED
    BY <2>1 DEF Fresh
<1>2. /\ DevOK(e) /\ Others(d, e, s)
      /\ e.sock[s] = "open" /\ e.peer[s] /\ s \in e.loop.active
      /\ e.loop.wanted[s] = {"R"} /\ e.loop.events[s] = {}
      /\ p \in Packets /\ e.out = Append(d.out, p)
      /\ e.queue = d.queue /\ e.up = d.up /\ e.down = d.down /\ e.taken = d.taken
      /\ e.closes = d.closes
  BY <1>1, AcceptedFields
<1> HIDE DEF e
<1>3. d.out \in Seq(Packets) /\ r \in Seq(Packets) /\ \A c : Is(p, c, s) <=> c = "OKAY"
  BY TailIndex DEF DevOK, Packet, Is
<1> HIDE DEF p, r
<1>4. /\ \A c : Has(e.out, c, s) <=> c = "OKAY"
      /\ \A c : Sole(d.out, c, s) => Sole(e.out, c, s)
      /\ Ends(d.out, s) => Ends(e.out, s)
      /\ Led(d.out, s) => Led(e.out, s)
  BY <1>1, <1>2, <1>3, HasAppend, SoleAppend, EndsAppend, LedAppend
<1>5. /\ Ends(e.out, s) /\ Led(e.out, s)
      /\ \A c : Sole(e.out, c, s)
      /\ \A c \in {"OPEN", "OKAY", "WRTE", "CLSE"} : Sole(r, c, s)
  BY <1>1, <1>4, NoneIsSole DEF StreamOK, CloseOK, UpData
<1>6. SocketOK(e, s)
  BY <1>1, <1>2 DEF SocketOK
<1>7. StartOK(k, e, r, s)
  BY <1>1, <1>2, <1>5 DEF StartOK
<1>8. UpFlow(k, e, r, s)
  BY <1>1, <1>2, <1>4, <1>5 DEF UpFlow
<1>9. DownFlow(k, e, r, s)
  BY <1>1, <1>2, <1>4, <1>5 DEF DownFlow, Waits
<1>10. CloseOK(e, r, s)
  BY <1>1, <1>2, <1>4, <1>5 DEF CloseOK
<1>11. \A a \in Nat : Run(<<>>, a)
  BY DEF Run
<1>12. UpData(k, e, s)
  <2>1. Chain(e.out, s, 0, 0)
    <3>1. e.out \in Seq(Packets) /\ ~ Has(e.out, "WRTE", s)
      BY <1>2, <1>4 DEF DevOK
    <3>2. QED
      BY <3>1, ChainNone
  <2>2. Len(k.gotUp[s]) = 0 /\ Len(e.up[s]) = 0 /\ k.wrote[s] = 0 /\ k.host[s] = "opening"
    BY <1>1, <1>2
  <2>3. ToHost(k, e, s, 0)
    BY <1>1, <1>2, <1>4, <1>11, <2>1, <2>2 DEF ToHost
  <2>4. \E b \in Nat : ToHost(k, e, s, b)
    BY <2>3
  <2>5. Run(k.gotUp[s], 0)
    BY <1>1, <1>11
  <2>6. QED
    BY <1>4, <1>5, <2>2, <2>4, <2>5 DEF UpData
<1>13. DownData(k, e, r, s)
  <2>1. Chain(r, s, 0, 0)
    BY <1>1, <1>3, ChainNone
  <2>2. /\ Len(k.gotDown[s]) = 0 /\ Len(e.down[s]) = 0 /\ Len(e.queue[s]) = 0
        /\ Len(e.taken[s]) = 0 /\ k.sent[s] = 0
    BY <1>1, <1>2
  <2>3. Given(k, e, s) = 0 /\ Total(k, e, s) = 0
    BY <2>2 DEF Given, Total
  <2>4. /\ Run(k.gotDown[s], 0) /\ Run(e.down[s], 0) /\ Run(e.queue[s], 0)
        /\ Run(e.taken[s], 0)
    BY <1>1, <1>2, <1>11
  <2>5. Kept(k, e, s)
    BY <2>2, <2>3, <2>4 DEF Kept
  <2>6. QED
    BY <2>1, <2>2, <2>3, <2>5 DEF DownData
<1>14. QED
  BY <1>2, <1>6, <1>7, <1>8, <1>9, <1>10, <1>12, <1>13 DEF Good, StreamOK, e, r

\* Or refused, with a CLOSE.
LEMMA RefusedStep ==
  ASSUME NEW h, HostOK(h), NEW d, DevOK(d), NEW q \in Seq(Packets),
         q # <<>>, NEW s \in Streams, StreamOK(h, d, q, s), Is(Head(q), "OPEN", s)
  PROVE  Good(h, d, SendClose(d, s), Tail(q), s)
<1> DEFINE e == SendClose(d, s)
           p == Packet("CLSE", s, <<>>)
           r == Tail(q)
<1>1. /\ h.host[s] = "opening" /\ ~ h.credit[s] /\ ~ h.owed[s] /\ h.sent[s] = 0
      /\ h.gotUp[s] = <<>> /\ \A c \in {"OPEN", "OKAY", "WRTE", "CLSE"} : ~ Has(r, c, s)
      /\ d.sock[s] = "none" /\ ~ d.peer[s] /\ d.closes[s] = 0
      /\ \A c : ~ Has(d.out, c, s)
      /\ h.svc[s] = "none" /\ h.wrote[s] = 0 /\ d.queue[s] = <<>>
  <2>1. Fresh(h, d, r, s)
    BY OpenFinds
  <2> HIDE DEF r
  <2>2. QED
    BY <2>1 DEF Fresh
<1>2. /\ DevOK(e) /\ Others(d, e, s)
      /\ p \in Packets /\ e.out = Append(d.out, p)
      /\ e.closes[s] = d.closes[s] + 1
      /\ e.loop = d.loop /\ e.sock = d.sock /\ e.queue = d.queue /\ e.peer = d.peer
      /\ e.up = d.up /\ e.down = d.down /\ e.taken = d.taken
  BY SendCloseFields
<1> HIDE DEF e
<1>3. d.out \in Seq(Packets) /\ r \in Seq(Packets) /\ \A c : Is(p, c, s) <=> c = "CLSE"
  BY TailIndex DEF DevOK, Packet, Is
<1>4. StreamOK(h, d, r, s)
  BY <1>1, PopStep
<1> HIDE DEF p, r
<1>5. /\ \A c : Has(e.out, c, s) <=> c = "CLSE"
      /\ \A c : Sole(d.out, c, s) => Sole(e.out, c, s)
      /\ Ends(d.out, s) => Ends(e.out, s)
      /\ Led(d.out, s) => Led(e.out, s)
  BY <1>1, <1>2, <1>3, HasAppend, SoleAppend, EndsAppend, LedAppend
<1>6. SocketOK(e, s)
  BY <1>2, <1>4 DEF StreamOK, SocketOK
<1>7. StartOK(h, e, r, s)
  BY <1>1, <1>2, <1>4 DEF StreamOK, StartOK
<1>8. UpFlow(h, e, r, s)
  BY <1>1, <1>2, <1>4, <1>5 DEF StreamOK, UpFlow, Reads
<1>9. DownFlow(h, e, r, s)
  BY <1>1, <1>2, <1>4, <1>5 DEF StreamOK, DownFlow, Waits
<1>10. CloseOK(e, r, s)
  BY <1>1, <1>2, <1>4, <1>5 DEF StreamOK, CloseOK
<1>11. UpData(h, e, s)
  <2>1. Chain(e.out, s, 0, 0)
    <3>1. e.out \in Seq(Packets) /\ ~ Has(e.out, "WRTE", s)
      BY <1>2, <1>5 DEF DevOK
    <3>2. QED
      BY <3>1, ChainNone
  <2>2. ToHost(h, e, s, 0)
    BY <1>1, <1>2, <2>1 DEF ToHost
  <2>3. \E b \in Nat : ToHost(h, e, s, b)
    BY <2>2
  <2>4. QED
    BY <1>1, <1>2, <1>4, <1>5, <2>3 DEF StreamOK, UpData
<1>12. DownData(h, e, r, s)
  BY <1>2, <1>4 DEF StreamOK, DownData, Kept, Given, Total
<1>13. QED
  BY <1>2, <1>6, <1>7, <1>8, <1>9, <1>10, <1>11, <1>12 DEF Good, StreamOK, e, r

-----------------------------------------------------------------------------
\* The services and the host.

\* Chunks are numbered up to the bounds.
LEMMA ChunkBounds ==
  /\ \A i \in 1..MaxUp : i \in Chunks
  /\ \A i \in 1..MaxDown : i \in Chunks
<1>1. MaxUp \in Nat /\ MaxDown \in Nat
  BY SocketsAssumption
<1>2. MaxUp <= Greatest(MaxUp, MaxDown) /\ MaxDown <= Greatest(MaxUp, MaxDown)
      /\ Greatest(MaxUp, MaxDown) \in Nat
  BY <1>1 DEF Greatest
<1>3. QED
  BY <1>1, <1>2 DEF Chunks

\* The next chunk continues the data.
LEMMA RunAppend ==
  ASSUME NEW q \in Seq(Chunks), NEW x \in Chunks, NEW a \in Nat, Run(q, a),
         x = a + Len(q) + 1
  PROVE  /\ Append(q, x) \in Seq(Chunks) /\ Len(Append(q, x)) = Len(q) + 1
         /\ Run(Append(q, x), a)
<1> DEFINE r == Append(q, x)
           n == Len(q)
<1>1. /\ r \in Seq(Chunks) /\ Len(r) = n + 1 /\ n \in Nat
      /\ DOMAIN q = 1..n /\ DOMAIN r = 1..(n + 1)
      /\ \A i \in 1..n : r[i] = q[i]
      /\ r[n + 1] = x
  OBVIOUS
<1>2. (\A i \in 1..n : q[i] = a + i) /\ x = a + n + 1
  BY <1>1 DEF Run
<1> HIDE DEF r, n
<1>3. \A i \in 1..(n + 1) : r[i] = a + i
  <2>1. ASSUME NEW i \in 1..(n + 1) PROVE r[i] = a + i
    <3>1. CASE i \in 1..n
      BY <1>1, <1>2, <3>1
    <3>2. CASE i = n + 1
      BY <1>1, <1>2, <3>2
    <3>3. QED
      BY <1>1, <2>1, <3>1, <3>2
  <2>2. QED
    BY <2>1
<1>4. QED
  BY <1>1, <1>3 DEF Run, r, n

\* The service writes.
LEMMA SvcWriteStep ==
  ASSUME NEW h, HostOK(h), NEW k, HostOK(k), NEW d, DevOK(d), NEW e, NEW q,
         NEW s \in Streams, StreamOK(h, d, q, s), h.svc[s] = "open",
         k.wrote[s] = h.wrote[s] + 1,
         k.host = h.host, k.credit = h.credit, k.owed = h.owed, k.sent = h.sent,
         k.gotUp = h.gotUp, k.svc = h.svc, k.kind = h.kind, k.gotDown = h.gotDown,
         d.sock[s] # "gone" => e.up[s] = Append(d.up[s], h.wrote[s] + 1),
         e.sock = d.sock, e.peer = d.peer, e.queue = d.queue, e.down = d.down,
         e.taken = d.taken, e.out = d.out, e.closes = d.closes, e.loop = d.loop
  PROVE  StreamOK(k, e, q, s)
<1>1. d.sock[s] # "none"
  BY DEF StreamOK, StartOK
<1>2. SocketOK(e, s)
  BY DEF StreamOK, SocketOK
<1>3. StartOK(k, e, q, s)
  BY <1>1 DEF StreamOK, StartOK
<1>4. UpFlow(k, e, q, s)
  BY DEF StreamOK, UpFlow, Reads
<1>5. DownFlow(k, e, q, s)
  BY DEF StreamOK, DownFlow, Waits
<1>6. CloseOK(e, q, s)
  BY DEF StreamOK, CloseOK
<1>7. DownData(k, e, q, s)
  BY DEF StreamOK, DownData, Kept, Given, Total
<1>8. k.wrote[s] \in 0..MaxUp /\ h.wrote[s] \in Nat /\ MaxUp \in Nat
  BY SocketsAssumption DEF HostOK
<1>9. ASSUME NEW b \in Nat, ToHost(h, d, s, b) PROVE ToHost(k, e, s, b)
  <2>1. ASSUME d.peer[s] PROVE b + Len(e.up[s]) = k.wrote[s] /\ Run(e.up[s], b)
    <3> DEFINE x == Len(d.up[s])
               y == Len(e.up[s])
    <3>1. d.sock[s] # "gone"
      BY <2>1 DEF StreamOK, SocketOK
    <3>2. d.up[s] \in Seq(Chunks) /\ x \in Nat
      BY Lengths
    <3>3. b + x = h.wrote[s] /\ Run(d.up[s], b)
      BY <1>9, <2>1 DEF ToHost
    <3> HIDE DEF x
    <3>4. h.wrote[s] + 1 \in Chunks /\ h.wrote[s] + 1 = b + x + 1
      BY <1>8, <3>2, <3>3, ChunkBounds
    <3>5. y = x + 1 /\ Run(e.up[s], b)
      <4>1. \A u \in Seq(Chunks), c \in Chunks, a \in Nat :
              Run(u, a) /\ c = a + Len(u) + 1 =>
                Len(Append(u, c)) = Len(u) + 1 /\ Run(Append(u, c), a)
        BY RunAppend
      <4>2. h.wrote[s] + 1 = b + Len(d.up[s]) + 1
        BY <3>4 DEF x
      <4>3. /\ Len(Append(d.up[s], h.wrote[s] + 1)) = Len(d.up[s]) + 1
            /\ Run(Append(d.up[s], h.wrote[s] + 1), b)
        BY <3>2, <3>3, <3>4, <4>1, <4>2
      <4>4. e.up[s] = Append(d.up[s], h.wrote[s] + 1)
        BY <3>1
      <4>5. QED
        BY <4>3, <4>4 DEF x
    <3> HIDE DEF y
    <3>6. b + y = k.wrote[s]
      BY <1>8, <3>2, <3>3, <3>5
    <3>7. QED
      BY <3>5, <3>6 DEF y
  <2>2. b <= k.wrote[s]
    BY <1>8, <1>9 DEF ToHost
  <2>3. ~ (Has(d.out, "CLSE", s) /\ h.sent[s] = 0)
    BY <1>9 DEF ToHost
  <2>4. QED
    BY <1>9, <2>1, <2>2, <2>3 DEF ToHost
<1>10. UpData(k, e, s)
  BY <1>9 DEF StreamOK, UpData
<1>11. QED
  BY <1>2, <1>3, <1>4, <1>5, <1>6, <1>7, <1>10 DEF StreamOK

\* The service reads.
LEMMA SvcReadStep ==
  ASSUME NEW h, HostOK(h), NEW k, NEW d, DevOK(d), NEW e, NEW q,
         NEW s \in Streams, StreamOK(h, d, q, s), d.down[s] # <<>>,
         k.gotDown[s] = Append(h.gotDown[s], Head(d.down[s])),
         k.host = h.host, k.credit = h.credit, k.owed = h.owed, k.sent = h.sent,
         k.gotUp = h.gotUp, k.svc = h.svc, k.kind = h.kind, k.wrote = h.wrote,
         e.down[s] = Tail(d.down[s]),
         e.sock = d.sock, e.peer = d.peer, e.queue = d.queue, e.up = d.up,
         e.taken = d.taken, e.out = d.out, e.closes = d.closes, e.loop = d.loop
  PROVE  StreamOK(k, e, q, s)
<1>1. d.sock[s] # "none"
  BY DEF StreamOK, StartOK
<1>2. SocketOK(e, s)
  BY DEF StreamOK, SocketOK
<1>3. StartOK(k, e, q, s)
  BY <1>1 DEF StreamOK, StartOK
<1>4. UpFlow(k, e, q, s)
  BY DEF StreamOK, UpFlow, Reads
<1>5. DownFlow(k, e, q, s)
  BY DEF StreamOK, DownFlow, Waits
<1>6. CloseOK(e, q, s)
  BY DEF StreamOK, CloseOK
<1>7. UpData(k, e, s)
  BY DEF StreamOK, UpData, ToHost
<1> DEFINE g == Len(h.gotDown[s])
           x == Len(d.down[s])
<1>8. /\ h.gotDown[s] \in Seq(Chunks) /\ d.down[s] \in Seq(Chunks)
      /\ g \in Nat /\ x \in Nat /\ Run(h.gotDown[s], 0) /\ Run(d.down[s], g)
  BY Lengths DEF StreamOK, DownData, Kept
<1>9. /\ Len(k.gotDown[s]) = g + 1 /\ Len(e.down[s]) = x - 1
      /\ Run(k.gotDown[s], 0) /\ Run(e.down[s], g + 1)
  BY <1>8, RunMove
<1>10. Given(k, e, s) = Given(h, d, s)
  <2>1. Given(h, d, s) = g + x /\ Given(k, e, s) = g + 1 + (x - 1)
    BY <1>9 DEF Given
  <2> HIDE DEF g, x
  <2>2. QED
    BY <1>8, <2>1
<1>11. Total(k, e, s) = Total(h, d, s)
  BY <1>10 DEF Total
<1>12. Run(e.down[s], Len(k.gotDown[s]))
  BY <1>9
<1>13. DownData(k, e, q, s)
  BY <1>9, <1>10, <1>11, <1>12 DEF StreamOK, DownData, Kept
<1>14. QED
  BY <1>2, <1>3, <1>4, <1>5, <1>6, <1>7, <1>13 DEF StreamOK

\* The service stops writing, or closes.
LEMMA SvcStopsStep ==
  ASSUME NEW h, NEW k, NEW d, NEW q, NEW s, StreamOK(h, d, q, s),
         h.svc[s] # "none", k.svc[s] # "open",
         k.host = h.host, k.credit = h.credit, k.owed = h.owed, k.sent = h.sent,
         k.gotUp = h.gotUp, k.gotDown = h.gotDown, k.kind = h.kind, k.wrote = h.wrote
  PROVE  StreamOK(k, d, q, s)
<1>1. SocketOK(d, s) /\ CloseOK(d, q, s)
  BY DEF StreamOK
<1>2. StartOK(k, d, q, s)
  BY DEF StreamOK, StartOK
<1>3. UpFlow(k, d, q, s)
  BY DEF StreamOK, UpFlow
<1>4. DownFlow(k, d, q, s)
  BY DEF StreamOK, DownFlow
<1>5. UpData(k, d, s)
  BY DEF StreamOK, UpData, ToHost
<1>6. DownData(k, d, q, s)
  BY DEF StreamOK, DownData, Kept, Given, Total
<1>7. QED
  BY <1>1, <1>2, <1>3, <1>4, <1>5, <1>6 DEF StreamOK

\* The host opens a stream.
LEMMA HostOpenStep ==
  ASSUME NEW h, NEW k, NEW d, NEW q \in Seq(Packets), NEW p \in Packets,
         NEW s \in Streams, StreamOK(h, d, q, s), h.host[s] = "none",
         p = Packet("OPEN", s, <<>>), k.host[s] = "opening",
         k.credit = h.credit, k.owed = h.owed, k.sent = h.sent, k.wrote = h.wrote,
         k.gotUp = h.gotUp, k.svc = h.svc, k.kind = h.kind, k.gotDown = h.gotDown
  PROVE  StreamOK(k, d, Append(q, p), s)
<1> DEFINE r == Append(q, p)
<1>1. \A c : Is(p, c, s) <=> c = "OPEN"
  BY DEF Packet, Is
<1>2. /\ d.sock[s] = "none" /\ d.closes[s] = 0 /\ (\A c : ~ Has(d.out, c, s))
      /\ ~ Has(q, "OPEN", s) /\ ~ Has(q, "CLSE", s)
  BY DEF StreamOK, StartOK
<1>3. /\ \A c : Has(r, c, s) <=> Has(q, c, s) \/ c = "OPEN"
      /\ \A c : Sole(q, c, s) => Sole(r, c, s)
      /\ \A a, b : Chain(q, s, a, b) => Chain(r, s, a, b)
  BY <1>1, <1>2, HasAppend, SoleAppend, ChainAppend
<1> HIDE DEF r
<1>4. ~ d.peer[s]
  BY <1>2 DEF StreamOK, SocketOK
<1>5. SocketOK(d, s)
  BY DEF StreamOK
<1>6. StartOK(k, d, r, s)
  BY <1>2, <1>3 DEF StreamOK, StartOK
<1>7. UpFlow(k, d, r, s)
  BY <1>3 DEF StreamOK, UpFlow
<1>8. DownFlow(k, d, r, s)
  BY <1>3 DEF StreamOK, DownFlow
<1>9. CloseOK(d, r, s)
  BY <1>2, <1>3 DEF StreamOK, CloseOK
<1>10. Led(d.out, s)
  BY <1>2 DEF Led, Has
<1>11. UpData(k, d, s)
  BY <1>4, <1>10 DEF StreamOK, UpData, ToHost
<1>12. DownData(k, d, r, s)
  BY <1>4 DEF StreamOK, DownData, Kept, Given, Total
<1>13. QED
  BY <1>5, <1>6, <1>7, <1>8, <1>9, <1>11, <1>12 DEF StreamOK, r

\* It writes.
LEMMA HostWriteStep ==
  ASSUME NEW h, HostOK(h), NEW k, NEW d, DevOK(d), NEW q \in Seq(Packets),
         NEW p \in Packets, NEW s \in Streams, StreamOK(h, d, q, s), h.host[s] = "open",
         h.credit[s], NEW n \in Nat \ {0}, p = Packet("WRTE", s, [i \in 1..n |-> h.sent[s] + i]),
         ~ k.credit[s], k.sent[s] = h.sent[s] + n,
         k.host = h.host, k.owed = h.owed, k.wrote = h.wrote,
         k.gotUp = h.gotUp, k.svc = h.svc, k.kind = h.kind, k.gotDown = h.gotDown
  PROVE  StreamOK(k, d, Append(q, p), s)
<1> DEFINE r == Append(q, p)
<1>1. \A c : Is(p, c, s) <=> c = "WRTE"
  BY DEF Packet, Is
<1>2. /\ Len(p.data) = n /\ Run(p.data, h.sent[s])
  BY DEF Packet, Run
<1>3. ~ Has(q, "WRTE", s) /\ ~ Waits(d, s) /\ ~ Has(d.out, "OKAY", s)
  BY DEF StreamOK, DownFlow
<1>4. h.sent[s] \in Nat /\ Total(h, d, s) \in Nat
  BY Lengths
<1>5. /\ \A c : Has(r, c, s) <=> Has(q, c, s) \/ c = "WRTE"
      /\ \A c : Sole(q, c, s) => Sole(r, c, s)
  BY <1>1, <1>3, HasAppend, SoleAppend
<1>6. \A a : Chain(q, s, a, h.sent[s]) => Chain(r, s, a, k.sent[s])
  <2>1. Len(p.data) > 0 /\ k.sent[s] = h.sent[s] + Len(p.data)
    BY <1>2
  <2>2. QED
    BY <1>1, <1>2, <2>1, ChainAppend
<1> HIDE DEF r
<1>7. k.sent[s] > 0 /\ k.sent[s] >= h.sent[s] /\ k.sent[s] # 0
  BY <1>4
<1>8. SocketOK(d, s)
  BY DEF StreamOK
<1>9. StartOK(k, d, r, s)
  BY <1>5 DEF StreamOK, StartOK
<1>10. UpFlow(k, d, r, s)
  BY <1>5 DEF StreamOK, UpFlow
<1>11. DownFlow(k, d, r, s)
  BY <1>3, <1>5 DEF StreamOK, DownFlow
<1>12. CloseOK(d, r, s)
  BY <1>5 DEF StreamOK, CloseOK
<1>13. UpData(k, d, s)
  BY <1>7 DEF StreamOK, UpData, ToHost
<1>14. DownData(k, d, r, s)
  <2>1. Given(k, d, s) = Given(h, d, s) /\ Total(k, d, s) = Total(h, d, s)
    BY DEF Given, Total
  <2>2. Total(k, d, s) <= k.sent[s]
    <3>1. Total(h, d, s) <= h.sent[s]
      BY DEF StreamOK, DownData, Kept
    <3>2. QED
      BY <1>4, <1>7, <2>1, <3>1
  <2>3. QED
    BY <1>6, <2>1, <2>2 DEF StreamOK, DownData, Kept
<1>15. QED
  BY <1>8, <1>9, <1>10, <1>11, <1>12, <1>13, <1>14 DEF StreamOK, r

\* It answers a WRITE.
LEMMA HostReadyStep ==
  ASSUME NEW h, NEW k, NEW d, NEW q \in Seq(Packets), NEW p \in Packets,
         NEW s \in Streams, StreamOK(h, d, q, s), h.host[s] = "open", h.owed[s],
         p = Packet("OKAY", s, <<>>), ~ k.owed[s],
         k.host = h.host, k.credit = h.credit, k.sent = h.sent, k.wrote = h.wrote,
         k.gotUp = h.gotUp, k.svc = h.svc, k.kind = h.kind, k.gotDown = h.gotDown
  PROVE  StreamOK(k, d, Append(q, p), s)
<1> DEFINE r == Append(q, p)
<1>1. \A c : Is(p, c, s) <=> c = "OKAY"
  BY DEF Packet, Is
<1>2. /\ \A c : Has(r, c, s) <=> Has(q, c, s) \/ c = "OKAY"
      /\ \A c : c # "OKAY" /\ Sole(q, c, s) => Sole(r, c, s)
      /\ Sole(q, "OKAY", s) /\ ~ Has(q, "OKAY", s) => Sole(r, "OKAY", s)
      /\ \A a, b : Chain(q, s, a, b) => Chain(r, s, a, b)
  BY <1>1, HasAppend, SoleAppend, ChainAppend
<1> HIDE DEF r
<1>3. SocketOK(d, s)
  BY DEF StreamOK
<1>4. StartOK(k, d, r, s)
  BY <1>2 DEF StreamOK, StartOK
<1>5. UpFlow(k, d, r, s)
  BY <1>2 DEF StreamOK, UpFlow
<1>6. DownFlow(k, d, r, s)
  BY <1>2 DEF StreamOK, DownFlow
<1>7. CloseOK(d, r, s)
  BY <1>2 DEF StreamOK, CloseOK
<1>8. UpData(k, d, s)
  BY DEF StreamOK, UpData, ToHost
<1>9. DownData(k, d, r, s)
  BY <1>2 DEF StreamOK, DownData, Kept, Given, Total
<1>10. QED
  BY <1>3, <1>4, <1>5, <1>6, <1>7, <1>8, <1>9 DEF StreamOK, r

\* It closes.
LEMMA HostCloseStep ==
  ASSUME NEW h, NEW k, NEW d, NEW q \in Seq(Packets), NEW p \in Packets,
         NEW s \in Streams, StreamOK(h, d, q, s), h.host[s] = "open",
         p = Packet("CLSE", s, <<>>), k.host[s] = "closed",
         k.owed = h.owed, k.credit = h.credit, k.sent = h.sent, k.wrote = h.wrote,
         k.gotUp = h.gotUp, k.svc = h.svc, k.kind = h.kind, k.gotDown = h.gotDown
  PROVE  StreamOK(k, d, Append(q, p), s)
<1> DEFINE r == Append(q, p)
<1>1. \A c : Is(p, c, s) <=> c = "CLSE"
  BY DEF Packet, Is
<1>2. /\ \A c : Has(r, c, s) <=> Has(q, c, s) \/ c = "CLSE"
      /\ \A c : c # "CLSE" /\ Sole(q, c, s) => Sole(r, c, s)
      /\ \A a, b : Chain(q, s, a, b) => Chain(r, s, a, b)
  BY <1>1, HasAppend, SoleAppend, ChainAppend
<1> HIDE DEF r
<1>3. SocketOK(d, s)
  BY DEF StreamOK
<1>4. StartOK(k, d, r, s)
  BY <1>2 DEF StreamOK, StartOK
<1>5. UpFlow(k, d, r, s)
  BY <1>2 DEF StreamOK, UpFlow
<1>6. DownFlow(k, d, r, s)
  BY <1>2 DEF StreamOK, DownFlow
<1>7. CloseOK(d, r, s)
  BY <1>2 DEF StreamOK, CloseOK
<1>8. UpData(k, d, s)
  BY DEF StreamOK, UpData, ToHost
<1>9. DownData(k, d, r, s)
  BY <1>2 DEF StreamOK, DownData, Kept, Given, Total
<1>10. QED
  BY <1>3, <1>4, <1>5, <1>6, <1>7, <1>8, <1>9 DEF StreamOK, r

\* It gets a packet, which it ignores unless its end is opening or open.
Live(h, s) == h.host[s] \in {"opening", "open"}
Received(h, k, p, s) ==
  /\ k.host[s] = IF p.cmd = "OKAY" /\ Live(h, s) THEN "open"
                 ELSE IF p.cmd = "CLSE" /\ Live(h, s) THEN "refused" ELSE h.host[s]
  /\ k.credit[s] <=> h.credit[s] \/ (p.cmd = "OKAY" /\ Live(h, s))
  /\ k.owed[s] <=> h.owed[s] \/ (p.cmd = "WRTE" /\ Live(h, s))
  /\ k.gotUp[s] = IF p.cmd = "WRTE" /\ Live(h, s) THEN h.gotUp[s] \o p.data
                  ELSE h.gotUp[s]
  /\ k.sent = h.sent /\ k.wrote = h.wrote /\ k.svc = h.svc /\ k.kind = h.kind
  /\ k.gotDown = h.gotDown

\* Getting it keeps the invariant of the stream.
LEMMA ReceiveStep ==
  ASSUME NEW h, HostOK(h), NEW k, HostOK(k), NEW d, DevOK(d), NEW e, NEW q,
         NEW s \in Streams, StreamOK(h, d, q, s), d.out # <<>>, NEW p, p = Head(d.out),
         p.s = s, Received(h, k, p, s),
         e.out = Tail(d.out), e.sock = d.sock, e.peer = d.peer, e.queue = d.queue,
         e.up = d.up, e.down = d.down, e.taken = d.taken, e.closes = d.closes,
         e.loop = d.loop
  PROVE  StreamOK(k, e, q, s)
<1> DEFINE live == Live(h, s)
<1> /\ live <=> h.host[s] \in {"opening", "open"}
    /\ k.host[s] = IF p.cmd = "OKAY" /\ live THEN "open"
                   ELSE IF p.cmd = "CLSE" /\ live THEN "refused" ELSE h.host[s]
    /\ k.credit[s] <=> h.credit[s] \/ (p.cmd = "OKAY" /\ live)
    /\ k.owed[s] <=> h.owed[s] \/ (p.cmd = "WRTE" /\ live)
    /\ k.gotUp[s] = IF p.cmd = "WRTE" /\ live THEN h.gotUp[s] \o p.data ELSE h.gotUp[s]
    /\ k.sent = h.sent /\ k.wrote = h.wrote /\ k.svc = h.svc /\ k.kind = h.kind
    /\ k.gotDown = h.gotDown
  BY DEF Received, Live
<1> HIDE DEF live
<1> DEFINE o == Tail(d.out)
<1>1. d.out \in Seq(Packets) /\ \A c : Is(p, c, s) <=> p.cmd = c
  BY DEF DevOK, Is
<1>2. /\ \A c : Has(d.out, c, s) <=> Has(o, c, s) \/ p.cmd = c
      /\ \A c : Sole(d.out, c, s) => Sole(o, c, s) /\ (p.cmd = c => ~ Has(o, c, s))
      /\ Ends(d.out, s) => Ends(o, s) /\ (p.cmd = "CLSE" => \A c : ~ Has(o, c, s))
      /\ Led(d.out, s) => p.cmd # "WRTE" /\ (p.cmd # "OKAY" => Led(o, s))
  BY <1>1, HasTail, EndsTail, LedTail
<1>3. \A a, b : Chain(d.out, s, a, b) =>
        IF p.cmd = "WRTE" THEN /\ Len(p.data) > 0 /\ Run(p.data, a)
                               /\ Chain(o, s, a + Len(p.data), b)
        ELSE Chain(o, s, a, b)
  BY <1>1, ChainTail
<1>4. o \in Seq(Packets) /\ p \in Packets /\ p.data \in Seq(Chunks)
  BY <1>1, TailIndex DEF Packets
<1>15. e.out = o
  OBVIOUS
<1> HIDE DEF o
<1>5. h.host[s] # "none" /\ ~ Has(q, "OPEN", s)
  BY <1>2 DEF StreamOK, StartOK
<1>6. h.host[s] = "opening" => p.cmd # "WRTE"
  BY <1>2 DEF StreamOK, UpData
<1>7. SocketOK(e, s)
  BY DEF StreamOK, SocketOK
<1>8. StartOK(k, e, q, s)
  <2>1. Sole(q, "OPEN", s) /\ (Has(q, "CLSE", s) => k.host[s] = "closed")
    BY DEF StreamOK, StartOK
  <2>2. k.host[s] # "none"
    BY <1>5
  <2>3. k.host[s] = "opening" => /\ h.host[s] = "opening" /\ k.credit[s] = h.credit[s]
                                 /\ k.owed[s] = h.owed[s] /\ k.gotUp[s] = h.gotUp[s]
    BY <1>6 DEF HostOK
  <2>4. k.host[s] = "opening" =>
          /\ ~ k.credit[s] /\ ~ k.owed[s] /\ k.sent[s] = 0 /\ k.gotUp[s] = <<>>
          /\ ~ Has(q, "OKAY", s) /\ ~ Has(q, "WRTE", s) /\ ~ Has(q, "CLSE", s)
    BY <2>3 DEF StreamOK, StartOK
  <2>5. d.sock[s] = "none" =>
          /\ k.svc[s] = "none" /\ k.kind[s] = "none" /\ k.wrote[s] = 0 /\ k.gotDown[s] = <<>>
          /\ d.up[s] = <<>> /\ d.down[s] = <<>> /\ d.taken[s] = <<>>
    BY DEF StreamOK, StartOK
  <2>6. QED
    BY <1>5, <2>1, <2>2, <2>4, <2>5 DEF StartOK
<1>9. UpFlow(k, e, q, s)
  BY <1>2, <1>15 DEF StreamOK, UpFlow, Reads
<1>10. DownFlow(k, e, q, s)
  BY <1>2, <1>15 DEF StreamOK, DownFlow, Waits
<1>11. CloseOK(e, q, s)
  BY <1>2, <1>15 DEF StreamOK, CloseOK
<1>12. DownData(k, e, q, s)
  BY DEF StreamOK, DownData, Kept, Given, Total
<1>13. UpData(k, e, s)
  <2> DEFINE g == h.gotUp[s]
  <2>1. /\ g \in Seq(Chunks) /\ Len(g) \in Nat /\ Run(g, 0) /\ h.wrote[s] \in Nat
    BY Lengths DEF StreamOK, UpData
  <2>2. CASE ~ live
    BY <1>5, <2>2 DEF StreamOK, UpData, HostOK, HostStates
  <2>3. CASE live
    <3>1. PICK b \in Nat : ToHost(h, d, s, b)
      BY <2>3 DEF StreamOK, UpData
    <3>2. Chain(d.out, s, Len(g), b)
      BY <3>1 DEF ToHost
    <3>3. CASE p.cmd = "WRTE"
      <4>1. /\ h.host[s] = "open" /\ k.host[s] = "open" /\ k.gotUp[s] = g \o p.data
        BY <1>6, <2>3, <3>3
      <4>2. Len(k.gotUp[s]) = Len(g) + Len(p.data)
        <5>1. Len(g \o p.data) = Len(g) + Len(p.data)
          BY <1>4, <2>1, ConcatProperties
        <5>2. QED
          BY <4>1, <5>1
      <4>3. Run(p.data, 0 + Len(g)) /\ Chain(o, s, Len(k.gotUp[s]), b)
        <5>1. 0 + Len(g) = Len(g)
          BY <2>1
        <5>2. Run(p.data, Len(g)) /\ Chain(o, s, Len(g) + Len(p.data), b)
          BY <1>3, <3>2, <3>3
        <5>3. QED
          BY <4>2, <5>1, <5>2
      <4>4. Run(k.gotUp[s], 0)
        BY <1>4, <2>1, <4>1, <4>3, RunConcat
      <4>5. ToHost(k, e, s, b)
        BY <1>2, <1>15, <3>1, <4>3 DEF ToHost
      <4>6. \E c \in Nat : ToHost(k, e, s, c)
        BY <4>5
      <4>7. QED
        BY <4>1, <4>4, <4>6 DEF UpData
    <3>4. CASE p.cmd = "CLSE"
      <4>1. k.host[s] = "refused" /\ k.gotUp[s] = g
        BY <2>3, <3>4
      <4>2. ASSUME h.sent[s] = 0 PROVE Len(g) = h.wrote[s] /\ h.svc[s] # "open"
        <5>1. b = h.wrote[s] /\ h.svc[s] # "open"
          BY <1>2, <3>1, <3>4, <4>2 DEF ToHost
        <5>2. Chain(o, s, Len(g), b) /\ ~ Has(o, "WRTE", s)
          BY <1>2, <1>3, <3>2, <3>4 DEF StreamOK, CloseOK
        <5>3. Len(g) = b
          BY <1>4, <5>2, ChainBounds
        <5>4. QED
          BY <5>1, <5>3
      <4>3. QED
        BY <2>1, <4>1, <4>2 DEF UpData
    <3>5. CASE p.cmd \notin {"WRTE", "CLSE"}
      <4>1. /\ k.gotUp[s] = g /\ Chain(o, s, Len(k.gotUp[s]), b)
            /\ k.host[s] # "refused" /\ (k.host[s] = "opening" => h.host[s] = "opening")
            /\ (k.host[s] = "opening" => p.cmd # "OKAY")
        BY <1>3, <2>3, <3>2, <3>5
      <4>2. ToHost(k, e, s, b)
        BY <1>2, <1>15, <3>1, <4>1 DEF ToHost
      <4>3. \E c \in Nat : ToHost(k, e, s, c)
        BY <4>2
      <4>4. k.host[s] = "opening" => Led(o, s) /\ (e.peer[s] => Has(o, "OKAY", s))
        BY <1>2, <4>1 DEF StreamOK, UpData
      <4>5. QED
        BY <1>15, <2>1, <4>1, <4>3, <4>4 DEF UpData
    <3>6. QED
      BY <3>3, <3>4, <3>5
  <2>4. QED
    BY <2>2, <2>3
<1>14. QED
  BY <1>7, <1>8, <1>9, <1>10, <1>11, <1>12, <1>13 DEF StreamOK

-----------------------------------------------------------------------------
\* From one stream to all of them, and from main's data to the variables.

\* A step of one stream that host or service take part in.
LEMMA MoveAll ==
  ASSUME NEW h, NEW k, NEW d, NEW e, NEW q, NEW r, NEW s \in Streams,
         \A t \in Streams : StreamOK(h, d, q, t),
         \A t \in Streams \ {s} : SameHost(h, k, t),
         Others(d, e, s), \A t \in Streams \ {s} : Alike(q, r, t),
         StreamOK(k, e, r, s)
  PROVE  \A t \in Streams : StreamOK(k, e, r, t)
<1>1. ASSUME NEW t \in Streams \ {s} PROVE StreamOK(k, e, r, t)
  BY <1>1, Frame DEF Others
<1>2. QED
  BY <1>1

\* A step that only touches the fdevents.
LEMMA NewLoop ==
  ASSUME NEW d, DevOK(d), NEW l, LoopOK(l)
  PROVE  LET e == [d EXCEPT !.loop = l] IN
         DevOK(e) /\ e.loop = l /\ e.sock = d.sock /\ e.queue = d.queue /\ Untouched(d, e)
<1> DEFINE e == [d EXCEPT !.loop = l]
<1>1. e.loop = l /\ e.sock = d.sock /\ e.queue = d.queue /\ Untouched(d, e)
  BY DEF DevOK, Untouched
<1>2. e \in [loop : {l}, sock : [Streams -> SockStates], peer : [Streams -> BOOLEAN],
             queue : [Streams -> Seq(Chunks)], up : [Streams -> Seq(Chunks)],
             down : [Streams -> Seq(Chunks)], taken : [Streams -> Seq(Chunks)],
             out : Seq(Packets), closes : [Streams -> Nat]]
  BY DEF DevOK
<1> HIDE DEF e
<1>3. DevOK(e)
  BY <1>1, <1>2 DEF DevOK, Untouched
<1>4. QED
  BY <1>1, <1>3 DEF e

\* What the service writes to the socket.
LEMMA UpFields ==
  ASSUME NEW d, DevOK(d), NEW s \in Streams, NEW y \in Seq(Chunks), Len(y) <= BufCap
  PROVE  LET e == [d EXCEPT !.up[s] = y] IN
         /\ DevOK(e) /\ Others(d, e, s) /\ e.up[s] = y
         /\ e.queue = d.queue /\ e.peer = d.peer /\ e.taken = d.taken /\ e.down = d.down
         /\ e.out = d.out /\ e.closes = d.closes /\ e.loop = d.loop /\ e.sock = d.sock
<1> DEFINE k == [d.up EXCEPT ![s] = y]
           e == [d EXCEPT !.up = k]
<1>1. [d EXCEPT !.up[s] = y] = e
  BY DEF DevOK
<1>2. /\ k \in [Streams -> Seq(Chunks)] /\ k[s] = y
      /\ \A t \in Streams \ {s} : k[t] = d.up[t]
  BY DEF DevOK
<1> HIDE DEF k
<1>3. /\ e.up = k
      /\ e.queue = d.queue /\ e.peer = d.peer /\ e.taken = d.taken /\ e.down = d.down
      /\ e.out = d.out /\ e.closes = d.closes /\ e.loop = d.loop /\ e.sock = d.sock
  BY DEF DevOK
<1>4. e \in [loop : {d.loop}, sock : [Streams -> SockStates], peer : [Streams -> BOOLEAN],
             queue : [Streams -> Seq(Chunks)], up : [Streams -> Seq(Chunks)],
             down : [Streams -> Seq(Chunks)], taken : [Streams -> Seq(Chunks)],
             out : Seq(Packets), closes : [Streams -> Nat]]
  BY <1>2 DEF DevOK
<1> HIDE DEF e
<1>5. \A t \in Streams : Len(k[t]) <= BufCap
  BY <1>2 DEF DevOK
<1>6. DevOK(e)
  BY <1>3, <1>4, <1>5 DEF DevOK
<1>7. Others(d, e, s)
  BY <1>2, <1>3, AlikeSame DEF Others, SameSocket
<1>8. QED
  BY <1>1, <1>2, <1>3, <1>6, <1>7

\* What it reads from it.
LEMMA DownFields ==
  ASSUME NEW d, DevOK(d), NEW s \in Streams, NEW y \in Seq(Chunks), Len(y) <= BufCap
  PROVE  LET e == [d EXCEPT !.down[s] = y] IN
         /\ DevOK(e) /\ Others(d, e, s) /\ e.down[s] = y
         /\ e.queue = d.queue /\ e.peer = d.peer /\ e.taken = d.taken /\ e.up = d.up
         /\ e.out = d.out /\ e.closes = d.closes /\ e.loop = d.loop /\ e.sock = d.sock
<1> DEFINE k == [d.down EXCEPT ![s] = y]
           e == [d EXCEPT !.down = k]
<1>1. [d EXCEPT !.down[s] = y] = e
  BY DEF DevOK
<1>2. /\ k \in [Streams -> Seq(Chunks)] /\ k[s] = y
      /\ \A t \in Streams \ {s} : k[t] = d.down[t]
  BY DEF DevOK
<1> HIDE DEF k
<1>3. /\ e.down = k
      /\ e.queue = d.queue /\ e.peer = d.peer /\ e.taken = d.taken /\ e.up = d.up
      /\ e.out = d.out /\ e.closes = d.closes /\ e.loop = d.loop /\ e.sock = d.sock
  BY DEF DevOK
<1>4. e \in [loop : {d.loop}, sock : [Streams -> SockStates], peer : [Streams -> BOOLEAN],
             queue : [Streams -> Seq(Chunks)], up : [Streams -> Seq(Chunks)],
             down : [Streams -> Seq(Chunks)], taken : [Streams -> Seq(Chunks)],
             out : Seq(Packets), closes : [Streams -> Nat]]
  BY <1>2 DEF DevOK
<1> HIDE DEF e
<1>5. \A t \in Streams : Len(k[t]) <= BufCap
  BY <1>2 DEF DevOK
<1>6. DevOK(e)
  BY <1>3, <1>4, <1>5 DEF DevOK
<1>7. Others(d, e, s)
  BY <1>2, <1>3, AlikeSame DEF Others, SameSocket
<1>8. QED
  BY <1>1, <1>2, <1>3, <1>6, <1>7

\* A packet for the host has left.
LEMMA OutFields ==
  ASSUME NEW d, DevOK(d), d.out # <<>>
  PROVE  LET e == [d EXCEPT !.out = Tail(@)] IN
         /\ DevOK(e) /\ Head(d.out).s \in Streams /\ Others(d, e, Head(d.out).s)
         /\ Head(d.out) \in Packets /\ e.out = Tail(d.out)
         /\ e.queue = d.queue /\ e.peer = d.peer /\ e.taken = d.taken /\ e.up = d.up
         /\ e.down = d.down /\ e.closes = d.closes /\ e.loop = d.loop /\ e.sock = d.sock
<1> DEFINE o == Tail(d.out)
           e == [d EXCEPT !.out = o]
<1>1. d.out \in Seq(Packets) /\ \A i \in DOMAIN d.out : d.out[i].s \in Streams
  BY DEF DevOK, OutOK
<1>2. /\ o \in Seq(Packets) /\ Head(d.out) \in Packets
      /\ Head(d.out).s \in Streams /\ \A i \in DOMAIN o : o[i].s \in Streams
  <2> DEFINE n == Len(d.out)
  <2>1. /\ o \in Seq(Packets) /\ n \in Nat /\ n > 0
        /\ DOMAIN d.out = 1..n /\ DOMAIN o = 1..(n - 1)
        /\ \A i \in 1..(n - 1) : o[i] = d.out[i + 1]
        /\ Head(d.out) = d.out[1] /\ d.out[1] \in Packets
    BY <1>1, TailIndex
  <2> HIDE DEF o, n
  <2>2. 1 \in 1..n /\ \A i \in 1..(n - 1) : i + 1 \in 1..n
    BY <2>1
  <2>3. QED
    BY <1>1, <2>1, <2>2
<1>3. \A t \in Streams \ {Head(d.out).s} : Alike(d.out, o, t)
  BY <1>1, AlikeTail
<1> HIDE DEF o
<1>4. /\ e.out = o
      /\ e.queue = d.queue /\ e.peer = d.peer /\ e.taken = d.taken /\ e.up = d.up
      /\ e.down = d.down /\ e.closes = d.closes /\ e.loop = d.loop /\ e.sock = d.sock
  BY DEF DevOK
<1>5. e \in [loop : {d.loop}, sock : [Streams -> SockStates], peer : [Streams -> BOOLEAN],
             queue : [Streams -> Seq(Chunks)], up : [Streams -> Seq(Chunks)],
             down : [Streams -> Seq(Chunks)], taken : [Streams -> Seq(Chunks)],
             out : Seq(Packets), closes : [Streams -> Nat]]
  BY <1>2 DEF DevOK
<1>6. [d EXCEPT !.out = Tail(@)] = e
  BY DEF DevOK, o
<1> HIDE DEF e
<1>7. DevOK(e)
  BY <1>2, <1>4, <1>5 DEF DevOK, OutOK
<1>8. Others(d, e, Head(d.out).s)
  BY <1>3, <1>4 DEF Others, SameSocket
<1>9. QED
  BY <1>2, <1>4, <1>6, <1>7, <1>8 DEF o

\* The host's packets.
LEMMA InboxFields ==
  ASSUME NEW q, QueueOK(q)
  PROVE  /\ q # <<>> => /\ QueueOK(Tail(q)) /\ Head(q) \in Packets
                        /\ Head(q).cmd # "SYNC0" => Head(q).s \in Streams
         /\ \A p \in Packets : (p.cmd # "SYNC0" => p.s \in Streams) => QueueOK(Append(q, p))
<1>1. q \in Seq(Packets) /\ \A i \in DOMAIN q : q[i].cmd # "SYNC0" => q[i].s \in Streams
  BY DEF QueueOK
<1> DEFINE n == Len(q)
<1>2. ASSUME q # <<>>
      PROVE  /\ QueueOK(Tail(q)) /\ Head(q) \in Packets
             /\ Head(q).cmd # "SYNC0" => Head(q).s \in Streams
  <2> DEFINE r == Tail(q)
  <2>1. /\ r \in Seq(Packets) /\ n \in Nat /\ n > 0
        /\ DOMAIN q = 1..n /\ DOMAIN r = 1..(n - 1)
        /\ \A i \in 1..(n - 1) : r[i] = q[i + 1]
        /\ Head(q) = q[1] /\ q[1] \in Packets
    BY <1>1, <1>2, TailIndex
  <2> HIDE DEF r, n
  <2>2. 1 \in 1..n /\ \A i \in 1..(n - 1) : i + 1 \in 1..n
    BY <2>1
  <2>3. QueueOK(r)
    BY <1>1, <2>1, <2>2 DEF QueueOK
  <2>4. QED
    BY <1>1, <2>1, <2>2, <2>3 DEF r
<1>3. ASSUME NEW p \in Packets, p.cmd # "SYNC0" => p.s \in Streams
      PROVE  QueueOK(Append(q, p))
  <2> DEFINE r == Append(q, p)
  <2>1. /\ r \in Seq(Packets) /\ n \in Nat /\ DOMAIN q = 1..n /\ DOMAIN r = 1..(n + 1)
        /\ (\A i \in 1..n : r[i] = q[i]) /\ r[n + 1] = p
    BY <1>1, AppendIndex
  <2> HIDE DEF r, n
  <2>2. \A i \in 1..(n + 1) : i \in 1..n \/ i = n + 1
    BY <2>1
  <2>3. QueueOK(r)
    BY <1>1, <1>3, <2>1, <2>2 DEF QueueOK
  <2>4. QED
    BY <2>3 DEF r
<1>4. QED
  BY <1>2, <1>3

-----------------------------------------------------------------------------
\* handle_packet, for what is not an OPEN.

\* handle_packet keeps the invariant of all streams, OPEN aside.
LEMMA HandleStep ==
  ASSUME NEW h, HostOK(h), h.svc = svc, NEW d, NEW q, QueueOK(q), q # <<>>, AllOK(h, d, q),
         Head(q).cmd # "OPEN"
  PROVE  AllOK(h, HandlePacket(d, Head(q)), Tail(q))
<1> DEFINE p == Head(q)
           s == p.s
           r == Tail(q)
<1>1. /\ q \in Seq(Packets) /\ p \in Packets
      /\ p.cmd # "SYNC0" => s \in Streams
  BY InboxFields DEF QueueOK
<1>2. DevOK(d) /\ \A t \in Streams : StreamOK(h, d, q, t)
  BY DEF AllOK
<1>3. \A c, t : Is(p, c, t) <=> p.cmd = c /\ s = t
  BY DEF Is
<1>4. \A t \in Streams \ {s} : Alike(q, r, t)
  BY <1>1, AlikeTail
<1>5. \A t \in Streams : ~ (p.cmd = "WRTE" /\ s = t /\ d.peer[t]) => StreamOK(h, d, r, t)
  BY <1>1, <1>2, <1>3, PopStep
<1>6. \A t \in Streams : d.peer[t] => d.sock[t] = "open" /\ t \in d.loop.active
  BY <1>2 DEF StreamOK, SocketOK
<1> DEFINE e == HandlePacket(d, p)
<1>7. CASE p.cmd = "OKAY" /\ Connected(d, s)
  <2>1. e = LocalReady(d, s)
    BY <1>7 DEF HandlePacket
  <2>2. s \in Streams /\ d.peer[s] /\ s \in d.loop.active /\ StreamOK(h, d, r, s)
    BY <1>1, <1>5, <1>6, <1>7 DEF Connected
  <2>3. ~ Subprocess(h.kind[s]) =>
           ~ Has(d.out, "WRTE", s) /\ ~ h.owed[s] /\ ~ Has(r, "OKAY", s)
    <3>1. Has(q, "OKAY", s) /\ (Sole(q, "OKAY", s) => ~ Has(r, "OKAY", s))
      BY <1>1, <1>3, <1>7, HasTail
    <3>2. UpFlow(h, d, q, s)
      BY <1>2, <2>2 DEF StreamOK
    <3>3. QED
      BY <3>1, <3>2 DEF UpFlow
  <2>4. Good(h, d, LocalReady(d, s), r, s)
    BY <1>2, <2>2, <2>3, ReadyStep
  <2>5. QED
    BY <1>2, <1>4, <2>1, <2>2, <2>4, GoodForAll
<1>8. CASE p.cmd = "CLSE" /\ Connected(d, s)
  <2>1. e = Close(d, s)
    BY <1>8 DEF HandlePacket
  <2>2. s \in Streams /\ d.sock[s] = "open" /\ StreamOK(h, d, r, s)
    BY <1>1, <1>5, <1>8 DEF Connected
  <2>3. Has(q, "CLSE", s)
    BY <1>1, <1>3, <1>8, HasTail
  <2>4. h.host[s] = "closed"
    BY <1>2, <2>2, <2>3 DEF StreamOK, StartOK
  <2>5. Working(h, d, r, s)
    BY <1>2, <2>2, WorkingStream
  <2>6. Good(h, d, Close(d, s), r, s)
    BY <1>2, <2>2, <2>4, <2>5, CloseStep
  <2>7. QED
    BY <1>2, <1>4, <2>1, <2>2, <2>6, GoodForAll
<1>9. CASE p.cmd = "WRTE" /\ Connected(d, s)
  <2>1. e = Enqueue(d, s, p.data)
    BY <1>9 DEF HandlePacket
  <2>2. s \in Streams /\ d.peer[s] /\ StreamOK(h, d, q, s) /\ Is(Head(q), "WRTE", s)
    BY <1>1, <1>2, <1>3, <1>9 DEF Connected
  <2>3. Good(h, d, Enqueue(d, s, Head(q).data), r, s)
    BY <1>1, <1>2, <2>2, EnqueueStep
  <2>4. QED
    BY <1>2, <1>4, <2>1, <2>2, <2>3, GoodForAll
<1>10. CASE p.cmd = "SYNC0"
  <2>1. e = Offline(d)
    BY <1>10 DEF HandlePacket
  <2>2. AllOK(h, d, r)
    BY <1>2, <1>5, <1>10 DEF AllOK
  <2>3. QED
    BY <2>1, <2>2, OfflineStep
<1>11. CASE ~ (p.cmd \in {"OKAY", "CLSE", "WRTE"} /\ Connected(d, s)) /\ p.cmd # "SYNC0"
  <2>1. e = d
    BY <1>11 DEF HandlePacket
  <2>2. \A t \in Streams : ~ (p.cmd = "WRTE" /\ s = t /\ d.peer[t])
    BY <1>6, <1>11 DEF Connected
  <2>3. AllOK(h, d, r)
    BY <1>2, <1>5, <2>2 DEF AllOK
  <2>4. QED
    BY <2>1, <2>3
<1>12. QED
  BY <1>7, <1>8, <1>9, <1>10, <1>11

\* A callback begins, for all streams.
LEMMA CalledStep ==
  ASSUME NEW h, NEW d, NEW q, AllOK(h, d, q), NEW f \in Fds
  PROVE  AllOK(h, CallOf(d, f), q)
  BY CallStep, CallFields DEF AllOK

-----------------------------------------------------------------------------
\* The initial states.

\* main waits for packets only.
LEMMA FirstLoop ==
  LET L == FdAdd(FdInstall(EmptyLoop(Fds), TransportFd), TransportFd, {"R"}) IN
  /\ LoopOK(L) /\ L.active = {TransportFd}
  /\ \A s \in Streams : L.wanted[s] = {} /\ L.events[s] = {}
<1> DEFINE K == EmptyLoop(Fds)
           M == FdInstall(K, TransportFd)
           L == FdAdd(M, TransportFd, {"R"})
<1>1. /\ TransportFd \in Fds /\ Streams \subseteq Fds
      /\ \A s \in Streams : s # TransportFd
  BY SocketsAssumption DEF Fds
<1>2. /\ LoopOK(K) /\ K.active = {} /\ K.wanted = [f \in Fds |-> {}]
      /\ K.events = [f \in Fds |-> {}]
  BY DEF EmptyLoop, LoopOK
<1> HIDE DEF K
<1>3. /\ LoopOK(M) /\ M.active = {TransportFd}
      /\ M.wanted = [K.wanted EXCEPT ![TransportFd] = {}]
      /\ M.events = [K.events EXCEPT ![TransportFd] = {}]
  <2>1. TransportFd \notin K.active
    BY <1>2
  <2>2. /\ LoopOK(M) /\ M.active = K.active \cup {TransportFd}
        /\ M.wanted = [K.wanted EXCEPT ![TransportFd] = {}]
        /\ M.events = [K.events EXCEPT ![TransportFd] = {}]
    BY <1>1, <1>2, <2>1, InstallLoop
  <2>3. QED
    BY <1>2, <2>2
<1>4. \A f \in Fds : M.wanted[f] = {} /\ M.events[f] = {}
  BY <1>2, <1>3
<1> HIDE DEF M
<1>5. L = FdSet(M, TransportFd, {"R"})
  BY <1>1, <1>4 DEF FdAdd
<1> HIDE DEF L
<1>6. {"R"} \in SUBSET Events /\ TransportFd \in M.active
  BY <1>3 DEF Events
<1>7. /\ LoopOK(L) /\ L.active = M.active
      /\ L.wanted = [M.wanted EXCEPT ![TransportFd] = {"R"}]
      /\ \A g \in Fds \ {TransportFd} : L.events[g] = M.events[g]
  <2> DEFINE evs == {"R"}
             N == FdSet(M, TransportFd, evs)
  <2>1. evs \in SUBSET Events
    BY <1>6
  <2> HIDE DEF evs
  <2>2. /\ LoopOK(N) /\ N.active = M.active
        /\ N.wanted = [M.wanted EXCEPT ![TransportFd] = evs]
        /\ N.events[TransportFd] \subseteq M.events[TransportFd]
        /\ \A g \in Fds \ {TransportFd} : N.events[g] = M.events[g]
    <3>1. LoopOK(M) /\ TransportFd \in M.active
      BY <1>3
    <3>2. QED
      BY <2>1, <3>1, SetLoop
  <2>3. QED
    BY <1>5, <2>2 DEF evs
<1>8. \A s \in Streams : L.wanted[s] = {} /\ L.events[s] = {}
  BY <1>1, <1>3, <1>4, <1>7 DEF LoopOK
<1>9. QED
  BY <1>3, <1>7, <1>8 DEF K, M, L

\* Every initial state has the invariant.
LEMMA SocketsInit == Init => SocketsInv
<1> SUFFICES ASSUME Init PROVE SocketsInv
  OBVIOUS
<1>1. <<>> \in Seq(Chunks) /\ <<>> \in Seq(Packets) /\ Len(<<>>) = 0 /\ 0 \in Nat
  OBVIOUS
<1>2. MaxUp \in Nat /\ MaxDown \in Nat /\ BufCap \in Nat /\ 0 <= MaxUp /\ 0 <= MaxDown
      /\ 0 <= BufCap
  BY SocketsAssumption
<1>3. 0 \in 0..MaxUp /\ 0 \in 0..MaxDown
  BY <1>2
<1> DEFINE h == Ambient
<1>4. HostOK(h)
  BY <1>1, <1>3 DEF Init, Ambient, HostOK, HostStates
<1>5. /\ LoopOK(dev.loop) /\ dev.loop.active = {TransportFd}
      /\ \A s \in Streams : dev.loop.wanted[s] = {} /\ dev.loop.events[s] = {}
  BY FirstLoop DEF Init
<1>6. /\ dev.sock = [s \in Streams |-> "none"] /\ dev.peer = [s \in Streams |-> FALSE]
      /\ dev.queue = [s \in Streams |-> <<>>] /\ dev.up = [s \in Streams |-> <<>>]
      /\ dev.down = [s \in Streams |-> <<>>] /\ dev.out = <<>>
      /\ dev.taken = [s \in Streams |-> <<>>] /\ dev.closes = [s \in Streams |-> 0]
  BY DEF Init
<1>7. DevOK(dev)
  <2>1. dev = [loop |-> dev.loop, sock |-> dev.sock, peer |-> dev.peer,
               queue |-> dev.queue, up |-> dev.up, down |-> dev.down, out |-> dev.out,
               taken |-> dev.taken, closes |-> dev.closes]
    BY DEF Init
  <2>2. /\ dev.sock \in [Streams -> SockStates] /\ dev.peer \in [Streams -> BOOLEAN]
        /\ dev.queue \in [Streams -> Seq(Chunks)] /\ dev.up \in [Streams -> Seq(Chunks)]
        /\ dev.down \in [Streams -> Seq(Chunks)] /\ dev.taken \in [Streams -> Seq(Chunks)]
        /\ dev.out \in Seq(Packets) /\ dev.closes \in [Streams -> Nat]
    BY <1>1, <1>6 DEF SockStates
  <2>3. OutOK(dev.out)
    BY <1>1, <1>6 DEF OutOK
  <2>4. \A s \in Streams : Len(dev.up[s]) <= BufCap /\ Len(dev.down[s]) <= BufCap
    BY <1>1, <1>2, <1>6
  <2>5. QED
    BY <1>5, <2>1, <2>2, <2>3, <2>4 DEF DevOK
<1>8. QueueOK(inbox) /\ inbox = <<>> /\ link \in {"up", "broken"} /\ exits = {}
  BY <1>1 DEF Init, QueueOK
<1>9. ASSUME NEW s \in Streams PROVE StreamOK(h, dev, inbox, s)
  <2>1. \A c : ~ Has(<<>>, c, s) /\ Sole(<<>>, c, s)
    BY DEF Has, Sole
  <2>2. Ends(<<>>, s) /\ Led(<<>>, s) /\ Run(<<>>, 0) /\ Chain(<<>>, s, 0, 0)
    <3>1. Chain(<<>>, s, 0, 0)
      BY <1>1, <2>1, ChainNone
    <3>2. QED
      BY <3>1 DEF Ends, Led, Run
  <2>3. /\ h.host[s] = "none" /\ h.credit[s] = FALSE /\ h.owed[s] = FALSE /\ h.sent[s] = 0
        /\ h.gotUp[s] = <<>> /\ h.svc[s] = "none" /\ h.kind[s] = "none"
        /\ h.wrote[s] = 0 /\ h.gotDown[s] = <<>>
    BY DEF Init, Ambient
  <2>4. /\ dev.sock[s] = "none" /\ dev.peer[s] = FALSE /\ dev.queue[s] = <<>>
        /\ dev.up[s] = <<>> /\ dev.down[s] = <<>> /\ dev.taken[s] = <<>>
        /\ dev.closes[s] = 0 /\ dev.out = <<>> /\ s \notin dev.loop.active
        /\ dev.loop.wanted[s] = {} /\ dev.loop.events[s] = {}
    BY <1>5, <1>6, SocketsAssumption
  <2> HIDE DEF h
  <2>5. SocketOK(dev, s)
    BY <2>4 DEF SocketOK
  <2>6. StartOK(h, dev, inbox, s)
    BY <1>8, <2>1, <2>3, <2>4 DEF StartOK
  <2>7. UpFlow(h, dev, inbox, s) /\ DownFlow(h, dev, inbox, s)
    BY <1>8, <2>1, <2>3, <2>4 DEF UpFlow, DownFlow, Reads
  <2>8. CloseOK(dev, inbox, s)
    BY <1>8, <2>1, <2>2, <2>4 DEF CloseOK
  <2>9. UpData(h, dev, s)
    <3>1. ToHost(h, dev, s, 0)
      BY <1>1, <2>1, <2>2, <2>3, <2>4 DEF ToHost
    <3>2. QED
      BY <1>1, <2>2, <2>3, <3>1 DEF UpData
  <2>10. DownData(h, dev, inbox, s)
    BY <1>1, <2>2, <2>3, <2>4 DEF DownData, Kept, Given, Total
  <2>11. QED
    BY <2>5, <2>6, <2>7, <2>8, <2>9, <2>10 DEF StreamOK
<1>10. QED
  BY <1>4, <1>7, <1>8, <1>9 DEF SocketsInv

-----------------------------------------------------------------------------
\* The steps of main.

\* main changes nothing of the host and the services.
LEMMA SameAmbient ==
  ASSUME UNCHANGED <<hostVars, svcVars>>
  PROVE  Ambient' = Ambient
  BY DEF Ambient, hostVars, svcVars

\* The facts of the invariant, for the lemmas above.
LEMMA InvFacts ==
  ASSUME SocketsInv
  PROVE  /\ HostOK(Ambient) /\ Ambient.svc = svc /\ AllOK(Ambient, dev, inbox)
         /\ QueueOK(inbox) /\ inbox \in Seq(Packets)
         /\ LoopOK(dev.loop) /\ \A s \in Streams : StreamOK(Ambient, dev, inbox, s)
<1>1. HostOK(Ambient) /\ AllOK(Ambient, dev, inbox) /\ QueueOK(inbox)
  BY DEF SocketsInv, AllOK
<1>2. Ambient.svc = svc
  BY DEF Ambient
<1>3. QED
  BY <1>1, <1>2 DEF AllOK, QueueOK, DevOK

\* What is left to show when main does not touch the host or a service.
LEMMA MainKeeps ==
  ASSUME SocketsInv, Ambient' = Ambient, kind' = kind, link' = link, exits' \subseteq exits,
         QueueOK(inbox)', AllOK(Ambient, dev', inbox')
  PROVE  SocketsInv'
<1>1. HostOK(Ambient)'
  BY DEF SocketsInv, HostOK
<1>2. (DevOK(dev) /\ \A s \in Streams : StreamOK(Ambient, dev, inbox, s))'
  BY DEF AllOK
<1>3. (link \in {"up", "broken"} /\ exits \subseteq {s \in Streams : Subprocess(kind[s])})'
  BY DEF SocketsInv
<1>4. QED
  BY <1>1, <1>2, <1>3 DEF SocketsInv

\* A round of select keeps it.
LEMMA SelectKeeps ==
  ASSUME SocketsInv, Select PROVE SocketsInv'
<1> DEFINE h == Ambient
           l == FdNotice(dev.loop, FdHits(dev.loop, Ready, {}))
           e == [dev EXCEPT !.loop = l]
<1>1. HostOK(h) /\ AllOK(h, dev, inbox) /\ LoopOK(dev.loop)
  BY InvFacts
<1>2. Ready \in [Fds -> SUBSET Events]
  <2>1. Ready = [f \in Fds |-> Ready[f]] /\ \A f \in Fds : Ready[f] \in SUBSET Events
    BY DEF Ready, Events
  <2>2. QED
    BY <2>1
<1>3. /\ dev' = e /\ Ambient' = Ambient /\ inbox' = inbox /\ link' = link
      /\ kind' = kind /\ exits' = exits
  <2>1. dev' = e
    BY DEF Select
  <2>2. QED
    BY <2>1, SameAmbient DEF Select, svcVars
<1>4. /\ LoopOK(l) /\ l.active = dev.loop.active /\ l.wanted = dev.loop.wanted
      /\ \A f \in Fds : l.events[f] \subseteq dev.loop.events[f] \cup dev.loop.wanted[f]
  BY <1>1, <1>2, NoticeLoop
<1> HIDE DEF l
<1>5. DevOK(e) /\ e.loop = l /\ e.sock = dev.sock /\ e.queue = dev.queue /\ Untouched(dev, e)
  BY <1>1, <1>4, NewLoop DEF AllOK
<1> HIDE DEF e, h
<1>6. ASSUME NEW s \in Streams PROVE StreamOK(h, e, inbox, s)
  <2>1. \A v \in e.loop.events[s] : v \in dev.loop.events[s] \cup dev.loop.wanted[s]
    BY <1>4, <1>5, StreamIsFd
  <2>2. QED
    BY <1>1, <1>4, <1>5, <2>1, LoopStep DEF AllOK
<1>7. AllOK(h, e, inbox)
  BY <1>5, <1>6 DEF AllOK
<1>8. QED
  <2>1. QueueOK(inbox)'
    BY <1>3 DEF SocketsInv, QueueOK
  <2>2. AllOK(Ambient, dev', inbox')
    BY <1>3, <1>7 DEF h
  <2>3. QED
    BY <1>3, <2>1, <2>2, MainKeeps

\* The callback of a local socket keeps it.
LEMMA SocketEventKeeps ==
  ASSUME SocketsInv, NEW s \in Streams, SocketEvent(s) PROVE SocketsInv'
<1> DEFINE h == Ambient
           d == CallOf(dev, s)
           ev == dev.loop.events[s]
           e == EventFunc(d, s, ev)
<1>1. HostOK(h) /\ h.svc = svc /\ AllOK(h, dev, inbox) /\ LoopOK(dev.loop)
      /\ inbox \in Seq(Packets) /\ StreamOK(h, dev, inbox, s) /\ DevOK(dev)
  BY InvFacts DEF AllOK
<1>2. /\ dev' = e /\ Ambient' = Ambient /\ inbox' = inbox /\ link' = link
      /\ kind' = kind /\ exits' = exits
  <2>1. dev' = e
    BY DEF SocketEvent, Called, CallOf
  <2>2. QED
    BY <2>1, SameAmbient DEF SocketEvent, svcVars
<1>3. AllOK(h, d, inbox) /\ s \in Fds
  BY <1>1, CalledStep, StreamIsFd
<1>4. /\ d.peer = dev.peer /\ d.queue = dev.queue /\ d.loop.active = dev.loop.active
      /\ d.loop.wanted = dev.loop.wanted /\ d.loop.events[s] = {}
  BY <1>1, <1>3, CallFields DEF Untouched
<1>5. s \in dev.loop.active
  BY <1>1 DEF SocketEvent, LoopOK
<1> HIDE DEF h, d
<1>6. "W" \in ev => d.queue[s] # <<>>
  BY <1>1, <1>4 DEF StreamOK, SocketOK
<1>7. "R" \in ev /\ d.peer[s] /\ ~ Subprocess(h.kind[s]) => "R" \in d.loop.wanted[s]
  BY <1>1, <1>4 DEF StreamOK, UpFlow, Reads
<1> HIDE DEF ev
<1>8. Good(h, d, e, inbox, s)
  BY <1>1, <1>3, <1>4, <1>5, <1>6, <1>7, EventStep DEF AllOK
<1> HIDE DEF e
<1>9. AllOK(h, e, inbox)
  BY <1>3, <1>8, AlikeSame, GoodForAll DEF AllOK
<1>10. QED
  <2>1. QueueOK(inbox)'
    BY <1>2 DEF SocketsInv, QueueOK
  <2>2. AllOK(Ambient, dev', inbox')
    BY <1>2, <1>9 DEF h
  <2>3. QED
    BY <1>2, <2>1, <2>2, MainKeeps

\* The exit of a subprocess keeps it, whatever main does with it.
LEMMA SubprocessExitKeeps ==
  ASSUME SocketsInv, NEW s \in Streams, SubprocessExit(s) PROVE SocketsInv'
<1> DEFINE h == Ambient
           nudged == [dev EXCEPT !.loop.events[s] = @ \cup {"R"}]
<1>1. /\ HostOK(h) /\ h.svc = svc /\ h.kind = kind /\ AllOK(h, dev, inbox)
      /\ LoopOK(dev.loop) /\ inbox \in Seq(Packets) /\ StreamOK(h, dev, inbox, s)
      /\ DevOK(dev)
  BY InvFacts DEF AllOK, Ambient
<1>2. /\ Ambient' = Ambient /\ inbox' = inbox /\ link' = link
      /\ kind' = kind /\ exits' = exits \ {s}
      /\ dev' = IF s \notin dev.loop.active \/ dev.up[s] # <<>> THEN dev
                ELSE IF s \in dev.loop.pending THEN nudged
                ELSE EventFunc(dev, s, {"R"})
  <2>1. UNCHANGED <<inbox, link, hostVars, svc, kind, wrote, gotDown>>
    BY DEF SubprocessExit
  <2>2. Ambient' = Ambient
    BY <2>1 DEF Ambient, hostVars
  <2>3. QED
    BY <2>1, <2>2 DEF SubprocessExit
<1>3. Subprocess(h.kind[s])
  BY <1>1 DEF SubprocessExit, SocketsInv
<1> HIDE DEF h
<1>4. AllOK(h, dev', inbox)
  <2>1. CASE dev' = dev
    BY <1>1, <2>1 DEF h
  <2>2. CASE s \in dev.loop.pending /\ dev' = nudged
    <3> DEFINE l == [dev.loop EXCEPT !.events[s] = @ \cup {"R"}]
               e == [dev EXCEPT !.loop = l]
    <3>1. nudged = e
      BY <1>1 DEF DevOK
    <3>2. /\ LoopOK(l) /\ l.active = dev.loop.active /\ l.wanted = dev.loop.wanted
          /\ l.events = [dev.loop.events EXCEPT ![s] = @ \cup {"R"}]
      BY <1>1, <2>2, NudgeLoop
    <3> HIDE DEF l
    <3>3. DevOK(e) /\ e.loop = l /\ e.sock = dev.sock /\ e.queue = dev.queue
          /\ Untouched(dev, e)
      BY <1>1, <3>2, NewLoop
    <3> HIDE DEF e
    <3>4. ASSUME NEW t \in Streams PROVE StreamOK(h, e, inbox, t)
      <4>1. \A v \in e.loop.events[t] :
              \/ v \in dev.loop.events[t] \cup dev.loop.wanted[t]
              \/ v = "R" /\ Subprocess(h.kind[t])
        BY <1>1, <1>3, <3>2, <3>3, StreamIsFd DEF LoopOK
      <4>2. QED
        BY <1>1, <3>2, <3>3, <4>1, LoopStep DEF AllOK
    <3>5. QED
      BY <2>2, <3>1, <3>3, <3>4 DEF AllOK
  <2>3. CASE s \in dev.loop.active /\ dev' = EventFunc(dev, s, {"R"})
    <3> DEFINE ev == {"R"}
               e == EventFunc(dev, s, ev)
    <3>1. "W" \notin ev
      OBVIOUS
    <3> HIDE DEF ev
    <3>2. Good(h, dev, e, inbox, s)
      BY <1>1, <1>3, <2>3, <3>1, EventStep
    <3> HIDE DEF e
    <3>3. AllOK(h, e, inbox)
      BY <1>1, <3>2, AlikeSame, GoodForAll DEF AllOK
    <3>4. QED
      BY <2>3, <3>3 DEF e, ev
  <2>4. QED
    BY <1>1, <1>2, <2>1, <2>2, <2>3
<1>5. QED
  <2>1. QueueOK(inbox)'
    BY <1>2 DEF SocketsInv, QueueOK
  <2>2. AllOK(Ambient, dev', inbox')
    BY <1>2, <1>4 DEF h
  <2>3. QED
    BY <1>2, <2>1, <2>2, MainKeeps

\* The host or a service changes; the rest is as for main.
LEMMA AmbientKeeps ==
  ASSUME HostOK(Ambient'), link' \in {"up", "broken"}, QueueOK(inbox)',
         exits' \subseteq {s \in Streams : Subprocess(kind'[s])},
         AllOK(Ambient', dev', inbox')
  PROVE  SocketsInv'
<1>1. HostOK(Ambient)'
  BY DEF HostOK
<1>2. (DevOK(dev) /\ \A s \in Streams : StreamOK(Ambient, dev, inbox, s))'
  BY DEF AllOK
<1>3. (link \in {"up", "broken"} /\ exits \subseteq {s \in Streams : Subprocess(kind[s])})'
  OBVIOUS
<1>4. QED
  BY <1>1, <1>2, <1>3 DEF SocketsInv

\* A packet of the host keeps it, an OPEN included.
LEMMA TransportEventKeeps ==
  ASSUME SocketsInv, TransportEvent PROVE SocketsInv'
<1> DEFINE h == Ambient
           k == Ambient'
           d == CallOf(dev, TransportFd)
           q == inbox
           p == Head(inbox)
           r == Tail(inbox)
<1>1. HostOK(h) /\ h.svc = svc /\ AllOK(h, dev, q) /\ QueueOK(q) /\ q \in Seq(Packets)
  BY InvFacts
<1>2. q # <<>> /\ inbox' = r /\ link' = link /\ wrote' = wrote /\ gotDown' = gotDown
      /\ UNCHANGED hostVars
  BY DEF TransportEvent
<1>3. QueueOK(r) /\ (p.cmd # "SYNC0" => p.s \in Streams)
  BY <1>1, <1>2, InboxFields
<1>4. AllOK(h, d, q) /\ Called(TransportFd) = d
  BY <1>1, CalledStep, SocketsAssumption DEF Fds, Called, CallOf
<1>5. QueueOK(inbox)'
  BY <1>2, <1>3 DEF QueueOK
<1>6. CASE p.cmd = "OPEN" /\ ServiceStarts(p.s)
  <2> DEFINE s == p.s
             e == Accepted(d, s)
  <2>1. s \in Streams /\ Is(p, "OPEN", s) /\ StreamOK(h, d, q, s) /\ DevOK(d)
    BY <1>3, <1>4, <1>6 DEF Is, AllOK
  <2>2. PICK c \in Kinds : /\ kind' = [kind EXCEPT ![s] = c]
                           /\ exits' = IF Subprocess(c) THEN exits \cup {s} ELSE exits
    BY <1>6 DEF ServiceStarts
  <2>3. dev' = e /\ svc' = [svc EXCEPT ![s] = "open"]
    BY <1>4, <1>6 DEF ServiceStarts
  <2>4. /\ k.host = h.host /\ k.credit = h.credit /\ k.owed = h.owed /\ k.sent = h.sent
        /\ k.gotUp = h.gotUp /\ k.wrote = h.wrote /\ k.gotDown = h.gotDown
        /\ k.svc = [h.svc EXCEPT ![s] = "open"] /\ k.kind = [h.kind EXCEPT ![s] = c]
    BY <1>2, <2>2, <2>3 DEF Ambient, hostVars
  <2>5. h.kind = kind /\ k.kind = kind' /\ k = Ambient'
    BY DEF Ambient
  <2> HIDE DEF h, k, d, e, s, q
  <2>6. h.kind[s] = "none" /\ q # <<>>
    <3>1. q # <<>> /\ Is(Head(q), "OPEN", s)
      BY <1>2, <2>1 DEF q
    <3>2. Fresh(h, d, Tail(q), s)
      BY <1>1, <2>1, <3>1, OpenFinds
    <3>3. QED
      BY <3>1, <3>2 DEF Fresh
  <2> HIDE DEF p, r
  <2>7. HostOK(k)
    BY <1>1, <2>1, <2>4, SMTT(30) DEF HostOK
  <2>8. Good(k, d, e, r, s)
    BY <1>1, <2>1, <2>4, <2>6, <2>7, AcceptedStep DEF e, p, q, r
  <2>9. \A t \in Streams \ {s} : SameHost(h, k, t)
    BY <2>4, <1>1 DEF SameHost, HostOK
  <2>10. \A t \in Streams \ {s} : Alike(q, r, t)
    BY <1>1, <2>1, <2>6, AlikeTail DEF p, q, r, s
  <2>11. \A t \in Streams : StreamOK(h, d, q, t)
    BY <1>4 DEF AllOK
  <2>12. AllOK(k, e, r)
    BY <2>1, <2>8, <2>9, <2>10, <2>11, MoveAll DEF AllOK, Good
  <2>13. exits' \subseteq {t \in Streams : Subprocess(kind'[t])}
    <3>1. exits \subseteq {t \in Streams : Subprocess(kind[t])}
      BY DEF SocketsInv
    <3>2. kind \in [Streams -> Kinds \cup {"none"}]
      BY <1>1, <2>5 DEF HostOK
    <3>3. s \notin exits
      BY <2>5, <2>6, <3>1 DEF Subprocess
    <3>4. QED
      BY <2>1, <2>2, <3>1, <3>2, <3>3
  <2>14. link' \in {"up", "broken"}
    BY <1>2 DEF SocketsInv
  <2>15. AllOK(Ambient', dev', inbox') /\ HostOK(Ambient')
    BY <1>2, <2>3, <2>5, <2>7, <2>12
  <2>16. QED
    BY <1>5, <2>13, <2>14, <2>15, AmbientKeeps
<1>7. CASE p.cmd = "OPEN" /\ ServiceFails(p.s)
  <2> DEFINE s == p.s
             e == SendClose(d, s)
  <2>1. s \in Streams /\ Is(p, "OPEN", s) /\ StreamOK(h, d, q, s) /\ DevOK(d)
    BY <1>3, <1>4, <1>7 DEF Is, AllOK
  <2>2. dev' = e /\ UNCHANGED <<svc, kind, exits>>
    BY <1>4, <1>7 DEF ServiceFails
  <2>3. Ambient' = Ambient
    BY <1>2, <2>2 DEF Ambient, hostVars
  <2> HIDE DEF h, k, d, e, s
  <2>4. Good(h, d, e, r, s)
    BY <1>1, <1>2, <2>1, RefusedStep DEF e
  <2>5. \A t \in Streams \ {s} : Alike(q, r, t)
    BY <1>1, <1>2, AlikeTail DEF s
  <2>6. AllOK(h, e, r)
    BY <1>4, <2>1, <2>4, <2>5, GoodForAll DEF AllOK
  <2>7. AllOK(Ambient, dev', inbox')
    BY <1>2, <2>2, <2>6 DEF h
  <2>8. QED
    BY <1>2, <1>5, <2>2, <2>3, <2>7, MainKeeps
<1>8. CASE p.cmd # "OPEN" /\ dev' = HandlePacket(d, p) /\ UNCHANGED <<svc, kind, exits>>
  <2>1. Ambient' = Ambient
    BY <1>2, <1>8 DEF Ambient, hostVars
  <2> HIDE DEF h, d
  <2>2. AllOK(h, HandlePacket(d, p), r)
    BY <1>1, <1>2, <1>4, <1>8, HandleStep
  <2>3. AllOK(Ambient, dev', inbox')
    BY <1>2, <1>8, <2>2 DEF h
  <2>4. QED
    BY <1>2, <1>5, <1>8, <2>1, <2>3, MainKeeps
<1>9. QED
  <2>1. \/ p.cmd = "OPEN" /\ (ServiceStarts(p.s) \/ ServiceFails(p.s))
        \/ p.cmd # "OPEN" /\ dev' = HandlePacket(d, p) /\ UNCHANGED <<svc, kind, exits>>
    BY <1>4 DEF TransportEvent
  <2>2. QED
    BY <1>6, <1>7, <1>8, <2>1

-----------------------------------------------------------------------------
\* The steps of a service and of the host, each for one stream.

\* A step that concerns one stream keeps it when it keeps that of the stream.
LEMMA OneKeeps ==
  ASSUME SocketsInv, NEW s \in Streams, HostOK(Ambient'), DevOK(dev'), QueueOK(inbox)',
         UNCHANGED <<link, kind, exits>>,
         \A t \in Streams \ {s} : SameHost(Ambient, Ambient', t),
         Others(dev, dev', s), \A t \in Streams \ {s} : Alike(inbox, inbox', t),
         StreamOK(Ambient', dev', inbox', s)
  PROVE  SocketsInv'
<1>1. \A t \in Streams : StreamOK(Ambient, dev, inbox, t)
  BY DEF SocketsInv
<1>2. \A t \in Streams : StreamOK(Ambient', dev', inbox', t)
  BY <1>1, MoveAll
<1>3. AllOK(Ambient', dev', inbox')
  BY <1>2 DEF AllOK
<1>4. link' \in {"up", "broken"} /\ exits' \subseteq {t \in Streams : Subprocess(kind'[t])}
  BY DEF SocketsInv
<1>5. QED
  BY <1>3, <1>4, AmbientKeeps

\* Nothing happens to main's data.
LEMMA OthersSame == \A d, s : Others(d, d, s)
  BY AlikeSame DEF Others, SameSocket

\* A service writes.
LEMMA SvcWriteKeeps ==
  ASSUME SocketsInv, NEW s \in Streams, SvcWrite(s) PROVE SocketsInv'
<1> DEFINE h == Ambient
           k == Ambient'
           d == dev
           e == dev'
           q == inbox
<1>1. HostOK(h) /\ DevOK(d) /\ StreamOK(h, d, q, s) /\ QueueOK(q)
  BY InvFacts DEF AllOK
<1>2. /\ h.svc[s] = "open" /\ h.wrote[s] < MaxUp /\ Len(d.up[s]) < BufCap
      /\ k.wrote = [h.wrote EXCEPT ![s] = @ + 1]
      /\ k.host = h.host /\ k.credit = h.credit /\ k.owed = h.owed /\ k.sent = h.sent
      /\ k.gotUp = h.gotUp /\ k.svc = h.svc /\ k.kind = h.kind /\ k.gotDown = h.gotDown
  BY DEF SvcWrite, Service, Ambient, hostVars
<1>3. /\ d.sock[s] = "gone" => e = d
      /\ d.sock[s] # "gone" => e = [d EXCEPT !.up[s] = Append(@, h.wrote[s] + 1)]
  BY DEF SvcWrite, Ambient
<1>4. UNCHANGED <<inbox, link, kind, exits>>
  BY DEF SvcWrite, Service
<1>5. Ambient = h /\ Ambient' = k /\ dev = d /\ dev' = e /\ inbox = q /\ inbox' = q
  BY <1>4
<1> HIDE DEF h, k, d, e, q
<1>6. h.wrote[s] \in 0..MaxUp /\ MaxUp \in Nat /\ BufCap \in Nat
  BY <1>1, SocketsAssumption DEF HostOK
<1>7. h.wrote[s] + 1 \in 0..MaxUp /\ h.wrote[s] + 1 \in 1..MaxUp
  BY <1>2, <1>6
<1>8. k.wrote[s] = h.wrote[s] + 1 /\ \A t \in Streams \ {s} : k.wrote[t] = h.wrote[t]
  BY <1>1, <1>2 DEF HostOK
<1>9. HostOK(k)
  BY <1>1, <1>2, <1>7 DEF HostOK
<1>10. \A t \in Streams \ {s} : SameHost(h, k, t)
  BY <1>2, <1>8 DEF SameHost
<1>11. /\ DevOK(e) /\ Others(d, e, s)
       /\ d.sock[s] # "gone" => e.up[s] = Append(d.up[s], h.wrote[s] + 1)
       /\ e.sock = d.sock /\ e.peer = d.peer /\ e.queue = d.queue /\ e.down = d.down
       /\ e.taken = d.taken /\ e.out = d.out /\ e.closes = d.closes /\ e.loop = d.loop
  <2>1. CASE d.sock[s] = "gone"
    BY <1>1, <1>3, <2>1, OthersSame
  <2>2. CASE d.sock[s] # "gone"
    <3> DEFINE y == Append(d.up[s], h.wrote[s] + 1)
    <3>1. e = [d EXCEPT !.up[s] = y]
      BY <1>3, <2>2
    <3>2. y \in Seq(Chunks) /\ Len(y) <= BufCap
      <4>1. h.wrote[s] + 1 \in Chunks
        BY <1>7, ChunkBounds
      <4>2. d.up[s] \in Seq(Chunks)
        BY <1>1 DEF DevOK
      <4>3. y \in Seq(Chunks) /\ Len(y) = Len(d.up[s]) + 1 /\ Len(d.up[s]) \in Nat
        BY <4>1, <4>2
      <4>4. QED
        BY <1>2, <1>6, <4>3
    <3> HIDE DEF y
    <3>3. /\ DevOK(e) /\ Others(d, e, s) /\ e.up[s] = y
          /\ e.queue = d.queue /\ e.peer = d.peer /\ e.taken = d.taken /\ e.down = d.down
          /\ e.out = d.out /\ e.closes = d.closes /\ e.loop = d.loop /\ e.sock = d.sock
      BY <1>1, <3>1, <3>2, UpFields
    <3>4. QED
      BY <3>3 DEF y
  <2>3. QED
    BY <2>1, <2>2
<1>12. StreamOK(k, e, q, s)
  BY <1>1, <1>2, <1>8, <1>9, <1>11, SvcWriteStep
<1>13. QueueOK(inbox)'
  BY <1>1, <1>5 DEF QueueOK
<1>14. QED
  BY <1>4, <1>5, <1>9, <1>10, <1>11, <1>12, <1>13, AlikeSame, OneKeeps

\* A service reads.
LEMMA SvcReadKeeps ==
  ASSUME SocketsInv, NEW s \in Streams, SvcRead(s) PROVE SocketsInv'
<1> DEFINE h == Ambient
           k == Ambient'
           d == dev
           e == dev'
           q == inbox
           y == Tail(d.down[s])
           g == Append(h.gotDown[s], Head(d.down[s]))
<1>1. HostOK(h) /\ DevOK(d) /\ StreamOK(h, d, q, s) /\ QueueOK(q)
  BY InvFacts DEF AllOK
<1>2. /\ d.down[s] # <<>>
      /\ k.gotDown = [h.gotDown EXCEPT ![s] = g]
      /\ k.host = h.host /\ k.credit = h.credit /\ k.owed = h.owed /\ k.sent = h.sent
      /\ k.gotUp = h.gotUp /\ k.svc = h.svc /\ k.kind = h.kind /\ k.wrote = h.wrote
  BY DEF SvcRead, Service, Ambient, hostVars
<1>3. e = [d EXCEPT !.down[s] = y]
  BY DEF SvcRead
<1>4. UNCHANGED <<inbox, link, kind, exits>>
  BY DEF SvcRead, Service
<1>5. Ambient = h /\ Ambient' = k /\ dev = d /\ dev' = e /\ inbox = q /\ inbox' = q
  BY <1>4
<1> HIDE DEF h, k, d, e, q
<1>6. y \in Seq(Chunks) /\ Len(y) <= BufCap /\ g \in Seq(Chunks)
  <2>1. d.down[s] \in Seq(Chunks) /\ Len(d.down[s]) <= BufCap /\ BufCap \in Nat
    BY <1>1, SocketsAssumption DEF DevOK
  <2>2. h.gotDown[s] \in Seq(Chunks)
    BY <1>1 DEF HostOK
  <2>3. y \in Seq(Chunks) /\ Len(y) = Len(d.down[s]) - 1 /\ Head(d.down[s]) \in Chunks
        /\ Len(d.down[s]) \in Nat
    BY <1>2, <2>1
  <2>4. Len(y) <= BufCap
    BY <2>1, <2>3
  <2>5. QED
    BY <2>2, <2>3, <2>4
<1>7. k.gotDown[s] = g /\ \A t \in Streams \ {s} : k.gotDown[t] = h.gotDown[t]
  BY <1>1, <1>2 DEF HostOK
<1> HIDE DEF y
<1>8. HostOK(k)
  <2> HIDE DEF g
  <2>1. QED
    BY <1>1, <1>2, <1>6 DEF HostOK
<1>9. \A t \in Streams \ {s} : SameHost(h, k, t)
  BY <1>2, <1>7 DEF SameHost
<1>10. /\ DevOK(e) /\ Others(d, e, s) /\ e.down[s] = Tail(d.down[s])
       /\ e.sock = d.sock /\ e.peer = d.peer /\ e.queue = d.queue /\ e.up = d.up
       /\ e.taken = d.taken /\ e.out = d.out /\ e.closes = d.closes /\ e.loop = d.loop
  <2>1. /\ DevOK(e) /\ Others(d, e, s) /\ e.down[s] = y
        /\ e.queue = d.queue /\ e.peer = d.peer /\ e.taken = d.taken /\ e.up = d.up
        /\ e.out = d.out /\ e.closes = d.closes /\ e.loop = d.loop /\ e.sock = d.sock
    BY <1>1, <1>3, <1>6, DownFields, SMTT(30)
  <2>2. QED
    BY <2>1 DEF y
<1>11. StreamOK(k, e, q, s)
  BY <1>1, <1>2, <1>7, <1>10, SvcReadStep
<1>12. QueueOK(inbox)'
  BY <1>1, <1>5 DEF QueueOK
<1>13. QED
  BY <1>4, <1>5, <1>8, <1>9, <1>10, <1>11, <1>12, AlikeSame, OneKeeps

\* A service that stops writing, or closes.
LEMMA SvcStopsKeeps ==
  ASSUME SocketsInv, NEW s \in Streams, SvcStopsWriting(s) \/ SvcClose(s) PROVE SocketsInv'
<1> DEFINE h == Ambient
           k == Ambient'
           q == inbox
<1>1. HostOK(h) /\ DevOK(dev) /\ StreamOK(h, dev, q, s) /\ QueueOK(q)
  BY InvFacts DEF AllOK
<1>2. PICK to \in {"half", "closed"} :
        /\ h.svc[s] \in {"open", "half"} /\ k.svc = [h.svc EXCEPT ![s] = to]
        /\ k.host = h.host /\ k.credit = h.credit /\ k.owed = h.owed /\ k.sent = h.sent
        /\ k.gotUp = h.gotUp /\ k.gotDown = h.gotDown /\ k.kind = h.kind
        /\ k.wrote = h.wrote
        /\ UNCHANGED <<dev, inbox, link, kind, exits>>
  <2>1. CASE SvcStopsWriting(s)
    BY <2>1 DEF SvcStopsWriting, Service, Ambient, hostVars
  <2>2. CASE SvcClose(s)
    BY <2>2 DEF SvcClose, Service, Ambient, hostVars
  <2>3. QED
    BY <2>1, <2>2
<1>3. Ambient = h /\ Ambient' = k /\ dev' = dev /\ inbox = q /\ inbox' = q
  BY <1>2
<1> HIDE DEF h, k, q
<1>4. k.svc[s] # "open" /\ h.svc[s] # "none"
      /\ \A t \in Streams \ {s} : k.svc[t] = h.svc[t]
  BY <1>1, <1>2 DEF HostOK
<1>5. HostOK(k)
  BY <1>1, <1>2 DEF HostOK
<1>6. \A t \in Streams \ {s} : SameHost(h, k, t)
  BY <1>2, <1>4 DEF SameHost
<1>7. StreamOK(k, dev, q, s)
  BY <1>1, <1>2, <1>4, SvcStopsStep
<1>8. QueueOK(inbox)'
  BY <1>1, <1>3 DEF QueueOK
<1>9. QED
  BY <1>1, <1>2, <1>3, <1>5, <1>6, <1>7, <1>8, AlikeSame, OthersSame, OneKeeps

\* The host opens a stream.
LEMMA HostOpenKeeps ==
  ASSUME SocketsInv, NEW s \in Streams, HostOpen(s) PROVE SocketsInv'
<1> DEFINE h == Ambient
           k == Ambient'
           q == inbox
           r == inbox'
           p == Packet("OPEN", s, <<>>)
<1>1. HostOK(h) /\ DevOK(dev) /\ StreamOK(h, dev, q, s) /\ QueueOK(q)
  BY InvFacts DEF AllOK
<1>2. /\ h.host[s] = "none" /\ r = Append(q, p) /\ UNCHANGED <<dev, link, kind, exits>>
      /\ k.host = [h.host EXCEPT ![s] = "opening"]
      /\ k.credit = h.credit /\ k.owed = h.owed /\ k.sent = h.sent /\ k.wrote = h.wrote
      /\ k.gotUp = h.gotUp /\ k.svc = h.svc /\ k.kind = h.kind /\ k.gotDown = h.gotDown
  BY DEF HostOpen, HostSends, Ambient, svcVars
<1>3. Ambient = h /\ Ambient' = k /\ dev' = dev /\ inbox = q /\ inbox' = r
  BY <1>2
<1>4. p \in Packets /\ p.s = s
  BY StreamIsFd DEF Packet, Packets
<1> HIDE DEF h, k, q, r
<1>5. k.host[s] = "opening" /\ \A t \in Streams \ {s} : k.host[t] = h.host[t]
  BY <1>1, <1>2 DEF HostOK
<1>6. HostOK(k)
  BY <1>1, <1>2 DEF HostOK, HostStates
<1>7. \A t \in Streams \ {s} : SameHost(h, k, t)
  BY <1>2, <1>5 DEF SameHost
<1>8. q \in Seq(Packets)
  BY <1>1 DEF QueueOK
<1>9. StreamOK(k, dev, r, s)
  BY <1>1, <1>2, <1>4, <1>5, <1>8, HostOpenStep
<1> HIDE DEF p
<1>10. QueueOK(r)
  BY <1>1, <1>2, <1>4, InboxFields
<1>11. \A t \in Streams \ {s} : Alike(q, r, t)
  BY <1>2, <1>4, <1>8, AlikeAppend
<1>12. QueueOK(inbox)'
  BY <1>3, <1>10 DEF QueueOK
<1>13. QED
  BY <1>1, <1>2, <1>3, <1>6, <1>7, <1>9, <1>11, <1>12, OthersSame, OneKeeps

\* The host acknowledges what it got.
LEMMA HostReadyKeeps ==
  ASSUME SocketsInv, NEW s \in Streams, HostReady(s) PROVE SocketsInv'
<1> DEFINE h == Ambient
           k == Ambient'
           q == inbox
           r == inbox'
           p == Packet("OKAY", s, <<>>)
<1>1. HostOK(h) /\ DevOK(dev) /\ StreamOK(h, dev, q, s) /\ QueueOK(q)
  BY InvFacts DEF AllOK
<1>2. /\ h.host[s] = "open" /\ h.owed[s] /\ r = Append(q, p)
      /\ UNCHANGED <<dev, link, kind, exits>>
      /\ k.owed = [h.owed EXCEPT ![s] = FALSE]
      /\ k.host = h.host /\ k.credit = h.credit /\ k.sent = h.sent /\ k.wrote = h.wrote
      /\ k.gotUp = h.gotUp /\ k.svc = h.svc /\ k.kind = h.kind /\ k.gotDown = h.gotDown
  BY DEF HostReady, HostSends, Ambient, svcVars
<1>3. Ambient = h /\ Ambient' = k /\ dev' = dev /\ inbox = q /\ inbox' = r
  BY <1>2
<1>4. p \in Packets /\ p.s = s
  BY StreamIsFd DEF Packet, Packets
<1> HIDE DEF h, k, q, r
<1>5. ~ k.owed[s] /\ \A t \in Streams \ {s} : k.owed[t] = h.owed[t]
  BY <1>1, <1>2 DEF HostOK
<1>6. HostOK(k)
  BY <1>1, <1>2 DEF HostOK
<1>7. \A t \in Streams \ {s} : SameHost(h, k, t)
  BY <1>2, <1>5 DEF SameHost
<1>8. q \in Seq(Packets)
  BY <1>1 DEF QueueOK
<1>9. StreamOK(k, dev, r, s)
  BY <1>1, <1>2, <1>4, <1>5, <1>8, HostReadyStep
<1> HIDE DEF p
<1>10. QueueOK(r)
  BY <1>1, <1>2, <1>4, InboxFields
<1>11. \A t \in Streams \ {s} : Alike(q, r, t)
  BY <1>2, <1>4, <1>8, AlikeAppend
<1>12. QueueOK(inbox)'
  BY <1>3, <1>10 DEF QueueOK
<1>13. QED
  BY <1>1, <1>2, <1>3, <1>6, <1>7, <1>9, <1>11, <1>12, OthersSame, OneKeeps

\* The host closes a stream.
LEMMA HostCloseKeeps ==
  ASSUME SocketsInv, NEW s \in Streams, HostClose(s) PROVE SocketsInv'
<1> DEFINE h == Ambient
           k == Ambient'
           q == inbox
           r == inbox'
           p == Packet("CLSE", s, <<>>)
<1>1. HostOK(h) /\ DevOK(dev) /\ StreamOK(h, dev, q, s) /\ QueueOK(q)
  BY InvFacts DEF AllOK
<1>2. /\ h.host[s] = "open" /\ r = Append(q, p) /\ UNCHANGED <<dev, link, kind, exits>>
      /\ k.host = [h.host EXCEPT ![s] = "closed"]
      /\ k.owed = h.owed /\ k.credit = h.credit /\ k.sent = h.sent /\ k.wrote = h.wrote
      /\ k.gotUp = h.gotUp /\ k.svc = h.svc /\ k.kind = h.kind /\ k.gotDown = h.gotDown
  BY DEF HostClose, HostSends, Ambient, svcVars
<1>3. Ambient = h /\ Ambient' = k /\ dev' = dev /\ inbox = q /\ inbox' = r
  BY <1>2
<1>4. p \in Packets /\ p.s = s
  BY StreamIsFd DEF Packet, Packets
<1> HIDE DEF h, k, q, r
<1>5. k.host[s] = "closed" /\ \A t \in Streams \ {s} : k.host[t] = h.host[t]
  BY <1>1, <1>2 DEF HostOK
<1>6. HostOK(k)
  BY <1>1, <1>2 DEF HostOK, HostStates
<1>7. \A t \in Streams \ {s} : SameHost(h, k, t)
  BY <1>2, <1>5 DEF SameHost
<1>8. q \in Seq(Packets)
  BY <1>1 DEF QueueOK
<1>9. StreamOK(k, dev, r, s)
  BY <1>1, <1>2, <1>4, <1>5, <1>8, HostCloseStep
<1> HIDE DEF p
<1>10. QueueOK(r)
  BY <1>1, <1>2, <1>4, InboxFields
<1>11. \A t \in Streams \ {s} : Alike(q, r, t)
  BY <1>2, <1>4, <1>8, AlikeAppend
<1>12. QueueOK(inbox)'
  BY <1>3, <1>10 DEF QueueOK
<1>13. QED
  BY <1>1, <1>2, <1>3, <1>6, <1>7, <1>9, <1>11, <1>12, OthersSame, OneKeeps

\* The host writes.
LEMMA HostWriteKeeps ==
  ASSUME SocketsInv, NEW s \in Streams, NEW n \in 1..Payload, HostWrite(s, n)
  PROVE  SocketsInv'
<1> DEFINE h == Ambient
           k == Ambient'
           q == inbox
           r == inbox'
           data == [i \in 1..n |-> h.sent[s] + i]
           p == Packet("WRTE", s, data)
<1>1. HostOK(h) /\ DevOK(dev) /\ StreamOK(h, dev, q, s) /\ QueueOK(q)
  BY InvFacts DEF AllOK
<1>2. /\ h.host[s] = "open" /\ h.credit[s] /\ r = Append(q, p)
      /\ h.sent[s] + n <= MaxDown
      /\ UNCHANGED <<dev, link, kind, exits>>
      /\ k.credit = [h.credit EXCEPT ![s] = FALSE]
      /\ k.sent = [h.sent EXCEPT ![s] = @ + n]
      /\ k.host = h.host /\ k.owed = h.owed /\ k.wrote = h.wrote
      /\ k.gotUp = h.gotUp /\ k.svc = h.svc /\ k.kind = h.kind /\ k.gotDown = h.gotDown
  BY DEF HostWrite, HostSends, Ambient, svcVars
<1>3. Ambient = h /\ Ambient' = k /\ dev' = dev /\ inbox = q /\ inbox' = r
  BY <1>2
<1> HIDE DEF h, k, q, r
<1>4. n \in Nat \ {0} /\ MaxDown \in Nat /\ h.sent[s] \in 0..MaxDown
  BY <1>1, SocketsAssumption DEF HostOK
<1>5. data \in Seq(Chunks)
  <2>1. \A i \in 1..n : h.sent[s] + i \in 1..MaxDown
    BY <1>2, <1>4
  <2>2. \A i \in 1..n : data[i] \in Chunks
    BY <2>1, ChunkBounds
  <2>3. data \in [1..n -> Chunks]
    BY <2>2
  <2>4. QED
    BY <1>4, <2>3, SeqDef
<1>6. p \in Packets /\ p.s = s
  <2> HIDE DEF data
  <2>1. QED
    BY <1>5, StreamIsFd DEF Packet, Packets
<1>7. /\ ~ k.credit[s] /\ k.sent[s] = h.sent[s] + n
      /\ \A t \in Streams \ {s} : k.credit[t] = h.credit[t] /\ k.sent[t] = h.sent[t]
  BY <1>1, <1>2 DEF HostOK
<1>8. HostOK(k)
  <2>1. h.sent[s] + n \in 0..MaxDown
    BY <1>2, <1>4
  <2>2. h.sent \in [Streams -> 0..MaxDown] /\ h.credit \in [Streams -> BOOLEAN]
    BY <1>1 DEF HostOK
  <2>3. k.sent \in [Streams -> 0..MaxDown]
    BY <1>2, <2>1, <2>2
  <2>4. k.credit \in [Streams -> BOOLEAN]
    BY <1>2, <2>2
  <2>5. QED
    BY <1>1, <1>2, <2>3, <2>4 DEF HostOK
<1>9. \A t \in Streams \ {s} : SameHost(h, k, t)
  BY <1>2, <1>7 DEF SameHost
<1>10. q \in Seq(Packets)
  BY <1>1 DEF QueueOK
<1>11. StreamOK(k, dev, r, s)
  BY <1>1, <1>2, <1>4, <1>6, <1>7, <1>10, HostWriteStep
<1> HIDE DEF p
<1>12. QueueOK(r)
  BY <1>1, <1>2, <1>6, InboxFields
<1>13. \A t \in Streams \ {s} : Alike(q, r, t)
  BY <1>2, <1>6, <1>10, AlikeAppend
<1>14. QueueOK(inbox)'
  BY <1>3, <1>12 DEF QueueOK
<1>15. QED
  BY <1>1, <1>2, <1>3, <1>8, <1>9, <1>11, <1>13, <1>14, OthersSame, OneKeeps

\* The host gets a packet.
LEMMA HostReceiveKeeps ==
  ASSUME SocketsInv, HostReceive PROVE SocketsInv'
<1> DEFINE h == Ambient
           k == Ambient'
           d == dev
           e == dev'
           q == inbox
           p == Head(dev.out)
           s == p.s
           x == IF p.cmd = "OKAY" /\ Live(h, s) THEN "open"
                ELSE IF p.cmd = "CLSE" /\ Live(h, s) THEN "refused" ELSE h.host[s]
           c == h.credit[s] \/ (p.cmd = "OKAY" /\ Live(h, s))
           o == h.owed[s] \/ (p.cmd = "WRTE" /\ Live(h, s))
           g == IF p.cmd = "WRTE" /\ Live(h, s) THEN h.gotUp[s] \o p.data ELSE h.gotUp[s]
<1>1. HostOK(h) /\ DevOK(d) /\ QueueOK(q) /\ \A t \in Streams : StreamOK(h, d, q, t)
  BY InvFacts DEF AllOK
<1>2. d.out # <<>> /\ e = [d EXCEPT !.out = Tail(@)] /\ UNCHANGED <<inbox, link, kind, exits>>
  BY DEF HostReceive, svcVars
<1>3. /\ k.host = [h.host EXCEPT ![s] = x]
      /\ k.credit = [h.credit EXCEPT ![s] = c]
      /\ k.owed = [h.owed EXCEPT ![s] = o]
      /\ k.gotUp = [h.gotUp EXCEPT ![s] = g]
  BY DEF HostReceive, Ambient, Live
<1>4. /\ k.sent = h.sent /\ k.wrote = h.wrote /\ k.svc = h.svc /\ k.kind = h.kind
      /\ k.gotDown = h.gotDown
  BY DEF HostReceive, Ambient, svcVars
<1>5. /\ Ambient = h /\ Ambient' = k /\ dev = d /\ dev' = e /\ inbox = q /\ inbox' = q
      /\ p = Head(d.out)
  BY <1>2
<1> HIDE DEF h, k, d, q, p
<1>6. /\ DevOK(e) /\ p.s \in Streams /\ Others(d, e, p.s) /\ p \in Packets
      /\ e.out = Tail(d.out)
      /\ e.queue = d.queue /\ e.peer = d.peer /\ e.taken = d.taken /\ e.up = d.up
      /\ e.down = d.down /\ e.closes = d.closes /\ e.loop = d.loop /\ e.sock = d.sock
  BY <1>1, <1>2, <1>5, OutFields
<1> HIDE DEF e, s
<1>7. s \in Streams /\ Others(d, e, s) /\ p.s = s
  BY <1>6 DEF s
<1>8. x \in HostStates /\ c \in BOOLEAN /\ o \in BOOLEAN /\ g \in Seq(Chunks)
  <2>1. h.host[s] \in HostStates
    BY <1>1, <1>7 DEF HostOK
  <2>2. p.data \in Seq(Chunks) /\ h.gotUp[s] \in Seq(Chunks)
    BY <1>1, <1>6, <1>7 DEF HostOK, Packets
  <2>3. h.gotUp[s] \o p.data \in Seq(Chunks)
    BY <2>2
  <2>4. QED
    BY <2>1, <2>2, <2>3 DEF HostStates
<1> HIDE DEF x, c, o, g
<1>9. HostOK(k)
  <2>1. k.host \in [Streams -> HostStates]
    BY <1>1, <1>3, <1>7, <1>8 DEF HostOK
  <2>2. k.credit \in [Streams -> BOOLEAN]
    BY <1>1, <1>3, <1>7, <1>8 DEF HostOK
  <2>3. k.owed \in [Streams -> BOOLEAN]
    BY <1>1, <1>3, <1>7, <1>8 DEF HostOK
  <2>4. k.gotUp \in [Streams -> Seq(Chunks)]
    BY <1>1, <1>3, <1>7, <1>8 DEF HostOK
  <2>5. QED
    BY <1>1, <1>4, <2>1, <2>2, <2>3, <2>4 DEF HostOK
<1>10. k.host[s] = x /\ k.credit[s] = c /\ k.owed[s] = o /\ k.gotUp[s] = g
  BY <1>1, <1>3, <1>7 DEF HostOK
<1>11. Received(h, k, p, s)
  BY <1>4, <1>10 DEF Received, x, c, o, g
<1>12. \A t \in Streams \ {s} : SameHost(h, k, t)
  BY <1>1, <1>3, <1>4 DEF SameHost, HostOK
<1>13. StreamOK(k, e, q, s)
  BY <1>1, <1>2, <1>5, <1>6, <1>7, <1>9, <1>11, ReceiveStep
<1>14. QueueOK(inbox)'
  BY <1>1, <1>5 DEF QueueOK
<1>15. QED
  BY <1>2, <1>5, <1>6, <1>7, <1>9, <1>12, <1>13, <1>14, AlikeSame, OneKeeps

\* The link breaks: main is told after what had come.
LEMMA LinkBreaksKeeps ==
  ASSUME SocketsInv, LinkBreaks PROVE SocketsInv'
<1> DEFINE h == Ambient
           q == inbox
           p == Packet("SYNC0", TransportFd, <<>>)
           r == Append(q, p)
<1>1. AllOK(h, dev, q) /\ QueueOK(q) /\ q \in Seq(Packets)
  BY InvFacts
<1>2. /\ link' = "broken" /\ inbox' = r /\ dev' = dev /\ Ambient' = Ambient
      /\ kind' = kind /\ exits' = exits
  BY SameAmbient DEF LinkBreaks, svcVars
<1>3. p \in Packets /\ p.cmd = "SYNC0" /\ \A t \in Streams : p.s # t
  BY SocketsAssumption DEF Packet, Packets, Fds
<1> HIDE DEF p, h, q
<1>4. QueueOK(r)
  BY <1>1, <1>3, InboxFields
<1>5. \A t \in Streams : Alike(q, r, t)
  BY <1>1, <1>3, AlikeAppend
<1> HIDE DEF r
<1>6. ASSUME NEW t \in Streams PROVE StreamOK(h, dev, r, t)
  <2>1. SameHost(h, h, t) /\ SameSocket(dev, dev, t) /\ Alike(dev.out, dev.out, t)
    BY AlikeSame DEF SameHost, SameSocket
  <2>2. QED
    BY <1>1, <1>5, <2>1, Frame DEF AllOK
<1>7. AllOK(Ambient', dev', inbox')
  BY <1>1, <1>2, <1>6 DEF AllOK, h
<1>8. QueueOK(inbox)'
  BY <1>2, <1>4 DEF QueueOK
<1>9. HostOK(Ambient') /\ link' \in {"up", "broken"}
      /\ exits' \subseteq {s \in Streams : Subprocess(kind'[s])}
  BY <1>2 DEF SocketsInv
<1>10. QED
  BY <1>7, <1>8, <1>9, AmbientKeeps

-----------------------------------------------------------------------------
\* The invariant holds at every moment.

\* Every step keeps it.
LEMMA SocketsNext ==
  ASSUME SocketsInv, [Next]_vars PROVE SocketsInv'
<1>1. CASE Select
  BY <1>1, SelectKeeps
<1>2. CASE TransportEvent
  BY <1>2, TransportEventKeeps
<1>3. ASSUME NEW s \in Streams, SocketEvent(s) PROVE SocketsInv'
  BY <1>3, SocketEventKeeps
<1>4. ASSUME NEW s \in Streams, SubprocessExit(s) PROVE SocketsInv'
  BY <1>4, SubprocessExitKeeps
<1>5. CASE HostReceive
  BY <1>5, HostReceiveKeeps
<1>6. CASE LinkBreaks
  BY <1>6, LinkBreaksKeeps
<1>7. ASSUME NEW s \in Streams, ServiceStep(s) PROVE SocketsInv'
  BY <1>7, SvcWriteKeeps, SvcReadKeeps, SvcStopsKeeps DEF ServiceStep
<1>8. ASSUME NEW s \in Streams, HostStep(s) PROVE SocketsInv'
  BY <1>8, HostOpenKeeps, HostReadyKeeps, HostCloseKeeps, HostWriteKeeps DEF HostStep
<1>9. CASE UNCHANGED vars
  <2>1. UNCHANGED <<dev, inbox, link, kind, exits>> /\ Ambient' = Ambient
    BY <1>9, SameAmbient DEF vars, svcVars
  <2>2. QueueOK(inbox)'
    BY <2>1 DEF SocketsInv, QueueOK
  <2>3. AllOK(Ambient, dev', inbox')
    BY <2>1, InvFacts
  <2>4. QED
    BY <2>1, <2>2, <2>3, MainKeeps
<1>10. QED
  BY <1>1, <1>2, <1>3, <1>4, <1>5, <1>6, <1>7, <1>8, <1>9 DEF Next, MainStep

\* Whatever main, the services and the host do, each stream keeps its invariant.
LEMMA SocketsAlways == Spec => []SocketsInv
<1>1. QED
  BY SocketsInit, SocketsNext, PTL DEF Spec

-----------------------------------------------------------------------------
\* What the invariant says of the properties of the model.

\* The invariant gives every variable its type,
LEMMA InvTypes ==
  ASSUME SocketsInv PROVE TypeOK
<1>1. HostOK(Ambient) /\ DevOK(dev) /\ QueueOK(inbox)
  BY DEF SocketsInv
<1>2. /\ svc \in [Streams -> {"none", "open", "half", "closed"}]
      /\ host \in [Streams -> {"none", "opening", "open", "closed", "refused"}]
      /\ credit \in [Streams -> BOOLEAN] /\ owed \in [Streams -> BOOLEAN]
      /\ kind \in [Streams -> Kinds \cup {"none"}]
      /\ wrote \in [Streams -> 0..MaxUp] /\ sent \in [Streams -> 0..MaxDown]
      /\ gotUp \in [Streams -> Seq(Chunks)] /\ gotDown \in [Streams -> Seq(Chunks)]
  BY <1>1 DEF HostOK, Ambient, HostStates
<1>3. /\ dev.sock \in [Streams -> {"none", "open", "closing", "gone"}]
      /\ dev.peer \in [Streams -> BOOLEAN] /\ dev.closes \in [Streams -> Nat]
      /\ dev.queue \in [Streams -> Seq(Chunks)] /\ dev.up \in [Streams -> Seq(Chunks)]
      /\ dev.down \in [Streams -> Seq(Chunks)] /\ dev.taken \in [Streams -> Seq(Chunks)]
      /\ dev.out \in Seq(Packets)
      /\ \A s \in Streams : Len(dev.up[s]) <= BufCap /\ Len(dev.down[s]) <= BufCap
  BY <1>1 DEF DevOK, SockStates
<1>4. dev["queue"] = dev.queue /\ dev["up"] = dev.up /\ dev["down"] = dev.down
      /\ dev["taken"] = dev.taken
  OBVIOUS
<1>5. \A f \in {"queue", "up", "down", "taken"} : dev[f] \in [Streams -> Seq(Chunks)]
  BY <1>3, <1>4
<1>6. dev.loop.active \subseteq Fds
  BY <1>1 DEF DevOK, LoopOK
<1>7. inbox \in Seq(Packets)
  BY <1>1 DEF QueueOK
<1>8. link \in {"up", "broken"} /\ exits \subseteq {s \in Streams : Subprocess(kind[s])}
  BY DEF SocketsInv
<1>9. QED
  BY <1>2, <1>3, <1>5, <1>6, <1>7, <1>8 DEF TypeOK

\* A token is in one place at most, and the packets that carry it are counted.
LEMMA CountSole ==
  ASSUME NEW q \in Seq(Packets), NEW c, NEW s, Sole(q, c, s)
  PROVE  Count(q, c, s) = IF Has(q, c, s) THEN 1 ELSE 0
<1> DEFINE S == {i \in DOMAIN q : q[i].cmd = c /\ q[i].s = s}
<1>1. CASE ~ Has(q, c, s)
  <2>1. S = {}
    BY <1>1 DEF Has, Is
  <2>2. QED
    BY <1>1, <2>1, FS_EmptySet DEF Count
<1>2. CASE Has(q, c, s)
  <2>1. PICK i \in DOMAIN q : Is(q[i], c, s)
    BY <1>2 DEF Has
  <2>2. S = {i}
    BY <2>1 DEF Sole, Is
  <2>3. QED
    BY <1>2, <2>2, FS_Singleton DEF Count
<1>3. QED
  BY <1>1, <1>2

\* flow control, the two tokens being in one place each,
LEMMA InvFlow ==
  ASSUME SocketsInv PROVE FlowControl
<1> DEFINE h == Ambient
<1>1. dev.out \in Seq(Packets) /\ inbox \in Seq(Packets)
  BY DEF SocketsInv, DevOK, QueueOK
<1>2. ASSUME NEW s \in Streams
      PROVE  /\ ~ Subprocess(kind[s]) =>
                  Count(dev.out, "WRTE", s) + One(owed[s]) + Count(inbox, "OKAY", s) <= 1
             /\ Count(dev.out, "OKAY", s) + One(credit[s]) + Count(inbox, "WRTE", s)
                  + One(dev.queue[s] # <<>>) <= 1
  <2>1. /\ UpFlow(h, dev, inbox, s) /\ DownFlow(h, dev, inbox, s)
        /\ h.kind = kind /\ h.owed = owed /\ h.credit = credit
    BY DEF SocketsInv, StreamOK, Ambient
  <2> HIDE DEF h
  <2>2. ASSUME ~ Subprocess(kind[s])
        PROVE  Count(dev.out, "WRTE", s) + One(owed[s]) + Count(inbox, "OKAY", s) <= 1
    <3>1. /\ Sole(dev.out, "WRTE", s) /\ Sole(inbox, "OKAY", s)
          /\ Has(dev.out, "WRTE", s) => ~ owed[s] /\ ~ Has(inbox, "OKAY", s)
          /\ owed[s] => ~ Has(inbox, "OKAY", s)
      BY <2>1, <2>2 DEF UpFlow
    <3>2. /\ Count(dev.out, "WRTE", s) = IF Has(dev.out, "WRTE", s) THEN 1 ELSE 0
          /\ Count(inbox, "OKAY", s) = IF Has(inbox, "OKAY", s) THEN 1 ELSE 0
      BY <1>1, <3>1, CountSole
    <3>3. QED
      BY <3>1, <3>2 DEF One
  <2>3. Count(dev.out, "OKAY", s) + One(credit[s]) + Count(inbox, "WRTE", s)
          + One(dev.queue[s] # <<>>) <= 1
    <3>1. /\ Sole(dev.out, "OKAY", s) /\ Sole(inbox, "WRTE", s)
          /\ Has(dev.out, "OKAY", s) =>
               ~ credit[s] /\ ~ Has(inbox, "WRTE", s) /\ dev.queue[s] = <<>>
          /\ credit[s] => ~ Has(inbox, "WRTE", s) /\ dev.queue[s] = <<>>
          /\ Has(inbox, "WRTE", s) => dev.queue[s] = <<>>
      BY <2>1 DEF DownFlow, Waits
    <3>2. /\ Count(dev.out, "OKAY", s) = IF Has(dev.out, "OKAY", s) THEN 1 ELSE 0
          /\ Count(inbox, "WRTE", s) = IF Has(inbox, "WRTE", s) THEN 1 ELSE 0
      BY <1>1, <3>1, CountSole
    <3>3. QED
      BY <3>1, <3>2 DEF One
  <2>4. QED
    BY <2>2, <2>3
<1>3. QED
  BY <1>2 DEF FlowControl

\* the peers and what follows a CLOSE,
LEMMA InvPeers ==
  ASSUME SocketsInv PROVE OpenHasPeer /\ NothingAfterClose
<1>1. ASSUME NEW s \in Streams
      PROVE  SocketOK(dev, s) /\ CloseOK(dev, inbox, s)
  BY DEF SocketsInv, StreamOK
<1>2. OpenHasPeer
  BY <1>1 DEF OpenHasPeer, SocketOK
<1>3. NothingAfterClose
  BY <1>1 DEF NothingAfterClose, CloseOK, Ends
<1>4. QED
  BY <1>2, <1>3

\* Data from the start is what AdbStream numbers.
LEMMA RunUpto ==
  ASSUME NEW q \in Seq(Chunks), Run(q, 0)
  PROVE  q = [i \in 1..Len(q) |-> i]
<1>1. q = [i \in 1..Len(q) |-> q[i]] /\ DOMAIN q = 1..Len(q) /\ Len(q) \in Nat
  OBVIOUS
<1>2. \A i \in 1..Len(q) : q[i] = i
  BY <1>1 DEF Run
<1>3. QED
  BY <1>1, <1>2

\* and the data, on its way or delivered.
LEMMA InvData ==
  ASSUME SocketsInv PROVE ClosingDeliversAll /\ EofDeliversAll
<1> DEFINE h == Ambient
<1>1. /\ HostOK(h) /\ DevOK(dev) /\ h.svc = svc /\ h.gotDown = gotDown /\ h.gotUp = gotUp
      /\ h.wrote = wrote /\ h.sent = sent /\ h.host = host
  BY DEF SocketsInv, Ambient
<1>2. \A s \in Streams : UpData(h, dev, s) /\ Kept(h, dev, s)
  BY DEF SocketsInv, StreamOK, DownData
<1> HIDE DEF h
<1>3. ASSUME NEW s \in Streams, svc[s] = "open"
      PROVE  gotDown[s] \o dev.down[s] \o dev.queue[s] = dev.taken[s]
  <2> DEFINE g == gotDown[s]
             y == dev.down[s]
             q == dev.queue[s]
             t == dev.taken[s]
  <2>1. /\ g \in Seq(Chunks) /\ y \in Seq(Chunks) /\ q \in Seq(Chunks) /\ t \in Seq(Chunks)
    BY <1>1, Lengths
  <2>2. /\ Run(g, 0) /\ Run(y, Len(g)) /\ Run(q, Len(g) + Len(y)) /\ Run(t, 0)
        /\ Len(t) = Len(g) + Len(y) + Len(q)
    BY <1>1, <1>2, <1>3 DEF Kept, Given, Total
  <2> HIDE DEF g, y, q, t
  <2>3. Len(g) \in Nat /\ Len(y) \in Nat /\ Len(q) \in Nat
    BY <2>1
  <2>4. g \o y \in Seq(Chunks) /\ Len(g \o y) = Len(g) + Len(y)
    BY <2>1, ConcatProperties
  <2>5. Run(g \o y, 0)
    BY <2>1, <2>2, <2>3, RunConcat
  <2> DEFINE w == g \o y
  <2> HIDE DEF w
  <2>6. w \in Seq(Chunks) /\ Run(w, 0) /\ Run(q, 0 + Len(w)) /\ Len(w) = Len(g) + Len(y)
    BY <2>2, <2>3, <2>4, <2>5 DEF w
  <2>7. Run(w \o q, 0)
    BY <2>1, <2>6, RunConcat
  <2>8. w \o q \in Seq(Chunks) /\ Len(w \o q) = Len(w) + Len(q)
    BY <2>1, <2>6, ConcatProperties
  <2>9. w \o q = t
    BY <2>1, <2>2, <2>6, <2>7, <2>8, RunSame
  <2>10. QED
    BY <2>9 DEF w, g, y, q, t
<1>4. ASSUME NEW s \in Streams, host[s] = "refused", sent[s] = 0
      PROVE  gotUp[s] = [i \in 1..wrote[s] |-> i]
  <2>1. gotUp[s] \in Seq(Chunks) /\ Run(gotUp[s], 0) /\ Len(gotUp[s]) = wrote[s]
    BY <1>1, <1>2, <1>4, Lengths DEF UpData
  <2>2. QED
    BY <2>1, RunUpto
<1>5. QED
  BY <1>3, <1>4 DEF ClosingDeliversAll, EofDeliversAll

-----------------------------------------------------------------------------
\* The sockets of adbd at every moment (sockets.c, and the stream part of handle_packet in
\* adb.c): no side writes twice without a READY, an open socket has its peer, nothing is
\* sent on a stream after its CLOSE, and neither a closing socket nor an end of file loses
\* data, for any number of streams, kinds of service, packet and buffer size.
THEOREM SocketsHold == Spec => []SocketsCorrect
<1>1. SocketsInv => SocketsCorrect
  BY InvTypes, InvFlow, InvPeers, InvData DEF SocketsCorrect
<1>2. QED
  BY <1>1, SocketsAlways, PTL

-----------------------------------------------------------------------------
\* The steps of AdbSockets are steps of AdbStream, or change nothing it sees.

\* Nothing has happened on the streams.
LEMMA StreamsInit == Init => Stream!Init
  BY DEF Init, Stream!Init

\* What main, the end of a service and of the link change.
LEMMA MainIsSilent ==
  ASSUME MainStep \/ LinkBreaks \/ UNCHANGED vars
  PROVE  UNCHANGED Stream!vars
<1> SUFFICES UNCHANGED <<host, wrote, gotUp, sent, gotDown>>
  BY DEF Stream!vars
<1>1. CASE Select \/ \E s \in Streams : SocketEvent(s)
  BY <1>1 DEF Select, SocketEvent, hostVars, svcVars
<1>2. CASE TransportEvent \/ \E s \in Streams : SubprocessExit(s)
  BY <1>2 DEF TransportEvent, SubprocessExit, hostVars
<1>3. CASE LinkBreaks \/ UNCHANGED vars
  BY <1>3 DEF LinkBreaks, vars, hostVars, svcVars
<1>4. QED
  BY <1>1, <1>2, <1>3 DEF MainStep

\* A service writes, reads, or ends what it writes.
LEMMA ServiceRefines ==
  ASSUME SocketsInv, NEW s \in Streams, ServiceStep(s)
  PROVE  [Stream!Next]_(Stream!vars)
<1>1. /\ UpData(Ambient, dev, s) /\ Kept(Ambient, dev, s)
      /\ HostOK(Ambient) /\ DevOK(dev)
      /\ Ambient.svc = svc /\ Ambient.gotDown = gotDown /\ Ambient.sent = sent
      /\ Ambient.host = host
  BY DEF SocketsInv, StreamOK, DownData, Ambient
<1>2. CASE SvcStopsWriting(s) \/ SvcClose(s)
  BY <1>2 DEF SvcStopsWriting, SvcClose, Service, hostVars, Stream!vars
<1>3. CASE SvcWrite(s)
  <2>1. ~ (host[s] = "refused" /\ sent[s] = 0)
    BY <1>1, <1>3 DEF SvcWrite, UpData
  <2>2. Stream!Write(s)
    BY <1>3, <2>1 DEF SvcWrite, Service, hostVars, Stream!Write
  <2>3. QED
    BY <2>2 DEF Stream!Next
<1>4. CASE SvcRead(s)
  <2> DEFINE g == gotDown[s]
             y == dev.down[s]
  <2>1. /\ y # <<>> /\ gotDown' = [gotDown EXCEPT ![s] = Append(g, Head(y))]
        /\ UNCHANGED <<host, wrote, sent, gotUp>>
    BY <1>4 DEF SvcRead, Service, hostVars
  <2>2. /\ g \in Seq(Chunks) /\ y \in Seq(Chunks) /\ dev.queue[s] \in Seq(Chunks)
        /\ sent[s] \in Nat
    BY <1>1, Lengths
  <2>3. /\ Run(g, 0) /\ Run(y, Len(g)) /\ Len(g) + Len(y) + Len(dev.queue[s]) <= sent[s]
    BY <1>1 DEF Kept, Given, Total
  <2> HIDE DEF g, y
  <2>4. Len(g) \in Nat /\ Len(y) \in Nat /\ Len(y) > 0 /\ Len(dev.queue[s]) \in Nat
    BY <2>1, <2>2
  <2>5. Len(g) < sent[s]
    <3> DEFINE a == Len(g)
               b == Len(y)
               c == Len(dev.queue[s])
               m == sent[s]
    <3>1. a \in Nat /\ b \in Nat /\ b > 0 /\ c \in Nat /\ m \in Nat /\ a + b + c <= m
      BY <2>2, <2>3, <2>4
    <3> HIDE DEF a, b, c, m
    <3>2. a < m
      BY <3>1
    <3>3. QED
      BY <3>2 DEF a, m
  <2> DEFINE w == Append(g, Head(y))
  <2>6. w \in Seq(Chunks) /\ Run(w, 0) /\ Len(w) = Len(g) + 1
    BY <2>1, <2>2, <2>3, RunMove
  <2> HIDE DEF w
  <2>7. w = Stream!Upto(Len(g) + 1)
    BY <2>6, RunUpto DEF Stream!Upto
  <2>8. gotDown' = [gotDown EXCEPT ![s] = Stream!Upto(Len(@) + 1)]
    BY <2>1, <2>7 DEF w, g
  <2>9. Stream!DeliverDown(s)
    BY <2>1, <2>5, <2>8 DEF Stream!DeliverDown, g
  <2>10. QED
    BY <2>9 DEF Stream!Next
<1>5. QED
  BY <1>2, <1>3, <1>4 DEF ServiceStep

\* The host opens, writes, closes, or acknowledges.
LEMMA HostRefines ==
  ASSUME SocketsInv, NEW s \in Streams, HostStep(s)
  PROVE  [Stream!Next]_(Stream!vars)
<1>1. CASE HostOpen(s)
  <2>1. Stream!Turn(s, "none", "opening")
    BY <1>1 DEF HostOpen, HostSends, svcVars, Stream!Turn
  <2>2. QED
    BY <2>1 DEF Stream!Next
<1>2. CASE HostClose(s)
  <2>1. Stream!Turn(s, "open", "closed")
    BY <1>2 DEF HostClose, HostSends, svcVars, Stream!Turn
  <2>2. QED
    BY <2>1 DEF Stream!Next
<1>3. CASE HostReady(s)
  BY <1>3 DEF HostReady, HostSends, svcVars, Stream!vars
<1>4. ASSUME NEW n \in 1..Payload, HostWrite(s, n) PROVE Stream!Send(s)
  <2>1. sent \in [Streams -> 0..MaxDown] /\ MaxDown \in Nat /\ Payload \in Nat
    BY SocketsAssumption DEF SocketsInv, HostOK, Ambient
  <2>2. /\ host[s] = "open" /\ sent[s] + n <= MaxDown
        /\ sent' = [sent EXCEPT ![s] = sent[s] + n]
        /\ UNCHANGED <<host, wrote, gotUp, gotDown>>
    BY <1>4 DEF HostWrite, HostSends, svcVars
  <2>3. sent[s] + n \in sent[s] + 1 .. MaxDown
    BY <2>1, <2>2
  <2>4. QED
    BY <2>2, <2>3 DEF Stream!Send
<1>5. QED
  BY <1>1, <1>2, <1>3, <1>4 DEF HostStep, Stream!Next

\* The host gets the answer to its OPEN, data, or the end.
LEMMA ReceiveRefines ==
  ASSUME SocketsInv, HostReceive
  PROVE  [Stream!Next]_(Stream!vars)
<1> DEFINE p == Head(dev.out)
           s == p.s
           d == dev
           h == Ambient
           g == gotUp[s]
           live == host[s] \in {"opening", "open"}
<1>1. DevOK(d) /\ HostOK(h) /\ d.out # <<>> /\ p = Head(d.out)
  BY DEF SocketsInv, HostReceive
<1>2. s \in Streams /\ d.out \in Seq(Packets) /\ p \in Packets /\ p.data \in Seq(Chunks)
  <2>1. p.s \in Streams /\ p \in Packets
    BY <1>1, OutFields
  <2>2. QED
    BY <1>1, <2>1 DEF DevOK, Packets
<1>3. StreamOK(h, d, inbox, s)
  BY <1>2 DEF SocketsInv
<1>4. /\ host' = [host EXCEPT ![s] = IF p.cmd = "OKAY" /\ live THEN "open"
                                    ELSE IF p.cmd = "CLSE" /\ live THEN "refused" ELSE @]
      /\ gotUp' = [gotUp EXCEPT ![s] = IF p.cmd = "WRTE" /\ live THEN @ \o p.data ELSE @]
      /\ UNCHANGED <<wrote, sent, gotDown>>
  BY DEF HostReceive, svcVars
<1>5. /\ host \in [Streams -> HostStates] /\ gotUp \in [Streams -> Seq(Chunks)]
      /\ h.host = host /\ h.gotUp = gotUp /\ h.sent = sent /\ h.wrote = wrote
  BY <1>1 DEF HostOK, Ambient
<1>6. Is(p, p.cmd, s) /\ Has(d.out, p.cmd, s)
  <2>1. Is(p, p.cmd, s)
    BY DEF Is
  <2>2. QED
    BY <1>1, <1>2, <2>1, HasTail
<1> HIDE DEF d, h, p, s
<1>7. CASE p.cmd = "OKAY" /\ live
  <2>1. host' = [host EXCEPT ![s] = "open"] /\ gotUp' = gotUp
    BY <1>4, <1>5, <1>7
  <2>2. CASE host[s] = "opening"
    <3>1. Stream!Turn(s, "opening", "open")
      BY <1>4, <2>1, <2>2 DEF Stream!Turn
    <3>2. QED
      BY <1>2, <3>1 DEF Stream!Next
  <2>3. CASE host[s] = "open"
    <3>1. host' = host
      BY <1>5, <2>1, <2>3
    <3>2. QED
      BY <1>4, <2>1, <3>1 DEF Stream!vars
  <2>4. QED
    BY <1>7, <2>2, <2>3
<1>8. CASE p.cmd = "CLSE" /\ live
  <2>1. host' = [host EXCEPT ![s] = "refused"] /\ gotUp' = gotUp
    BY <1>4, <1>5, <1>8
  <2>2. sent[s] = 0 => Len(gotUp[s]) = wrote[s]
    <3>1. ~ Has(d.out, "WRTE", s)
      <4>1. \A c : ~ Has(Tail(d.out), c, s)
        BY <1>1, <1>2, <1>3, <1>6, <1>8, EndsTail DEF StreamOK, CloseOK
      <4>2. QED
        BY <1>1, <1>2, <1>8, <4>1, HasTail DEF Is
    <3>2. PICK b \in Nat : ToHost(h, d, s, b)
      BY <1>3, <1>5, <1>8 DEF StreamOK, UpData
    <3>3. Chain(d.out, s, Len(gotUp[s]), b) /\ (sent[s] = 0 => b = wrote[s])
      BY <1>5, <1>6, <1>8, <3>2 DEF ToHost
    <3>4. QED
      BY <1>2, <3>1, <3>3, ChainBounds
  <2>3. Stream!End(s)
    BY <1>4, <1>8, <2>1, <2>2 DEF Stream!End
  <2>4. QED
    BY <1>2, <2>3 DEF Stream!Next
<1>9. CASE p.cmd = "WRTE" /\ live
  <2>1. host' = host /\ gotUp' = [gotUp EXCEPT ![s] = g \o p.data]
    BY <1>4, <1>5, <1>9
  <2>2. host[s] = "open"
    <3>1. host[s] = "opening" => ~ Is(p, "WRTE", s)
      BY <1>1, <1>2, <1>3, <1>5, LedTail DEF StreamOK, UpData
    <3>2. QED
      BY <1>6, <1>9, <3>1
  <2>3. g \in Seq(Chunks) /\ Run(g, 0) /\ Len(g) \in Nat
    BY <1>2, <1>3, <1>5 DEF StreamOK, UpData
  <2>4. PICK b \in Nat : ToHost(h, d, s, b)
    BY <1>3, <1>5, <1>9 DEF StreamOK, UpData
  <2>5. Chain(d.out, s, Len(g), b) /\ b <= wrote[s] /\ wrote[s] \in Nat
    BY <1>1, <1>2, <1>5, <2>4, Lengths DEF ToHost
  <2>6. /\ Len(p.data) > 0 /\ Run(p.data, Len(g))
        /\ Chain(Tail(d.out), s, Len(g) + Len(p.data), b)
    BY <1>1, <1>2, <1>6, <1>9, <2>5, ChainTail
  <2> DEFINE n == Len(g) + Len(p.data)
             w == g \o p.data
  <2>7. Tail(d.out) \in Seq(Packets)
    BY <1>1, <1>2
  <2>8. n <= b
    BY <2>6, <2>7, ChainBounds
  <2>9. w \in Seq(Chunks) /\ Len(w) = n
    BY <1>2, <2>3, ConcatProperties
  <2>10. Run(w, 0)
    BY <1>2, <2>3, <2>6, RunConcat
  <2>11. n \in Len(g) + 1 .. wrote[s]
    <3> DEFINE a == Len(g)
               c == Len(p.data)
               m == wrote[s]
    <3>1. c \in Nat
      BY <1>2
    <3>2. a \in Nat /\ m \in Nat /\ b \in Nat /\ b <= m
      BY <2>3, <2>4, <2>5
    <3>3. c > 0
      BY <2>6
    <3>4. a + c <= b
      BY <2>8
    <3>5. a \in Nat /\ c \in Nat /\ c > 0 /\ m \in Nat /\ b \in Nat /\ b <= m /\ a + c <= b
      BY <3>1, <3>2, <3>3, <3>4
    <3> HIDE DEF a, c, m
    <3>6. a + c \in a + 1 .. m
      BY <3>5
    <3>7. QED
      BY <3>6 DEF a, c, m
  <2> HIDE DEF w, n
  <2>12. w = Stream!Upto(n)
    BY <2>9, <2>10, RunUpto DEF Stream!Upto
  <2>13. Stream!DeliverUp(s)
    BY <1>4, <2>1, <2>2, <2>11, <2>12 DEF Stream!DeliverUp, w
  <2>14. QED
    BY <1>2, <2>13 DEF Stream!Next
<1>10. CASE ~ live \/ p.cmd \notin {"OKAY", "CLSE", "WRTE"}
  <2>1. host' = host /\ gotUp' = gotUp
    BY <1>4, <1>5, <1>10
  <2>2. QED
    BY <1>4, <2>1 DEF Stream!vars
<1>11. QED
  BY <1>7, <1>8, <1>9, <1>10

\* Every step is one of AdbStream or changes nothing it sees.
LEMMA StreamsNext ==
  ASSUME SocketsInv, [Next]_vars
  PROVE  [Stream!Next]_(Stream!vars)
<1>1. CASE MainStep \/ LinkBreaks \/ UNCHANGED vars
  BY <1>1, MainIsSilent
<1>2. CASE HostReceive
  BY <1>2, ReceiveRefines
<1>3. ASSUME NEW s \in Streams, ServiceStep(s) \/ HostStep(s)
      PROVE  [Stream!Next]_(Stream!vars)
  BY <1>3, ServiceRefines, HostRefines
<1>4. QED
  BY <1>1, <1>2, <1>3 DEF Next

\* The sockets of adbd, with a host that follows protocol.txt and any services, are the
\* streams of AdbStream: each end gets the other's data in order, without gap or
\* repetition, nothing is delivered to a host that closed or was refused, and the end of
\* a service's output comes after all of it.
THEOREM SocketsImplementStreams == Spec => Implements
<1>1. Spec => []SocketsInv
  BY SocketsAlways
<1>2. SocketsInv /\ [Next]_vars => [Stream!Next]_(Stream!vars)
  BY StreamsNext
<1>3. QED
  BY <1>1, <1>2, StreamsInit, PTL DEF Spec, Implements, Stream!Spec
=============================================================================

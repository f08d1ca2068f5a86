------------------------- MODULE ArdpReceiveProofs -------------------------
(***************************************************************************)
(* Proofs about ArdpReceive, for any number of buffers, any initial number *)
(* of the peer's, any sizes, and whatever the network does.                *)
(***************************************************************************)
EXTENDS ArdpReceive, FiniteSetTheorems, SequenceTheorems, TLAPS

-----------------------------------------------------------------------------
(* Numbers and sequences *)

\* A set of numbers has a least element, so what holds of 0 and passes from each
\* number to the next holds of them all.
LEMMA LeastOf ==
  ASSUME NEW S \in SUBSET Nat, S # {}
  PROVE  \E n \in S : \A k \in S : n <= k
<1> DEFINE R == OpToRel(<, Nat)
<1>1. IsWellFoundedOn(R, Nat)
  BY NatLessThanWellFounded
<1> HIDE DEF R
<1>2. PICK n \in S : \A k \in S : <<k, n>> \notin R
  BY <1>1, WFMin
<1>3. \A k \in S : ~ (k < n)
  BY <1>2 DEF R, OpToRel
<1> QED
  BY <1>3

LEMMA Reaches ==
  ASSUME NEW n \in Nat, NEW S, 0 \in S, \A m \in 0 .. n - 1 : m \in S => m + 1 \in S
  PROVE  0 .. n \subseteq S
<1> DEFINE T == (0 .. n) \ S
<1> SUFFICES ASSUME T # {} PROVE FALSE
  OBVIOUS
<1>1. T \in SUBSET Nat
  OBVIOUS
<1> HIDE DEF T
<1>2. PICK t \in T : \A k \in T : t <= k
  BY <1>1, LeastOf
<1>3. t \in 0 .. n /\ t \notin S /\ t # 0
  BY <1>2 DEF T
<1>4. t - 1 \in 0 .. n - 1
  BY <1>3
<1>5. t - 1 \in S
  BY <1>2, <1>3, <1>4 DEF T
<1> QED
  BY <1>3, <1>4, <1>5

LEMMA Quotients ==
  ASSUME NEW n \in Nat \ {0}, NEW a \in Int
  PROVE  /\ a \div n \in Int /\ a % n \in 0 .. n - 1
         /\ a = n * (a \div n) + (a % n)
OBVIOUS

LEMMA Remainder ==
  ASSUME NEW n \in Nat \ {0}, NEW a \in Int, NEW q \in Int, NEW r \in 0 .. n - 1, a = n * q + r
  PROVE  a % n = r
<1> DEFINE p == a \div n
           s == a % n
<1>1. p \in Int /\ s \in 0 .. n - 1 /\ a = n * p + s
  BY Quotients
<1> HIDE DEF p, s
<1>2. n * (p - q) = r - s
  BY <1>1
<1>3. CASE p - q >= 1
  <2>1. n * (p - q) >= n
    BY <1>1, <1>3
  <2> QED
    BY <1>1, <1>2, <2>1
<1>4. CASE p - q <= -1
  <2>1. n * (q - p) >= n
    BY <1>1, <1>4
  <2>2. n * (q - p) = s - r
    BY <1>1
  <2> QED
    BY <1>1, <2>1, <2>2
<1>5. CASE p = q
  BY <1>1, <1>2, <1>5 DEF s
<1> QED
  BY <1>1, <1>3, <1>4, <1>5

\* Numbers modulo SeqModulus are subtracted and added to as such.
LEMMA Modular ==
  ASSUME NEW n \in Nat \ {0}, NEW a \in Int, NEW b \in Int
  PROVE  /\ ((a % n) - (b % n)) % n = (a - b) % n
         /\ ((a % n) + b) % n = (a + b) % n
<1> DEFINE p == a \div n
           s == a % n
           q == b \div n
           t == b % n
           u == (a - b) \div n
           r == (a - b) % n
           v == (a + b) \div n
           w == (a + b) % n
<1>1. p \in Int /\ s \in 0 .. n - 1 /\ a = n * p + s /\ q \in Int /\ t \in 0 .. n - 1 /\ b = n * q + t
  BY Quotients
<1>2. a - b \in Int /\ a + b \in Int
  OBVIOUS
<1>3. u \in Int /\ r \in 0 .. n - 1 /\ a - b = n * u + r
  BY <1>2, Quotients
<1>4. v \in Int /\ w \in 0 .. n - 1 /\ a + b = n * v + w
  BY <1>2, Quotients
<1> HIDE DEF p, s, q, t, u, r, v, w
<1>5. (s - t) % n = r
  <2>1. s - t = n * (u - p + q) + r /\ s - t \in Int /\ u - p + q \in Int
    BY <1>1, <1>3
  <2> QED
    BY <1>3, <2>1, Remainder
<1>6. (s + b) % n = w
  <2>1. s + b = n * (v - p) + w /\ s + b \in Int /\ v - p \in Int
    BY <1>1, <1>4
  <2> QED
    BY <1>4, <2>1, Remainder
<1> QED
  BY <1>5, <1>6 DEF s, t, r, w

\* What is left of a sequence without one of its elements.
LEMMA RemoveAtIs ==
  ASSUME NEW T, NEW q \in Seq(T), NEW k \in DOMAIN q
  PROVE  /\ RemoveAt(q, k) \in Seq(T) /\ Len(RemoveAt(q, k)) = Len(q) - 1
         /\ \A j \in 1 .. Len(q) - 1 : RemoveAt(q, k)[j] = IF j < k THEN q[j] ELSE q[j + 1]
<1>1. k \in 1 .. Len(q) /\ Len(q) \in Nat
  OBVIOUS
<1> DEFINE u == SubSeq(q, 1, k - 1)
           v == SubSeq(q, k + 1, Len(q))
<1>2. u \in Seq(T) /\ Len(u) = k - 1 /\ \A j \in 1 .. k - 1 : u[j] = q[j]
  <2>1. 1 \in 1 .. Len(q) + 1 /\ k - 1 \in 0 .. Len(q)
    BY <1>1
  <2> QED
    BY <1>1, <2>1, SubSeqProperties
<1>3. v \in Seq(T) /\ Len(v) = Len(q) - k /\ \A j \in 1 .. Len(q) - k : v[j] = q[k + j]
  <2>1. k + 1 \in 1 .. Len(q) + 1 /\ Len(q) \in k + 1 - 1 .. Len(q)
    BY <1>1
  <2> QED
    BY <1>1, <2>1, SubSeqProperties
<1>4. RemoveAt(q, k) = u \o v
  BY DEF RemoveAt
<1> DEFINE w == u \o v
<1> HIDE DEF u, v
<1>5. /\ w \in Seq(T) /\ Len(w) = Len(u) + Len(v)
      /\ \A j \in 1 .. Len(u) + Len(v) : w[j] = IF j <= Len(u) THEN u[j] ELSE v[j - Len(u)]
  BY <1>2, <1>3, ConcatProperties
<1> HIDE DEF w
<1>6. ASSUME NEW j \in 1 .. Len(q) - 1 PROVE w[j] = IF j < k THEN q[j] ELSE q[j + 1]
  <2>1. CASE j < k
    <3>1. j \in 1 .. k - 1 /\ j \in 1 .. (k - 1) + (Len(q) - k) /\ j <= k - 1
      BY <1>1, <2>1
    <3>2. w[j] = u[j]
      BY <1>2, <1>3, <1>5, <3>1
    <3>3. u[j] = q[j]
      BY <1>2, <3>1
    <3> QED
      BY <2>1, <3>2, <3>3
  <2>2. CASE ~(j < k)
    <3>1. j - (k - 1) \in 1 .. Len(q) - k /\ k + (j - (k - 1)) = j + 1 /\ ~(j <= k - 1)
          /\ j \in 1 .. (k - 1) + (Len(q) - k)
      BY <1>1, <2>2
    <3>2. w[j] = v[j - (k - 1)]
      BY <1>2, <1>3, <1>5, <3>1
    <3>3. v[j - (k - 1)] = q[j + 1]
      BY <1>3, <3>1
    <3> QED
      BY <2>2, <3>2, <3>3
  <2> QED
    BY <2>1, <2>2
<1>7. Len(w) = Len(q) - 1
  BY <1>1, <1>2, <1>3, <1>5
<1> QED
  BY <1>4, <1>5, <1>6, <1>7 DEF w

-----------------------------------------------------------------------------
(* Sequence numbers *)

Numbers == 0 .. SeqModulus - 1

\* The peer's segments take no more than half of the numbers, so that of two of
\* them it can be told which is ahead.
Short == 2 * (MaxSegment + 2) <= SeqModulus

LEMMA SeqIsNumber == ASSUME NEW n \in Int PROVE Seq32(n) \in Numbers
<1>1. ISS + n \in Int /\ SeqModulus \in Nat \ {0}
  BY ArdpReceiveAssumption
<1> QED
  BY <1>1, Quotients DEF Seq32, Numbers

LEMMA Compare ==
  ASSUME Short, NEW a \in 0 .. MaxSegment + 1, NEW b \in 0 .. MaxSegment + 1
  PROVE  /\ SEQ32_LT(Seq32(a), Seq32(b)) <=> a < b
         /\ SEQ32_LET(Seq32(a), Seq32(b)) <=> a <= b
         /\ b <= a => Ahead(Seq32(a), Seq32(b)) = a - b
<1> DEFINE M == SeqModulus
           h == M \div 2
           d == a - b
<1>1. M \in Nat \ {0} /\ ISS \in 0 .. M - 1 /\ MaxSegment \in Nat
  BY ArdpReceiveAssumption
<1>2. Ahead(Seq32(a), Seq32(b)) = d % M
  <2>1. ISS + a \in Int /\ ISS + b \in Int /\ (ISS + a) - (ISS + b) = d
    BY <1>1
  <2> HIDE DEF d
  <2>2. (((ISS + a) % M) - ((ISS + b) % M)) % M = ((ISS + a) - (ISS + b)) % M
    BY <1>1, <2>1, Modular
  <2> QED
    BY <2>1, <2>2 DEF Ahead, Seq32
<1>3. h \in Nat /\ 2 * h <= M /\ M <= 2 * h + 1 /\ MaxSegment + 2 <= h
  <2>1. h \in Int /\ M % 2 \in 0 .. 1 /\ M = 2 * h + (M % 2)
    BY <1>1
  <2> HIDE DEF h
  <2> QED
    BY <1>1, <2>1 DEF Short
<1> HIDE DEF h
<1>4. d \in Int /\ -1 \in Int /\ 0 \in Int
  OBVIOUS
<1>5. CASE b <= a
  <2>1. d \in 0 .. M - 1 /\ d = M * 0 + d /\ d < h
    BY <1>1, <1>3, <1>5
  <2> HIDE DEF d
  <2>2. d % M = d
    BY <1>1, <1>4, <2>1, Remainder
  <2>3. ~SEQ32_LT(Seq32(a), Seq32(b))
    BY <1>2, <1>3, <2>1, <2>2 DEF SEQ32_LT, h
  <2>4. Seq32(a) = Seq32(b) => d = 0
    <3> SUFFICES ASSUME Seq32(a) = Seq32(b) PROVE d = 0
      OBVIOUS
    <3>1. Seq32(b) \in Int
      BY SeqIsNumber DEF Numbers
    <3>2. Ahead(Seq32(a), Seq32(b)) = 0 % M
      BY <3>1 DEF Ahead
    <3>3. 0 % M = 0
      BY <1>1
    <3> QED
      BY <1>2, <2>2, <3>2, <3>3
  <2>5. SEQ32_LET(Seq32(a), Seq32(b)) <=> a = b
    <3>1. d = 0 <=> a = b
      BY DEF d
    <3> QED
      BY <2>3, <2>4, <3>1 DEF SEQ32_LET
  <2> QED
    BY <1>2, <1>5, <2>2, <2>3, <2>5 DEF d
<1>6. CASE a < b
  <2> DEFINE r == M + d
  <2>1. r \in 0 .. M - 1 /\ d = M * (-1) + r /\ r >= h
    BY <1>1, <1>3, <1>6
  <2> HIDE DEF d, r
  <2>2. d % M = r
    BY <1>1, <1>4, <2>1, Remainder
  <2>3. SEQ32_LT(Seq32(a), Seq32(b))
    BY <1>2, <2>1, <2>2 DEF SEQ32_LT, h
  <2> QED
    BY <1>6, <2>3 DEF SEQ32_LET
<1> QED
  BY <1>5, <1>6

LEMMA Following ==
  ASSUME NEW a \in Nat, NEW k \in Nat
  PROVE  Succ32(Seq32(a)) = Seq32(a + 1) /\ (Seq32(a) + k) % SeqModulus = Seq32(a + k)
<1>1. SeqModulus \in Nat \ {0} /\ ISS + a \in Int /\ (ISS + a) + 1 = ISS + (a + 1) /\ (ISS + a) + k = ISS + (a + k)
  BY ArdpReceiveAssumption
<1>2. (((ISS + a) % SeqModulus) + 1) % SeqModulus = ((ISS + a) + 1) % SeqModulus
  BY <1>1, Modular
<1>3. (((ISS + a) % SeqModulus) + k) % SeqModulus = ((ISS + a) + k) % SeqModulus
  BY <1>1, Modular
<1> QED
  BY <1>1, <1>2, <1>3 DEF Succ32, Seq32

-----------------------------------------------------------------------------
(* The connection's record, and one unit read from it *)

Buffer == [seq : Numbers, data : Indexes \cup {None}, inUse : BOOLEAN, dataLen : Nat]

Record ==
  [state : {"SYN_SENT", "OPEN", "CLOSED"}, CUR : Numbers, LCS : Numbers, pending : Nat, ackTimer : BOOLEAN,
   buf : [Slots -> Buffer], rxContext : Slots \cup {None}, left : Nat, app : Seq(Indexes), asserts : BOOLEAN]

\* Buffer i holds one of the segments numbered in G.
Known(c, i, G) == c.buf[i].data \in Indexes /\ c.buf[i].seq \in G

\* What is held, being read or counted as consumed are segments numbered in G.
Within(c, G) ==
  /\ c \in Record
  /\ c.state = "OPEN" => c.LCS \in G
  /\ \A i \in Slots : c.buf[i].dataLen # 0 => Known(c, i, G)
  /\ c.rxContext # None => Known(c, c.rxContext, G)

\* What is left of the buffer being read is in it.
Reading(c) ==
  /\ \A i \in Slots : c.buf[i].dataLen <= SegUnits
  /\ c.rxContext # None => c.left \in 1 .. c.buf[c.rxContext].dataLen

LEMMA SlotFacts ==
  /\ SegMax \in Nat \ {0, 1} /\ None \notin Slots /\ None \notin Indexes
  /\ \A i \in Int : Slot(i) \in Slots
  /\ \A i \in Slots : NextSlot(i) \in Slots
<1>1. SegMax \in Nat \ {0, 1}
  BY ArdpReceiveAssumption
<1>2. None \notin Slots /\ None \notin Indexes
  BY DEF None, Slots, Indexes
<1>3. \A i \in Int : Slot(i) \in Slots
  BY <1>1, Quotients DEF Slot, Slots
<1>4. \A i \in Slots : NextSlot(i) \in Slots
  <2> TAKE i \in Slots
  <2>1. i + 1 \in Int
    BY DEF Slots
  <2> QED
    BY <1>1, <2>1, Quotients DEF NextSlot, Slots
<1> QED
  BY <1>1, <1>2, <1>3, <1>4

LEMMA EmptyNumber == SeqModulus \in Nat \ {0} /\ 0 \in Numbers
BY ArdpReceiveAssumption DEF Numbers

Emptied(c) == [c.buf EXCEPT ![c.rxContext] = [c.buf[c.rxContext] EXCEPT !.inUse = FALSE, !.dataLen = 0]]

LEMMA EmptiedIs ==
  ASSUME NEW c \in Record, c.rxContext # None
  PROVE  /\ c.rxContext \in Slots /\ Emptied(c) \in [Slots -> Buffer]
         /\ Emptied(c)[c.rxContext].dataLen = 0 /\ Emptied(c)[c.rxContext].inUse = FALSE
         /\ \A k \in Slots : k # c.rxContext => Emptied(c)[k] = c.buf[k]
<1> DEFINE i == c.rxContext
           e == [c.buf[i] EXCEPT !.inUse = FALSE, !.dataLen = 0]
<1>1. c.buf \in [Slots -> Buffer] /\ i \in Slots
  BY DEF Record
<1>2. c.buf[i] \in Buffer
  BY <1>1
<1>3. e \in Buffer /\ e.dataLen = 0 /\ e.inUse = FALSE
  BY <1>2 DEF Buffer
<1> HIDE DEF e
<1>4. Emptied(c) = [c.buf EXCEPT ![i] = e]
  BY DEF Emptied, e
<1> QED
  BY <1>1, <1>3, <1>4

\* One unit read: from a buffer with more in it, and the last of its buffer.
LEMMA ReadUnitIs ==
  ASSUME NEW c \in Record, c.rxContext # None, c.buf[c.rxContext].data \in Indexes
  PROVE  LET d == ReadUnit(c)
             i == c.rxContext
             next == Emptied(c)[NextSlot(i)].dataLen
         IN /\ d \in Record /\ d.app = Append(c.app, c.buf[i].data)
            /\ d.CUR = c.CUR /\ d.state = c.state /\ d.asserts = c.asserts
            /\ c.left > 1 => d.left = c.left - 1 /\ d.buf = c.buf /\ d.rxContext = i /\ d.LCS = c.LCS
            /\ ~(c.left > 1) =>
                 /\ d.buf = Emptied(c) /\ d.LCS = c.buf[i].seq /\ d.left = next
                 /\ d.rxContext = IF next # 0 THEN NextSlot(i) ELSE None
<1> DEFINE i == c.rxContext
           given == [c EXCEPT !.app = Append(@, c.buf[i].data), !.left = @ - 1]
           done == RecvReady(given)
           next == done.buf[NextSlot(i)].dataLen
           after == [done EXCEPT !.rxContext = IF next # 0 THEN NextSlot(i) ELSE None, !.left = next]
<1>1. ReadUnit(c) = IF c.left > 1 THEN given ELSE after
  BY DEF ReadUnit
<1>2. c.left \in Nat /\ c.buf \in [Slots -> Buffer] /\ c.app \in Seq(Indexes) /\ i \in Slots
  BY DEF Record
<1>3. Append(c.app, c.buf[i].data) \in Seq(Indexes)
  BY <1>2
<1>4. CASE c.left > 1
  <2>1. c.left - 1 \in Nat
    BY <1>2, <1>4
  <2>2. /\ given \in Record /\ given.buf = c.buf /\ given.rxContext = c.rxContext /\ given.LCS = c.LCS
        /\ given.CUR = c.CUR /\ given.state = c.state /\ given.left = c.left - 1 /\ given.asserts = c.asserts
        /\ given.app = Append(c.app, c.buf[i].data)
    BY <1>3, <2>1 DEF Record
  <2> HIDE DEF given, done, after
  <2> QED
    BY <1>1, <1>4, <2>2
<1>5. CASE ~(c.left > 1)
  <2>1. i \in Slots /\ c.buf[i] \in Buffer
    BY <1>2
  <2> DEFINE emptied == [c.buf[i] EXCEPT !.inUse = FALSE, !.dataLen = 0]
             b == [c.buf EXCEPT ![i] = emptied]
  <2>3. emptied \in Buffer
    BY <2>1 DEF Buffer
  <2>4. b \in [Slots -> Buffer] /\ b[i] = emptied /\ \A k \in Slots : k # i => b[k] = c.buf[k]
    BY <1>2, <2>1, <2>3
  <2>5. done = [c EXCEPT !.app = Append(@, c.buf[i].data), !.left = @ - 1, !.ackTimer = TRUE,
                         !.buf = b, !.LCS = c.buf[i].seq]
    <3> DEFINE b1 == [c.buf EXCEPT ![i].inUse = FALSE]
               b2 == [b1 EXCEPT ![i].dataLen = 0]
               g1 == [given EXCEPT !.ackTimer = TRUE]
    <3>1. /\ g1 = [c EXCEPT !.app = Append(@, c.buf[i].data), !.left = @ - 1, !.ackTimer = TRUE]
          /\ given.rxContext = i /\ given.buf = c.buf /\ g1.buf = c.buf
      BY <1>2 DEF Record
    <3>2. b2 = b
      <4>1. b1[i] = [c.buf[i] EXCEPT !.inUse = FALSE] /\ b1 \in [Slots -> Buffer]
        BY <1>2, <2>1 DEF Buffer
      <4>2. b2[i] = [b1[i] EXCEPT !.dataLen = 0] /\ \A k \in Slots : k # i => b2[k] = c.buf[k]
        BY <1>2, <2>1, <4>1
      <4>3. b2[i] = emptied
        BY <2>1, <4>1, <4>2 DEF Buffer
      <4>4. b2 = [k \in Slots |-> b2[k]] /\ b = [k \in Slots |-> b[k]]
        BY <1>2, <2>4
      <4> HIDE DEF b2, b
      <4> QED
        BY <2>4, <4>2, <4>3, <4>4
    <3>3. done = [[[g1 EXCEPT !.buf[i].inUse = FALSE] EXCEPT !.buf[i].dataLen = 0] EXCEPT !.LCS = given.buf[i].seq]
      BY <3>1, Zenon DEF RecvReady, ArmAck
    <3> HIDE DEF given
    <3>4. done = [g1 EXCEPT !.buf = b2, !.LCS = c.buf[i].seq]
      BY <1>2, <3>1, <3>3 DEF Record
    <3> HIDE DEF b, b2, g1, done
    <3>5. done = [c EXCEPT !.app = Append(@, c.buf[i].data), !.left = @ - 1, !.ackTimer = TRUE,
                            !.buf = b, !.LCS = c.buf[i].seq]
      BY <1>2, <3>1, <3>2, <3>4 DEF Record
    <3> QED
      BY <3>5
  <2>6. done.buf = b
    BY <2>5 DEF Record
  <2> DEFINE n == NextSlot(i)
  <2>7. n \in Slots /\ next = b[n].dataLen /\ next \in Nat
    BY <2>1, <2>4, <2>6, SlotFacts DEF Buffer
  <2> DEFINE rx == IF next # 0 THEN n ELSE None
  <2>8. rx \in Slots \cup {None}
    BY <2>7
  <2>9. after = [c EXCEPT !.app = Append(@, c.buf[i].data), !.left = next, !.ackTimer = TRUE,
                          !.buf = b, !.LCS = c.buf[i].seq, !.rxContext = rx]
    <3> HIDE DEF b, next
    <3> QED
      BY <2>5 DEF Record
  <2>e. Emptied(c) = b
    BY DEF Emptied
  <2> HIDE DEF b, next, rx, emptied, done, given, after
  <2>10. /\ after \in Record /\ after.buf = b /\ after.LCS = c.buf[i].seq /\ after.CUR = c.CUR
         /\ after.state = c.state /\ after.asserts = c.asserts /\ after.rxContext = rx /\ after.left = next
         /\ after.app = Append(c.app, c.buf[i].data)
    BY <1>3, <2>1, <2>4, <2>7, <2>8, <2>9 DEF Record, Buffer
  <2> QED
    BY <1>1, <1>5, <2>7, <2>10, <2>e DEF rx
<1> QED
  BY <1>4, <1>5

LEMMA ReadUnitKeeps ==
  ASSUME NEW G \in SUBSET Numbers, NEW c, Within(c, G)
  PROVE  /\ Within(ReadUnit(c), G) /\ ReadUnit(c).CUR = c.CUR /\ ReadUnit(c).state = c.state
         /\ Reading(c) => Reading(ReadUnit(c))
<1> DEFINE i == c.rxContext
           d == ReadUnit(c)
           b == Emptied(c)
           n == NextSlot(i)
<1>1. CASE i = None
  BY <1>1 DEF ReadUnit
<1>2. CASE i # None
  <2>1. c \in Record /\ c.buf \in [Slots -> Buffer] /\ c.buf[i].data \in Indexes /\ c.buf[i].seq \in G
        /\ c.left \in Nat
    BY <1>2 DEF Within, Known, Record
  <2>2. /\ i \in Slots /\ n \in Slots /\ b \in [Slots -> Buffer] /\ b[i].dataLen = 0
        /\ \A k \in Slots : k # i => b[k] = c.buf[k]
    BY <1>2, <2>1, EmptiedIs, SlotFacts
  <2>3. /\ d \in Record /\ d.CUR = c.CUR /\ d.state = c.state
        /\ c.left > 1 => d.left = c.left - 1 /\ d.buf = c.buf /\ d.rxContext = i /\ d.LCS = c.LCS
        /\ ~(c.left > 1) =>
             /\ d.buf = b /\ d.LCS = c.buf[i].seq /\ d.left = b[n].dataLen
             /\ d.rxContext = IF b[n].dataLen # 0 THEN n ELSE None
    BY <1>2, <2>1, ReadUnitIs
  <2> HIDE DEF d, b, n
  <2>4. CASE c.left > 1
    <3>1. Within(d, G)
      BY <2>3, <2>4 DEF Within, Known
    <3>2. Reading(c) => Reading(d)
      BY <1>2, <2>1, <2>2, <2>3, <2>4 DEF Reading, Buffer
    <3> QED
      BY <2>3, <3>1, <3>2 DEF d
  <2>5. CASE ~(c.left > 1)
    <3>1. \A k \in Slots : b[k].dataLen # 0 => Known(d, k, G)
      BY <2>2, <2>3, <2>5 DEF Within, Known
    <3>2. d.rxContext # None => d.rxContext = n /\ b[n].dataLen # 0
      BY <2>3, <2>5
    <3>3. Within(d, G)
      BY <2>1, <2>2, <2>3, <2>5, <3>1, <3>2 DEF Within
    <3>4. Reading(c) => Reading(d)
      <4> SUFFICES ASSUME Reading(c) PROVE Reading(d)
        OBVIOUS
      <4>1. \A k \in Slots : b[k].dataLen <= SegUnits
        BY <2>2, ArdpReceiveAssumption DEF Reading
      <4>2. d.rxContext # None => d.left \in 1 .. b[n].dataLen
        BY <2>2, <2>3, <2>5, <3>2 DEF Buffer
      <4> QED
        BY <2>3, <2>5, <3>2, <4>1, <4>2 DEF Reading
    <3> QED
      BY <2>3, <3>3, <3>4 DEF d
  <2> QED
    BY <2>4, <2>5
<1> QED
  BY <1>1, <1>2

\* What UpdateReadBuffer goes through.
ReadPass(g, c, len) == g = [k \in 0 .. len |-> IF k = 0 THEN c ELSE ReadUnit(g[k - 1])]

LEMMA ReadPassExists ==
  ASSUME NEW c, NEW len \in Nat
  PROVE  \E g : ReadPass(g, c, len)
<1> DEFINE S == {m \in 0 .. len : \E g : ReadPass(g, c, m)}
<1>1. 0 \in S
  <2> DEFINE g == [k \in 0 .. 0 |-> c]
  <2>1. ReadPass(g, c, 0)
    BY DEF ReadPass
  <2> HIDE DEF g
  <2> QED
    BY <2>1
<1>2. ASSUME NEW m \in 0 .. len - 1, m \in S PROVE m + 1 \in S
  <2>1. PICK g : ReadPass(g, c, m)
    BY <1>2
  <2> DEFINE h == [k \in 0 .. m + 1 |-> IF k <= m THEN g[k] ELSE ReadUnit(g[m])]
             r == [k \in 0 .. m + 1 |-> IF k = 0 THEN c ELSE ReadUnit(h[k - 1])]
  <2>2. ASSUME NEW k \in 0 .. m + 1 PROVE h[k] = r[k]
    <3>1. CASE k = 0
      BY <2>1, <3>1 DEF ReadPass
    <3>2. CASE k # 0 /\ k <= m
      <4>1. k \in 0 .. m /\ k - 1 \in 0 .. m /\ k - 1 \in 0 .. m + 1
        BY <3>2
      <4>2. g[k] = ReadUnit(g[k - 1])
        BY <2>1, <3>2, <4>1 DEF ReadPass
      <4>3. h[k - 1] = g[k - 1] /\ h[k] = g[k]
        BY <4>1
      <4> HIDE DEF h
      <4> QED
        BY <3>2, <4>2, <4>3
    <3>3. CASE k = m + 1
      <4>1. k - 1 = m /\ k # 0 /\ m \in 0 .. m + 1 /\ ~(k <= m)
        BY <3>3
      <4>2. h[k - 1] = g[m] /\ h[k] = ReadUnit(g[m])
        BY <3>3, <4>1
      <4> HIDE DEF h
      <4> QED
        BY <4>1, <4>2
    <3> QED
      BY <3>1, <3>2, <3>3
  <2>3. h = r
    <3>1. h = [k \in 0 .. m + 1 |-> h[k]] /\ r = [k \in 0 .. m + 1 |-> r[k]]
      OBVIOUS
    <3> HIDE DEF h, r
    <3> QED
      BY <2>2, <3>1
  <2>4. ReadPass(h, c, m + 1)
    BY <2>3 DEF ReadPass
  <2> HIDE DEF h
  <2> QED
    BY <2>4
<1> HIDE DEF S
<1>3. 0 .. len \subseteq S
  BY <1>1, <1>2, Reaches
<1> QED
  BY <1>3 DEF S

LEMMA UpdateReadBufferKeeps ==
  ASSUME NEW G \in SUBSET Numbers, NEW c, Within(c, G), NEW len \in Nat
  PROVE  LET d == UpdateReadBuffer(c, len)
         IN Within(d, G) /\ d.CUR = c.CUR /\ d.state = c.state /\ (Reading(c) => Reading(d))
<1> DEFINE read == CHOOSE g : ReadPass(g, c, len)
           OK(d) == Within(d, G) /\ d.CUR = c.CUR /\ d.state = c.state /\ (Reading(c) => Reading(d))
<1>1. ReadPass(read, c, len)
  BY ReadPassExists
<1>2. UpdateReadBuffer(c, len) = read[len]
  BY Zenon DEF UpdateReadBuffer, ReadPass
<1> HIDE DEF read
<1> DEFINE S == {m \in 0 .. len : OK(read[m])}
<1>3. 0 \in S
  BY <1>1 DEF ReadPass
<1>4. ASSUME NEW m \in 0 .. len - 1, m \in S PROVE m + 1 \in S
  <2>1. m + 1 \in 0 .. len /\ m + 1 # 0 /\ (m + 1) - 1 = m
    OBVIOUS
  <2>2. read[m + 1] = ReadUnit(read[m])
    BY <1>1, <2>1 DEF ReadPass
  <2>3. OK(read[m])
    BY <1>4
  <2>4. OK(ReadUnit(read[m]))
    BY <2>3, ReadUnitKeeps
  <2> HIDE DEF OK
  <2> QED
    BY <2>1, <2>2, <2>4
<1> HIDE DEF S
<1>5. 0 .. len \subseteq S
  BY <1>3, <1>4, Reaches
<1>6. len \in S
  BY <1>5
<1> QED
  BY <1>2, <1>6 DEF S

-----------------------------------------------------------------------------
(* A segment handled *)

Datagram ==
  [SYN : BOOLEAN, NUL : BOOLEAN, SEQ : Numbers, ACKNXT : Numbers, FCNT : {0, 1}, data : Indexes \cup {None}]

\* What the peer puts on the wire: the n-th segment, or a NUL segment before
\* it, when u is its oldest unacknowledged one.
Peers(seg, n, u) ==
  /\ seg \in Datagram
  /\ seg.SEQ = Seq32(n) /\ seg.ACKNXT = Seq32(u)
  /\ seg.data \in {n, None} /\ (seg.SYN <=> seg.data = 0) /\ (seg.NUL <=> seg.data = None)

LEMMA AddRcvBufferIs ==
  ASSUME NEW c \in Record, NEW seg \in Datagram, seg.data \in Indexes
  PROVE  LET d == AddRcvBuffer(c, seg)
             i == Slot(seg.SEQ)
         IN /\ d \in Record /\ i \in Slots
            /\ d.CUR = c.CUR /\ d.state = c.state /\ d.LCS = c.LCS /\ d.app = c.app
            /\ c.asserts /\ ~c.buf[i].inUse => d.asserts
            /\ d.buf[i].data = seg.data /\ d.buf[i].seq = seg.SEQ /\ d.buf[i].dataLen = UnitsOf(seg.data)
            /\ \A k \in Slots : k # i => d.buf[k] = c.buf[k]
            /\ c.rxContext = None => d.rxContext = i /\ d.left = UnitsOf(seg.data)
            /\ c.rxContext # None => d.rxContext = c.rxContext /\ d.left = c.left
<1> DEFINE i == Slot(seg.SEQ)
           new == [seq |-> seg.SEQ, data |-> seg.data, inUse |-> seg.FCNT # 0, dataLen |-> UnitsOf(seg.data)]
           b == [c.buf EXCEPT ![i] = new]
           idle == c.rxContext = None
           rx == IF idle THEN i ELSE c.rxContext
           left == IF idle THEN UnitsOf(seg.data) ELSE c.left
           ok == c.asserts /\ ~c.buf[i].inUse
           d == AddRcvBuffer(c, seg)
<1>1. c.buf \in [Slots -> Buffer]
  BY DEF Record
<1>2. i \in Slots
  BY SlotFacts DEF Datagram, Numbers
<1>3. UnitsOf(seg.data) \in Nat \ {0}
  BY ArdpReceiveAssumption DEF UnitsOf
<1>4. new \in Buffer /\ new.data = seg.data /\ new.seq = seg.SEQ /\ new.dataLen = UnitsOf(seg.data)
  BY <1>3 DEF Buffer, Datagram
<1>5. b \in [Slots -> Buffer] /\ b[i] = new /\ \A k \in Slots : k # i => b[k] = c.buf[k]
  BY <1>1, <1>2, <1>4
<1>6. rx \in Slots \cup {None} /\ left \in Nat
  BY <1>1, <1>2, <1>3 DEF Record
<1>7. d = [c EXCEPT !.asserts = ok, !.buf = b, !.rxContext = rx, !.left = left]
  BY <1>1 DEF AddRcvBuffer, Record
<1>8. ok \in BOOLEAN
  OBVIOUS
<1> HIDE DEF b, new, rx, left, d, i, ok
<1>9. /\ d \in Record /\ d.buf = b /\ d.rxContext = rx /\ d.left = left
      /\ d.CUR = c.CUR /\ d.state = c.state /\ d.LCS = c.LCS /\ d.app = c.app /\ d.asserts = ok
  BY <1>1, <1>5, <1>6, <1>7, <1>8 DEF Record
<1>10. c.asserts /\ ~c.buf[i].inUse => d.asserts
  BY <1>9 DEF ok
<1>11. /\ c.rxContext = None => d.rxContext = i /\ d.left = UnitsOf(seg.data)
       /\ c.rxContext # None => d.rxContext = c.rxContext /\ d.left = c.left
  BY <1>9 DEF rx, left
<1> QED
  BY <1>2, <1>4, <1>5, <1>9, <1>10, <1>11 DEF d, i

LEMMA AddRcvBufferKeeps ==
  ASSUME NEW G \in SUBSET Numbers, NEW c, Within(c, G),
         NEW seg \in Datagram, seg.SEQ \in G, seg.data \in Indexes
  PROVE  LET d == AddRcvBuffer(c, seg)
         IN /\ Within(d, G) /\ d.CUR = c.CUR /\ d.state = c.state
            /\ Reading(c) /\ (SynUnits <= SegUnits) /\ (c.rxContext # None => ~seg.SYN /\ seg.data # 0) => Reading(d)
<1> DEFINE i == Slot(seg.SEQ)
           d == AddRcvBuffer(c, seg)
<1>1. c \in Record /\ c.buf \in [Slots -> Buffer] /\ c.rxContext \in Slots \cup {None}
  BY DEF Within, Record
<1>2. /\ d \in Record /\ i \in Slots
      /\ d.CUR = c.CUR /\ d.state = c.state /\ d.LCS = c.LCS
      /\ d.buf[i].data = seg.data /\ d.buf[i].seq = seg.SEQ /\ d.buf[i].dataLen = UnitsOf(seg.data)
      /\ \A k \in Slots : k # i => d.buf[k] = c.buf[k]
      /\ c.rxContext = None => d.rxContext = i /\ d.left = UnitsOf(seg.data)
      /\ c.rxContext # None => d.rxContext = c.rxContext /\ d.left = c.left
  BY <1>1, AddRcvBufferIs
<1> HIDE DEF d, i
<1>3. UnitsOf(seg.data) \in Nat \ {0} /\ (seg.data # 0 => UnitsOf(seg.data) = SegUnits)
      /\ (SynUnits <= SegUnits => UnitsOf(seg.data) <= SegUnits) /\ SegUnits \in Nat
  BY ArdpReceiveAssumption DEF UnitsOf
<1>4. \A k \in Slots : d.buf[k].dataLen # 0 => Known(d, k, G)
  BY <1>2 DEF Within, Known
<1>5. d.rxContext # None => Known(d, d.rxContext, G)
  BY <1>1, <1>2 DEF Within, Known
<1>6. Within(d, G)
  BY <1>2, <1>4, <1>5 DEF Within
<1>7. ASSUME Reading(c), SynUnits <= SegUnits, c.rxContext # None => ~seg.SYN /\ seg.data # 0
      PROVE  Reading(d)
  <2>1. \A k \in Slots : d.buf[k].dataLen <= SegUnits
    BY <1>2, <1>3, <1>7 DEF Reading
  <2>2. d.rxContext # None => d.left \in 1 .. d.buf[d.rxContext].dataLen
    <3>1. CASE c.rxContext = None
      BY <1>2, <1>3, <3>1
    <3>2. CASE c.rxContext = i
      <4>1. i # None
        BY <1>2, SlotFacts
      <4>2. c.left \in 1 .. c.buf[i].dataLen /\ c.buf[i].dataLen <= SegUnits /\ c.buf[i].dataLen \in Nat
        BY <1>1, <1>2, <1>7, <3>2, <4>1 DEF Reading, Buffer
      <4> QED
        BY <1>2, <1>3, <1>7, <3>2, <4>1, <4>2
    <3>3. CASE c.rxContext # None /\ c.rxContext # i
      BY <1>1, <1>2, <1>7, <3>3 DEF Reading
    <3> QED
      BY <3>1, <3>2, <3>3
  <2> QED
    BY <2>1, <2>2 DEF Reading
<1> QED
  BY <1>2, <1>6, <1>7 DEF d

LEMMA WithinMore ==
  ASSUME NEW G, NEW H, G \subseteq H, NEW c, Within(c, G)
  PROVE  Within(c, H)
BY DEF Within, Known

LEMMA AheadIsNumber == ASSUME NEW a \in Int, NEW b \in Int PROVE Ahead(a, b) \in Numbers
<1>1. a - b \in Int /\ SeqModulus \in Nat \ {0}
  BY EmptyNumber
<1> QED
  BY <1>1, Quotients DEF Ahead, Numbers

LEMMA SuccIsNumber == ASSUME NEW a \in Int PROVE Succ32(a) \in Numbers
<1>1. a + 1 \in Int /\ SeqModulus \in Nat \ {0}
  BY EmptyNumber
<1> QED
  BY <1>1, Quotients DEF Succ32, Numbers

LEMMA FlushKeeps ==
  ASSUME NEW G \in SUBSET Numbers, NEW c, Within(c, G), NEW acknxt \in Numbers
  PROVE  LET d == FlushExpiredRcvMessages(c, acknxt)
         IN /\ Within(d, G) /\ d.state = c.state
            /\ d.CUR = (c.CUR + Ahead(acknxt, Succ32(c.CUR))) % SeqModulus
            /\ Reading(c) => Reading(d)
<1> DEFINE count == Ahead(acknxt, Succ32(c.CUR))
           at(k) == (c.CUR + k) % SegMax
           b == [i \in Slots |-> IF \E k \in 0 .. count - 1 : at(k) = i
                                 THEN [c.buf[i] EXCEPT !.inUse = FALSE, !.dataLen = 0] ELSE c.buf[i]]
           next == (c.CUR + count) % SegMax
           cur == (c.CUR + count) % SeqModulus
           rx == IF b[next].dataLen # 0 THEN next ELSE None
           left == IF b[next].dataLen # 0 THEN b[next].dataLen ELSE c.left
           d == FlushExpiredRcvMessages(c, acknxt)
<1>1. c \in Record /\ c.buf \in [Slots -> Buffer] /\ c.CUR \in Numbers
  BY DEF Within, Record
<1>2. count \in Numbers /\ c.CUR + count \in Int
  <2>1. c.CUR \in Int /\ acknxt \in Int
    BY <1>1 DEF Numbers
  <2>2. Succ32(c.CUR) \in Int
    BY <2>1, SuccIsNumber DEF Numbers
  <2>3. count \in Numbers
    BY <2>1, <2>2, AheadIsNumber
  <2> HIDE DEF count
  <2> QED
    BY <2>1, <2>3 DEF Numbers
<1>3. d = [c EXCEPT !.buf = b, !.CUR = cur, !.rxContext = rx, !.left = left]
  BY <1>1, Zenon DEF FlushExpiredRcvMessages
<1> HIDE DEF count
<1>4. next \in Slots /\ cur \in Numbers
  BY <1>2, SlotFacts, EmptyNumber, Quotients DEF Slots, Numbers
<1>5. \A i \in Slots :
        b[i] = c.buf[i] \/ (b[i] = [c.buf[i] EXCEPT !.inUse = FALSE, !.dataLen = 0])
  BY <1>1
<1>6. b \in [Slots -> Buffer] /\ \A i \in Slots : b[i] = c.buf[i] \/ b[i].dataLen = 0
  <2>2. b = [i \in Slots |-> b[i]]
    OBVIOUS
  <2> HIDE DEF b
  <2>1. ASSUME NEW i \in Slots PROVE b[i] \in Buffer /\ (b[i] = c.buf[i] \/ b[i].dataLen = 0)
    <3> DEFINE e == c.buf[i]
    <3>1. e \in Buffer
      BY <1>1
    <3> HIDE DEF e
    <3>2. [e EXCEPT !.inUse = FALSE, !.dataLen = 0] \in Buffer /\ [e EXCEPT !.inUse = FALSE, !.dataLen = 0].dataLen = 0
      BY <3>1 DEF Buffer
    <3> QED
      BY <1>5, <3>1, <3>2 DEF e
  <2> QED
    BY <2>1, <2>2
<1> HIDE DEF b, next, cur, d
<1>7. rx \in Slots \cup {None} /\ left \in Nat /\ (rx # None => rx = next /\ b[next].dataLen # 0 /\ left = b[next].dataLen)
  BY <1>1, <1>4, <1>6 DEF Record, Buffer
<1> HIDE DEF rx, left
<1>8. /\ d \in Record /\ d.buf = b /\ d.CUR = cur /\ d.rxContext = rx /\ d.left = left
      /\ d.state = c.state /\ d.LCS = c.LCS
  BY <1>1, <1>3, <1>4, <1>6, <1>7 DEF Record
<1>9. \A i \in Slots : b[i].dataLen # 0 => Known(d, i, G)
  BY <1>6, <1>8 DEF Within, Known
<1>10. Within(d, G)
  BY <1>4, <1>7, <1>8, <1>9 DEF Within
<1>11. Reading(c) => Reading(d)
  <2> SUFFICES ASSUME Reading(c) PROVE Reading(d)
    OBVIOUS
  <2>1. \A i \in Slots : b[i].dataLen <= SegUnits
    BY <1>6, ArdpReceiveAssumption DEF Reading
  <2>2. rx # None => left \in 1 .. b[rx].dataLen
    BY <1>4, <1>6, <1>7 DEF Buffer
  <2> QED
    BY <1>8, <2>1, <2>2 DEF Reading
<1> QED
  BY <1>8, <1>10, <1>11 DEF d, cur, count

\* The fields that arming the timer and sending an acknowledgement leave alone.
Same(c, d) ==
  /\ d \in Record /\ d.state = c.state /\ d.CUR = c.CUR /\ d.LCS = c.LCS /\ d.buf = c.buf
  /\ d.rxContext = c.rxContext /\ d.left = c.left /\ d.app = c.app /\ d.asserts = c.asserts

LEMMA ArmedIs ==
  ASSUME NEW c \in Record
  PROVE  \A d \in {ArmAck(c), AckSent(c), [ArmAck(c) EXCEPT !.pending = @ + 1]} : Same(c, d)
<1> TAKE d \in {ArmAck(c), AckSent(c), [ArmAck(c) EXCEPT !.pending = @ + 1]}
<1>1. CASE d = ArmAck(c)
  BY <1>1 DEF ArmAck, Record, Same
<1>2. CASE d = AckSent(c)
  BY <1>2 DEF AckSent, Record, Same
<1>3. CASE d = [ArmAck(c) EXCEPT !.pending = @ + 1]
  <2>1. d = [c EXCEPT !.ackTimer = TRUE, !.pending = c.pending + 1] /\ c.pending + 1 \in Nat
    BY <1>3 DEF ArmAck, Record
  <2> QED
    BY <2>1 DEF Record, Same
<1> QED
  BY <1>1, <1>2, <1>3

LEMMA Acks ==
  ASSUME NEW G, NEW c, Within(c, G)
  PROVE  \A d \in {ArmAck(c), AckSent(c), [ArmAck(c) EXCEPT !.pending = @ + 1]} :
           Within(d, G) /\ d.CUR = c.CUR /\ d.LCS = c.LCS /\ d.state = c.state /\ d.rxContext = c.rxContext
             /\ (Reading(c) => Reading(d))
<1> TAKE d \in {ArmAck(c), AckSent(c), [ArmAck(c) EXCEPT !.pending = @ + 1]}
<1>1. Same(c, d)
  BY ArmedIs DEF Within
<1> QED
  BY <1>1 DEF Same, Within, Known, Reading

LEMMA TakeDataKeeps ==
  ASSUME NEW G \in SUBSET Numbers, NEW c, Within(c, G),
         NEW seg \in Datagram, Accepts(c, seg) => seg.SEQ \in G
  PROVE  LET d == TakeData(c, seg)
         IN /\ Within(d, G) /\ d.state = c.state
            /\ d.CUR = IF Accepts(c, seg) THEN seg.SEQ ELSE c.CUR
            /\ Reading(c) /\ (SynUnits <= SegUnits) /\ ~seg.SYN /\ seg.data # 0 => Reading(d)
<1> DEFINE armed == IF seg.data = None THEN AckSent(c) ELSE [ArmAck(c) EXCEPT !.pending = @ + 1]
           added == AddRcvBuffer(armed, seg)
           d == TakeData(c, seg)
<1>1. Within(armed, G) /\ armed.CUR = c.CUR /\ armed.state = c.state /\ (Reading(c) => Reading(armed))
  BY Acks
<1>2. d = IF Accepts(armed, seg) THEN [added EXCEPT !.CUR = seg.SEQ] ELSE armed
  BY DEF TakeData
<1> HIDE DEF armed, d
<1>3. Accepts(armed, seg) <=> Accepts(c, seg)
  BY <1>1 DEF Accepts
<1>4. CASE ~Accepts(c, seg)
  BY <1>1, <1>2, <1>3, <1>4 DEF d
<1>5. CASE Accepts(c, seg)
  <2>1. seg.data \in Indexes /\ seg.SEQ \in G
    BY <1>5 DEF Accepts, Datagram
  <2>2. /\ Within(added, G) /\ added.state = armed.state
        /\ Reading(armed) /\ (SynUnits <= SegUnits) /\ ~seg.SYN /\ seg.data # 0 => Reading(added)
    BY <1>1, <2>1, AddRcvBufferKeeps
  <2> HIDE DEF added
  <2>3. added \in Record /\ d = [added EXCEPT !.CUR = seg.SEQ]
    BY <1>2, <1>3, <1>5, <2>2 DEF Within
  <2>4. /\ d \in Record /\ d.CUR = seg.SEQ /\ d.LCS = added.LCS /\ d.state = added.state
        /\ d.rxContext = added.rxContext /\ d.buf = added.buf /\ d.left = added.left
    BY <2>3 DEF Record, Datagram
  <2>5. Within(d, G) /\ (Reading(added) => Reading(d))
    BY <2>2, <2>4 DEF Within, Known, Reading
  <2> QED
    BY <1>1, <1>5, <2>2, <2>4, <2>5 DEF d
<1> QED
  BY <1>4, <1>5

Flushed(c, seg) == IF Expired(c, seg) THEN FlushExpiredRcvMessages(c, seg.ACKNXT) ELSE c

\* The last segment received once this one has been handled.
CurAfter(c, seg) ==
  IF ~Valid(seg) THEN c.CUR
  ELSE IF c.state = "SYN_SENT" THEN IF seg.SYN THEN seg.SEQ ELSE c.CUR
  ELSE IF seg.SYN THEN c.CUR
  ELSE IF Accepts(Flushed(c, seg), seg) THEN seg.SEQ ELSE Flushed(c, seg).CUR

LEMMA OpensKeeps ==
  ASSUME NEW G \in SUBSET Numbers, NEW c, Within(c, G), c.rxContext = None,
         NEW seg \in Datagram, seg.SEQ \in G, seg.data = 0
  PROVE  LET d == Opens(c, seg)
         IN /\ Within(d, G) /\ d.state = "OPEN" /\ d.CUR = seg.SEQ
            /\ Reading(c) /\ (SynUnits <= SegUnits) => Reading(d)
<1> DEFINE open == [c EXCEPT !.state = "OPEN", !.CUR = seg.SEQ, !.LCS = seg.SEQ]
           sent == AckSent(open)
<1>1. c \in Record
  BY DEF Within
<1>2. /\ open \in Record /\ open.LCS = seg.SEQ /\ open.CUR = seg.SEQ /\ open.state = "OPEN"
      /\ open.buf = c.buf /\ open.rxContext = c.rxContext /\ open.left = c.left
  BY <1>1 DEF Record, Datagram
<1> HIDE DEF open
<1>3. Within(open, G) /\ (Reading(c) => Reading(open))
  BY <1>2 DEF Within, Known, Reading
<1>4. /\ Within(sent, G) /\ (Reading(open) => Reading(sent)) /\ sent.CUR = open.CUR /\ sent.state = open.state
      /\ sent.rxContext = open.rxContext
  BY <1>3, Acks
<1> HIDE DEF sent
<1>5. Opens(c, seg) = AddRcvBuffer(sent, seg)
  BY DEF Opens, sent, open
<1>6. seg.data \in Indexes /\ sent.rxContext = None
  BY <1>2, <1>4, ArdpReceiveAssumption DEF Indexes
<1>7. LET d == AddRcvBuffer(sent, seg)
      IN /\ Within(d, G) /\ d.CUR = sent.CUR /\ d.state = sent.state
         /\ Reading(sent) /\ (SynUnits <= SegUnits) => Reading(d)
  BY <1>4, <1>6, AddRcvBufferKeeps
<1> QED
  BY <1>2, <1>3, <1>4, <1>5, <1>7

LEMMA HandleKeeps ==
  ASSUME NEW G \in SUBSET Numbers, NEW c, Within(c, G), c.state = "SYN_SENT" => c.rxContext = None,
         NEW seg \in Datagram, seg.SYN <=> seg.data = 0, NEW len \in Nat, CurAfter(c, seg) \in G
  PROVE  LET d == Handle(c, seg, len)
         IN /\ Within(d, G) /\ d.CUR = CurAfter(c, seg)
            /\ d.state = IF ~Valid(seg) THEN "CLOSED"
                         ELSE IF c.state = "SYN_SENT" /\ seg.SYN THEN "OPEN" ELSE c.state
            /\ c.state = "SYN_SENT" /\ d.state = "SYN_SENT" => d = c
            /\ Reading(c) /\ (SynUnits <= SegUnits) => Reading(d)
<1> DEFINE f == Flushed(c, seg)
           m == TakeData(f, seg)
           d == Handle(c, seg, len)
           e == [ArmAck(m) EXCEPT !.LCS = m.CUR]
           fits == SynUnits <= SegUnits
           Fine(x) == /\ Within(x, G) /\ x.CUR = CurAfter(c, seg)
                      /\ x.state = IF ~Valid(seg) THEN "CLOSED"
                                   ELSE IF c.state = "SYN_SENT" /\ seg.SYN THEN "OPEN" ELSE c.state
                      /\ c.state = "SYN_SENT" /\ x.state = "SYN_SENT" => x = c
                      /\ Reading(c) /\ fits => Reading(x)
<1>1. d = IF ~Valid(seg) THEN [c EXCEPT !.state = "CLOSED"]
          ELSE IF c.state = "SYN_SENT"
            THEN IF seg.SYN THEN UpdateReadBuffer(Opens(c, seg), len) ELSE c
          ELSE IF seg.SYN THEN UpdateReadBuffer(c, len)
          ELSE IF Expired(c, seg) THEN e
          ELSE UpdateReadBuffer(m, len)
  BY DEF Handle, Flushed
<1> HIDE DEF d
<1>2. c \in Record
  BY DEF Within
<1>3. CASE ~Valid(seg)
  <2>1. d = [c EXCEPT !.state = "CLOSED"]
    BY <1>1, <1>3
  <2>2. /\ d \in Record /\ d.state = "CLOSED" /\ d.CUR = c.CUR /\ d.LCS = c.LCS
        /\ d.rxContext = c.rxContext /\ d.buf = c.buf /\ d.left = c.left
    BY <1>2, <2>1 DEF Record
  <2>3. Within(d, G) /\ (Reading(c) => Reading(d))
    BY <2>2 DEF Within, Known, Reading
  <2> QED
    BY <1>3, <2>2, <2>3 DEF d, CurAfter
<1>4. CASE Valid(seg) /\ c.state = "SYN_SENT" /\ seg.SYN
  <2> DEFINE o == Opens(c, seg)
  <2>1. seg.SEQ \in G /\ CurAfter(c, seg) = seg.SEQ
    BY <1>4 DEF CurAfter
  <2>2. Within(o, G) /\ o.state = "OPEN" /\ o.CUR = seg.SEQ /\ (Reading(c) /\ fits => Reading(o))
    BY <1>4, <2>1, OpensKeeps
  <2> HIDE DEF o
  <2>3. LET x == UpdateReadBuffer(o, len)
        IN Within(x, G) /\ x.CUR = o.CUR /\ x.state = o.state /\ (Reading(o) => Reading(x))
    BY <2>2, UpdateReadBufferKeeps
  <2>4. d = UpdateReadBuffer(o, len)
    BY <1>1, <1>4 DEF o
  <2> QED
    BY <1>4, <2>1, <2>2, <2>3, <2>4 DEF d
<1>5. CASE Valid(seg) /\ c.state = "SYN_SENT" /\ ~seg.SYN
  BY <1>1, <1>5 DEF d, CurAfter
<1>6. CASE Valid(seg) /\ c.state # "SYN_SENT" /\ seg.SYN
  <2>1. d = UpdateReadBuffer(c, len) /\ CurAfter(c, seg) = c.CUR
    BY <1>1, <1>6 DEF CurAfter
  <2>2. LET x == UpdateReadBuffer(c, len)
        IN Within(x, G) /\ x.CUR = c.CUR /\ x.state = c.state /\ (Reading(c) => Reading(x))
    BY UpdateReadBufferKeeps
  <2> QED
    BY <1>6, <2>1, <2>2 DEF d
<1>7. CASE Valid(seg) /\ c.state # "SYN_SENT" /\ ~seg.SYN
  <2>1. CurAfter(c, seg) = (IF Accepts(f, seg) THEN seg.SEQ ELSE f.CUR) /\ (Accepts(f, seg) => seg.SEQ \in G)
    BY <1>7 DEF CurAfter
  <2>2. Within(f, G) /\ f.state = c.state /\ (Reading(c) => Reading(f))
    BY FlushKeeps DEF Flushed, Datagram
  <2>n. seg.data # 0
    BY <1>7
  <2> HIDE DEF f
  <2>3. /\ Within(m, G) /\ m.state = f.state /\ m.CUR = CurAfter(c, seg) /\ m.CUR \in G
        /\ Reading(f) /\ fits => Reading(m)
    BY <1>7, <2>1, <2>2, <2>n, TakeDataKeeps
  <2> HIDE DEF m
  <2>4. CASE ~Expired(c, seg)
    <3>1. LET x == UpdateReadBuffer(m, len)
          IN Within(x, G) /\ x.CUR = m.CUR /\ x.state = m.state /\ (Reading(m) => Reading(x))
      BY <2>3, UpdateReadBufferKeeps
    <3>2. d = UpdateReadBuffer(m, len)
      BY <1>1, <1>7, <2>4
    <3> QED
      BY <1>7, <2>2, <2>3, <3>1, <3>2 DEF d
  <2>5. CASE Expired(c, seg)
    <3>1. d = e
      BY <1>1, <1>7, <2>5
    <3> DEFINE a == ArmAck(m)
    <3>2. Within(a, G) /\ a.CUR = m.CUR /\ a.state = m.state /\ (Reading(m) => Reading(a))
      BY <2>3, Acks
    <3> HIDE DEF a
    <3>3. a \in Record /\ d = [a EXCEPT !.LCS = m.CUR] /\ m.CUR \in Numbers
      BY <2>3, <3>1, <3>2 DEF Within, a
    <3>4. /\ d \in Record /\ d.LCS = m.CUR /\ d.CUR = a.CUR /\ d.state = a.state
          /\ d.buf = a.buf /\ d.rxContext = a.rxContext /\ d.left = a.left
      BY <3>3 DEF Record
    <3>5. Within(d, G) /\ (Reading(a) => Reading(d))
      BY <2>3, <3>2, <3>4 DEF Within, Known, Reading
    <3> QED
      BY <1>7, <2>2, <2>3, <3>2, <3>4, <3>5 DEF d
  <2> QED
    BY <2>4, <2>5
<1> QED
  BY <1>3, <1>4, <1>5, <1>6, <1>7 DEF d

-----------------------------------------------------------------------------
(* Types *)

Typed ==
  /\ Within(conn, Numbers)
  /\ conn.state = "SYN_SENT" => conn.rxContext = None /\ ~conn.ackTimer
  /\ una \in 0 .. nxt /\ nxt \in 1 .. MaxSegment + 1 /\ network \in Networks
  /\ wire \in Seq(Datagram) /\ Len(wire) <= MaxWire
  /\ \A i \in DOMAIN wire : wire[i].SYN <=> wire[i].data = 0

LEMMA CurAfterIsNumber ==
  ASSUME NEW c, Within(c, Numbers), NEW seg \in Datagram
  PROVE  CurAfter(c, seg) \in Numbers
<1>1. Within(Flushed(c, seg), Numbers)
  BY FlushKeeps DEF Flushed, Datagram
<1> QED
  BY <1>1 DEF CurAfter, Within, Record, Datagram

LEMMA SegmentTyped ==
  ASSUME NEW n \in Indexes, una \in Nat
  PROVE  Segment(n) \in Datagram /\ (Segment(n).SYN <=> Segment(n).data = 0)
<1>1. Seq32(n) \in Numbers /\ Seq32(una) \in Numbers
  BY SeqIsNumber DEF Indexes
<1> QED
  BY <1>1 DEF Segment, Datagram, Indexes, None

LEMMA ProbeTyped ==
  ASSUME nxt \in Nat, nxt > 0, una \in Nat
  PROVE  LET seg == [Segment(nxt) EXCEPT !.NUL = TRUE, !.data = None]
         IN seg \in Datagram /\ (seg.SYN <=> seg.data = 0) /\ seg.data = None /\ seg.NUL = TRUE
              /\ seg.SEQ = Seq32(nxt) /\ seg.ACKNXT = Seq32(una)
<1>1. Seq32(nxt) \in Numbers /\ Seq32(una) \in Numbers
  BY SeqIsNumber
<1> DEFINE s == Segment(nxt)
           seg == [s EXCEPT !.NUL = TRUE, !.data = None]
<1>2. /\ s \in [SYN : BOOLEAN, NUL : BOOLEAN, SEQ : Numbers, ACKNXT : Numbers, FCNT : {0, 1}, data : Nat]
      /\ (s.SYN <=> nxt = 0) /\ s.SEQ = Seq32(nxt) /\ s.ACKNXT = Seq32(una)
  BY <1>1 DEF Segment
<1>6. s.SYN = FALSE
  BY <1>2
<1> HIDE DEF s
<1>3. /\ seg \in Datagram /\ seg.data = None /\ seg.NUL = TRUE /\ seg.SYN = FALSE
      /\ seg.SEQ = Seq32(nxt) /\ seg.ACKNXT = Seq32(una)
  BY <1>2, <1>6 DEF Datagram
<1>4. None # 0
  BY DEF None
<1> HIDE DEF seg
<1>5. seg \in Datagram /\ (seg.SYN <=> seg.data = 0) /\ seg.data = None /\ seg.NUL = TRUE
        /\ seg.SEQ = Seq32(nxt) /\ seg.ACKNXT = Seq32(una)
  BY <1>3, <1>4
<1> QED
  BY <1>5 DEF seg, s

\* A property of all that is under way stays one when a datagram is taken or added.
LEMMA Emitted ==
  ASSUME wire \in Seq(Datagram), NEW seg \in Datagram, Emit(seg)
  PROVE  /\ wire' \in Seq(Datagram) /\ Len(wire') <= MaxWire
         /\ \A i \in DOMAIN wire' : wire'[i] = seg \/ (i \in DOMAIN wire /\ wire'[i] = wire[i])
<1>1. Len(wire) < MaxWire /\ wire' = Append(wire, seg) /\ Len(wire) \in Nat
  BY DEF Emit
<1>2. /\ wire' \in Seq(Datagram) /\ Len(wire') = Len(wire) + 1 /\ DOMAIN wire = 1 .. Len(wire)
      /\ DOMAIN wire' = DOMAIN wire \cup {Len(wire) + 1} /\ wire'[Len(wire) + 1] = seg
      /\ \A i \in DOMAIN wire : wire'[i] = wire[i]
  BY <1>1
<1> QED
  <2>1. Len(wire') <= MaxWire
    BY <1>1, <1>2, ArdpReceiveAssumption
  <2> QED
    BY <1>2, <2>1

LEMMA Removed ==
  ASSUME wire \in Seq(Datagram), Len(wire) <= MaxWire, NEW k \in DOMAIN wire, wire' = RemoveAt(wire, k)
  PROVE  /\ wire' \in Seq(Datagram) /\ Len(wire') <= MaxWire
         /\ \A i \in DOMAIN wire' : \E j \in DOMAIN wire : wire'[i] = wire[j]
<1>1. Len(wire) \in Nat /\ DOMAIN wire = 1 .. Len(wire) /\ MaxWire \in Nat
  BY ArdpReceiveAssumption
<1>2. /\ wire' \in Seq(Datagram) /\ Len(wire') = Len(wire) - 1
      /\ \A j \in 1 .. Len(wire) - 1 : wire'[j] = IF j < k THEN wire[j] ELSE wire[j + 1]
  BY RemoveAtIs
<1>3. DOMAIN wire' = 1 .. Len(wire) - 1
  BY <1>2
<1>4. ASSUME NEW i \in 1 .. Len(wire) - 1 PROVE \E j \in DOMAIN wire : wire'[i] = wire[j]
  <2>1. i \in DOMAIN wire /\ i + 1 \in DOMAIN wire
    BY <1>1
  <2> QED
    BY <1>2, <2>1
<1>5. Len(wire') <= MaxWire
  BY <1>1, <1>2
<1> QED
  BY <1>2, <1>3, <1>4, <1>5

LEMMA Delayed ==
  ASSUME NEW G, Within(conn, G), NEW fire \in BOOLEAN, NEW c, c = IF fire THEN AckSent(conn) ELSE conn
  PROVE  /\ Within(c, G) /\ c.CUR = conn.CUR /\ c.LCS = conn.LCS /\ c.state = conn.state
         /\ c.rxContext = conn.rxContext /\ (Reading(conn) => Reading(c))
         /\ ~conn.ackTimer /\ DelayedAck(fire) => c = conn
<1>1. CASE fire
  BY <1>1, Acks DEF DelayedAck
<1>2. CASE ~fire
  BY <1>2
<1> QED
  BY <1>1, <1>2

Fits == SynUnits <= SegUnits

LEMMA RecvNothingTypes ==
  ASSUME Typed, NEW len \in Wanted, NEW fire \in BOOLEAN, RecvNothing(len, fire)
  PROVE  Typed' /\ (Fits /\ Reading(conn) => Reading(conn)')
<1> DEFINE c == IF fire THEN AckSent(conn) ELSE conn
<1>1. conn.state = "OPEN" /\ conn' = UpdateReadBuffer(c, len) /\ len \in Nat
      /\ UNCHANGED <<wire, peer, arrived, expired, network>>
  BY ArdpReceiveAssumption DEF RecvNothing, Wanted
<1>2. Within(c, Numbers) /\ c.state = conn.state /\ (Reading(conn) => Reading(c))
  BY Delayed DEF Typed
<1> HIDE DEF c
<1>3. LET x == UpdateReadBuffer(c, len)
      IN Within(x, Numbers) /\ x.state = c.state /\ (Reading(c) => Reading(x))
  BY <1>1, <1>2, UpdateReadBufferKeeps
<1>4. Within(conn, Numbers)' /\ conn'.state = "OPEN" /\ (Reading(c) => Reading(conn)')
  BY <1>1, <1>2, <1>3 DEF Within, Known, Reading
<1> QED
  BY <1>1, <1>2, <1>4 DEF Typed, peer

LEMMA RecvSegmentTypes ==
  ASSUME Typed, NEW len \in Wanted, NEW fire \in BOOLEAN, NEW i \in Arriving, RecvSegment(len, fire, i)
  PROVE  Typed' /\ (Fits /\ Reading(conn) => Reading(conn)')
<1> DEFINE c == IF fire THEN AckSent(conn) ELSE conn
           seg == wire[i]
<1>1. /\ conn' = Handle(c, seg, len) /\ len \in Nat /\ DelayedAck(fire)
      /\ i \in DOMAIN wire /\ wire' = RemoveAt(wire, i) /\ UNCHANGED <<peer, network>>
  BY ArdpReceiveAssumption DEF RecvSegment, Wanted, Arriving
<1>2. seg \in Datagram /\ (seg.SYN <=> seg.data = 0)
  BY <1>1 DEF Typed
<1>3. /\ Within(c, Numbers) /\ c.state = conn.state /\ c.rxContext = conn.rxContext /\ (Reading(conn) => Reading(c))
      /\ ~conn.ackTimer => c = conn
  BY <1>1, Delayed DEF Typed
<1>4. c.state = "SYN_SENT" => c.rxContext = None /\ c = conn /\ ~conn.ackTimer
  BY <1>3 DEF Typed
<1> HIDE DEF c, seg
<1>n. CurAfter(c, seg) \in Numbers /\ Numbers \in SUBSET Numbers
  BY <1>2, <1>3, CurAfterIsNumber
<1>5. LET d == Handle(c, seg, len)
      IN /\ Within(d, Numbers)
         /\ d.state = IF ~Valid(seg) THEN "CLOSED"
                      ELSE IF c.state = "SYN_SENT" /\ seg.SYN THEN "OPEN" ELSE c.state
         /\ c.state = "SYN_SENT" /\ d.state = "SYN_SENT" => d = c
         /\ Reading(c) /\ (SynUnits <= SegUnits) => Reading(d)
  BY <1>1, <1>2, <1>3, <1>4, <1>n, HandleKeeps
<1>6. /\ Within(conn, Numbers)' /\ (Reading(c) /\ Fits => Reading(conn)')
      /\ conn'.state = "SYN_SENT" => conn'.rxContext = None /\ ~conn'.ackTimer
  BY <1>1, <1>3, <1>4, <1>5 DEF Within, Known, Reading, Fits
<1>7. /\ wire' \in Seq(Datagram) /\ Len(wire') <= MaxWire
      /\ \A k \in DOMAIN wire' : \E j \in DOMAIN wire : wire'[k] = wire[j]
  BY <1>1, Removed DEF Typed
<1> QED
  BY <1>1, <1>3, <1>6, <1>7 DEF Typed, peer

LEMMA SendTypes ==
  ASSUME Typed, SendSegment
  PROVE  Typed' /\ (Reading(conn) => Reading(conn)')
<1>1. conn.state = "OPEN" /\ conn' = AckSent(conn) /\ UNCHANGED <<wire, peer, network>>
  BY DEF SendSegment
<1>2. Within(AckSent(conn), Numbers) /\ AckSent(conn).state = conn.state /\ (Reading(conn) => Reading(AckSent(conn)))
  BY Acks DEF Typed
<1>3. Within(conn, Numbers)' /\ conn'.state = "OPEN" /\ (Reading(conn) => Reading(conn)')
  BY <1>1, <1>2 DEF Within, Known, Reading
<1> QED
  BY <1>1, <1>3 DEF Typed, peer

PeerSide == PeerSends \/ PeerRetransmits \/ PeerProbes \/ PeerTakesAck \/ PeerExpires \/ Lose

\* What the peer and the network do leaves the receiver alone.
LEMMA PeerTypes ==
  ASSUME Typed, PeerSide
  PROVE  Typed' /\ UNCHANGED conn
<1>1. /\ Within(conn, Numbers) /\ (conn.state = "SYN_SENT" => conn.rxContext = None /\ ~conn.ackTimer)
      /\ una \in 0 .. nxt /\ nxt \in 1 .. MaxSegment + 1 /\ network \in Networks
      /\ wire \in Seq(Datagram) /\ Len(wire) <= MaxWire
      /\ \A i \in DOMAIN wire : wire[i].SYN <=> wire[i].data = 0
  BY DEF Typed
<1>2. UNCHANGED <<conn, network>>
  BY DEF PeerSide, PeerSends, PeerRetransmits, PeerProbes, PeerTakesAck, PeerExpires, Lose
<1>3. ASSUME una' \in 0 .. nxt', nxt' \in 1 .. MaxSegment + 1,
             wire' \in Seq(Datagram), Len(wire') <= MaxWire,
             \A i \in DOMAIN wire' : wire'[i].SYN <=> wire'[i].data = 0
      PROVE  Typed'
  BY <1>1, <1>2, <1>3 DEF Typed, Within, Known
<1>4. ASSUME NEW seg \in Datagram, seg.SYN <=> seg.data = 0, Emit(seg)
      PROVE  /\ wire' \in Seq(Datagram) /\ Len(wire') <= MaxWire
             /\ \A i \in DOMAIN wire' : wire'[i].SYN <=> wire'[i].data = 0
  BY <1>1, <1>4, Emitted
<1>5. CASE PeerSends
  <2>1. /\ nxt \in Indexes /\ Emit(Segment(nxt)) /\ nxt' = nxt + 1 /\ una' = una
        /\ nxt <= MaxSegment
    BY <1>1, <1>5, ArdpReceiveAssumption DEF PeerSends, Indexes
  <2>2. una' \in 0 .. nxt' /\ nxt' \in 1 .. MaxSegment + 1 /\ una \in Nat
    BY <1>1, <2>1, ArdpReceiveAssumption
  <2> QED
    BY <1>2, <1>3, <1>4, <2>1, <2>2, SegmentTyped
<1>6. CASE PeerRetransmits
  <2>1. PICK n \in una .. nxt - 1 : Emit(Segment(n))
    BY <1>6 DEF PeerRetransmits
  <2>2. n \in Indexes /\ una \in Nat /\ UNCHANGED <<una, nxt>>
    BY <1>1, <1>6, ArdpReceiveAssumption DEF PeerRetransmits, Indexes, peer
  <2> QED
    BY <1>1, <1>2, <1>3, <1>4, <2>1, <2>2, SegmentTyped
<1>7. CASE PeerProbes
  <2> DEFINE seg == [Segment(nxt) EXCEPT !.NUL = TRUE, !.data = None]
  <2>1. nxt \in Nat /\ nxt > 0 /\ una \in Nat /\ UNCHANGED <<una, nxt>> /\ Emit(seg)
    BY <1>1, <1>7, ArdpReceiveAssumption DEF PeerProbes, peer
  <2>2. seg \in Datagram /\ (seg.SYN <=> seg.data = 0)
    BY <2>1, ProbeTyped
  <2> HIDE DEF seg
  <2> QED
    BY <1>1, <1>2, <1>3, <1>4, <2>1, <2>2
<1>8. CASE PeerTakesAck
  <2> DEFINE it(n) == Seq32(n) = ackWire[1].ack
  <2>1. /\ una' = IF \E n \in una .. nxt - 1 : it(n) THEN 1 + CHOOSE n \in una .. nxt - 1 : it(n) ELSE una
        /\ UNCHANGED <<nxt, wire>>
    BY <1>8 DEF PeerTakesAck
  <2>2. una' \in 0 .. nxt
    <3>1. CASE \E n \in una .. nxt - 1 : it(n)
      <4> DEFINE n == CHOOSE n \in una .. nxt - 1 : it(n)
      <4>1. n \in una .. nxt - 1
        BY <3>1
      <4>2. una' = 1 + n
        BY <2>1, <3>1
      <4> HIDE DEF n
      <4> QED
        BY <1>1, <4>1, <4>2
    <3>2. CASE ~\E n \in una .. nxt - 1 : it(n)
      BY <1>1, <2>1, <3>2
    <3> QED
      BY <3>1, <3>2
  <2> QED
    BY <1>1, <1>2, <1>3, <2>1, <2>2
<1>9. CASE PeerExpires
  <2>1. una < nxt /\ una' = una + 1 /\ UNCHANGED <<nxt, wire>>
    BY <1>9 DEF PeerExpires
  <2>2. una' \in 0 .. nxt'
    BY <1>1, <2>1
  <2> QED
    BY <1>1, <1>2, <1>3, <2>1, <2>2
<1>10. CASE Lose
  <2>1. PICK k \in DOMAIN wire : wire' = RemoveAt(wire, k)
    BY <1>10 DEF Lose
  <2>2. UNCHANGED <<una, nxt>>
    BY <1>10 DEF Lose, peer
  <2>3. /\ wire' \in Seq(Datagram) /\ Len(wire') <= MaxWire
        /\ \A i \in DOMAIN wire' : \E j \in DOMAIN wire : wire'[i] = wire[j]
    BY <1>1, <2>1, Removed
  <2> QED
    BY <1>1, <1>2, <1>3, <2>2, <2>3
<1> QED
  BY <1>2, <1>5, <1>6, <1>7, <1>8, <1>9, <1>10 DEF PeerSide

LEMMA NextTypes ==
  ASSUME Typed, [Next]_vars
  PROVE  Typed' /\ (Fits /\ Reading(conn) => Reading(conn)')
<1>1. CASE Recv
  BY <1>1, RecvNothingTypes, RecvSegmentTypes DEF Recv
<1>2. CASE SendSegment
  BY <1>2, SendTypes
<1>3. CASE PeerSide
  BY <1>3, PeerTypes DEF Reading
<1>4. CASE UNCHANGED vars
  BY <1>4 DEF vars, peer, Typed, Within, Known, Reading
<1> QED
  BY <1>1, <1>2, <1>3, <1>4 DEF Next, PeerSide

LEMMA InitTypes == Init => Typed /\ Reading(conn) /\ Within(conn, {})
<1> SUFFICES ASSUME Init PROVE Typed /\ Reading(conn) /\ Within(conn, {})
  OBVIOUS
<1> DEFINE b == [i \in Slots |-> EmptyBuffer]
<1>1. b \in [Slots -> Buffer] /\ \A i \in Slots : b[i].dataLen = 0
  BY EmptyNumber DEF EmptyBuffer, Buffer
<1>2. <<>> \in Seq(Indexes)
  OBVIOUS
<1> HIDE DEF b
<1>3. conn = [state |-> "SYN_SENT", CUR |-> 0, LCS |-> 0, pending |-> 0, ackTimer |-> FALSE,
              buf |-> b, rxContext |-> None, left |-> 0, app |-> <<>>, asserts |-> TRUE]
  BY DEF Init, b
<1>4. /\ conn \in Record /\ conn.state = "SYN_SENT" /\ conn.rxContext = None /\ conn.ackTimer = FALSE /\ conn.buf = b
      /\ conn.LCS = 0
  BY <1>1, <1>2, <1>3, EmptyNumber DEF Record
<1>5. Within(conn, Numbers) /\ Within(conn, {})
  BY <1>1, <1>4 DEF Within
<1>6. Reading(conn)
  BY <1>1, <1>4, ArdpReceiveAssumption DEF Reading
<1>7. una = 0 /\ nxt = 1 /\ network \in Networks /\ wire = <<Segment(0)>>
  BY DEF Init
<1>8. Segment(0) \in Datagram /\ (Segment(0).SYN <=> Segment(0).data = 0) /\ MaxSegment \in Nat /\ MaxWire \in Nat \ {0}
  BY <1>7, SegmentTyped, ArdpReceiveAssumption DEF Indexes
<1>9. /\ wire \in Seq(Datagram) /\ Len(wire) <= MaxWire
      /\ \A i \in DOMAIN wire : wire[i].SYN <=> wire[i].data = 0
  BY <1>7, <1>8
<1> QED
  BY <1>4, <1>5, <1>6, <1>7, <1>8, <1>9 DEF Typed

\* Whatever the network does, the connection's fields keep their ranges, the
\* buffer being read holds what is left to be read of it, and the peer's window
\* is well formed: provided the SYN's data, over which AddRcvBuffer may put
\* another segment while it is being read, is no longer than that.
THEOREM TypeOKHolds == Fits /\ Spec => []TypeOK
<1> SUFFICES ASSUME Fits PROVE Spec => []TypeOK
  OBVIOUS
<1>1. Init => Typed /\ Reading(conn)
  BY InitTypes
<1>2. Typed /\ Reading(conn) /\ [Next]_vars => Typed' /\ Reading(conn)'
  BY NextTypes
<1>3. Typed /\ Reading(conn) => TypeOK
  <2> SUFFICES ASSUME Typed, Reading(conn) PROVE TypeOK
    OBVIOUS
  <2>1. conn \in Record /\ conn.buf \in [Slots -> Buffer]
    BY DEF Typed, Within, Record
  <2>2. \A i \in Slots : conn.buf[i].data \in Indexes \cup {None}
    BY <2>1 DEF Buffer
  <2> QED
    BY <2>1, <2>2 DEF Typed, Reading, TypeOK, Record, Numbers
<1> QED
  BY <1>1, <1>2, <1>3, PTL DEF Spec

-----------------------------------------------------------------------------
(* Acknowledgements *)

Upto(cur) == {Seq32(m) : m \in 0 .. cur}

\* Up to which segment the receiver, once open, has received or given up.
Received(cur) == conn.CUR = Seq32(cur) /\ Within(conn, Upto(cur))

Numbered ==
  /\ conn.state = "SYN_SENT" => Within(conn, {})
  /\ conn.state = "OPEN" => \E cur \in 0 .. nxt - 1 : Received(cur)
  /\ \A i \in DOMAIN wire : \E n \in 0 .. nxt, u \in 0 .. una :
       Peers(wire[i], n, u) /\ (wire[i].data = n => n < nxt)
  /\ ackWire # <<>> =>
       \E a \in 0 .. nxt - 1 : \E b \in 0 .. a : ackWire = <<[ack |-> Seq32(a), lcs |-> Seq32(b)]>>

LEMMA UptoNumbers ==
  ASSUME NEW cur \in Nat
  PROVE  /\ Upto(cur) \in SUBSET Numbers
         /\ \A k \in Nat : k >= cur => Upto(cur) \subseteq Upto(k)
<1>1. \A m \in 0 .. cur : Seq32(m) \in Numbers
  BY SeqIsNumber
<1>2. \A k \in Nat : k >= cur => 0 .. cur \subseteq 0 .. k
  OBVIOUS
<1> QED
  BY <1>1, <1>2 DEF Upto

\* The number that is up to date afterwards is that of a segment the peer has
\* sent, and never one before.
LEMMA CurAfterIs ==
  ASSUME Short, nxt \in 1 .. MaxSegment + 1, una \in 0 .. nxt,
         NEW cur \in 0 .. nxt - 1, NEW c, Within(c, Upto(cur)), c.CUR = Seq32(cur), c.state = "OPEN",
         NEW seg, NEW n \in 0 .. nxt, NEW u \in 0 .. una, Peers(seg, n, u), seg.data = n => n < nxt
  PROVE  \E k \in cur .. nxt - 1 : CurAfter(c, seg) = Seq32(k)
<1> DEFINE f == Flushed(c, seg)
<1>1. /\ cur \in Nat /\ nxt \in Nat /\ n \in 0 .. MaxSegment + 1 /\ u \in 0 .. MaxSegment + 1
      /\ cur + 1 \in 0 .. MaxSegment + 1 /\ MaxSegment \in Nat /\ u <= nxt
  BY ArdpReceiveAssumption
<1>2. seg \in Datagram /\ seg.SEQ = Seq32(n) /\ seg.ACKNXT = Seq32(u)
  BY DEF Peers
<1>3. Succ32(c.CUR) = Seq32(cur + 1)
  BY <1>1, Following
<1>4. PICK k \in cur .. nxt - 1 : f.CUR = Seq32(k)
  <2>1. CASE ~Expired(c, seg)
    <3>1. f.CUR = Seq32(cur) /\ cur \in cur .. nxt - 1
      BY <1>1, <2>1 DEF Flushed
    <3> QED
      BY <3>1
  <2>2. CASE Expired(c, seg)
    <3> DEFINE count == Ahead(seg.ACKNXT, Succ32(c.CUR))
    <3>1. cur + 1 < u
      BY <1>1, <1>2, <1>3, <2>2, Compare DEF Expired
    <3>2. count = u - (cur + 1)
      BY <1>1, <1>2, <1>3, <3>1, Compare
    <3>3. f.CUR = (c.CUR + count) % SeqModulus
      <4>1. Upto(cur) \in SUBSET Numbers
        BY <1>1, UptoNumbers
      <4> QED
        BY <1>2, <2>2, <4>1, FlushKeeps DEF Flushed, Datagram
    <3> HIDE DEF count
    <3>4. count \in Nat /\ cur + count = u - 1 /\ u - 1 \in cur .. nxt - 1
      BY <1>1, <3>1, <3>2
    <3>5. (Seq32(cur) + count) % SeqModulus = Seq32(cur + count)
      BY <1>1, <3>4, Following
    <3> QED
      BY <3>3, <3>4, <3>5
  <2> QED
    BY <2>1, <2>2
<1> HIDE DEF f
<1>5. CASE Accepts(f, seg) /\ Valid(seg) /\ ~seg.SYN
  <2>1. seg.data = n
    BY <1>5 DEF Accepts, Peers
  <2>2. k \in Nat /\ k + 1 \in 0 .. MaxSegment + 1 /\ n < nxt
    BY <1>1, <2>1
  <2>3. SEQ32_LET(Seq32(k + 1), Seq32(n))
    BY <1>2, <1>4, <1>5, <2>2, Following DEF Accepts
  <2>4. k + 1 <= n
    BY <1>1, <2>2, <2>3, Compare
  <2>5. n \in cur .. nxt - 1 /\ CurAfter(c, seg) = Seq32(n)
    <3>1. CurAfter(c, seg) = seg.SEQ
      BY <1>5 DEF CurAfter, f
    <3> QED
      BY <1>1, <1>2, <2>2, <2>4, <3>1
  <2> QED
    BY <2>5
<1>6. CASE ~(Accepts(f, seg) /\ Valid(seg) /\ ~seg.SYN)
  <2>1. CurAfter(c, seg) \in {c.CUR, f.CUR}
    BY <1>6 DEF CurAfter, f
  <2>2. cur \in cur .. nxt - 1
    BY <1>1
  <2> QED
    BY <1>4, <2>1, <2>2
<1> QED
  BY <1>5, <1>6

LEMMA RecvNothingNumbers ==
  ASSUME Typed, Numbered, NEW len \in Wanted, NEW fire \in BOOLEAN, RecvNothing(len, fire)
  PROVE  Numbered'
<1> DEFINE c == IF fire THEN AckSent(conn) ELSE conn
<1>1. /\ conn.state = "OPEN" /\ conn' = UpdateReadBuffer(c, len) /\ len \in Nat
      /\ ackWire' = (IF fire THEN <<AckOf(c)>> ELSE ackWire)
      /\ wire' = wire /\ una' = una /\ nxt' = nxt
  BY ArdpReceiveAssumption DEF RecvNothing, Wanted, peer
<1>2. PICK cur \in 0 .. nxt - 1 : Received(cur)
  BY <1>1 DEF Numbered
<1>3. Within(c, Upto(cur)) /\ c.state = conn.state /\ c.CUR = Seq32(cur) /\ c.LCS = conn.LCS
  BY <1>2, Delayed DEF Received
<1>4. Upto(cur) \in SUBSET Numbers /\ cur \in Nat
  <2>1. cur \in Nat
    BY DEF Typed
  <2> QED
    BY <2>1, UptoNumbers
<1> HIDE DEF c
<1>5. LET x == UpdateReadBuffer(c, len)
      IN Within(x, Upto(cur)) /\ x.CUR = c.CUR /\ x.state = c.state
  BY <1>1, <1>3, <1>4, UpdateReadBufferKeeps
<1>6. Received(cur)' /\ conn'.state = "OPEN"
  BY <1>1, <1>3, <1>5 DEF Received, Within, Known, Upto, Seq32
<1>7. ackWire' # <<>> =>
        \E a \in 0 .. nxt - 1 : \E b \in 0 .. a : ackWire' = <<[ack |-> Seq32(a), lcs |-> Seq32(b)]>>
  <2>1. CASE fire
    <3>1. PICK b \in 0 .. cur : c.LCS = Seq32(b)
      BY <1>1, <1>3 DEF Within, Upto
    <3>2. ackWire' = <<[ack |-> Seq32(cur), lcs |-> Seq32(b)]>>
      BY <1>1, <1>3, <2>1, <3>1 DEF AckOf
    <3> QED
      BY <3>2
  <2>2. CASE ~fire
    BY <1>1, <2>2 DEF Numbered
  <2> QED
    BY <2>1, <2>2
<1>8. \E k \in 0 .. nxt' - 1 : Received(k)'
  BY <1>1, <1>6
<1>9. Numbered'
  BY <1>1, <1>6, <1>7, <1>8 DEF Numbered, Peers, Seq32
<1> QED
  BY <1>9

LEMMA RecvSegmentNumbers ==
  ASSUME Short, Typed, Numbered,
         NEW len \in Wanted, NEW fire \in BOOLEAN, NEW i \in Arriving, RecvSegment(len, fire, i)
  PROVE  Numbered'
<1> DEFINE c == IF fire THEN AckSent(conn) ELSE conn
           seg == wire[i]
           answered == Valid(seg) /\ IF c.state = "OPEN" THEN seg.NUL ELSE seg.SYN
           d == Handle(c, seg, len)
<1>1. /\ conn.state # "CLOSED" /\ conn' = d /\ len \in Nat /\ DelayedAck(fire)
      /\ i \in DOMAIN wire /\ wire' = RemoveAt(wire, i) /\ una' = una /\ nxt' = nxt
      /\ ackWire' = IF answered THEN <<[ack |-> IF seg.SYN THEN seg.SEQ ELSE d.CUR,
                                        lcs |-> IF seg.SYN THEN seg.SEQ ELSE c.LCS]>>
                    ELSE IF fire THEN <<AckOf(c)>> ELSE ackWire
  BY ArdpReceiveAssumption DEF RecvSegment, Wanted, Arriving, peer
<1>2. PICK n \in 0 .. nxt, u \in 0 .. una : Peers(seg, n, u) /\ (seg.data = n => n < nxt)
  BY <1>1 DEF Numbered
<1>3. seg \in Datagram /\ (seg.SYN <=> seg.data = 0) /\ nxt \in 1 .. MaxSegment + 1 /\ una \in 0 .. nxt
  BY <1>2 DEF Peers, Typed
<1>4. \A k \in DOMAIN wire' : \E j \in DOMAIN wire : wire'[k] = wire[j]
  BY <1>1, Removed DEF Typed
<1>5. \A k \in DOMAIN wire' : \E m \in 0 .. nxt', v \in 0 .. una' :
        Peers(wire'[k], m, v) /\ (wire'[k].data = m => m < nxt')
  BY <1>1, <1>4 DEF Numbered
<1>l. len \in Nat
  BY <1>1
<1>s. seg \in Datagram /\ (seg.SYN <=> seg.data = 0)
  BY <1>3
<1> HIDE DEF seg
<1>6. CASE conn.state = "OPEN"
  <2>1. PICK cur \in 0 .. nxt - 1 : Received(cur)
    BY <1>6 DEF Numbered
  <2>2. Within(c, Upto(cur)) /\ c.state = "OPEN" /\ c.CUR = Seq32(cur)
    BY <1>6, <2>1, Delayed DEF Received
  <2> HIDE DEF c
  <2>3. PICK k \in cur .. nxt - 1 : CurAfter(c, seg) = Seq32(k)
    BY <1>2, <1>3, <2>2, CurAfterIs
  <2>4. cur \in Nat /\ k \in Nat /\ k >= cur /\ k \in 0 .. nxt - 1
    BY <1>3, ArdpReceiveAssumption
  <2>5. Upto(k) \in SUBSET Numbers /\ Within(c, Upto(k)) /\ CurAfter(c, seg) \in Upto(k)
    <3>1. Upto(k) \in SUBSET Numbers /\ Upto(cur) \subseteq Upto(k)
      BY <2>4, UptoNumbers
    <3>2. Seq32(k) \in Upto(k)
      BY <2>4 DEF Upto
    <3> QED
      BY <2>2, <2>3, <3>1, <3>2, WithinMore
  <2>6. /\ Within(d, Upto(k)) /\ d.CUR = Seq32(k)
        /\ d.state = IF ~Valid(seg) THEN "CLOSED" ELSE "OPEN"
    <3>1. LET x == Handle(c, seg, len)
          IN /\ Within(x, Upto(k)) /\ x.CUR = CurAfter(c, seg)
             /\ x.state = IF ~Valid(seg) THEN "CLOSED"
                          ELSE IF c.state = "SYN_SENT" /\ seg.SYN THEN "OPEN" ELSE c.state
      BY <1>l, <1>s, <2>2, <2>5, HandleKeeps
    <3> QED
      BY <2>2, <2>3, <3>1
  <2> HIDE DEF d
  <2>7. Received(k)' /\ conn'.state # "SYN_SENT"
    BY <1>1, <2>6 DEF Received, Within, Known, Upto, Seq32
  <2>8. PICK b \in 0 .. cur : c.LCS = Seq32(b)
    BY <2>2 DEF Within, Upto
  <2>9. b \in 0 .. k /\ cur \in 0 .. nxt - 1
    BY <2>4
  <2>10. ackWire' # <<>> =>
           \E a \in 0 .. nxt - 1 : \E l \in 0 .. a : ackWire' = <<[ack |-> Seq32(a), lcs |-> Seq32(l)]>>
    <3>1. CASE answered
      <4>1. seg.NUL /\ ~seg.SYN
        BY <1>2, <2>2, <3>1 DEF Peers, None
      <4>2. ackWire' = <<[ack |-> Seq32(k), lcs |-> Seq32(b)]>>
        BY <1>1, <2>6, <2>8, <3>1, <4>1
      <4> QED
        BY <2>4, <2>9, <4>2
    <3>2. CASE ~answered /\ fire
      <4>1. ackWire' = <<[ack |-> Seq32(cur), lcs |-> Seq32(b)]>>
        BY <1>1, <2>2, <2>8, <3>2 DEF AckOf
      <4> QED
        BY <4>1
    <3>3. CASE ~answered /\ ~fire
      BY <1>1, <3>3 DEF Numbered
    <3> QED
      BY <3>1, <3>2, <3>3
  <2>11. \E m \in 0 .. nxt' - 1 : Received(m)'
    BY <1>1, <2>4, <2>7
  <2> QED
    BY <1>1, <1>5, <2>7, <2>10, <2>11 DEF Numbered, Peers, Seq32
<1>7. CASE conn.state = "SYN_SENT"
  <2>1. c = conn /\ ~fire
    BY <1>1, <1>7 DEF Typed, DelayedAck
  <2>2. Within(c, {}) /\ c.rxContext = None /\ c.state = "SYN_SENT"
    BY <1>7, <2>1 DEF Numbered, Typed
  <2> HIDE DEF c
  <2>3. CASE Valid(seg) /\ seg.SYN
    <3>1. n = 0 /\ seg.SEQ = Seq32(0) /\ CurAfter(c, seg) = Seq32(0)
      BY <1>2, <2>2, <2>3 DEF Peers, None, CurAfter
    <3>2. Upto(0) \in SUBSET Numbers /\ Seq32(0) \in Upto(0)
      BY UptoNumbers DEF Upto
    <3>3. Within(c, Upto(0))
      BY <2>2, WithinMore
    <3>c. CurAfter(c, seg) \in Upto(0)
      BY <3>1, <3>2
    <3>4. LET x == Handle(c, seg, len)
          IN /\ Within(x, Upto(0)) /\ x.CUR = CurAfter(c, seg)
             /\ x.state = IF ~Valid(seg) THEN "CLOSED"
                          ELSE IF c.state = "SYN_SENT" /\ seg.SYN THEN "OPEN" ELSE c.state
      BY <1>l, <1>s, <2>2, <3>c, <3>2, <3>3, HandleKeeps
    <3>5. Within(d, Upto(0)) /\ d.CUR = Seq32(0) /\ d.state = "OPEN"
      BY <2>2, <2>3, <3>1, <3>4
    <3>6. answered /\ ackWire' = <<[ack |-> Seq32(0), lcs |-> Seq32(0)]>>
      BY <1>1, <2>2, <2>3, <3>1
    <3> HIDE DEF d
    <3>7. Received(0)' /\ conn'.state = "OPEN" /\ 0 \in 0 .. nxt' - 1 /\ 0 \in 0 .. 0
      BY <1>1, <1>3, <3>5, ArdpReceiveAssumption DEF Received, Within, Known, Upto, Seq32
    <3> QED
      BY <1>1, <1>5, <3>6, <3>7 DEF Numbered, Peers, Seq32
  <2>4. CASE ~(Valid(seg) /\ seg.SYN)
    <3>1. ackWire' = ackWire
      BY <1>1, <2>1, <2>2, <2>4
    <3>2. d = c \/ d = [c EXCEPT !.state = "CLOSED"]
      BY <2>2, <2>4 DEF Handle
    <3>3. d.state = "CLOSED" \/ d = conn
      <4>1. c \in Record
        BY <2>2 DEF Within
      <4> HIDE DEF d
      <4> QED
        BY <2>1, <3>2, <4>1 DEF Record
    <3> HIDE DEF d
    <3>4. (conn'.state = "SYN_SENT" => Within(conn, {})') /\ conn'.state # "OPEN"
      BY <1>1, <1>7, <2>1, <2>2, <3>3 DEF Within, Known
    <3> QED
      BY <1>1, <1>5, <3>1, <3>4 DEF Numbered, Peers, Seq32
  <2> QED
    BY <2>3, <2>4
<1> QED
  BY <1>1, <1>6, <1>7 DEF Typed, Within, Record

LEMMA SendNumbers ==
  ASSUME Typed, Numbered, SendSegment
  PROVE  Numbered'
<1>1. /\ conn.state = "OPEN" /\ conn' = AckSent(conn) /\ ackWire' = <<AckOf(conn)>>
      /\ wire' = wire /\ una' = una /\ nxt' = nxt
  BY DEF SendSegment, peer
<1>2. PICK cur \in 0 .. nxt - 1 : Received(cur)
  BY <1>1 DEF Numbered
<1> DEFINE c == AckSent(conn)
<1>3. Within(c, Upto(cur)) /\ c.state = conn.state /\ c.CUR = Seq32(cur)
  BY <1>2, Acks DEF Received
<1> HIDE DEF c
<1>4. Received(cur)' /\ conn'.state = "OPEN"
  BY <1>1, <1>3 DEF Received, Within, Known, Upto, Seq32, c
<1>5. PICK b \in 0 .. cur : conn.LCS = Seq32(b)
  BY <1>1, <1>2 DEF Received, Within, Upto
<1>6. ackWire' = <<[ack |-> Seq32(cur), lcs |-> Seq32(b)]>>
  BY <1>1, <1>2, <1>5 DEF AckOf, Received
<1>7. \E k \in 0 .. nxt' - 1 : Received(k)'
  BY <1>1, <1>4
<1> QED
  BY <1>1, <1>4, <1>6, <1>7 DEF Numbered, Peers, Seq32

LEMMA PeerNumbers ==
  ASSUME Typed, Numbered, PeerSide
  PROVE  Numbered'
<1>1. UNCHANGED <<conn, ackWire>>
  BY DEF PeerSide, PeerSends, PeerRetransmits, PeerProbes, PeerTakesAck, PeerExpires, Lose
<1>2. una \in 0 .. nxt /\ nxt \in 1 .. MaxSegment + 1 /\ una \in Nat /\ nxt \in Nat /\ nxt > 0
      /\ wire \in Seq(Datagram) /\ MaxSegment \in Nat /\ Len(wire) <= MaxWire
  BY ArdpReceiveAssumption DEF Typed
<1> DEFINE Of(seg, x, y) == \E n \in 0 .. x, u \in 0 .. y : Peers(seg, n, u) /\ (seg.data = n => n < x)
<1>3. ASSUME nxt' \in Nat, nxt' >= nxt, una' \in Nat, una' >= una,
             \A i \in DOMAIN wire' : Of(wire'[i], nxt', una')
      PROVE  Numbered'
  <2>1. 0 .. nxt - 1 \subseteq 0 .. nxt' - 1
    BY <1>2, <1>3
  <2>2. conn.state = "OPEN" => \E cur \in 0 .. nxt' - 1 : Received(cur)
    BY <2>1 DEF Numbered
  <2>3. ackWire # <<>> =>
          \E a \in 0 .. nxt' - 1 : \E b \in 0 .. a : ackWire = <<[ack |-> Seq32(a), lcs |-> Seq32(b)]>>
    BY <2>1 DEF Numbered
  <2> QED
    BY <1>1, <1>3, <2>2, <2>3 DEF Numbered, Received, Within, Known, Upto, Peers, Seq32
<1>4. \A i \in DOMAIN wire : Of(wire[i], nxt, una)
  BY DEF Numbered
<1>5. ASSUME NEW seg, NEW x \in Nat, x >= nxt, NEW y \in Nat, y >= una, Of(seg, nxt, una)
      PROVE  Of(seg, x, y)
  <2>1. PICK n \in 0 .. nxt, u \in 0 .. una : Peers(seg, n, u) /\ (seg.data = n => n < nxt)
    BY <1>5
  <2>2. n \in 0 .. x /\ u \in 0 .. y /\ (n < nxt => n < x)
    BY <1>2, <1>5
  <2> QED
    BY <2>1, <2>2
<1> HIDE DEF Of
<1>6. CASE PeerSends
  <2> DEFINE seg == Segment(nxt)
  <2>1. nxt \in Indexes /\ Emit(seg) /\ nxt' = nxt + 1 /\ una' = una
    BY <1>2, <1>6, ArdpReceiveAssumption DEF PeerSends, Indexes
  <2>2. seg \in Datagram /\ (seg.SYN <=> seg.data = 0)
    BY <1>2, <2>1, SegmentTyped
  <2>3. seg.SEQ = Seq32(nxt) /\ seg.ACKNXT = Seq32(una) /\ seg.data = nxt /\ seg.NUL = FALSE
    BY DEF Segment
  <2> HIDE DEF seg
  <2>4. Of(seg, nxt', una')
    <3>1. Peers(seg, nxt, una) /\ nxt \in 0 .. nxt + 1 /\ una \in 0 .. una /\ nxt < nxt + 1
      BY <1>2, <2>2, <2>3 DEF Peers, None
    <3> QED
      BY <2>1, <3>1 DEF Of
  <2>5. \A i \in DOMAIN wire' : wire'[i] = seg \/ (i \in DOMAIN wire /\ wire'[i] = wire[i])
    BY <1>2, <2>1, <2>2, Emitted
  <2>6. nxt' \in Nat /\ nxt' >= nxt /\ una' \in Nat /\ una' >= una
    BY <1>2, <2>1
  <2> QED
    BY <1>3, <1>4, <1>5, <2>4, <2>5, <2>6
<1>7. CASE PeerRetransmits
  <2>1. PICK n \in una .. nxt - 1 : Emit(Segment(n))
    BY <1>7 DEF PeerRetransmits
  <2> DEFINE seg == Segment(n)
  <2>2. n \in Indexes /\ n \in Nat /\ n < nxt /\ nxt' = nxt /\ una' = una
    BY <1>2, <1>7 DEF PeerRetransmits, Indexes, peer
  <2>3. seg \in Datagram /\ (seg.SYN <=> seg.data = 0)
    BY <1>2, <2>2, SegmentTyped
  <2>4. seg.SEQ = Seq32(n) /\ seg.ACKNXT = Seq32(una) /\ seg.data = n /\ seg.NUL = FALSE
    BY DEF Segment
  <2> HIDE DEF seg
  <2>5. Of(seg, nxt', una')
    <3>1. Peers(seg, n, una) /\ n \in 0 .. nxt /\ una \in 0 .. una
      BY <1>2, <2>2, <2>3, <2>4 DEF Peers, None
    <3> QED
      BY <2>2, <3>1 DEF Of
  <2>6. \A i \in DOMAIN wire' : wire'[i] = seg \/ (i \in DOMAIN wire /\ wire'[i] = wire[i])
    BY <1>2, <2>1, <2>3, Emitted DEF seg
  <2>7. nxt' \in Nat /\ nxt' >= nxt /\ una' \in Nat /\ una' >= una
    BY <1>2, <2>2
  <2> QED
    BY <1>3, <1>4, <1>5, <2>5, <2>6, <2>7
<1>8. CASE PeerProbes
  <2> DEFINE seg == [Segment(nxt) EXCEPT !.NUL = TRUE, !.data = None]
  <2>1. nxt' = nxt /\ una' = una /\ Emit(seg)
    BY <1>8 DEF PeerProbes, peer
  <2>2. seg \in Datagram /\ (seg.SYN <=> seg.data = 0) /\ seg.data = None /\ seg.NUL = TRUE
          /\ seg.SEQ = Seq32(nxt) /\ seg.ACKNXT = Seq32(una)
    BY <1>2, ProbeTyped
  <2> HIDE DEF seg
  <2>3. Of(seg, nxt', una')
    <3>1. Peers(seg, nxt, una) /\ nxt \in 0 .. nxt /\ una \in 0 .. una /\ seg.data # nxt
      BY <1>2, <2>2 DEF Peers, None
    <3> QED
      BY <2>1, <3>1 DEF Of
  <2>4. \A i \in DOMAIN wire' : wire'[i] = seg \/ (i \in DOMAIN wire /\ wire'[i] = wire[i])
    BY <1>2, <2>1, <2>2, Emitted
  <2>5. nxt' \in Nat /\ nxt' >= nxt /\ una' \in Nat /\ una' >= una
    BY <1>2, <2>1
  <2> QED
    BY <1>3, <1>4, <1>5, <2>3, <2>4, <2>5
<1>9. CASE PeerTakesAck
  <2> DEFINE it(n) == Seq32(n) = ackWire[1].ack
  <2>1. /\ una' = IF \E n \in una .. nxt - 1 : it(n) THEN 1 + CHOOSE n \in una .. nxt - 1 : it(n) ELSE una
        /\ nxt' = nxt /\ wire' = wire
    BY <1>9 DEF PeerTakesAck
  <2>2. una' \in Nat /\ una' >= una
    <3>1. CASE \E n \in una .. nxt - 1 : it(n)
      <4> DEFINE n == CHOOSE n \in una .. nxt - 1 : it(n)
      <4>1. n \in una .. nxt - 1
        BY <3>1
      <4>2. una' = 1 + n
        BY <2>1, <3>1
      <4> HIDE DEF n
      <4> QED
        BY <1>2, <4>1, <4>2
    <3>2. CASE ~\E n \in una .. nxt - 1 : it(n)
      BY <1>2, <2>1, <3>2
    <3> QED
      BY <3>1, <3>2
  <2>3. nxt' \in Nat /\ nxt' >= nxt
    BY <1>2, <2>1
  <2> QED
    BY <1>3, <1>4, <1>5, <2>1, <2>2, <2>3
<1>10. CASE PeerExpires
  <2>1. una' = una + 1 /\ nxt' = nxt /\ wire' = wire
    BY <1>10 DEF PeerExpires
  <2>2. nxt' \in Nat /\ nxt' >= nxt /\ una' \in Nat /\ una' >= una
    BY <1>2, <2>1
  <2> QED
    BY <1>3, <1>4, <1>5, <2>1, <2>2
<1>11. CASE Lose
  <2>1. PICK k \in DOMAIN wire : wire' = RemoveAt(wire, k)
    BY <1>11 DEF Lose
  <2>2. nxt' = nxt /\ una' = una
    BY <1>11 DEF Lose, peer
  <2>3. \A i \in DOMAIN wire' : \E j \in DOMAIN wire : wire'[i] = wire[j]
    BY <1>2, <2>1, Removed
  <2>4. nxt' \in Nat /\ nxt' >= nxt /\ una' \in Nat /\ una' >= una
    BY <1>2, <2>2
  <2> QED
    BY <1>3, <1>4, <2>2, <2>3, <2>4
<1> QED
  BY <1>6, <1>7, <1>8, <1>9, <1>10, <1>11 DEF PeerSide

LEMMA InitNumbers == Init => Numbered
<1> SUFFICES ASSUME Init PROVE Numbered
  OBVIOUS
<1>1. conn.state = "SYN_SENT" /\ ackWire = <<>> /\ wire = <<Segment(0)>> /\ una = 0 /\ nxt = 1
  BY DEF Init
<1>2. Within(conn, {})
  BY InitTypes
<1> DEFINE seg == Segment(0)
<1>3. seg \in Datagram /\ (seg.SYN <=> seg.data = 0)
  BY <1>1, SegmentTyped, ArdpReceiveAssumption DEF Indexes
<1>4. seg.SEQ = Seq32(0) /\ seg.ACKNXT = Seq32(0) /\ seg.data = 0 /\ seg.NUL = FALSE
  BY <1>1 DEF Segment
<1> HIDE DEF seg
<1>5. Peers(seg, 0, 0)
  BY <1>3, <1>4 DEF Peers, None
<1>6. DOMAIN wire = {1} /\ wire[1] = seg
  BY <1>1 DEF seg
<1> QED
  BY <1>1, <1>2, <1>5, <1>6 DEF Numbered

\* The receiver acknowledges only segments the peer has sent, and counts as
\* consumed none that it does not acknowledge, whatever is lost, repeated,
\* reordered or expires and wherever the numbers wrap, so that neither test of
\* RecvValidateSegment fails on the peer's side.
THEOREM AckAcceptableHolds == Short /\ Spec => []AckAcceptable
<1> SUFFICES ASSUME Short PROVE Spec => []AckAcceptable
  OBVIOUS
<1>1. Init => Typed /\ Numbered
  BY InitTypes, InitNumbers
<1>2. Typed /\ Numbered /\ [Next]_vars => Typed' /\ Numbered'
  <2> SUFFICES ASSUME Typed, Numbered, [Next]_vars PROVE Numbered'
    BY NextTypes
  <2>1. CASE Recv
    BY <2>1, RecvNothingNumbers, RecvSegmentNumbers DEF Recv
  <2>2. CASE SendSegment
    BY <2>2, SendNumbers
  <2>3. CASE PeerSide
    BY <2>3, PeerNumbers
  <2>4. CASE UNCHANGED vars
    BY <2>4 DEF vars, peer, Numbered, Received, Within, Known, Upto, Peers, Seq32
  <2> QED
    BY <2>1, <2>2, <2>3, <2>4 DEF Next, PeerSide
<1>3. Typed /\ Numbered => AckAcceptable
  <2> SUFFICES ASSUME Typed, Numbered, ackWire # <<>>
               PROVE  /\ ~SEQ32_LT(Seq32(nxt), ackWire[1].ack)
                      /\ ~SEQ32_LT(ackWire[1].ack, ackWire[1].lcs)
    BY DEF AckAcceptable
  <2>1. PICK a \in 0 .. nxt - 1 : \E b \in 0 .. a : ackWire = <<[ack |-> Seq32(a), lcs |-> Seq32(b)]>>
    BY DEF Numbered
  <2>2. PICK b \in 0 .. a : ackWire = <<[ack |-> Seq32(a), lcs |-> Seq32(b)]>>
    BY <2>1
  <2>3. ackWire[1].ack = Seq32(a) /\ ackWire[1].lcs = Seq32(b)
    BY <2>2
  <2>4. nxt \in 0 .. MaxSegment + 1 /\ a \in 0 .. MaxSegment + 1 /\ b \in 0 .. MaxSegment + 1 /\ a < nxt /\ b <= a
    BY ArdpReceiveAssumption DEF Typed
  <2>5. ~(nxt < a) /\ ~(a < b)
    BY <2>4, ArdpReceiveAssumption
  <2> QED
    BY <2>3, <2>4, <2>5, Compare
<1> QED
  BY <1>1, <1>2, <1>3, PTL DEF Spec

-----------------------------------------------------------------------------
(* What is held and what has been read *)

\* The buffer of the m-th segment, as long as the numbers do not wrap or wrap
\* with the buffers.
Place(m) == (ISS + m) % SegMax

Follow == SeqModulus % SegMax = 0 \/ ISS + MaxSegment < SeqModulus

\* How many units come before the m-th segment's.
Start(m) == IF m = 0 THEN 0 ELSE SynUnits + (m - 1) * SegUnits

LEMMA PlaceIsSlot ==
  ASSUME Follow, NEW m \in Indexes
  PROVE  Slot(Seq32(m)) = Place(m)
<1> DEFINE x == ISS + m
           M == SeqModulus
           S == SegMax
<1>1. x \in Nat /\ x \in Int /\ M \in Nat \ {0} /\ S \in Nat \ {0}
  BY ArdpReceiveAssumption DEF Indexes
<1>2. CASE ISS + MaxSegment < SeqModulus
  <2>1. x \in 0 .. M - 1 /\ x = M * 0 + x /\ 0 \in Int /\ x \in Int
    BY <1>1, <1>2, ArdpReceiveAssumption DEF Indexes
  <2> HIDE DEF x
  <2>2. x % M = x
    BY <1>1, <2>1, Remainder
  <2> QED
    BY <2>2 DEF Slot, Seq32, Place, x
<1>3. CASE M % S = 0
  <2> HIDE DEF x, M, S
  <2> DEFINE p == x \div M
             y == x % M
             k == M \div S
             q == y \div S
             z == y % S
  <2>1. p \in Int /\ y \in 0 .. M - 1 /\ x = M * p + y
    BY <1>1, Quotients
  <2>2. k \in Int /\ M = S * k
    <3>1. M \in Int
      BY <1>1
    <3> QED
      BY <1>1, <1>3, <3>1, Quotients
  <2>3. y \in Int
    BY <2>1
  <2> HIDE DEF y
  <2>4. q \in Int /\ z \in 0 .. S - 1 /\ y = S * q + z
    BY <1>1, <2>3, Quotients
  <2> HIDE DEF p, k, q, z
  <2>5. x = S * (k * p + q) + z /\ k * p + q \in Int
    <3>1. M * p = S * (k * p)
      BY <1>1, <2>1, <2>2
    <3> QED
      BY <1>1, <2>1, <2>2, <2>4, <3>1
  <2>6. x % S = z
    BY <1>1, <2>4, <2>5, Remainder
  <2> QED
    BY <2>6 DEF Slot, Seq32, Place, x, y, z, M, S
<1> QED
  BY <1>2, <1>3 DEF Follow

LEMMA Places ==
  /\ \A m \in Nat : Place(m) \in Slots /\ NextSlot(Place(m)) = Place(m + 1)
  /\ \A a, b \in Nat : a < b /\ b - a < SegMax => Place(a) # Place(b)
<1>1. SegMax \in Nat \ {0, 1} /\ ISS \in Nat
  BY ArdpReceiveAssumption
<1>2. ASSUME NEW m \in Nat PROVE Place(m) \in Slots /\ NextSlot(Place(m)) = Place(m + 1)
  <2>1. ISS + m \in Int /\ 1 \in Int /\ (ISS + m) + 1 = ISS + (m + 1)
    BY <1>1
  <2>2. (ISS + m) % SegMax \in 0 .. SegMax - 1
    BY <1>1, <2>1, Quotients
  <2>3. (((ISS + m) % SegMax) + 1) % SegMax = ((ISS + m) + 1) % SegMax
    BY <1>1, <2>1, Modular
  <2> QED
    BY <2>1, <2>2, <2>3 DEF Place, Slots, NextSlot
<1>3. ASSUME NEW a \in Nat, NEW b \in Nat, a < b, b - a < SegMax, Place(a) = Place(b) PROVE FALSE
  <2> DEFINE p == (ISS + a) \div SegMax
             q == (ISS + b) \div SegMax
             s == (ISS + a) % SegMax
             t == (ISS + b) % SegMax
  <2>1. ISS + a \in Int /\ ISS + b \in Int /\ SegMax \in Nat \ {0}
    BY <1>1
  <2>a. p \in Int /\ s \in 0 .. SegMax - 1 /\ ISS + a = SegMax * p + s
    BY <2>1, Quotients
  <2>b. q \in Int /\ t \in 0 .. SegMax - 1 /\ ISS + b = SegMax * q + t
    BY <2>1, Quotients
  <2>2. p \in Int /\ q \in Int /\ s = t /\ s \in Int /\ ISS + a = SegMax * p + s /\ ISS + b = SegMax * q + t
    <3>1. s = t
      BY <1>3 DEF Place
    <3> HIDE DEF p, q, s, t
    <3> QED
      BY <2>a, <2>b, <3>1
  <2> HIDE DEF p, q, s, t
  <2>3. b - a = SegMax * (q - p)
    BY <1>1, <2>2
  <2>4. CASE q - p >= 1
    <3>1. SegMax * (q - p) >= SegMax
      BY <1>1, <2>2, <2>4
    <3> QED
      BY <1>1, <1>3, <2>3, <3>1
  <2>5. CASE q - p <= 0
    <3>1. SegMax * (q - p) <= 0
      BY <1>1, <2>2, <2>5
    <3> QED
      BY <1>3, <2>3, <3>1
  <2> QED
    BY <2>2, <2>4, <2>5
<1> QED
  BY <1>2, <1>3

LEMMA Starts ==
  /\ Start(0) = 0
  /\ \A m \in Nat : Start(m) \in Nat /\ UnitsOf(m) \in Nat \ {0} /\ Start(m + 1) = Start(m) + UnitsOf(m)
  /\ \A m, k \in Nat : m <= k => Start(m) <= Start(k)
<1>1. SynUnits \in Nat \ {0} /\ SegUnits \in Nat \ {0}
  BY ArdpReceiveAssumption
<1>2. ASSUME NEW m \in Nat PROVE Start(m) \in Nat /\ UnitsOf(m) \in Nat \ {0} /\ Start(m + 1) = Start(m) + UnitsOf(m)
  <2>1. CASE m = 0
    BY <1>1, <2>1 DEF Start, UnitsOf
  <2>2. CASE m # 0
    <3>1. (m - 1) * SegUnits \in Nat /\ m * SegUnits = (m - 1) * SegUnits + SegUnits
      BY <1>1, <2>2
    <3> QED
      BY <1>1, <2>2, <3>1 DEF Start, UnitsOf
  <2> QED
    BY <2>1, <2>2
<1>3. ASSUME NEW m \in Nat, NEW k \in Nat, m <= k PROVE Start(m) <= Start(k)
  <2>1. CASE m = 0
    BY <1>2, <2>1 DEF Start
  <2>2. CASE m # 0
    <3>1. (k - 1) * SegUnits = (m - 1) * SegUnits + (k - m) * SegUnits
          /\ (k - m) * SegUnits \in Nat /\ (m - 1) * SegUnits \in Nat
      BY <1>1, <1>3, <2>2
    <3> QED
      BY <1>1, <1>3, <2>2, <3>1 DEF Start
  <2> QED
    BY <2>1, <2>2
<1> QED
  BY <1>2, <1>3 DEF Start

\* What the caller has been given: each unit is one of the segment whose turn
\* it is.
Streamed(app) ==
  /\ app \in Seq(Indexes)
  /\ \A m \in Nat : \A p \in Start(m) + 1 .. Start(m + 1) : p <= Len(app) => app[p] = m

LEMMA NoneStreamed == Streamed(<<>>)
<1>1. ASSUME NEW m \in Nat, NEW p \in Start(m) + 1 .. Start(m + 1), p <= 0 PROVE FALSE
  <2>1. Start(m) \in Nat
    BY Starts
  <2> QED
    BY <1>1, <2>1
<1> QED
  BY <1>1 DEF Streamed

LEMMA StreamedNext ==
  ASSUME NEW app, Streamed(app), NEW r \in Indexes, Start(r) <= Len(app), Len(app) < Start(r + 1)
  PROVE  Streamed(Append(app, r)) /\ Len(Append(app, r)) = Len(app) + 1
<1> DEFINE new == Append(app, r)
<1>1. app \in Seq(Indexes) /\ Len(app) \in Nat /\ r \in Nat
  BY DEF Streamed, Indexes
<1>2. /\ new \in Seq(Indexes) /\ Len(new) = Len(app) + 1 /\ new[Len(app) + 1] = r
      /\ \A p \in 1 .. Len(app) : new[p] = app[p]
  BY <1>1
<1> HIDE DEF new
<1>3. ASSUME NEW m \in Nat, NEW p \in Start(m) + 1 .. Start(m + 1), p <= Len(new) PROVE new[p] = m
  <2>1. Start(m) \in Nat /\ Start(m + 1) \in Nat /\ Start(r) \in Nat
    BY <1>1, Starts
  <2>2. CASE p <= Len(app)
    BY <1>1, <1>2, <2>1, <2>2 DEF Streamed
  <2>3. CASE p = Len(app) + 1
    <3>1. CASE m < r
      <4>1. Start(m + 1) <= Start(r)
        BY <1>1, <3>1, Starts
      <4> QED
        BY <1>1, <2>1, <2>3, <4>1
    <3>2. CASE r < m
      <4>1. Start(r + 1) <= Start(m) /\ Start(r + 1) \in Nat
        BY <1>1, <3>2, Starts
      <4> QED
        BY <1>1, <2>1, <2>3, <4>1
    <3> QED
      BY <1>1, <1>2, <2>3, <3>1, <3>2
  <2> QED
    BY <1>1, <1>2, <1>3, <2>1, <2>2, <2>3
<1>4. Streamed(new)
  BY <1>2, <1>3 DEF Streamed
<1> QED
  BY <1>2, <1>4 DEF new

Filled(c, m) ==
  c.buf[Place(m)].data = m /\ c.buf[Place(m)].seq = Seq32(m) /\ c.buf[Place(m)].dataLen = UnitsOf(m)

Free(c, i) == c.buf[i].dataLen = 0 /\ ~c.buf[i].inUse

\* The last segment that counts as consumed when the r-th is being read.
LastRead(r) == IF r = 0 THEN 0 ELSE r - 1

\* The receiver has the segments up to cur and reads the r-th: those in between
\* are held, each in its place, and all before has been given to the caller.
Holds(c, cur, r) ==
  /\ c \in Record /\ r \in 0 .. cur + 1 /\ cur + 1 - r <= SegMax
  /\ c.state = "OPEN" /\ c.CUR = Seq32(cur) /\ c.asserts /\ c.LCS = Seq32(LastRead(r))
  /\ \A m \in r .. cur : Filled(c, m)
  /\ \A i \in Slots : (\A m \in r .. cur : Place(m) # i) => Free(c, i)
  /\ r <= cur => /\ c.rxContext = Place(r) /\ c.left \in 1 .. UnitsOf(r)
                 /\ Len(c.app) + c.left = Start(r + 1)
  /\ r > cur => c.rxContext = None /\ Len(c.app) = Start(r)
  /\ Streamed(c.app)

\* A unit read is the next of the r-th segment, and its last one frees its buffer.
LEMMA ReadUnitHolds ==
  ASSUME NEW cur \in Indexes, NEW r, NEW c, Holds(c, cur, r)
  PROVE  LET d == ReadUnit(c)
         IN \E q \in r .. cur + 1 : /\ Holds(d, cur, q)
                                    /\ Len(d.app) = Len(c.app) + (IF r <= cur THEN 1 ELSE 0)
<1> DEFINE i == c.rxContext
           d == ReadUnit(c)
           b == Emptied(c)
           Good(q) == Holds(d, cur, q) /\ Len(d.app) = Len(c.app) + (IF r <= cur THEN 1 ELSE 0)
<1> SUFFICES \E q \in r .. cur + 1 : Good(q)
  OBVIOUS
<1>1. cur \in Nat /\ r \in 0 .. cur + 1 /\ c \in Record /\ c.app \in Seq(Indexes) /\ Len(c.app) \in Nat
      /\ c.buf \in [Slots -> Buffer] /\ SegMax \in Nat \ {0, 1}
  BY SlotFacts DEF Indexes, Holds, Streamed, Record
<1>2. CASE r > cur
  <2>1. d = c /\ r = cur + 1
    BY <1>1, <1>2 DEF Holds, ReadUnit
  <2>2. r \in r .. cur + 1 /\ Len(d.app) = Len(c.app) + 0
    BY <1>1, <2>1
  <2>3. ~(r <= cur)
    BY <1>1, <1>2
  <2>4. Good(r)
    BY <2>1, <2>2, <2>3
  <2> QED
    BY <2>2, <2>4
<1>3. CASE r <= cur
  <2>1. r \in Nat /\ r \in Indexes /\ r \in r .. cur /\ cur \in Nat /\ r + 1 \in Nat
    BY <1>1, <1>3, ArdpReceiveAssumption DEF Indexes
  <2>2. /\ i = Place(r) /\ i \in Slots /\ i # None /\ c.left \in 1 .. UnitsOf(r)
        /\ Len(c.app) + c.left = Start(r + 1) /\ Filled(c, r)
    BY <1>3, <2>1, Places, SlotFacts DEF Holds
  <2>3. /\ Start(r) \in Nat /\ UnitsOf(r) \in Nat \ {0} /\ Start(r + 1) = Start(r) + UnitsOf(r)
        /\ UnitsOf(r + 1) \in Nat \ {0} /\ Start(r + 1) \in Nat /\ Start((r + 1) + 1) = Start(r + 1) + UnitsOf(r + 1)
    BY <2>1, Starts
  <2>4. NextSlot(i) = Place(r + 1) /\ Place(r + 1) \in Slots
    BY <2>1, <2>2, Places
  <2> DEFINE next == b[Place(r + 1)].dataLen
  <2>5. /\ d \in Record /\ d.app = Append(c.app, r) /\ d.CUR = c.CUR /\ d.state = c.state /\ d.asserts = c.asserts
        /\ c.left > 1 => d.left = c.left - 1 /\ d.buf = c.buf /\ d.rxContext = i /\ d.LCS = c.LCS
        /\ ~(c.left > 1) =>
             /\ d.buf = b /\ d.LCS = Seq32(r) /\ d.left = next
             /\ d.rxContext = IF next # 0 THEN Place(r + 1) ELSE None
    <3>1. c.buf[i].data = r /\ c.buf[i].seq = Seq32(r)
      BY <2>2 DEF Filled
    <3> QED
      BY <1>1, <2>1, <2>2, <2>4, <3>1, ReadUnitIs
  <2>6. Streamed(d.app) /\ Len(d.app) = Len(c.app) + 1
    <3>1. Start(r) <= Len(c.app) /\ Len(c.app) < Start(r + 1)
      <4>1. /\ c.left \in Nat /\ 1 <= c.left /\ c.left <= UnitsOf(r) /\ Len(c.app) \in Nat
            /\ Len(c.app) + c.left = Start(r) + UnitsOf(r)
        BY <1>1, <2>2, <2>3
      <4>2. Start(r) \in Nat /\ UnitsOf(r) \in Nat /\ Start(r + 1) = Start(r) + UnitsOf(r)
        BY <2>3
      <4> QED
        BY <4>1, <4>2
    <3>2. Streamed(c.app)
      BY DEF Holds
    <3> QED
      BY <2>1, <2>5, <3>1, <3>2, StreamedNext
  <2>t. c.left \in 1 .. UnitsOf(r) /\ UnitsOf(r) \in Nat /\ Len(c.app) \in Nat /\ Len(c.app) + c.left = Start(r + 1)
    BY <1>1, <2>2, <2>3
  <2> HIDE DEF d, b
  <2>7. CASE c.left > 1
    <3>1. c.left - 1 \in 1 .. UnitsOf(r) /\ Len(d.app) + (c.left - 1) = Start(r + 1)
      BY <2>t, <2>6, <2>7
    <3>2. Holds(d, cur, r)
      <4>1. (\A m \in r .. cur : Filled(d, m))
            /\ (\A k \in Slots : (\A m \in r .. cur : Place(m) # k) => Free(d, k))
        BY <2>5, <2>7 DEF Holds, Filled, Free
      <4> QED
        BY <1>1, <1>3, <2>2, <2>5, <2>6, <2>7, <3>1, <4>1 DEF Holds
    <3>3. r \in r .. cur + 1
      BY <2>1
    <3> QED
      BY <1>3, <2>6, <3>2, <3>3
  <2>8. CASE ~(c.left > 1)
    <3>1. Len(d.app) = Start(r + 1)
      BY <2>t, <2>6, <2>8
    <3>2. /\ b \in [Slots -> Buffer] /\ b[i].dataLen = 0 /\ ~b[i].inUse
          /\ \A k \in Slots : k # i => b[k] = c.buf[k]
      BY <1>1, <2>2, EmptiedIs DEF b
    <3>3. ASSUME NEW m \in r + 1 .. cur PROVE Place(m) \in Slots /\ Place(m) # i /\ Filled(d, m)
      <4>1. m \in Nat /\ r < m /\ m - r < SegMax /\ m \in r .. cur
        BY <1>1, <2>1 DEF Holds
      <4>2. Place(m) \in Slots /\ Place(m) # i
        BY <2>1, <2>2, <4>1, Places
      <4> QED
        BY <2>5, <2>8, <3>2, <4>1, <4>2 DEF Holds, Filled
    <3>4. ASSUME NEW k \in Slots, \A m \in r + 1 .. cur : Place(m) # k PROVE Free(d, k)
      <4>1. CASE k = i
        BY <2>5, <2>8, <3>2, <4>1 DEF Free
      <4>2. CASE k # i
        <5>1. \A m \in r .. cur : m = r \/ m \in r + 1 .. cur
          BY <2>1
        <5>2. Free(c, k)
          BY <2>2, <3>4, <4>2, <5>1 DEF Holds
        <5> QED
          BY <2>5, <2>8, <3>2, <4>2, <5>2 DEF Free
      <4> QED
        BY <4>1, <4>2
    <3>5. ASSUME r + 1 <= cur
          PROVE  /\ d.rxContext = Place(r + 1) /\ d.left \in 1 .. UnitsOf(r + 1)
                 /\ Len(d.app) + d.left = Start((r + 1) + 1)
      <4>1. r + 1 \in r + 1 .. cur
        BY <2>1, <3>5
      <4>2. next = UnitsOf(r + 1)
        BY <2>5, <2>8, <3>3, <4>1 DEF Filled
      <4> HIDE DEF next
      <4> QED
        BY <2>3, <2>5, <2>8, <3>1, <4>2
    <3>6. ASSUME r + 1 > cur PROVE d.rxContext = None
      <4>1. \A m \in r + 1 .. cur : FALSE
        BY <2>1, <3>6
      <4>2. Free(d, Place(r + 1))
        BY <2>4, <3>4, <4>1
      <4> QED
        BY <2>5, <2>8, <4>2 DEF Free
    <3>8. LastRead(r + 1) = r /\ r + 1 \in 0 .. cur + 1 /\ cur + 1 - (r + 1) <= SegMax /\ r + 1 \in r .. cur + 1
      BY <1>1, <1>3, <2>1 DEF LastRead, Holds
    <3>9. Holds(d, cur, r + 1)
      BY <2>5, <2>6, <2>8, <3>1, <3>3, <3>4, <3>5, <3>6, <3>8 DEF Holds
    <3> QED
      BY <1>3, <2>6, <3>8, <3>9
  <2> QED
    BY <2>7, <2>8
<1>4. r <= cur \/ r > cur
  BY <1>1
<1> QED
  BY <1>2, <1>3, <1>4

\* A call that reads goes on in the same way, unit by unit.
LEMMA UpdateReadBufferHolds ==
  ASSUME NEW cur \in Indexes, NEW r, NEW c, Holds(c, cur, r), NEW len \in Nat
  PROVE  LET d == UpdateReadBuffer(c, len)
         IN \E q \in r .. cur + 1 : /\ Holds(d, cur, q) /\ Len(d.app) >= Len(c.app)
                                    /\ len > 0 /\ r <= cur => Len(d.app) > Len(c.app)
<1> DEFINE read == CHOOSE g : ReadPass(g, c, len)
           OK(d, m) == \E q \in r .. cur + 1 : /\ Holds(d, cur, q) /\ Len(d.app) >= Len(c.app)
                                               /\ m > 0 /\ r <= cur => Len(d.app) > Len(c.app)
<1>1. ReadPass(read, c, len)
  BY ReadPassExists
<1>2. UpdateReadBuffer(c, len) = read[len]
  BY Zenon DEF UpdateReadBuffer, ReadPass
<1> HIDE DEF read
<1> DEFINE S == {m \in 0 .. len : OK(read[m], m)}
<1>0. cur \in Nat /\ r \in 0 .. cur + 1 /\ Len(c.app) \in Nat
  BY DEF Indexes, Holds, Streamed
<1>3. 0 \in S
  <2>1. read[0] = c
    BY <1>1 DEF ReadPass
  <2>2. r \in r .. cur + 1 /\ Len(c.app) >= Len(c.app) /\ ~(0 > 0)
    BY <1>0
  <2>3. OK(c, 0)
    BY <2>2
  <2> HIDE DEF OK
  <2> QED
    BY <2>1, <2>3
<1>4. ASSUME NEW m \in 0 .. len - 1, m \in S PROVE m + 1 \in S
  <2>1. m + 1 \in 0 .. len /\ m + 1 # 0 /\ (m + 1) - 1 = m
    OBVIOUS
  <2>2. read[m + 1] = ReadUnit(read[m])
    BY <1>1, <2>1 DEF ReadPass
  <2> DEFINE e == read[m]
             d == ReadUnit(e)
  <2>3. PICK q \in r .. cur + 1 : /\ Holds(e, cur, q) /\ Len(e.app) >= Len(c.app)
                                  /\ m > 0 /\ r <= cur => Len(e.app) > Len(c.app)
    BY <1>4
  <2> HIDE DEF e
  <2>4. PICK p \in q .. cur + 1 : /\ Holds(d, cur, p)
                                  /\ Len(d.app) = Len(e.app) + (IF q <= cur THEN 1 ELSE 0)
    BY <2>3, ReadUnitHolds
  <2> HIDE DEF d
  <2>5. Len(e.app) \in Nat /\ Len(d.app) \in Nat /\ p \in r .. cur + 1
    <3>1. e.app \in Seq(Indexes) /\ d.app \in Seq(Indexes)
      BY <2>3, <2>4 DEF Holds, Streamed
    <3>2. q \in r .. cur + 1 /\ p \in q .. cur + 1
      BY <2>3, <2>4
    <3> QED
      BY <1>0, <3>1, <3>2
  <2>g. /\ Len(e.app) >= Len(c.app) /\ (m > 0 /\ r <= cur => Len(e.app) > Len(c.app))
        /\ q \in r .. cur + 1 /\ Len(d.app) >= Len(e.app) /\ (q <= cur => Len(d.app) = Len(e.app) + 1)
    <3>1. q \in r .. cur + 1 /\ Len(d.app) = Len(e.app) + (IF q <= cur THEN 1 ELSE 0)
      BY <2>3, <2>4
    <3>2. Len(d.app) >= Len(e.app) /\ (q <= cur => Len(d.app) = Len(e.app) + 1)
      <4>1. CASE q <= cur
        BY <2>5, <3>1, <4>1
      <4>2. CASE ~(q <= cur)
        BY <2>5, <3>1, <4>2
      <4> QED
        BY <4>1, <4>2
    <3> QED
      BY <2>3, <3>2
  <2>6. Len(d.app) >= Len(c.app)
    BY <1>0, <2>g, <2>5
  <2>7. ASSUME r <= cur PROVE Len(d.app) > Len(c.app)
    <3>1. CASE m > 0
      BY <1>0, <2>g, <2>5, <2>7, <3>1
    <3>2. CASE q <= cur
      BY <1>0, <2>g, <2>5, <3>2
    <3>3. CASE q = cur + 1
      <4>1. /\ Start(r + 1) \in Nat /\ Start(q) \in Nat /\ Start(r + 1) <= Start(q) /\ UnitsOf(r) \in Nat
        <5>1. r \in Nat /\ r + 1 \in Nat /\ q \in Nat /\ r + 1 <= q
          BY <1>0, <2>7, <3>3
        <5> QED
          BY <5>1, Starts
      <4>2. Len(e.app) = Start(q)
        BY <1>0, <2>3, <3>3 DEF Holds
      <4>3. Len(c.app) + c.left = Start(r + 1) /\ c.left \in 1 .. UnitsOf(r)
        BY <2>7 DEF Holds
      <4>4. Len(c.app) < Start(r + 1)
        BY <1>0, <4>1, <4>3
      <4>5. Len(d.app) >= Len(e.app)
        BY <2>g
      <4> QED
        BY <1>0, <2>5, <4>1, <4>2, <4>4, <4>5
    <3> QED
      BY <1>0, <2>3, <3>2, <3>3
  <2>8. OK(d, m + 1)
    BY <2>4, <2>5, <2>6, <2>7
  <2> HIDE DEF OK
  <2> QED
    BY <2>1, <2>2, <2>8 DEF d, e
<1> HIDE DEF S, OK
<1>5. 0 .. len \subseteq S
  BY <1>3, <1>4, Reaches
<1>6. len \in S
  BY <1>5
<1>7. OK(read[len], len)
  BY <1>6 DEF S
<1> QED
  BY <1>2, <1>7 DEF OK

\* Nothing that is held or read is touched by arming the timer or by an
\* acknowledgement.
LEMMA SameHolds ==
  ASSUME NEW cur, NEW r, NEW c, Holds(c, cur, r), NEW d, Same(c, d)
  PROVE  Holds(d, cur, r) /\ d.app = c.app
<1>1. /\ \A m \in r .. cur : Filled(d, m)
      /\ \A i \in Slots : (\A m \in r .. cur : Place(m) # i) => Free(d, i)
  BY DEF Holds, Same, Filled, Free
<1> QED
  BY <1>1 DEF Holds, Same

\* The segment that follows is put into a free place.
LEMMA TakeDataHolds ==
  ASSUME Short, Follow, NEW cur \in Indexes, NEW r, NEW c, Holds(c, cur, r),
         NEW seg, NEW n \in 0 .. MaxSegment + 1, NEW u, Peers(seg, n, u),
         seg.data = n => n \in 1 .. cur + 1 /\ n <= MaxSegment,
         seg.data = cur + 1 => cur + 1 - r < SegMax
  PROVE  LET d == TakeData(c, seg)
         IN /\ seg.data = cur + 1 => Holds(d, cur + 1, r)
            /\ seg.data # cur + 1 => Holds(d, cur, r)
            /\ d.app = c.app
<1> DEFINE armed == IF seg.data = None THEN AckSent(c) ELSE [ArmAck(c) EXCEPT !.pending = @ + 1]
           added == AddRcvBuffer(armed, seg)
           d == TakeData(c, seg)
<1>1. cur \in Nat /\ r \in 0 .. cur + 1 /\ c \in Record /\ MaxSegment \in Nat /\ cur <= MaxSegment
      /\ seg \in Datagram /\ seg.SEQ = Seq32(n) /\ seg.data \in {n, None} /\ None \notin Nat /\ n \in Nat
  BY ArdpReceiveAssumption DEF Indexes, Holds, Peers, None
<1>2. Same(c, armed)
  BY <1>1, ArmedIs
<1>3. d = IF Accepts(armed, seg) THEN [added EXCEPT !.CUR = seg.SEQ] ELSE armed
  BY DEF TakeData
<1> HIDE DEF armed, d
<1>4. Holds(armed, cur, r) /\ armed.app = c.app /\ armed \in Record
  <2>1. Holds(armed, cur, r) /\ armed.app = c.app
    BY <1>2, SameHolds
  <2> QED
    BY <2>1 DEF Holds
<1>5. Accepts(armed, seg) <=> seg.data = cur + 1
  <2>1. armed.CUR = Seq32(cur)
    BY <1>4 DEF Holds
  <2>2. Accepts(armed, seg) <=> seg.data # None /\ SEQ32_LET(Seq32(cur + 1), Seq32(n))
    BY <1>1, <2>1, Following DEF Accepts
  <2>3. SEQ32_LET(Seq32(cur + 1), Seq32(n)) <=> cur + 1 <= n
    <3>1. cur + 1 \in 0 .. MaxSegment + 1
      BY <1>1
    <3> QED
      BY <3>1, Compare
  <2> QED
    BY <1>1, <2>2, <2>3
<1>6. CASE seg.data # cur + 1
  BY <1>3, <1>4, <1>5, <1>6 DEF d
<1>7. CASE seg.data = cur + 1
  <2> DEFINE k == cur + 1
             i == Slot(seg.SEQ)
  <2>1. n = k /\ k \in Nat /\ k \in Indexes /\ k - r < SegMax /\ seg.data = k
    BY <1>1, <1>7 DEF Indexes
  <2>2. i = Place(k) /\ i \in Slots /\ seg.SEQ = Seq32(k)
    BY <1>1, <2>1, PlaceIsSlot, Places
  <2> HIDE DEF k, i
  <2>3. ASSUME NEW m \in r .. cur PROVE Place(m) \in Slots /\ Place(m) # i
    <3>1. m \in Nat /\ m < k /\ k - m < SegMax
      BY <1>1, <2>1, SlotFacts DEF k
    <3> QED
      BY <2>1, <2>2, <3>1, Places
  <2>4. Free(armed, i)
    BY <1>4, <2>2, <2>3 DEF Holds
  <2>5. /\ added \in Record
        /\ added.CUR = armed.CUR /\ added.state = armed.state /\ added.LCS = armed.LCS /\ added.app = armed.app
        /\ armed.asserts /\ ~armed.buf[i].inUse => added.asserts
        /\ added.buf[i].data = k /\ added.buf[i].seq = Seq32(k) /\ added.buf[i].dataLen = UnitsOf(k)
        /\ \A j \in Slots : j # i => added.buf[j] = armed.buf[j]
        /\ armed.rxContext = None => added.rxContext = i /\ added.left = UnitsOf(k)
        /\ armed.rxContext # None => added.rxContext = armed.rxContext /\ added.left = armed.left
    BY <1>1, <1>4, <2>1, <2>2, AddRcvBufferIs DEF i
  <2> HIDE DEF added
  <2>6. /\ d \in Record /\ d.CUR = Seq32(k) /\ d.state = added.state /\ d.LCS = added.LCS /\ d.app = added.app
        /\ d.asserts = added.asserts /\ d.buf = added.buf /\ d.rxContext = added.rxContext /\ d.left = added.left
    <3>1. d = [added EXCEPT !.CUR = Seq32(k)] /\ Seq32(k) \in Numbers
      BY <1>3, <1>5, <1>7, <2>1, <2>2, SeqIsNumber
    <3> QED
      BY <2>5, <3>1 DEF Record
  <2>7. ASSUME NEW m \in r .. k PROVE Filled(d, m)
    <3>1. CASE m = k
      BY <2>2, <2>5, <2>6, <3>1 DEF Filled
    <3>2. CASE m # k
      <4>1. m \in r .. cur
        BY <1>1, <3>2 DEF k
      <4> QED
        BY <1>4, <2>3, <2>5, <2>6, <4>1 DEF Holds, Filled
    <3> QED
      BY <3>1, <3>2
  <2>8. ASSUME NEW j \in Slots, \A m \in r .. k : Place(m) # j PROVE Free(d, j)
    <3>1. k \in r .. k /\ \A m \in r .. cur : m \in r .. k
      BY <1>1 DEF k
    <3>2. j # i /\ Free(armed, j)
      BY <1>4, <2>2, <2>8, <3>1 DEF Holds
    <3> QED
      BY <2>5, <2>6, <3>2 DEF Free
  <2>9. d.rxContext = Place(r) /\ d.left \in 1 .. UnitsOf(r) /\ Len(d.app) + d.left = Start(r + 1)
    <3>1. CASE r <= cur
      <4>1. /\ armed.rxContext = Place(r) /\ armed.left \in 1 .. UnitsOf(r)
            /\ Len(armed.app) + armed.left = Start(r + 1)
        BY <1>4, <3>1 DEF Holds
      <4>2. armed.rxContext # None
        <5>1. r \in Nat
          BY <1>1
        <5> QED
          BY <4>1, <5>1, Places, SlotFacts
      <4> QED
        BY <2>5, <2>6, <4>1, <4>2
    <3>2. CASE r = k
      <4>1. armed.rxContext = None /\ Len(armed.app) = Start(r)
        BY <1>1, <1>4, <3>2 DEF Holds, k
      <4>2. UnitsOf(r) \in Nat \ {0} /\ Start(r) \in Nat /\ Start(r + 1) = Start(r) + UnitsOf(r)
        BY <2>1, <3>2, Starts
      <4>3. d.rxContext = Place(r) /\ d.left = UnitsOf(r) /\ Len(d.app) = Start(r)
        BY <2>2, <2>5, <2>6, <3>2, <4>1
      <4> QED
        BY <4>2, <4>3
    <3> QED
      BY <1>1, <3>1, <3>2 DEF k
  <2>10. /\ r \in 0 .. k + 1 /\ k + 1 - r <= SegMax /\ ~(r > k)
    BY <1>1, <2>1, SlotFacts DEF k
  <2>11. d.state = "OPEN" /\ d.asserts /\ d.LCS = Seq32(LastRead(r)) /\ Streamed(d.app) /\ d.app = c.app
    BY <1>4, <2>4, <2>5, <2>6 DEF Holds, Free
  <2>12. Holds(d, k, r)
    BY <2>6, <2>7, <2>8, <2>9, <2>10, <2>11 DEF Holds
  <2> QED
    BY <1>7, <2>11, <2>12 DEF d, k
<1> QED
  BY <1>6, <1>7

\* Before the SYN arrives nothing is held.
Fresh(c) ==
  /\ c \in Record /\ c.state = "SYN_SENT" /\ c.rxContext = None /\ c.app = <<>> /\ c.asserts
  /\ \A i \in Slots : Free(c, i)

LEMMA OpensHolds ==
  ASSUME Follow, NEW c, Fresh(c), NEW seg \in Datagram, seg.SEQ = Seq32(0), seg.data = 0
  PROVE  Holds(Opens(c, seg), 0, 0) /\ Opens(c, seg).app = <<>>
<1> DEFINE open == [c EXCEPT !.state = "OPEN", !.CUR = seg.SEQ, !.LCS = seg.SEQ]
           sent == AckSent(open)
           d == AddRcvBuffer(sent, seg)
           i == Slot(seg.SEQ)
<1>1. 0 \in Indexes /\ Seq32(0) \in Numbers
  BY SeqIsNumber, ArdpReceiveAssumption DEF Indexes
<1>2. i = Place(0) /\ i \in Slots
  BY <1>1, PlaceIsSlot, Places
<1>3. /\ open \in Record /\ open.LCS = Seq32(0) /\ open.CUR = Seq32(0) /\ open.state = "OPEN" /\ open.app = <<>>
      /\ open.buf = c.buf /\ open.rxContext = None /\ open.asserts
  BY <1>1 DEF Record, Fresh
<1> HIDE DEF open, i
<1>4. Same(open, sent)
  BY <1>3, ArmedIs
<1> HIDE DEF sent
<1>5. /\ sent \in Record /\ sent.LCS = Seq32(0) /\ sent.CUR = Seq32(0) /\ sent.state = "OPEN" /\ sent.app = <<>>
      /\ sent.buf = c.buf /\ sent.rxContext = None /\ sent.asserts
  BY <1>3, <1>4 DEF Same
<1>6. /\ d \in Record /\ d.CUR = Seq32(0) /\ d.state = "OPEN" /\ d.LCS = Seq32(0) /\ d.app = <<>>
      /\ (~sent.buf[i].inUse => d.asserts)
      /\ d.buf[i].data = 0 /\ d.buf[i].seq = Seq32(0) /\ d.buf[i].dataLen = UnitsOf(0)
      /\ \A k \in Slots : k # i => d.buf[k] = sent.buf[k]
      /\ d.rxContext = i /\ d.left = UnitsOf(0)
  BY <1>1, <1>5, AddRcvBufferIs DEF i
<1> HIDE DEF d
<1>7. d.asserts
  BY <1>2, <1>5, <1>6 DEF Fresh, Free
<1>8. \A m \in 0 .. 0 : Filled(d, m)
  BY <1>2, <1>6 DEF Filled
<1>9. ASSUME NEW j \in Slots, \A m \in 0 .. 0 : Place(m) # j PROVE Free(d, j)
  <2>1. j # i
    BY <1>2, <1>9
  <2> QED
    BY <1>5, <1>6, <2>1 DEF Fresh, Free
<1>10. Streamed(<<>>)
  BY NoneStreamed
<1>11. d.left \in 1 .. UnitsOf(0) /\ Len(d.app) + d.left = Start(0 + 1) /\ UnitsOf(0) \in Nat
  <2>1. UnitsOf(0) \in Nat \ {0} /\ Start(0 + 1) = Start(0) + UnitsOf(0) /\ Start(0) = 0
    BY Starts
  <2>2. Len(d.app) = 0 /\ d.left = UnitsOf(0)
    BY <1>6
  <2> QED
    BY <2>1, <2>2
<1>12. 0 \in 0 .. 0 + 1 /\ 0 + 1 - 0 <= SegMax /\ ~(0 > 0) /\ LastRead(0) = 0
  BY SlotFacts DEF LastRead
<1>13. Holds(d, 0, 0)
  BY <1>2, <1>6, <1>7, <1>8, <1>9, <1>10, <1>11, <1>12 DEF Holds
<1> QED
  BY <1>6, <1>13 DEF Opens, d, sent, open

\* The last segment received, once this one has been handled.
Latest(cur, seg) == IF seg.data = cur + 1 THEN cur + 1 ELSE cur

\* Where nothing overtakes, every segment is valid, none expires, and the one
\* that follows is taken.
LEMMA HandleHolds ==
  ASSUME Short, Follow, NEW cur \in Indexes, NEW r, NEW c, Holds(c, cur, r), NEW len \in Nat,
         NEW seg, NEW n \in 0 .. MaxSegment + 1, NEW u \in 0 .. cur + 1, Peers(seg, n, u), u <= n,
         seg.data = n => n <= cur + 1 /\ n <= MaxSegment /\ n - u < SegMax,
         seg.data = cur + 1 => cur + 1 - r < SegMax
  PROVE  LET d == Handle(c, seg, len)
             k == Latest(cur, seg)
         IN /\ Valid(seg)
            /\ \E q \in r .. k + 1 : /\ Holds(d, k, q) /\ Len(d.app) >= Len(c.app)
                                     /\ len > 0 /\ r <= k => Len(d.app) > Len(c.app)
<1> DEFINE d == Handle(c, seg, len)
           k == Latest(cur, seg)
           m == TakeData(c, seg)
<1>1. cur \in Nat /\ r \in 0 .. cur + 1 /\ c \in Record /\ MaxSegment \in Nat /\ cur <= MaxSegment
      /\ seg \in Datagram /\ seg.SEQ = Seq32(n) /\ seg.ACKNXT = Seq32(u) /\ seg.data \in {n, None} /\ None \notin Nat
      /\ n \in Nat /\ (seg.SYN <=> seg.data = 0)
  BY ArdpReceiveAssumption DEF Indexes, Holds, Peers, None
<1>2. u \in 0 .. MaxSegment + 1 /\ cur + 1 \in 0 .. MaxSegment + 1 /\ ~(n < u) /\ ~(cur + 1 < u)
  BY <1>1
<1>3. Valid(seg)
  <2>1. ~SEQ32_LT(Seq32(n), Seq32(u)) /\ Ahead(Seq32(n), Seq32(u)) = n - u
    BY <1>2, Compare
  <2> QED
    BY <1>1, <2>1 DEF Valid
<1>4. c.state = "OPEN" /\ c.CUR = Seq32(cur)
  BY DEF Holds
<1>5. ~Expired(c, seg)
  <2>1. Succ32(c.CUR) = Seq32(cur + 1)
    BY <1>1, <1>4, Following
  <2>2. ~SEQ32_LT(Seq32(cur + 1), Seq32(u))
    BY <1>2, Compare
  <2> QED
    BY <1>1, <2>1, <2>2 DEF Expired
<1>6. CASE seg.SYN
  <2>1. d = UpdateReadBuffer(c, len)
    BY <1>3, <1>4, <1>6 DEF Handle
  <2>2. k = cur
    BY <1>1, <1>6 DEF Latest
  <2> HIDE DEF d, k
  <2> QED
    BY <1>3, <2>1, <2>2, UpdateReadBufferHolds DEF d, k
<1>7. CASE ~seg.SYN
  <2>1. d = UpdateReadBuffer(m, len)
    BY <1>3, <1>4, <1>5, <1>7 DEF Handle
  <2>2. seg.data = n => n \in 1 .. cur + 1 /\ n <= MaxSegment
    BY <1>1, <1>7
  <2>3. /\ seg.data = cur + 1 => Holds(m, cur + 1, r)
        /\ seg.data # cur + 1 => Holds(m, cur, r)
        /\ m.app = c.app
    BY <2>2, TakeDataHolds
  <2>4. Holds(m, k, r) /\ k \in Indexes
    <3>1. CASE seg.data = cur + 1
      <4>1. n = cur + 1
        BY <1>1, <3>1
      <4> QED
        BY <1>1, <2>2, <2>3, <3>1, <4>1 DEF Latest, Indexes
    <3>2. CASE seg.data # cur + 1
      BY <2>3, <3>2 DEF Latest
    <3> QED
      BY <3>1, <3>2
  <2> HIDE DEF d, k, m
  <2>5. \E q \in r .. k + 1 : /\ Holds(d, k, q) /\ Len(d.app) >= Len(m.app)
                              /\ len > 0 /\ r <= k => Len(d.app) > Len(m.app)
    BY <2>1, <2>4, UpdateReadBufferHolds
  <2> QED
    BY <1>3, <2>3, <2>5 DEF d, k
<1> QED
  BY <1>6, <1>7

-----------------------------------------------------------------------------
(* A network on which nothing is lost or overtaken *)

\* Until the reply in the SYN has been read, a unit is read for each segment.
Paced(c, cur) == Len(c.app) < SynUnits => Len(c.app) > cur

\* Each segment after cur is under way, behind those before it.
Ordered(w, cur, n) ==
  /\ \A m \in cur + 1 .. n - 1 : \E i \in DOMAIN w : w[i].data = m
  /\ \A i \in DOMAIN w : \A m \in cur + 1 .. w[i].data - 1 : \E j \in 1 .. i - 1 : w[j].data = m

\* What the peer knows, and is about to learn, of a receiver that has the
\* segments up to cur and has consumed those up to l.
Told(cur, l) ==
  /\ una <= cur + 1 /\ nxt - una <= SegMax /\ nxt <= consumed + SegMax + 1 /\ consumed \in -1 .. l
  /\ ackWire # <<>> => \E a \in 0 .. cur, b \in 0 .. l :
       consumed <= b /\ ackWire = <<[ack |-> Seq32(a), lcs |-> Seq32(b)]>>

\* A datagram of a peer whose next segment is the x-th, and whose oldest
\* unacknowledged one the y-th, or were.
Sent(seg, x, y) ==
  \E n \in 0 .. x, u \in 0 .. y : Peers(seg, n, u) /\ u <= n /\ (seg.data = n => n < x /\ n - u < SegMax)

Underway == \A i \in DOMAIN wire : Sent(wire[i], nxt, una)

Unopened ==
  /\ Fresh(conn) /\ arrived = {} /\ una = 0 /\ nxt = 1 /\ consumed = -1 /\ ackWire = <<>>
  /\ \A i \in DOMAIN wire : wire[i].data = 0

Opened(cur, r) ==
  /\ Holds(conn, cur, r) /\ Paced(conn, cur) /\ arrived \subseteq 0 .. cur
  /\ Ordered(wire, cur, nxt) /\ Told(cur, LastRead(r))

Steady == Reliable =>
  /\ expired = {} /\ Underway
  /\ Unopened \/ \E cur \in 0 .. nxt - 1 : \E r \in 0 .. cur + 1 : Opened(cur, r)

LEMMA SynStart == Start(1) = SynUnits
<1>1. Start(0 + 1) = Start(0) + UnitsOf(0) /\ Start(0) = 0 /\ SynUnits \in Nat
  BY Starts, ArdpReceiveAssumption
<1> QED
  BY <1>1 DEF UnitsOf

\* The buffer of the segment that follows is free when it arrives: the window
\* the peer was given leaves it room.
LEMMA Room ==
  ASSUME SynUnits <= SegMax, NEW cur \in Nat, NEW r, Holds(conn, cur, r), Paced(conn, cur),
         Told(cur, LastRead(r)), nxt \in Nat, cur + 1 < nxt
  PROVE  cur + 1 - r < SegMax
<1>1. r \in 0 .. cur + 1 /\ SegMax \in Nat /\ SynUnits \in Nat /\ nxt <= consumed + SegMax + 1 /\ consumed \in -1 .. LastRead(r)
  BY ArdpReceiveAssumption DEF Holds, Told
<1>2. CASE r # 0
  BY <1>1, <1>2 DEF LastRead
<1>3. CASE r = 0
  <2>1. Len(conn.app) + conn.left = SynUnits /\ conn.left \in 1 .. UnitsOf(0)
    <3>1. Start(0 + 1) = SynUnits
      BY SynStart
    <3> QED
      BY <1>3, <3>1 DEF Holds
  <2>2. Len(conn.app) \in Nat /\ UnitsOf(0) \in Nat
    BY <1>1 DEF Holds, Streamed, UnitsOf
  <2>3. Len(conn.app) > cur
    BY <1>1, <2>1, <2>2 DEF Paced
  <2> QED
    BY <1>1, <1>3, <2>1, <2>2, <2>3
<1> QED
  BY <1>2, <1>3

\* While the reply in the SYN is not all read, nothing else is being read.
LEMMA ReadingSyn ==
  ASSUME NEW cur \in Nat, NEW r, NEW c, Holds(c, cur, r), Len(c.app) < SynUnits
  PROVE  r = 0
<1>1. r \in 0 .. cur + 1 /\ Len(c.app) \in Nat /\ SynUnits \in Nat
  BY ArdpReceiveAssumption DEF Holds, Streamed
<1> SUFFICES ASSUME r # 0 PROVE FALSE
  OBVIOUS
<1>2. Start(1) = SynUnits
  BY SynStart
<1>3. /\ Start(1) <= Start(r) /\ Start(r) \in Nat /\ UnitsOf(r) \in Nat /\ Start(r + 1) = Start(r) + UnitsOf(r)
  <2>1. r \in Nat /\ 1 <= r /\ 1 \in Nat
    BY <1>1
  <2> QED
    BY <2>1, Starts
<1>4. CASE r <= cur
  <2>1. Len(c.app) + c.left = Start(r + 1) /\ c.left \in 1 .. UnitsOf(r)
    BY <1>4 DEF Holds
  <2> QED
    BY <1>1, <1>2, <1>3, <2>1
<1>5. CASE r > cur
  <2>1. Len(c.app) = Start(r)
    BY <1>5 DEF Holds
  <2> QED
    BY <1>1, <1>2, <1>3, <2>1
<1> QED
  BY <1>1, <1>4, <1>5

LEMMA PacedNext ==
  ASSUME NEW cur \in Nat, NEW r, NEW c, Holds(c, cur, r), Paced(c, cur),
         NEW k \in {cur, cur + 1}, NEW q, NEW d, Holds(d, k, q), Len(d.app) >= Len(c.app),
         NEW len, len > 0 \/ Len(c.app) >= SynUnits, len > 0 /\ r <= k => Len(d.app) > Len(c.app)
  PROVE  Paced(d, k)
<1> SUFFICES ASSUME Len(d.app) < SynUnits PROVE Len(d.app) > k
  BY DEF Paced
<1>1. Len(c.app) \in Nat /\ Len(d.app) \in Nat /\ SynUnits \in Nat
  BY ArdpReceiveAssumption DEF Holds, Streamed
<1>2. Len(c.app) < SynUnits
  BY <1>1
<1>3. r = 0 /\ len > 0 /\ Len(c.app) > cur
  BY <1>1, <1>2, ReadingSyn DEF Paced
<1>4. Len(d.app) > Len(c.app)
  BY <1>3
<1> QED
  BY <1>1, <1>3, <1>4

\* A datagram taken is no later than the next segment, and leaves the rest in order.
LEMMA OrderedTaken ==
  ASSUME NEW w \in Seq(Datagram), 1 \in DOMAIN w, NEW cur \in Nat, NEW n \in Nat, Ordered(w, cur, n)
  PROVE  w[1].data <= cur + 1 /\ Ordered(RemoveAt(w, 1), Latest(cur, w[1]), n)
<1> DEFINE v == RemoveAt(w, 1)
           k == Latest(cur, w[1])
<1>1. /\ Len(w) \in Nat /\ DOMAIN w = 1 .. Len(w) /\ DOMAIN v = 1 .. Len(w) - 1
      /\ \A j \in 1 .. Len(w) - 1 : v[j] = w[j + 1]
  <2>1. /\ v \in Seq(Datagram) /\ Len(v) = Len(w) - 1
        /\ \A j \in 1 .. Len(w) - 1 : v[j] = IF j < 1 THEN w[j] ELSE w[j + 1]
    BY RemoveAtIs
  <2> QED
    BY <2>1
<1>2. \A i \in DOMAIN w : w[i].data \in Int
  <2>1. \A i \in DOMAIN w : w[i] \in Datagram
    OBVIOUS
  <2> QED
    BY <2>1, ArdpReceiveAssumption DEF Datagram, Indexes, None
<1>3. w[1].data <= cur + 1
  <2> SUFFICES ASSUME ~(w[1].data <= cur + 1) PROVE FALSE
    OBVIOUS
  <2>1. w[1].data \in Int /\ cur + 1 \in cur + 1 .. w[1].data - 1
    BY <1>2
  <2>2. PICK j \in 1 .. 1 - 1 : TRUE
    BY <2>1 DEF Ordered
  <2> QED
    BY <2>2
<1>4. k \in {cur, cur + 1} /\ w[1].data <= k
  BY <1>2, <1>3 DEF Latest
<1> HIDE DEF v, k
<1>5. ASSUME NEW m \in k + 1 .. n - 1 PROVE \E i \in DOMAIN v : v[i].data = m
  <2>1. m \in cur + 1 .. n - 1 /\ m # w[1].data
    BY <1>2, <1>4
  <2>2. PICK i \in DOMAIN w : w[i].data = m
    BY <2>1 DEF Ordered
  <2>3. i # 1 /\ i - 1 \in 1 .. Len(w) - 1 /\ (i - 1) + 1 = i
    BY <1>1, <2>1, <2>2
  <2> QED
    BY <1>1, <2>2, <2>3
<1>6. ASSUME NEW i \in DOMAIN v, NEW m \in k + 1 .. v[i].data - 1 PROVE \E j \in 1 .. i - 1 : v[j].data = m
  <2>1. i + 1 \in DOMAIN w /\ v[i] = w[i + 1] /\ i \in 1 .. Len(w) - 1
    BY <1>1
  <2>2. m \in cur + 1 .. w[i + 1].data - 1 /\ m # w[1].data /\ (i + 1) - 1 = i
    BY <1>2, <1>4, <2>1
  <2>3. PICK j \in 1 .. i : w[j].data = m
    BY <2>1, <2>2 DEF Ordered
  <2>4. j # 1 /\ j - 1 \in 1 .. i - 1 /\ j - 1 \in 1 .. Len(w) - 1 /\ (j - 1) + 1 = j
    BY <1>1, <2>1, <2>2, <2>3
  <2> QED
    BY <1>1, <2>3, <2>4
<1> QED
  BY <1>3, <1>5, <1>6 DEF Ordered, v, k

\* A datagram added comes after all that it follows.
LEMMA OrderedAdded ==
  ASSUME NEW w \in Seq(Datagram), NEW cur \in Nat, NEW n \in Nat, Ordered(w, cur, n),
         NEW seg \in Datagram, seg.data <= n, NEW x \in {n, n + 1}, x = n + 1 => seg.data = n
  PROVE  Ordered(Append(w, seg), cur, x)
<1> DEFINE v == Append(w, seg)
           l == Len(w)
<1>1. /\ l \in Nat /\ DOMAIN w = 1 .. l /\ DOMAIN v = 1 .. l + 1 /\ v[l + 1] = seg
      /\ \A i \in 1 .. l : v[i] = w[i]
  OBVIOUS
<1>2. seg.data \in Int
  BY ArdpReceiveAssumption DEF Datagram, Indexes, None
<1> HIDE DEF v, l
<1>3. ASSUME NEW m \in cur + 1 .. n - 1 PROVE \E i \in 1 .. l : v[i].data = m
  BY <1>1, <1>3 DEF Ordered
<1>4. ASSUME NEW m \in cur + 1 .. x - 1 PROVE \E i \in DOMAIN v : v[i].data = m
  <2>1. CASE m \in cur + 1 .. n - 1
    <3>1. PICK i \in 1 .. l : v[i].data = m
      BY <1>3, <2>1
    <3> QED
      BY <1>1, <3>1
  <2>2. CASE m \notin cur + 1 .. n - 1
    <3>1. m = n /\ x = n + 1 /\ l + 1 \in DOMAIN v
      BY <1>1, <2>2
    <3> QED
      BY <1>1, <3>1
  <2> QED
    BY <2>1, <2>2
<1>5. ASSUME NEW i \in DOMAIN v, NEW m \in cur + 1 .. v[i].data - 1 PROVE \E j \in 1 .. i - 1 : v[j].data = m
  <2>1. CASE i = l + 1
    <3>1. m \in cur + 1 .. n - 1 /\ i - 1 = l
      BY <1>1, <1>2, <2>1
    <3> QED
      BY <1>3, <3>1
  <2>2. CASE i # l + 1
    <3>1. i \in DOMAIN w /\ i \in 1 .. l /\ m \in cur + 1 .. w[i].data - 1
      BY <1>1, <2>2
    <3>2. PICK j \in 1 .. i - 1 : w[j].data = m
      BY <3>1 DEF Ordered
    <3>3. j \in 1 .. l
      BY <1>1, <3>1
    <3> QED
      BY <1>1, <3>2, <3>3
  <2> QED
    BY <2>1, <2>2
<1> QED
  BY <1>4, <1>5 DEF Ordered, v

LEMMA OpenedNext ==
  ASSUME NEW cur, NEW r, Holds(conn', cur, r), Paced(conn', cur), arrived' \subseteq 0 .. cur,
         Ordered(wire', cur, nxt'), una' <= cur + 1, nxt' - una' <= SegMax, nxt' <= consumed' + SegMax + 1,
         consumed' \in -1 .. LastRead(r),
         ackWire' # <<>> => \E a \in 0 .. cur, b \in 0 .. LastRead(r) :
           consumed' <= b /\ ackWire' = <<[ack |-> Seq32(a), lcs |-> Seq32(b)]>>
  PROVE  Opened(cur, r)'
<1>1. Holds(conn, cur, r)'
  BY DEF Holds, Filled, Free, Streamed, Record, Buffer, Numbers, Indexes, Slots, Place, Start, UnitsOf, Seq32,
         LastRead, None
<1>2. Paced(conn, cur)' /\ Ordered(wire, cur, nxt)'
  BY DEF Paced, Ordered
<1>3. Told(cur, LastRead(r))'
  BY DEF Told, LastRead, Seq32
<1> QED
  BY <1>1, <1>2, <1>3 DEF Opened, LastRead

LEMMA UnderwayNext ==
  ASSUME Underway, nxt \in Nat, una \in Nat, nxt' \in Nat, nxt' >= nxt, una' \in Nat, una' >= una,
         \A i \in DOMAIN wire' : (\E j \in DOMAIN wire : wire'[i] = wire[j]) \/ Sent(wire'[i], nxt', una')
  PROVE  Underway'
<1>1. ASSUME NEW seg, Sent(seg, nxt, una) PROVE Sent(seg, nxt', una')
  <2>1. PICK n \in 0 .. nxt, u \in 0 .. una : Peers(seg, n, u) /\ u <= n /\ (seg.data = n => n < nxt /\ n - u < SegMax)
    BY <1>1 DEF Sent
  <2>2. n \in 0 .. nxt' /\ u \in 0 .. una' /\ (n < nxt => n < nxt')
    OBVIOUS
  <2> QED
    BY <2>1, <2>2 DEF Sent
<1>2. \A i \in DOMAIN wire' : Sent(wire'[i], nxt', una')
  BY <1>1 DEF Underway
<1> QED
  BY <1>2 DEF Underway, Sent, Peers, Seq32, Datagram, Numbers, Indexes, None

\* The receiver after a read, and what the peer may be told of it.
LEMMA ReadNext ==
  ASSUME una \in Nat, NEW cur \in Nat, NEW r \in 0 .. cur + 1, Told(cur, LastRead(r)),
         NEW k \in {cur, cur + 1}, NEW q \in r .. k + 1
  PROVE  /\ 0 .. cur \subseteq 0 .. k /\ LastRead(r) \in 0 .. cur /\ 0 .. LastRead(r) \subseteq 0 .. LastRead(q)
         /\ una <= k + 1 /\ consumed \in -1 .. LastRead(q) /\ consumed <= LastRead(r) /\ q \in 0 .. k + 1
<1>1. LastRead(r) \in 0 .. cur /\ LastRead(q) \in Nat /\ LastRead(r) <= LastRead(q)
  BY DEF LastRead
<1>2. una <= cur + 1 /\ consumed \in -1 .. LastRead(r)
  BY DEF Told
<1>3. una <= k + 1
  <2>1. CASE k = cur
    BY <1>2, <2>1
  <2>2. CASE k = cur + 1
    BY <1>2, <2>2
  <2> QED
    BY <2>1, <2>2
<1> QED
  BY <1>1, <1>2, <1>3

LEMMA DelayedHolds ==
  ASSUME NEW cur, NEW r, Holds(conn, cur, r), NEW fire \in BOOLEAN, NEW c, c = IF fire THEN AckSent(conn) ELSE conn
  PROVE  Holds(c, cur, r) /\ c.app = conn.app /\ c.state = "OPEN" /\ AckOf(c) = [ack |-> Seq32(cur), lcs |-> Seq32(LastRead(r))]
<1>1. Holds(c, cur, r) /\ c.app = conn.app
  <2>1. CASE fire
    <3>1. Same(conn, c)
      BY <2>1, ArmedIs DEF Holds
    <3> QED
      BY <3>1, SameHolds
  <2>2. CASE ~fire
    BY <2>2
  <2> QED
    BY <2>1, <2>2
<1> QED
  BY <1>1 DEF Holds, AckOf

LEMMA RecvNothingSteady ==
  ASSUME Typed, Reliable, Steady, NEW len \in Wanted, NEW fire \in BOOLEAN, RecvNothing(len, fire)
  PROVE  Steady' /\ Len(conn'.app) >= Len(conn.app)
<1> DEFINE c == IF fire THEN AckSent(conn) ELSE conn
           d == UpdateReadBuffer(c, len)
<1>1. /\ conn.state = "OPEN" /\ conn' = d /\ len \in Nat /\ (len > 0 \/ Len(conn.app) >= SynUnits)
      /\ ackWire' = (IF fire THEN <<AckOf(c)>> ELSE ackWire)
      /\ wire' = wire /\ una' = una /\ nxt' = nxt /\ consumed' = consumed /\ arrived' = arrived /\ expired' = expired
  BY ArdpReceiveAssumption DEF RecvNothing, Wanted, peer
<1>2. PICK cur \in 0 .. nxt - 1 : \E r \in 0 .. cur + 1 : Opened(cur, r)
  BY <1>1 DEF Steady, Unopened, Fresh
<1>3. PICK r \in 0 .. cur + 1 : Opened(cur, r)
  BY <1>2
<1>4. cur \in Nat /\ cur \in Indexes /\ una \in Nat /\ nxt \in Nat
  BY ArdpReceiveAssumption DEF Typed, Indexes
<1>5. Holds(c, cur, r) /\ c.app = conn.app /\ AckOf(c) = [ack |-> Seq32(cur), lcs |-> Seq32(LastRead(r))]
  BY <1>3, DelayedHolds DEF Opened
<1> HIDE DEF c
<1>6. PICK q \in r .. cur + 1 : /\ Holds(d, cur, q) /\ Len(d.app) >= Len(c.app)
                                /\ len > 0 /\ r <= cur => Len(d.app) > Len(c.app)
  BY <1>1, <1>4, <1>5, UpdateReadBufferHolds
<1> HIDE DEF d
<1>7. Paced(d, cur)
  <2>1. Paced(c, cur) /\ (len > 0 \/ Len(c.app) >= SynUnits)
    BY <1>1, <1>3, <1>5 DEF Opened, Paced
  <2> QED
    BY <1>4, <1>5, <1>6, <2>1, PacedNext
<1>8. Told(cur, LastRead(r)) /\ Ordered(wire, cur, nxt) /\ arrived \subseteq 0 .. cur
  BY <1>3 DEF Opened
<1>9. /\ LastRead(r) \in 0 .. cur /\ 0 .. LastRead(r) \subseteq 0 .. LastRead(q)
      /\ una <= cur + 1 /\ consumed \in -1 .. LastRead(q) /\ consumed <= LastRead(r) /\ q \in 0 .. cur + 1
  BY <1>4, <1>6, <1>8, ReadNext
<1>10. ackWire' # <<>> => \E a \in 0 .. cur, b \in 0 .. LastRead(q) :
         consumed' <= b /\ ackWire' = <<[ack |-> Seq32(a), lcs |-> Seq32(b)]>>
  <2>1. CASE fire
    <3>1. cur \in 0 .. cur /\ LastRead(r) \in 0 .. LastRead(q)
      BY <1>4, <1>9
    <3> QED
      BY <1>1, <1>5, <1>9, <2>1, <3>1
  <2>2. CASE ~fire
    BY <1>1, <1>8, <1>9, <2>2 DEF Told
  <2> QED
    BY <2>1, <2>2
<1>11. Opened(cur, q)'
  <2>1. nxt' - una' <= SegMax /\ nxt' <= consumed' + SegMax + 1
    BY <1>1, <1>8 DEF Told
  <2> QED
    BY <1>1, <1>6, <1>7, <1>8, <1>9, <1>10, <2>1, OpenedNext
<1>12. Underway'
  BY <1>1, <1>4, UnderwayNext DEF Steady
<1>13. Len(conn'.app) >= Len(conn.app)
  BY <1>1, <1>5, <1>6
<1> QED
  BY <1>1, <1>9, <1>11, <1>12, <1>13 DEF Steady

\* The oldest datagram under way is all that can arrive.
LEMMA TakenIs ==
  ASSUME Typed, Reliable, Underway, NEW len \in Wanted, NEW fire \in BOOLEAN, NEW i \in Arriving, RecvSegment(len, fire, i)
  PROVE  /\ i = 1 /\ 1 \in DOMAIN wire /\ wire' = RemoveAt(wire, 1) /\ Underway'
         /\ una' = una /\ nxt' = nxt /\ consumed' = consumed /\ expired' = expired
         /\ len \in Nat /\ (len > 0 \/ Len(conn.app) >= SynUnits)
         /\ una \in Nat /\ nxt \in Nat
<1>1. /\ i = 1 /\ i \in DOMAIN wire /\ wire' = RemoveAt(wire, i) /\ len \in Nat /\ (len > 0 \/ Len(conn.app) >= SynUnits)
      /\ una' = una /\ nxt' = nxt /\ consumed' = consumed /\ expired' = expired
  BY ArdpReceiveAssumption DEF RecvSegment, Wanted, Arriving, Reliable, peer
<1>2. \A j \in DOMAIN wire' : \E k \in DOMAIN wire : wire'[j] = wire[k]
  BY <1>1, Removed DEF Typed
<1>3. una \in Nat /\ nxt \in Nat
  BY DEF Typed
<1>4. Underway'
  BY <1>1, <1>2, <1>3, UnderwayNext
<1> QED
  BY <1>1, <1>3, <1>4

LEMMA RecvSegmentSteady ==
  ASSUME Short, Follow, SynUnits <= SegMax, Typed, Reliable, Steady, conn.state = "OPEN",
         NEW len \in Wanted, NEW fire \in BOOLEAN, NEW i \in Arriving, RecvSegment(len, fire, i)
  PROVE  Steady' /\ Len(conn'.app) >= Len(conn.app)
<1> DEFINE c == IF fire THEN AckSent(conn) ELSE conn
           seg == wire[1]
           d == Handle(c, seg, len)
<1>1. /\ i = 1 /\ 1 \in DOMAIN wire /\ wire' = RemoveAt(wire, 1) /\ Underway'
      /\ una' = una /\ nxt' = nxt /\ consumed' = consumed /\ expired' = expired
      /\ len \in Nat /\ (len > 0 \/ Len(conn.app) >= SynUnits) /\ una \in Nat /\ nxt \in Nat
  BY TakenIs DEF Steady
<1>2. PICK cur \in 0 .. nxt - 1 : \E r \in 0 .. cur + 1 : Opened(cur, r)
  BY DEF Steady, Unopened, Fresh
<1>3. PICK r \in 0 .. cur + 1 : Opened(cur, r)
  BY <1>2
<1>k. PICK k : k = Latest(cur, seg)
  OBVIOUS
<1>4. cur \in Nat /\ cur \in Indexes /\ nxt <= MaxSegment + 1 /\ MaxSegment \in Nat
  BY ArdpReceiveAssumption DEF Typed, Indexes
<1>5. Holds(c, cur, r) /\ c.app = conn.app /\ c.state = "OPEN" /\ AckOf(c) = [ack |-> Seq32(cur), lcs |-> Seq32(LastRead(r))]
  BY <1>3, DelayedHolds DEF Opened
<1>6. /\ conn' = d /\ arrived' = arrived \cup ({seg.data} \ {None})
      /\ ackWire' = IF Valid(seg) /\ seg.NUL
                      THEN <<[ack |-> IF seg.SYN THEN seg.SEQ ELSE d.CUR, lcs |-> IF seg.SYN THEN seg.SEQ ELSE c.LCS]>>
                    ELSE IF fire THEN <<AckOf(c)>> ELSE ackWire
  BY <1>1, <1>5 DEF RecvSegment
<1>7. Told(cur, LastRead(r)) /\ Ordered(wire, cur, nxt) /\ arrived \subseteq 0 .. cur /\ Paced(conn, cur)
  BY <1>3 DEF Opened
<1>8. seg.data <= cur + 1 /\ Ordered(wire', k, nxt)
  <2>1. wire \in Seq(Datagram)
    BY DEF Typed
  <2> QED
    BY <1>1, <1>k, <1>4, <1>7, <2>1, OrderedTaken
<1>9. PICK n \in 0 .. nxt, u \in 0 .. una :
        Peers(seg, n, u) /\ u <= n /\ (seg.data = n => n < nxt /\ n - u < SegMax)
  BY <1>1 DEF Steady, Underway, Sent
<1> HIDE DEF c, seg
<1>10. /\ n \in 0 .. MaxSegment + 1 /\ u \in 0 .. cur + 1
       /\ seg.data = n => n <= cur + 1 /\ n <= MaxSegment /\ n - u < SegMax
  <2>1. una <= cur + 1
    BY <1>7 DEF Told
  <2> QED
    BY <1>1, <1>4, <1>8, <1>9, <2>1
<1>11. seg.data = cur + 1 => cur + 1 < nxt /\ cur + 1 - r < SegMax
  <2> SUFFICES ASSUME seg.data = cur + 1 PROVE cur + 1 < nxt /\ cur + 1 - r < SegMax
    OBVIOUS
  <2>1. cur + 1 < nxt
    BY <1>4, <1>9 DEF Peers, None
  <2> QED
    BY <1>1, <1>3, <1>4, <1>7, <2>1, Room DEF Opened
<1>12. /\ Valid(seg)
       /\ \E q \in r .. k + 1 : /\ Holds(d, k, q) /\ Len(d.app) >= Len(c.app)
                                /\ len > 0 /\ r <= k => Len(d.app) > Len(c.app)
  BY <1>1, <1>k, <1>4, <1>5, <1>9, <1>10, <1>11, HandleHolds
<1>13. PICK q \in r .. k + 1 : /\ Holds(d, k, q) /\ Len(d.app) >= Len(c.app)
                               /\ len > 0 /\ r <= k => Len(d.app) > Len(c.app)
  BY <1>12
<1>14. k \in {cur, cur + 1} /\ k \in 0 .. nxt - 1 /\ (seg.data = None \/ seg.data \in 0 .. k)
  <2>1. seg.data = None \/ seg.data \in Nat
    BY <1>9 DEF Peers
  <2> QED
    BY <1>1, <1>k, <1>4, <1>8, <1>11, <2>1 DEF Latest
<1> HIDE DEF d
<1>15. Paced(d, k)
  <2>1. Paced(c, cur) /\ (len > 0 \/ Len(c.app) >= SynUnits)
    BY <1>1, <1>5, <1>7 DEF Paced
  <2> QED
    BY <1>4, <1>5, <1>13, <1>14, <2>1, PacedNext
<1>16. /\ 0 .. cur \subseteq 0 .. k /\ LastRead(r) \in 0 .. cur /\ 0 .. LastRead(r) \subseteq 0 .. LastRead(q)
       /\ una <= k + 1 /\ consumed \in -1 .. LastRead(q) /\ consumed <= LastRead(r) /\ q \in 0 .. k + 1
  BY <1>1, <1>4, <1>7, <1>13, <1>14, ReadNext
<1>17. ackWire' # <<>> => \E a \in 0 .. k, b \in 0 .. LastRead(q) :
         consumed' <= b /\ ackWire' = <<[ack |-> Seq32(a), lcs |-> Seq32(b)]>>
  <2>1. cur \in 0 .. k /\ k \in 0 .. k /\ LastRead(r) \in 0 .. LastRead(q) /\ 0 .. cur \subseteq 0 .. k
    BY <1>4, <1>14, <1>16
  <2>2. CASE Valid(seg) /\ seg.NUL
    <3>1. ~seg.SYN
      BY <1>9, <2>2 DEF Peers, None
    <3>2. ackWire' = <<[ack |-> Seq32(k), lcs |-> Seq32(LastRead(r))]>>
      BY <1>5, <1>6, <1>13, <2>2, <3>1 DEF Holds
    <3> QED
      BY <1>1, <1>16, <2>1, <3>2
  <2>3. CASE ~(Valid(seg) /\ seg.NUL) /\ fire
    <3>1. ackWire' = <<[ack |-> Seq32(cur), lcs |-> Seq32(LastRead(r))]>>
      BY <1>5, <1>6, <2>3
    <3> QED
      BY <1>1, <1>16, <2>1, <3>1
  <2>4. CASE ~(Valid(seg) /\ seg.NUL) /\ ~fire
    <3>1. ackWire' = ackWire
      BY <1>6, <2>4
    <3> QED
      BY <1>1, <1>7, <1>16, <2>1, <3>1 DEF Told
  <2> QED
    BY <2>2, <2>3, <2>4
<1>18. arrived' \subseteq 0 .. k
  BY <1>6, <1>7, <1>14, <1>16
<1>19. Opened(k, q)'
  <2>1. nxt' - una' <= SegMax /\ nxt' <= consumed' + SegMax + 1
    BY <1>1, <1>7 DEF Told
  <2>2. una' <= k + 1 /\ consumed' \in -1 .. LastRead(q) /\ Ordered(wire', k, nxt')
    BY <1>1, <1>8, <1>16
  <2>3. Holds(conn', k, q) /\ Paced(conn', k)
    BY <1>6, <1>13, <1>15
  <2> QED
    BY <1>17, <1>18, <2>1, <2>2, <2>3, OpenedNext
<1>20. expired' = {} /\ k \in 0 .. nxt' - 1 /\ q \in 0 .. k + 1
  BY <1>1, <1>14, <1>16 DEF Steady
<1>21. Len(conn'.app) >= Len(conn.app)
  BY <1>5, <1>6, <1>13
<1> QED
  BY <1>1, <1>19, <1>20, <1>21 DEF Steady

LEMMA OpeningSteady ==
  ASSUME Follow, Typed, Reliable, Steady, conn.state = "SYN_SENT",
         NEW len \in Wanted, NEW fire \in BOOLEAN, NEW i \in Arriving, RecvSegment(len, fire, i)
  PROVE  Steady' /\ Len(conn'.app) >= Len(conn.app)
<1> DEFINE seg == wire[1]
           o == Opens(conn, seg)
           d == UpdateReadBuffer(o, len)
<1>1. /\ i = 1 /\ 1 \in DOMAIN wire /\ wire' = RemoveAt(wire, 1) /\ Underway'
      /\ una' = una /\ nxt' = nxt /\ consumed' = consumed /\ expired' = expired
      /\ len \in Nat /\ (len > 0 \/ Len(conn.app) >= SynUnits) /\ una \in Nat /\ nxt \in Nat
  BY TakenIs DEF Steady
<1>2. Unopened
  BY DEF Steady, Opened, Holds
<1>3. PICK n \in 0 .. nxt, u \in 0 .. una : Peers(seg, n, u)
  BY <1>1 DEF Steady, Underway, Sent
<1>4. seg \in Datagram /\ seg.data = 0 /\ seg.SYN /\ ~seg.NUL /\ seg.SEQ = Seq32(0)
  BY <1>1, <1>2, <1>3 DEF Unopened, Peers, None
<1>5. ~fire
  BY DEF Typed, RecvSegment, DelayedAck
<1>6. /\ conn' = Handle(conn, seg, len) /\ arrived' = arrived \cup ({seg.data} \ {None})
      /\ ackWire' = IF Valid(seg) THEN <<[ack |-> seg.SEQ, lcs |-> seg.SEQ]>> ELSE ackWire
  BY <1>1, <1>4, <1>5 DEF RecvSegment
<1> HIDE DEF seg
<1>7. /\ conn' = d /\ arrived' = {0} /\ ackWire' = <<[ack |-> Seq32(0), lcs |-> Seq32(0)]>>
  BY <1>2, <1>4, <1>6 DEF Handle, Valid, Unopened, None
<1>8. Holds(o, 0, 0) /\ o.app = <<>> /\ 0 \in Indexes
  BY <1>2, <1>4, OpensHolds, ArdpReceiveAssumption DEF Unopened, Indexes
<1> HIDE DEF o
<1>9. PICK q \in 0 .. 0 + 1 : /\ Holds(d, 0, q) /\ Len(d.app) >= Len(o.app)
                              /\ len > 0 /\ 0 <= 0 => Len(d.app) > Len(o.app)
  BY <1>1, <1>8, UpdateReadBufferHolds
<1> HIDE DEF d
<1>10. Paced(d, 0)
  <2>1. len > 0
    <3>1. Len(conn.app) = 0 /\ SynUnits \in Nat \ {0}
      BY <1>2, ArdpReceiveAssumption DEF Unopened, Fresh
    <3> QED
      BY <1>1, <3>1
  <2>2. Len(o.app) = 0
    BY <1>8
  <2> QED
    BY <1>9, <2>1, <2>2 DEF Paced
<1>11. LastRead(q) = 0 /\ una = 0 /\ nxt = 1 /\ consumed = -1 /\ SegMax \in Nat \ {0, 1}
  BY <1>2, <1>9, SlotFacts DEF LastRead, Unopened
<1>12. Ordered(wire', 0, 1)
  <2>1. \A j \in DOMAIN wire' : \E k \in DOMAIN wire : wire'[j] = wire[k]
    BY <1>1, Removed DEF Typed
  <2>2. \A j \in DOMAIN wire' : wire'[j].data = 0
    BY <1>2, <2>1 DEF Unopened
  <2>3. 0 + 1 .. 1 - 1 = {} /\ 0 + 1 .. 0 - 1 = {}
    OBVIOUS
  <2> QED
    BY <2>2, <2>3 DEF Ordered
<1>13. Opened(0, q)'
  <2>1. una' <= 0 + 1 /\ nxt' - una' <= SegMax /\ nxt' <= consumed' + SegMax + 1 /\ consumed' \in -1 .. LastRead(q)
    BY <1>1, <1>11
  <2>2. \E a \in 0 .. 0, b \in 0 .. LastRead(q) :
          consumed' <= b /\ ackWire' = <<[ack |-> Seq32(a), lcs |-> Seq32(b)]>>
    <3>1. 0 \in 0 .. 0 /\ 0 \in 0 .. LastRead(q) /\ consumed' <= 0
      BY <1>1, <1>11
    <3> QED
      BY <1>7, <3>1
  <2>3. Holds(conn', 0, q) /\ Paced(conn', 0) /\ arrived' \subseteq 0 .. 0 /\ Ordered(wire', 0, nxt')
    BY <1>1, <1>7, <1>9, <1>10, <1>11, <1>12
  <2> QED
    BY <2>1, <2>2, <2>3, OpenedNext
<1>14. expired' = {} /\ 0 \in 0 .. nxt' - 1 /\ q \in 0 .. 0 + 1
  BY <1>1, <1>9, <1>11 DEF Steady
<1>15. Len(conn'.app) >= Len(conn.app)
  BY <1>2, <1>7, <1>8, <1>9 DEF Unopened, Fresh
<1> QED
  BY <1>1, <1>13, <1>14, <1>15 DEF Steady

LEMMA SendSteady ==
  ASSUME Typed, Reliable, Steady, SendSegment
  PROVE  Steady'
<1>1. /\ conn.state = "OPEN" /\ conn' = AckSent(conn) /\ ackWire' = <<AckOf(conn)>>
      /\ wire' = wire /\ una' = una /\ nxt' = nxt /\ consumed' = consumed /\ arrived' = arrived /\ expired' = expired
  BY DEF SendSegment, peer
<1>2. PICK cur \in 0 .. nxt - 1 : \E r \in 0 .. cur + 1 : Opened(cur, r)
  BY <1>1 DEF Steady, Unopened, Fresh
<1>3. PICK r \in 0 .. cur + 1 : Opened(cur, r)
  BY <1>2
<1>4. cur \in Nat /\ una \in Nat /\ nxt \in Nat /\ LastRead(r) \in 0 .. cur
  <2>1. cur \in Nat /\ una \in Nat /\ nxt \in Nat
    BY DEF Typed
  <2> QED
    BY <2>1 DEF LastRead
<1>5. /\ Holds(conn, cur, r) /\ Paced(conn, cur) /\ arrived \subseteq 0 .. cur
      /\ Ordered(wire, cur, nxt) /\ Told(cur, LastRead(r))
  BY <1>3 DEF Opened
<1>6. Same(conn, conn')
  BY <1>1, <1>5, ArmedIs DEF Holds
<1>7. Holds(conn', cur, r) /\ Paced(conn', cur)
  BY <1>5, <1>6, SameHolds DEF Paced
<1>8. ackWire' = <<[ack |-> Seq32(cur), lcs |-> Seq32(LastRead(r))]>>
  BY <1>1, <1>5 DEF AckOf, Holds
<1>9. /\ una' <= cur + 1 /\ nxt' - una' <= SegMax /\ nxt' <= consumed' + SegMax + 1 /\ consumed' \in -1 .. LastRead(r)
  BY <1>1, <1>5 DEF Told
<1>10. \E a \in 0 .. cur, b \in 0 .. LastRead(r) :
         consumed' <= b /\ ackWire' = <<[ack |-> Seq32(a), lcs |-> Seq32(b)]>>
  <2>1. cur \in 0 .. cur /\ LastRead(r) \in 0 .. LastRead(r) /\ consumed' <= LastRead(r)
    BY <1>4, <1>9
  <2> QED
    BY <1>8, <2>1
<1>11. Opened(cur, r)'
  BY <1>1, <1>5, <1>7, <1>9, <1>10, OpenedNext
<1>12. Underway'
  BY <1>1, <1>4, UnderwayNext DEF Steady
<1> QED
  BY <1>1, <1>11, <1>12 DEF Steady

\* A datagram the peer adds: its next segment, if the windows let it, or another.
LEMMA EmitSteady ==
  ASSUME Typed, Reliable, Steady, UNCHANGED <<conn, ackWire, una, consumed, arrived, expired>>,
         NEW seg \in Datagram, Emit(seg), seg.data <= nxt, nxt' \in {nxt, nxt + 1}, Sent(seg, nxt', una),
         nxt' = nxt + 1 => seg.data = nxt /\ una > 0 /\ nxt - una < SegMax /\ nxt <= consumed + SegMax,
         una = 0 /\ nxt = 1 => seg.data = 0
  PROVE  Steady'
<1>1. /\ wire' = Append(wire, seg) /\ wire \in Seq(Datagram) /\ una \in Nat /\ nxt \in Nat /\ nxt' \in Nat /\ nxt' >= nxt
      /\ conn' = conn /\ ackWire' = ackWire /\ una' = una /\ consumed' = consumed /\ arrived' = arrived /\ expired' = {}
      /\ expired = {}
  BY DEF Emit, Typed, Steady
<1>2. \A i \in DOMAIN wire' : wire'[i] = seg \/ (i \in DOMAIN wire /\ wire'[i] = wire[i])
  BY <1>1, Emitted
<1>3. Underway'
  <2>1. Underway
    BY DEF Steady
  <2>2. \A i \in DOMAIN wire' : (\E j \in DOMAIN wire : wire'[i] = wire[j]) \/ Sent(wire'[i], nxt', una')
    BY <1>1, <1>2
  <2> QED
    BY <1>1, <2>1, <2>2, UnderwayNext
<1>4. CASE Unopened
  <2>1. nxt' = nxt /\ seg.data = 0
    BY <1>1, <1>4 DEF Unopened
  <2>2. \A i \in DOMAIN wire' : wire'[i].data = 0
    BY <1>2, <1>4, <2>1 DEF Unopened
  <2>3. Fresh(conn)'
    <3>1. Fresh(conn')
      BY <1>1, <1>4 DEF Unopened
    <3> QED
      BY <3>1 DEF Fresh, Free, Record, Buffer, Numbers, Indexes, Slots, None
  <2>4. Unopened'
    BY <1>1, <1>4, <2>1, <2>2, <2>3 DEF Unopened
  <2> QED
    BY <1>1, <1>3, <2>4 DEF Steady
<1>5. ASSUME NEW cur \in 0 .. nxt - 1, NEW r \in 0 .. cur + 1, Opened(cur, r) PROVE Steady'
  <2>1. /\ Holds(conn, cur, r) /\ Paced(conn, cur) /\ arrived \subseteq 0 .. cur
        /\ Ordered(wire, cur, nxt) /\ Told(cur, LastRead(r))
    BY <1>5 DEF Opened
  <2>2. cur \in Nat /\ cur \in 0 .. nxt' - 1
    <3>1. nxt \in Nat /\ nxt' \in Nat /\ nxt' >= nxt
      BY <1>1
    <3>2. \A x \in Nat : x >= nxt => cur \in Nat /\ cur \in 0 .. x - 1
      BY <3>1
    <3> QED
      BY <3>1, <3>2
  <2>3. Ordered(wire', cur, nxt')
    BY <1>1, <2>1, <2>2, OrderedAdded
  <2>4. una' <= cur + 1 /\ nxt' - una' <= SegMax /\ nxt' <= consumed' + SegMax + 1 /\ consumed' \in -1 .. LastRead(r)
    <3>1. una <= cur + 1 /\ nxt - una <= SegMax /\ nxt <= consumed + SegMax + 1 /\ consumed \in -1 .. LastRead(r)
      BY <2>1 DEF Told
    <3>2. LastRead(r) \in Nat /\ SegMax \in Nat
      BY <2>2, SlotFacts DEF LastRead
    <3>3. CASE nxt' = nxt
      BY <1>1, <3>1, <3>3
    <3>4. CASE nxt' = nxt + 1
      BY <1>1, <3>1, <3>2, <3>4
    <3> QED
      BY <3>3, <3>4
  <2>5. ackWire' # <<>> => \E a \in 0 .. cur, b \in 0 .. LastRead(r) :
          consumed' <= b /\ ackWire' = <<[ack |-> Seq32(a), lcs |-> Seq32(b)]>>
    BY <1>1, <2>1 DEF Told
  <2>6. Holds(conn', cur, r) /\ Paced(conn', cur) /\ arrived' \subseteq 0 .. cur
    BY <1>1, <2>1
  <2>7. Opened(cur, r)'
    BY <2>3, <2>4, <2>5, <2>6, OpenedNext
  <2> QED
    BY <1>1, <1>3, <2>2, <2>7 DEF Steady
<1> QED
  BY <1>4, <1>5 DEF Steady

LEMMA PeerSendsSteady ==
  ASSUME Typed, Reliable, Steady, PeerSends
  PROVE  Steady'
<1> DEFINE seg == Segment(nxt)
<1>1. /\ nxt \in Nat /\ nxt > 0 /\ una \in Nat /\ una > 0 /\ una <= nxt /\ nxt \in Indexes /\ Emit(seg) /\ nxt' = nxt + 1
      /\ nxt - una < SegMax /\ nxt <= consumed + SegMax
      /\ UNCHANGED <<conn, ackWire, una, consumed, arrived, expired>>
  BY ArdpReceiveAssumption DEF PeerSends, Typed, Indexes
<1>2. seg \in Datagram /\ (seg.SYN <=> seg.data = 0) /\ seg.SEQ = Seq32(nxt) /\ seg.ACKNXT = Seq32(una)
      /\ seg.data = nxt /\ seg.NUL = FALSE
  BY <1>1, SegmentTyped DEF Segment
<1> HIDE DEF seg
<1>3. Sent(seg, nxt', una)
  <2>1. Peers(seg, nxt, una) /\ nxt \in 0 .. nxt' /\ una \in 0 .. una /\ nxt < nxt'
    BY <1>1, <1>2 DEF Peers, None
  <2> QED
    BY <1>1, <2>1 DEF Sent
<1>4. seg.data <= nxt /\ ~(una = 0 /\ nxt = 1)
  BY <1>1, <1>2
<1> QED
  BY <1>1, <1>2, <1>3, <1>4, EmitSteady

LEMMA PeerRetransmitsSteady ==
  ASSUME Typed, Reliable, Steady, PeerRetransmits
  PROVE  Steady'
<1>1. PICK n \in una .. nxt - 1 : Emit(Segment(n))
  BY DEF PeerRetransmits
<1> DEFINE seg == Segment(n)
<1>2. /\ nxt \in Nat /\ una \in Nat /\ n \in Nat /\ n < nxt /\ una <= n /\ n \in Indexes /\ nxt' = nxt
      /\ UNCHANGED <<conn, ackWire, una, consumed, arrived, expired>>
  BY ArdpReceiveAssumption DEF PeerRetransmits, Typed, Indexes, peer
<1>3. seg \in Datagram /\ (seg.SYN <=> seg.data = 0) /\ seg.SEQ = Seq32(n) /\ seg.ACKNXT = Seq32(una)
      /\ seg.data = n /\ seg.NUL = FALSE
  BY <1>2, SegmentTyped DEF Segment
<1>4. nxt - una <= SegMax
  BY <1>2, SlotFacts DEF Steady, Unopened, Opened, Told
<1> HIDE DEF seg
<1>5. Sent(seg, nxt', una)
  <2>1. Peers(seg, n, una) /\ n \in 0 .. nxt' /\ una \in 0 .. una /\ n < nxt' /\ n - una < SegMax
    BY <1>2, <1>3, <1>4, SlotFacts DEF Peers, None
  <2> QED
    BY <1>2, <2>1 DEF Sent
<1>6. Emit(seg)
  BY <1>1 DEF seg
<1>7. seg.data <= nxt /\ nxt' # nxt + 1 /\ (una = 0 /\ nxt = 1 => seg.data = 0)
  BY <1>2, <1>3
<1> QED
  BY <1>2, <1>3, <1>5, <1>6, <1>7, EmitSteady

LEMMA PeerProbesSteady ==
  ASSUME Typed, Reliable, Steady, PeerProbes
  PROVE  Steady'
<1> DEFINE seg == [Segment(nxt) EXCEPT !.NUL = TRUE, !.data = None]
<1>1. /\ nxt \in Nat /\ nxt > 0 /\ una \in Nat /\ una > 0 /\ una <= nxt /\ Emit(seg) /\ nxt' = nxt
      /\ UNCHANGED <<conn, ackWire, una, consumed, arrived, expired>>
  BY ArdpReceiveAssumption DEF PeerProbes, Typed, peer
<1>2. seg \in Datagram /\ (seg.SYN <=> seg.data = 0) /\ seg.data = None /\ seg.NUL = TRUE
        /\ seg.SEQ = Seq32(nxt) /\ seg.ACKNXT = Seq32(una)
  BY <1>1, ProbeTyped
<1> HIDE DEF seg
<1>3. Sent(seg, nxt', una)
  <2>1. Peers(seg, nxt, una) /\ nxt \in 0 .. nxt' /\ una \in 0 .. una /\ seg.data # nxt
    BY <1>1, <1>2 DEF Peers, None
  <2> QED
    BY <1>1, <2>1 DEF Sent
<1>4. seg.data <= nxt /\ nxt' # nxt + 1 /\ ~(una = 0 /\ nxt = 1)
  BY <1>1, <1>2 DEF None
<1> QED
  BY <1>1, <1>2, <1>3, <1>4, EmitSteady

\* The peer takes an acknowledgement for what the receiver meant by it.
LEMMA PeerTakesAckSteady ==
  ASSUME Short, Typed, Reliable, Steady, PeerTakesAck
  PROVE  Steady'
<1>1. /\ ackWire # <<>> /\ nxt' = nxt
      /\ UNCHANGED <<conn, ackWire, wire, arrived, expired>>
  BY DEF PeerTakesAck
<1>2. PICK cur \in 0 .. nxt - 1 : \E r \in 0 .. cur + 1 : Opened(cur, r)
  BY <1>1 DEF Steady, Unopened
<1>3. PICK r \in 0 .. cur + 1 : Opened(cur, r)
  BY <1>2
<1>4. /\ Holds(conn, cur, r) /\ Paced(conn, cur) /\ arrived \subseteq 0 .. cur
      /\ Ordered(wire, cur, nxt) /\ Told(cur, LastRead(r))
  BY <1>3 DEF Opened
<1>5. nxt \in Nat /\ una \in Nat /\ una <= nxt /\ cur \in Nat /\ LastRead(r) \in 0 .. cur /\ MaxSegment \in Nat
      /\ nxt <= MaxSegment + 1 /\ SegMax \in Nat
  <2>1. nxt \in Nat /\ una \in Nat /\ una <= nxt /\ cur \in Nat /\ MaxSegment \in Nat /\ nxt <= MaxSegment + 1
        /\ SegMax \in Nat
    BY ArdpReceiveAssumption DEF Typed
  <2> QED
    BY <2>1 DEF LastRead
<1>6. PICK a \in 0 .. cur, b \in 0 .. LastRead(r) :
        consumed <= b /\ ackWire = <<[ack |-> Seq32(a), lcs |-> Seq32(b)]>>
  BY <1>1, <1>4 DEF Told
<1>7. ackWire[1].ack = Seq32(a) /\ ackWire[1].lcs = Seq32(b)
  BY <1>6
<1>8. ASSUME NEW x \in 0 .. nxt - 1, NEW y \in 0 .. nxt - 1, Seq32(x) = Seq32(y) PROVE x = y
  <2>1. x \in 0 .. MaxSegment + 1 /\ y \in 0 .. MaxSegment + 1
    BY <1>5
  <2>2. SEQ32_LET(Seq32(x), Seq32(y)) /\ SEQ32_LET(Seq32(y), Seq32(x))
    BY <1>8 DEF SEQ32_LET
  <2>3. x <= y /\ y <= x
    BY <2>1, <2>2, Compare
  <2> QED
    BY <2>3
<1>9. consumed' = b
  <2> DEFINE n == CHOOSE n \in 0 .. nxt - 1 : Seq32(n) = Seq32(b)
  <2>1. consumed' = n
    BY <1>7 DEF PeerTakesAck
  <2>2. b \in 0 .. nxt - 1
    BY <1>5
  <2>3. n \in 0 .. nxt - 1 /\ Seq32(n) = Seq32(b)
    BY <2>2
  <2> HIDE DEF n
  <2> QED
    BY <1>8, <2>1, <2>2, <2>3
<1>10. una' \in Nat /\ una' >= una /\ una' <= cur + 1
  <2> DEFINE n == CHOOSE n \in una .. nxt - 1 : Seq32(n) = Seq32(a)
  <2>1. una' = IF \E m \in una .. nxt - 1 : Seq32(m) = Seq32(a) THEN 1 + n ELSE una
    BY <1>7 DEF PeerTakesAck
  <2>2. CASE \E m \in una .. nxt - 1 : Seq32(m) = Seq32(a)
    <3>1. n \in una .. nxt - 1 /\ Seq32(n) = Seq32(a)
      BY <2>2
    <3>2. una' = 1 + n
      BY <2>1, <2>2
    <3> HIDE DEF n
    <3>3. n \in 0 .. nxt - 1 /\ a \in 0 .. nxt - 1
      BY <1>5, <3>1
    <3>4. n = a
      BY <1>8, <3>1, <3>3
    <3> QED
      BY <1>5, <3>1, <3>2, <3>4
  <2>3. CASE ~\E m \in una .. nxt - 1 : Seq32(m) = Seq32(a)
    BY <1>4, <1>5, <2>1, <2>3 DEF Told
  <2> QED
    BY <2>2, <2>3
<1>11. nxt' - una' <= SegMax /\ nxt' <= consumed' + SegMax + 1 /\ consumed' \in -1 .. LastRead(r)
  <2>1. nxt - una <= SegMax /\ nxt <= consumed + SegMax + 1 /\ consumed \in -1 .. LastRead(r) /\ consumed <= b
    BY <1>4, <1>6 DEF Told
  <2>2. nxt - una' <= SegMax
    <3>1. \A x \in Nat : x >= una => nxt - x <= SegMax
      BY <1>5, <2>1
    <3> QED
      BY <1>10, <3>1
  <2>3. b \in Nat /\ LastRead(r) \in Nat /\ b <= LastRead(r)
    BY <1>5
  <2>4. nxt <= b + SegMax + 1 /\ b \in -1 .. LastRead(r)
    BY <1>5, <2>1, <2>3
  <2> QED
    BY <1>1, <1>9, <2>2, <2>4
<1>12. \E x \in 0 .. cur, y \in 0 .. LastRead(r) :
         consumed' <= y /\ ackWire' = <<[ack |-> Seq32(x), lcs |-> Seq32(y)]>>
  BY <1>1, <1>5, <1>6, <1>9
<1>13. Opened(cur, r)'
  <2>1. Holds(conn', cur, r) /\ Paced(conn', cur) /\ arrived' \subseteq 0 .. cur /\ Ordered(wire', cur, nxt')
    BY <1>1, <1>4
  <2> QED
    BY <1>10, <1>11, <1>12, <2>1, OpenedNext
<1>14. Underway'
  BY <1>1, <1>5, <1>10, UnderwayNext DEF Steady
<1>15. expired' = {} /\ cur \in 0 .. nxt' - 1
  BY <1>1 DEF Steady
<1> QED
  BY <1>13, <1>14, <1>15 DEF Steady

LEMMA NextSteady ==
  ASSUME Short, Follow, SynUnits <= SegMax, Typed, Steady, [Next]_vars
  PROVE  Steady'
<1>1. network' = network
  BY DEF Next, Recv, RecvNothing, RecvSegment, SendSegment, PeerSends, PeerRetransmits, PeerProbes, PeerTakesAck,
         PeerExpires, Lose, vars
<1>2. CASE ~Reliable
  BY <1>1, <1>2 DEF Steady, Reliable
<1>3. CASE Reliable
  <2>1. ASSUME NEW len \in Wanted, NEW fire \in BOOLEAN, NEW i \in Arriving, RecvSegment(len, fire, i) PROVE Steady'
    <3>1. conn.state \in {"SYN_SENT", "OPEN"}
      BY <2>1 DEF RecvSegment, Typed, Within, Record
    <3> QED
      BY <1>3, <2>1, <3>1, RecvSegmentSteady, OpeningSteady
  <2>2. CASE Recv
    BY <1>3, <2>1, <2>2, RecvNothingSteady DEF Recv
  <2>3. CASE SendSegment
    BY <1>3, <2>3, SendSteady
  <2>4. CASE PeerSends \/ PeerRetransmits \/ PeerProbes \/ PeerTakesAck
    BY <1>3, <2>4, PeerSendsSteady, PeerRetransmitsSteady, PeerProbesSteady, PeerTakesAckSteady
  <2>5. CASE PeerExpires \/ Lose
    BY <1>3, <2>5 DEF PeerExpires, Lose, Reliable, Steady
  <2>6. CASE UNCHANGED vars
    <3>1. una \in Nat /\ nxt \in Nat
      BY DEF Typed
    <3>2. Underway'
      BY <1>3, <2>6, <3>1, UnderwayNext DEF vars, peer, Steady
    <3>3. CASE Unopened
      <4>1. Fresh(conn')
        BY <2>6, <3>3 DEF vars, Unopened
      <4>2. Fresh(conn)'
        BY <4>1 DEF Fresh, Free, Record, Buffer, Numbers, Indexes, Slots, None
      <4> QED
        BY <1>3, <2>6, <3>2, <3>3, <4>2 DEF vars, peer, Steady, Unopened
    <3>4. ASSUME NEW cur \in 0 .. nxt - 1, NEW r \in 0 .. cur + 1, Opened(cur, r) PROVE Steady'
      <4>1. Opened(cur, r)'
        BY <2>6, <3>4, OpenedNext DEF vars, peer, Opened, Told
      <4> QED
        BY <1>3, <2>6, <3>2, <4>1 DEF vars, peer, Steady
    <3> QED
      BY <1>3, <3>3, <3>4 DEF Steady
  <2> QED
    BY <2>2, <2>3, <2>4, <2>5, <2>6 DEF Next
<1> QED
  BY <1>2, <1>3

LEMMA InitSteady == Init => Steady
<1> SUFFICES ASSUME Init PROVE Steady
  OBVIOUS
<1>1. /\ una = 0 /\ nxt = 1 /\ consumed = -1 /\ ackWire = <<>> /\ wire = <<Segment(0)>> /\ arrived = {} /\ expired = {}
      /\ conn.state = "SYN_SENT" /\ conn.rxContext = None /\ conn.app = <<>> /\ conn.asserts
      /\ conn.buf = [i \in Slots |-> EmptyBuffer]
  BY DEF Init
<1> DEFINE seg == Segment(0)
<1>2. seg \in Datagram /\ (seg.SYN <=> seg.data = 0)
  BY <1>1, SegmentTyped, ArdpReceiveAssumption DEF Indexes
<1>3. seg.SEQ = Seq32(0) /\ seg.ACKNXT = Seq32(0) /\ seg.data = 0 /\ seg.NUL = FALSE
  BY <1>1 DEF Segment
<1> HIDE DEF seg
<1>4. DOMAIN wire = {1} /\ wire[1] = seg
  BY <1>1 DEF seg
<1>5. Sent(seg, nxt, una)
  <2>1. Peers(seg, 0, 0) /\ 0 \in 0 .. nxt /\ 0 \in 0 .. una /\ 0 - 0 < SegMax /\ 0 < nxt
    BY <1>1, <1>2, <1>3, SlotFacts DEF Peers, None
  <2> QED
    BY <2>1 DEF Sent
<1>6. Fresh(conn)
  <2>1. conn \in Record
    BY InitTypes DEF Within
  <2>2. \A i \in Slots : Free(conn, i)
    BY <1>1 DEF Free, EmptyBuffer
  <2> QED
    BY <1>1, <2>1, <2>2 DEF Fresh
<1> QED
  BY <1>1, <1>3, <1>4, <1>5, <1>6 DEF Steady, Underway, Unopened

LEMMA SteadyHeld ==
  ASSUME Typed, Steady
  PROVE  HeldUntilRead
<1> SUFFICES ASSUME Reliable
             PROVE  /\ \A n \in arrived :
                         \/ \E i \in Slots : conn.buf[i].data = n /\ conn.buf[i].dataLen # 0
                         \/ Contains(conn.app, n)
                    /\ conn.rxContext = None => \A i \in Slots : conn.buf[i].dataLen = 0
                    /\ conn.asserts
  BY DEF HeldUntilRead
<1>1. CASE Unopened
  BY <1>1 DEF Unopened, Fresh, Free
<1>2. ASSUME NEW cur \in 0 .. nxt - 1, NEW r \in 0 .. cur + 1, Opened(cur, r)
      PROVE  /\ \A n \in arrived :
                  \/ \E i \in Slots : conn.buf[i].data = n /\ conn.buf[i].dataLen # 0
                  \/ Contains(conn.app, n)
             /\ conn.rxContext = None => \A i \in Slots : conn.buf[i].dataLen = 0
             /\ conn.asserts
  <2>1. Holds(conn, cur, r) /\ arrived \subseteq 0 .. cur
    BY <1>2 DEF Opened
  <2>2. cur \in Nat /\ r \in Nat
    BY DEF Typed
  <2>3. ASSUME NEW n \in arrived, n >= r PROVE \E i \in Slots : conn.buf[i].data = n /\ conn.buf[i].dataLen # 0
    <3>1. n \in r .. cur /\ n \in Nat
      BY <2>1, <2>2, <2>3
    <3>2. Place(n) \in Slots /\ UnitsOf(n) \in Nat \ {0}
      BY <3>1, Places, Starts
    <3>3. Filled(conn, n)
      BY <2>1, <3>1 DEF Holds
    <3> QED
      BY <3>2, <3>3 DEF Filled
  <2>4. ASSUME NEW n \in arrived, n < r PROVE Contains(conn.app, n)
    <3>1. n \in Nat /\ n + 1 \in Nat /\ n + 1 <= r
      BY <2>1, <2>2, <2>4
    <3>2. /\ Start(n) \in Nat /\ UnitsOf(n) \in Nat \ {0} /\ Start(n + 1) = Start(n) + UnitsOf(n)
          /\ Start(n + 1) <= Start(r) /\ Start(r) \in Nat /\ UnitsOf(r) \in Nat /\ Start(r + 1) = Start(r) + UnitsOf(r)
      BY <2>2, <3>1, Starts
    <3>3. Len(conn.app) >= Start(r) /\ Len(conn.app) \in Nat
      <4>1. Len(conn.app) \in Nat
        BY <2>1 DEF Holds, Streamed
      <4>2. CASE r <= cur
        <5>1. Len(conn.app) + conn.left = Start(r + 1) /\ conn.left \in 1 .. UnitsOf(r)
          BY <2>1, <4>2 DEF Holds
        <5> QED
          BY <3>2, <4>1, <5>1
      <4>3. CASE r > cur
        <5>1. Len(conn.app) = Start(r)
          BY <2>1, <4>3 DEF Holds
        <5> QED
          BY <3>2, <4>1, <5>1
      <4> QED
        BY <2>2, <4>2, <4>3
    <3> DEFINE p == Start(n) + 1
    <3>4. p \in Start(n) + 1 .. Start(n + 1) /\ p <= Len(conn.app) /\ p \in 1 .. Len(conn.app)
      BY <3>2, <3>3
    <3>5. conn.app[p] = n
      BY <2>1, <3>1, <3>4 DEF Holds, Streamed
    <3> HIDE DEF p
    <3> QED
      BY <3>4, <3>5 DEF Contains
  <2>5. ASSUME conn.rxContext = None, NEW i \in Slots PROVE conn.buf[i].dataLen = 0
    <3>1. ~(r <= cur)
      <4>1. Place(r) \in Slots
        BY <2>2, Places
      <4> QED
        BY <2>1, <2>5, <4>1, SlotFacts DEF Holds
    <3>2. \A m \in r .. cur : FALSE
      BY <2>2, <3>1
    <3> QED
      BY <2>1, <3>2 DEF Holds, Free
  <2>6. \A n \in arrived : n >= r \/ n < r
    BY <2>1, <2>2
  <2> QED
    BY <2>1, <2>3, <2>4, <2>5, <2>6 DEF Holds
<1> QED
  BY <1>1, <1>2 DEF Steady

\* Over a network that neither loses nor reorders, every unit received is either
\* held in a buffer of its own or the caller's, and a buffer in use is never put
\* to another use: the window the peer keeps leaves each segment the buffer its
\* number stands for. It takes sequence numbers that do not wrap or buffers
\* that divide their range, and a reply in the SYN that is no more units than
\* there are buffers, since segments may follow before all of it is read.
THEOREM HeldUntilReadHolds ==
  Short /\ Follow /\ SynUnits <= SegMax /\ Spec => []HeldUntilRead
<1> SUFFICES ASSUME Short, Follow, SynUnits <= SegMax PROVE Spec => []HeldUntilRead
  OBVIOUS
<1>1. Init => Typed /\ Steady
  BY InitTypes, InitSteady
<1>2. Typed /\ Steady /\ [Next]_vars => Typed' /\ Steady'
  BY NextTypes, NextSteady
<1>3. Typed /\ Steady => HeldUntilRead
  BY SteadyHeld
<1> QED
  BY <1>1, <1>2, <1>3, PTL DEF Spec

-----------------------------------------------------------------------------
(* The stream the caller reads *)

\* The segment the p-th unit is one of.
Owner(p) == CHOOSE m \in Nat : p \in Start(m) + 1 .. Start(m + 1)

FirstUnits(l) == [p \in 1 .. l |-> Owner(p)]

LEMMA OwnerIs ==
  ASSUME NEW m \in Nat, NEW p \in Start(m) + 1 .. Start(m + 1)
  PROVE  Owner(p) = m
<1> DEFINE k == Owner(p)
<1>1. k \in Nat /\ p \in Start(k) + 1 .. Start(k + 1)
  BY DEF Owner
<1> HIDE DEF k
<1>2. Start(m) \in Nat /\ Start(k) \in Nat /\ Start(m + 1) \in Nat /\ Start(k + 1) \in Nat
  BY <1>1, Starts
<1>3. CASE m < k
  <2>1. Start(m + 1) <= Start(k)
    BY <1>1, <1>3, Starts
  <2> QED
    BY <1>1, <1>2, <2>1
<1>4. CASE k < m
  <2>1. Start(k + 1) <= Start(m)
    BY <1>1, <1>4, Starts
  <2> QED
    BY <1>1, <1>2, <2>1
<1> QED
  BY <1>1, <1>3, <1>4 DEF k

LEMMA OwnerExists ==
  ASSUME NEW n \in Nat, NEW p \in 1 .. Start(n)
  PROVE  \E m \in Nat : p \in Start(m) + 1 .. Start(m + 1)
<1> DEFINE S == {k \in Nat : p <= Start(k)}
<1>1. S \in SUBSET Nat /\ n \in S
  BY Starts
<1>2. PICK k \in S : \A j \in S : k <= j
  BY <1>1, LeastOf
<1>3. k \in Nat /\ k # 0 /\ k - 1 \in Nat /\ (k - 1) + 1 = k /\ p <= Start(k)
  <2>1. k \in Nat /\ p <= Start(k) /\ p \in Nat /\ p > 0
    BY <1>2, Starts
  <2>2. k # 0
    BY <2>1, Starts
  <2> QED
    BY <2>1, <2>2
<1>4. ~(p <= Start(k - 1))
  BY <1>2, <1>3
<1>5. Start(k - 1) \in Nat /\ Start(k) \in Nat
  BY <1>3, Starts
<1> QED
  BY <1>3, <1>4, <1>5

LEMMA FirstUnitsAre ==
  ASSUME NEW n \in Nat, NEW l \in 0 .. Start(n)
  PROVE  FirstUnits(l) \in Seq(Nat) /\ Len(FirstUnits(l)) = l /\ \A p \in 1 .. l : FirstUnits(l)[p] = Owner(p)
<1>1. Start(n) \in Nat /\ l \in Nat
  BY Starts
<1>2. \A p \in 1 .. l : Owner(p) \in Nat
  <2> TAKE p \in 1 .. l
  <2>1. p \in 1 .. Start(n)
    BY <1>1
  <2>2. \E m \in Nat : p \in Start(m) + 1 .. Start(m + 1)
    BY <2>1, OwnerExists
  <2> QED
    BY <2>2 DEF Owner
<1> QED
  BY <1>1, <1>2 DEF FirstUnits

\* Of any two of them the shorter is a prefix of the longer.
LEMMA PrefixOfFirst ==
  ASSUME NEW n \in Nat, NEW l \in 0 .. Start(n), NEW k \in 0 .. Start(n), l <= k
  PROVE  Stream!IsPrefix(FirstUnits(l), FirstUnits(k))
<1>1. l \in Nat /\ k \in Nat /\ 1 .. l \subseteq 1 .. k
  <2>1. Start(n) \in Nat
    BY Starts
  <2> QED
    BY <2>1
<1> DEFINE s == FirstUnits(l)
           t == FirstUnits(k)
<1>2. /\ s \in Seq(Nat) /\ Len(s) = l /\ \A p \in 1 .. l : s[p] = Owner(p)
      /\ t \in Seq(Nat) /\ Len(t) = k /\ \A p \in 1 .. k : t[p] = Owner(p)
  BY FirstUnitsAre
<1> HIDE DEF s, t
<1>3. \A p \in 1 .. l : s[p] = t[p]
  BY <1>1, <1>2
<1>4. SubSeq(s, 1, l) = SubSeq(t, 1, l)
  BY <1>1, <1>2, <1>3
<1> QED
  BY <1>1, <1>2, <1>4 DEF Stream!IsPrefix, s, t

\* What has been given to the caller is the stream so far.
LEMMA StreamedIs ==
  ASSUME NEW n \in Nat, NEW app, Streamed(app), Len(app) <= Start(n)
  PROVE  app = FirstUnits(Len(app)) /\ Len(app) \in 0 .. Start(n)
<1>1. app \in Seq(Indexes) /\ Len(app) \in Nat /\ Start(n) \in Nat
  BY Starts DEF Streamed
<1> DEFINE t == FirstUnits(Len(app))
<1>2. t \in Seq(Nat) /\ Len(t) = Len(app) /\ \A p \in 1 .. Len(app) : t[p] = Owner(p)
  <2>1. Len(app) \in 0 .. Start(n)
    BY <1>1
  <2> QED
    BY <2>1, FirstUnitsAre
<1> HIDE DEF t
<1>3. ASSUME NEW p \in 1 .. Len(app) PROVE app[p] = t[p]
  <2>1. p \in 1 .. Start(n)
    BY <1>1
  <2>2. PICK m \in Nat : p \in Start(m) + 1 .. Start(m + 1)
    BY <2>1, OwnerExists
  <2>3. app[p] = m
    BY <1>1, <2>2 DEF Streamed
  <2> QED
    BY <1>2, <2>2, <2>3, OwnerIs
<1>4. app = t
  BY <1>1, <1>2, <1>3
<1> QED
  BY <1>1, <1>4 DEF t

\* The contents of the first n segments, put together, are the first units.
LEMMA ContentIs ==
  ASSUME NEW n \in Nat \ {0}
  PROVE  Stream!Content(n) = FirstUnits(Start(n))
<1> DEFINE q == [k \in 1 .. n |-> [u \in 1 .. UnitsOf(k - 1) |-> k - 1]]
           Step(g) == [i \in 1 .. n |-> IF i = 1 THEN q[i] ELSE g[i - 1] \o q[i]]
           F == [i \in 1 .. n |-> FirstUnits(Start(i))]
           flat == CHOOSE g : g = Step(g)
<1>1. ASSUME NEW k \in 1 .. n
      PROVE  /\ k \in Nat /\ k - 1 \in Nat /\ Start(k) = Start(k - 1) + UnitsOf(k - 1)
             /\ Start(k) \in Nat /\ Start(k - 1) \in Nat /\ UnitsOf(k - 1) \in Nat
             /\ q[k] \in Seq(Nat) /\ Len(q[k]) = UnitsOf(k - 1)
             /\ \A u \in 1 .. UnitsOf(k - 1) : q[k][u] = k - 1
  <2>1. k \in Nat /\ k - 1 \in Nat /\ (k - 1) + 1 = k
    OBVIOUS
  <2>2. Start(k) = Start(k - 1) + UnitsOf(k - 1) /\ Start(k) \in Nat /\ Start(k - 1) \in Nat /\ UnitsOf(k - 1) \in Nat
    BY <2>1, Starts
  <2>3. q[k] = [u \in 1 .. UnitsOf(k - 1) |-> k - 1]
    OBVIOUS
  <2> HIDE DEF q
  <2> QED
    BY <2>1, <2>2, <2>3
<1>2. DOMAIN q = 1 .. n /\ Len(q) = n
  <2>1. q \in [1 .. n -> Seq(Nat)]
    BY <1>1
  <2> HIDE DEF q
  <2> QED
    BY <2>1
<1> HIDE DEF q
<1>3. ASSUME NEW k \in 1 .. n
      PROVE  FirstUnits(Start(k)) = IF k = 1 THEN q[k] ELSE FirstUnits(Start(k - 1)) \o q[k]
  <2> DEFINE s == FirstUnits(Start(k))
             t == FirstUnits(Start(k - 1))
             x == Start(k - 1)
             y == Start(k)
             z == UnitsOf(k - 1)
  <2>0. /\ k \in Nat /\ k - 1 \in Nat /\ y = x + z /\ y \in Nat /\ x \in Nat /\ z \in Nat
        /\ q[k] \in Seq(Nat) /\ Len(q[k]) = z
        /\ \A u \in 1 .. z : q[k][u] = k - 1
    BY <1>1
  <2>1. /\ s \in Seq(Nat) /\ Len(s) = y /\ \A p \in 1 .. y : s[p] = Owner(p)
        /\ t \in Seq(Nat) /\ Len(t) = x /\ \A p \in 1 .. x : t[p] = Owner(p)
    <3> HIDE DEF x, y
    <3>1. y \in 0 .. y /\ x \in 0 .. x
      BY <2>0
    <3> QED
      BY <2>0, <3>1, FirstUnitsAre DEF x, y
  <2>2. ASSUME NEW p \in x + 1 .. y PROVE Owner(p) = k - 1
    <3>1. (k - 1) + 1 = k
      BY <2>0
    <3>2. p \in Start(k - 1) + 1 .. Start((k - 1) + 1)
      BY <3>1
    <3> QED
      BY <2>0, <3>2, OwnerIs
  <2>z. k = 1 => x = 0
    BY Starts
  <2> HIDE DEF s, t, x, y, z
  <2>3. CASE k = 1
    <3>1. x = 0 /\ y = z
      BY <2>0, <2>3, <2>z
    <3>2. \A p \in 1 .. y : s[p] = q[k][p]
      BY <2>0, <2>1, <2>2, <3>1
    <3>3. s = q[k]
      BY <2>0, <2>1, <3>1, <3>2
    <3> QED
      BY <2>3, <3>3 DEF s
  <2>4. CASE k # 1
    <3> DEFINE r == q[k]
               w == t \o r
    <3>0. r \in Seq(Nat) /\ Len(r) = z /\ \A u \in 1 .. z : r[u] = k - 1
      BY <2>0
    <3> HIDE DEF r
    <3>1. /\ w \in Seq(Nat) /\ Len(w) = x + z
          /\ \A p \in 1 .. x : w[p] = t[p]
          /\ \A p \in x + 1 .. x + z : w[p] = r[p - x]
      <4>1. t \in Seq(Nat) /\ r \in Seq(Nat) /\ x \in Nat /\ z \in Nat /\ Len(t) = x /\ Len(r) = z
        BY <2>0, <2>1, <3>0
      <4>2. /\ w \in Seq(Nat) /\ Len(w) = Len(t) + Len(r)
            /\ \A p \in 1 .. Len(t) + Len(r) : w[p] = IF p <= Len(t) THEN t[p] ELSE r[p - Len(t)]
        BY <4>1, ConcatProperties
      <4> HIDE DEF w
      <4> QED
        BY <4>1, <4>2
    <3> HIDE DEF w
    <3>2. ASSUME NEW p \in 1 .. y PROVE s[p] = w[p]
      <4>1. CASE p <= x
        BY <2>0, <2>1, <3>1, <4>1
      <4>2. CASE ~(p <= x)
        <5>1. p \in x + 1 .. y /\ p - x \in 1 .. z
          BY <2>0, <4>2
        <5> QED
          BY <2>0, <2>1, <2>2, <3>0, <3>1, <5>1
      <4> QED
        BY <4>1, <4>2
    <3>3. s = w
      BY <2>0, <2>1, <3>1, <3>2
    <3> QED
      BY <2>4, <3>3 DEF s, t, w, r, x
  <2> QED
    BY <2>3, <2>4
<1>4. F = Step(F)
  <2>1. ASSUME NEW k \in 1 .. n PROVE F[k] = IF k = 1 THEN q[k] ELSE F[k - 1] \o q[k]
    <3>1. k # 1 => k - 1 \in 1 .. n
      OBVIOUS
    <3> QED
      BY <1>3, <3>1
  <2> QED
    BY <2>1
<1>5. flat = Step(flat)
  BY <1>4
<1> HIDE DEF F, flat
<1>6. ASSUME NEW k \in 1 .. n PROVE flat[k] = IF k = 1 THEN q[k] ELSE flat[k - 1] \o q[k]
  BY <1>5
<1> HIDE DEF Step
<1> DEFINE S == {m \in 0 .. n : m = 0 \/ flat[m] = FirstUnits(Start(m))}
<1>7. 0 \in S
  OBVIOUS
<1>8. ASSUME NEW m \in 0 .. n - 1, m \in S PROVE m + 1 \in S
  <2>1. m + 1 \in 1 .. n /\ (m + 1) - 1 = m /\ (m + 1 = 1 <=> m = 0)
    OBVIOUS
  <2>2. m # 0 => flat[m] = FirstUnits(Start(m))
    BY <1>8 DEF S
  <2>3. flat[m + 1] = FirstUnits(Start(m + 1))
    <3> DEFINE k == m + 1
    <3>1. FirstUnits(Start(k)) = IF k = 1 THEN q[k] ELSE FirstUnits(Start(k - 1)) \o q[k]
      BY <1>3, <2>1
    <3>2. flat[k] = IF k = 1 THEN q[k] ELSE flat[k - 1] \o q[k]
      BY <1>6, <2>1
    <3>3. k - 1 = m /\ (k # 1 => m # 0)
      BY <2>1
    <3> HIDE DEF k
    <3>4. FirstUnits(Start(k)) = flat[k]
      BY <2>2, <3>1, <3>2, <3>3
    <3> QED
      BY <3>4 DEF k
  <2>4. m + 1 \in 0 .. n
    OBVIOUS
  <2> QED
    BY <2>3, <2>4 DEF S
<1> HIDE DEF S
<1>9. 0 .. n \subseteq S
  BY <1>7, <1>8, Reaches
<1>10. flat[n] = FirstUnits(Start(n))
  <2>1. n \in S
    BY <1>9
  <2> QED
    BY <2>1 DEF S
<1>11. Stream!Content(n) = Stream!FlattenSeq(q)
  BY DEF Stream!Content, q
<1>12. Stream!FlattenSeq(q) = flat[n]
  BY <1>2, Zenon DEF Stream!FlattenSeq, flat, Step
<1> QED
  BY <1>10, <1>11, <1>12

SoFar == Reliable => conn.app = FirstUnits(Len(conn.app)) /\ Len(conn.app) \in 0 .. Start(nxt)

LEMMA ReadSoFar ==
  ASSUME Typed, Steady
  PROVE  SoFar
<1> SUFFICES ASSUME Reliable PROVE SoFar
  BY DEF SoFar
<1>1. nxt \in Nat \ {0} /\ Start(nxt) \in Nat
  <2>1. nxt \in Nat \ {0}
    BY DEF Typed
  <2> QED
    BY <2>1, Starts
<1>2. Streamed(conn.app) /\ Len(conn.app) \in Nat /\ Len(conn.app) <= Start(nxt)
  <2>1. CASE Unopened
    <3>1. conn.app = <<>>
      BY <2>1 DEF Unopened, Fresh
    <3> QED
      BY <1>1, <3>1, NoneStreamed
  <2>2. ASSUME NEW cur \in 0 .. nxt - 1, NEW r \in 0 .. cur + 1, Opened(cur, r)
        PROVE  Streamed(conn.app) /\ Len(conn.app) \in Nat /\ Len(conn.app) <= Start(nxt)
    <3>1. Holds(conn, cur, r) /\ Streamed(conn.app) /\ Len(conn.app) \in Nat
      BY <2>2 DEF Opened, Holds, Streamed
    <3>2. cur \in Nat /\ r \in Nat /\ r + 1 \in Nat /\ cur + 1 <= nxt /\ r <= nxt
      BY <1>1
    <3>3. Start(r) \in Nat /\ Start(r + 1) \in Nat /\ Start(r) <= Start(nxt) /\ (r <= cur => Start(r + 1) <= Start(nxt))
      <4>1. r <= cur => r + 1 <= nxt
        BY <1>1, <3>2
      <4> QED
        BY <1>1, <3>2, <4>1, Starts
    <3>4. CASE r <= cur
      <4>1. Len(conn.app) + conn.left = Start(r + 1) /\ conn.left \in Nat
        BY <3>1, <3>4 DEF Holds, Record
      <4> QED
        BY <1>1, <3>1, <3>3, <3>4, <4>1
    <3>5. CASE r > cur
      <4>1. Len(conn.app) = Start(r)
        BY <3>1, <3>5 DEF Holds
      <4> QED
        BY <3>1, <3>3, <4>1
    <3> QED
      BY <3>2, <3>4, <3>5
  <2> QED
    BY <2>1, <2>2 DEF Steady
<1> QED
  BY <1>1, <1>2, StreamedIs DEF SoFar

LEMMA LaterSoFar ==
  ASSUME SoFar', Reliable'
  PROVE  conn'.app = FirstUnits(Len(conn'.app)) /\ Len(conn'.app) \in 0 .. Start(nxt')
BY DEF SoFar, FirstUnits, Owner, Start

\* A step sends the peer's next segment or lets the caller read on, never both.
LEMMA ReadsOn ==
  ASSUME Short, Follow, SynUnits <= SegMax, Typed, Steady, [Next]_vars, Reliable
  PROVE  /\ nxt' = nxt \/ (nxt' = nxt + 1 /\ conn' = conn)
         /\ Len(conn'.app) >= Len(conn.app)
<1>0. Len(conn.app) \in Nat
  BY DEF Typed, Within, Record
<1>1. ASSUME NEW len \in Wanted, NEW fire \in BOOLEAN, RecvNothing(len, fire)
      PROVE  nxt' = nxt /\ Len(conn'.app) >= Len(conn.app)
  <2>1. nxt' = nxt
    BY <1>1 DEF RecvNothing, peer
  <2> QED
    BY <1>1, <2>1, RecvNothingSteady
<1>2. ASSUME NEW len \in Wanted, NEW fire \in BOOLEAN, NEW i \in Arriving, RecvSegment(len, fire, i)
      PROVE  nxt' = nxt /\ Len(conn'.app) >= Len(conn.app)
  <2>1. nxt' = nxt /\ conn.state \in {"SYN_SENT", "OPEN"}
    BY <1>2 DEF RecvSegment, Typed, Within, Record, peer
  <2> QED
    BY <1>2, <2>1, RecvSegmentSteady, OpeningSteady
<1>3. CASE Recv
  BY <1>1, <1>2, <1>3 DEF Recv
<1>4. CASE SendSegment
  <2>1. nxt' = nxt /\ conn' = AckSent(conn) /\ conn \in Record
    BY <1>4 DEF SendSegment, peer, Typed, Within
  <2>2. conn'.app = conn.app
    BY <2>1, ArmedIs DEF Same
  <2> QED
    BY <1>0, <2>1, <2>2
<1>5. CASE PeerSide
  BY <1>0, <1>5 DEF PeerSide, PeerSends, PeerRetransmits, PeerProbes, PeerTakesAck, PeerExpires, Lose, peer
<1>6. CASE UNCHANGED vars
  BY <1>0, <1>6 DEF vars, peer
<1> QED
  BY <1>3, <1>4, <1>5, <1>6 DEF Next, PeerSide

LEMMA NextInOrder ==
  ASSUME Short, Follow, SynUnits <= SegMax, Typed, Steady, SoFar, SoFar', [Next]_vars
  PROVE  [Stream!Send \/ Stream!Read]_<<nxt, IF Reliable THEN conn.app ELSE <<>> >>
<1>1. network' = network
  BY DEF Next, Recv, RecvNothing, RecvSegment, SendSegment, PeerSends, PeerRetransmits, PeerProbes, PeerTakesAck,
         PeerExpires, Lose, vars
<1>2. CASE ~Reliable
  <2>1. nxt' = nxt \/ nxt' = nxt + 1
    BY DEF Next, Recv, RecvNothing, RecvSegment, SendSegment, PeerSends, PeerRetransmits, PeerProbes, PeerTakesAck,
           PeerExpires, Lose, vars, peer
  <2> QED
    BY <1>1, <1>2, <2>1 DEF Reliable, Stream!Send
<1>3. CASE Reliable
  <2> DEFINE a == conn.app
             b == conn'.app
  <2>1. Reliable'
    BY <1>1, <1>3 DEF Reliable
  <2>2. /\ nxt' = nxt \/ (nxt' = nxt + 1 /\ conn' = conn)
        /\ Len(b) >= Len(a)
    BY <1>3, ReadsOn
  <2>3. a = FirstUnits(Len(a)) /\ Len(a) \in 0 .. Start(nxt) /\ nxt \in Nat \ {0}
    BY <1>3 DEF SoFar, Typed
  <2>4. CASE nxt' = nxt + 1 /\ conn' = conn
    BY <1>3, <2>1, <2>4 DEF Stream!Send
  <2>5. CASE nxt' = nxt
    <3>1. b = FirstUnits(Len(b)) /\ Len(b) \in 0 .. Start(nxt)
      BY <2>1, <2>5, LaterSoFar
    <3>2. Start(nxt) \in 0 .. Start(nxt) /\ Len(a) <= Len(b) /\ Len(b) <= Start(nxt) /\ nxt \in Nat
      <4>1. Start(nxt) \in Nat
        BY <2>3, Starts
      <4> QED
        BY <2>2, <2>3, <3>1, <4>1
    <3>3. Stream!IsPrefix(a, b)
      BY <2>3, <3>1, <3>2, PrefixOfFirst
    <3>4. Stream!IsPrefix(b, Stream!Content(nxt))
      BY <2>3, <3>1, <3>2, PrefixOfFirst, ContentIs
    <3> QED
      BY <1>3, <2>1, <2>5, <3>3, <3>4 DEF Stream!Read
  <2> QED
    BY <2>2, <2>4, <2>5
<1> QED
  BY <1>2, <1>3

\* Over a network that delays and repeats but neither loses nor reorders, what
\* the caller reads is the stream of the peer's segments: in order, each unit
\* once and none left out, for any lengths, windows and reads, under the
\* conditions of HeldUntilReadHolds.
THEOREM InOrderHolds ==
  Short /\ Follow /\ SynUnits <= SegMax /\ Spec => InOrder
<1> SUFFICES ASSUME Short, Follow, SynUnits <= SegMax PROVE Spec => InOrder
  OBVIOUS
<1>1. Init => Typed /\ Steady
  BY InitTypes, InitSteady
<1>2. Typed /\ Steady /\ [Next]_vars => Typed' /\ Steady'
  BY NextTypes, NextSteady
<1>3. Typed /\ Steady => SoFar
  BY ReadSoFar
<1>4. Init => Stream!Init
  BY DEF Init, Stream!Init
<1>5. Typed /\ Steady /\ SoFar /\ SoFar' /\ [Next]_vars
        => [Stream!Send \/ Stream!Read]_<<nxt, IF Reliable THEN conn.app ELSE <<>> >>
  BY NextInOrder
<1> QED
  BY <1>1, <1>2, <1>3, <1>4, <1>5, PTL DEF Spec, InOrder, Stream!Spec

=============================================================================

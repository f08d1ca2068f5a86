--------------------------- MODULE ArdpSendProofs ---------------------------
(***************************************************************************)
(* Proofs about ArdpSend, for any number and size of buffers, any lengths  *)
(* of messages and any number of retries.                                  *)
(***************************************************************************)
EXTENDS ArdpSend, FiniteSetTheorems, SequenceTheorems, TLAPS

Buffer == [seq : Nat, inFlight : BOOLEAN, retry : 0 .. MinDataRetries + 1, dataLen : 0 .. MaxDlen]

SndType == [NXT : 1 .. MaxSegment + 1, UNA : Nat, LCS : Nat, pending : 0 .. SegMax,
            newMsg : BOOLEAN, msgTotal : Nat, msgSent : Int]

Ack == [ack : Nat, lcs : Nat]

Types ==
  /\ state \in {"NULL", "SYN_SENT", "OPEN", "CLOSE_WAIT"}
  /\ status \in {"NONE", "OK", "CONNECT", "READ", "WRITE"}
  /\ snd \in SndType /\ buf \in [Slots -> Buffer]
  /\ connectTimer \in 0 .. ConnectRetries /\ probeTimer \in 0 .. Keepalives
  /\ phase \in {"idle", "wait", "again"} /\ tries \in 0 .. Patience - 1
  /\ left \in Nat /\ call \in Nat
  /\ acks \in Seq(Ack) /\ rcvCur \in Int /\ rcvLcs \in Int
  /\ resumed \in BOOLEAN /\ overtaken \in BOOLEAN

\* No segment has been handed over yet.
Unused == state = "SYN_SENT" \/ (state = "NULL" /\ status = "NONE")
Live   == state \in {"OPEN", "CLOSE_WAIT"}

Beginning ==
  Unused =>
    /\ snd.NXT = 1 /\ snd.UNA = 0 /\ snd.LCS = 0 /\ snd.pending = 0
    /\ ~snd.newMsg /\ snd.msgTotal = 0 /\ snd.msgSent = 0 /\ left = 0
    /\ \A i \in Slots : /\ buf[i].retry = 0 /\ buf[i].dataLen = 0
                        /\ i # 0 => ~buf[i].inFlight
    /\ wire = {} /\ acks = <<>> /\ rcvCur = rcvLcs /\ rcvCur <= 0
    /\ state = "SYN_SENT" => status = "OK"

\* What the peer has is what was sent, and it acknowledges what it has.
PeerInv ==
  /\ snd.UNA <= snd.NXT /\ snd.LCS < snd.NXT
  /\ wire \subseteq 1 .. snd.NXT - 1
  /\ -1 <= rcvLcs /\ rcvLcs <= rcvCur /\ rcvCur < snd.NXT
  /\ Live => 0 <= rcvLcs
  /\ \A k \in DOMAIN acks : acks[k].ack < snd.NXT /\ acks[k].lcs <= rcvLcs

\* The segments under way, with their timers running, are those from UNA to
\* NXT - 1, each in its slot.  The next may be marked too, if its send has
\* failed.
Sent(s, b, told) ==
  /\ 1 <= s.UNA /\ s.pending = s.NXT - s.UNA
  /\ \A n \in s.UNA .. s.NXT - 1 : b[Slot(n)].retry # 0
  /\ \A i \in Slots :
       /\ b[i].retry # 0 =>
            b[i].inFlight /\ b[i].seq \in s.UNA .. s.NXT - 1 /\ Slot(b[i].seq) = i
       /\ b[i].inFlight /\ b[i].retry = 0 => told # "OK" /\ b[i].seq = s.NXT /\ i = Slot(s.NXT)

\* The caller has been told of a failure, by its last call or earlier.
Told == IF resumed THEN "WRITE" ELSE status

Window == Live => Sent(snd, buf, Told)

\* What waits in the next buffer.
Waiting(s, b) == IF b[Slot(s.NXT)].inFlight THEN 0 ELSE b[Slot(s.NXT)].dataLen

\* Sent, waiting and not handed over yet is the whole message.
Accounted(s, b, rest) ==
  /\ \A i \in Slots : ~b[i].inFlight /\ i # Slot(s.NXT) => b[i].dataLen = 0
  /\ s.newMsg => s.msgSent = 0 /\ Waiting(s, b) = 0
  /\ ~s.newMsg => s.msgTotal = s.msgSent + Waiting(s, b) + rest
  /\ rest = 0 => Waiting(s, b) = 0

\* As long as no message was begun in the place of one that failed.
Whole == state = "OPEN" /\ status = "OK" /\ ~resumed => Accounted(snd, buf, left)

Held == ~resumed => asserts

CallerInv ==
  /\ phase # "idle" => state = "OPEN" /\ status = "OK" /\ call \in 1 .. left
  /\ Live => status \in {"OK", "READ", "WRITE"}

\* The last consumed segment known here is behind the one the peer knows, and
\* acknowledgements bring it forward.
Consumed ==
  /\ snd.NXT <= snd.LCS + SegMax + 1
  /\ Live => snd.LCS <= rcvLcs
  /\ \A k \in DOMAIN acks : snd.LCS <= acks[k].lcs
  /\ \A j, k \in DOMAIN acks : j < k => acks[j].lcs <= acks[k].lcs

PeerWindow == ~overtaken => Consumed /\ WithinPeerWindow

IInv == Types /\ Beginning /\ PeerInv /\ Window /\ Whole /\ Held /\ CallerInv /\ PeerWindow

USE DEF history

-----------------------------------------------------------------------------
(* Numbers *)

\* A set of numbers has a least element, and one that is bounded a greatest.
LEMMA LeastOf ==
  ASSUME NEW S \in SUBSET Nat, S # {}
  PROVE  \E n \in S : \A k \in S : n <= k
<1> DEFINE R == OpToRel(<, Nat)
<1>1. IsWellFoundedOn(R, Nat)
  BY NatLessThanWellFounded
<1> HIDE DEF R
<1>2. PICK n \in S : \A k \in S : <<k, n>> \notin R
  BY <1>1, WFMin
<1>3. \A k \in S : ~ (k < n)
  BY <1>2 DEF R, OpToRel
<1> QED
  BY <1>3

LEMMA GreatestOf ==
  ASSUME NEW b \in Nat, NEW S \in SUBSET (0 .. b), S # {}
  PROVE  Max(S) \in S /\ \A k \in S : k <= Max(S)
<1> DEFINE T == {b - k : k \in S}
<1>0. \A k \in S : b - k \in Nat
  <2> TAKE k \in S
  <2> k \in 0 .. b
    OBVIOUS
  <2> QED
    OBVIOUS
<1>1. T \in SUBSET Nat /\ T # {}
  BY <1>0
<1>2. PICK n \in T : \A k \in T : n <= k
  BY <1>1, LeastOf
<1>3. PICK m \in S : n = b - m
  BY <1>2
<1>4. \A k \in S : m >= k
  <2> TAKE k \in S
  <2>1. n <= b - k
    BY <1>2
  <2> QED
    BY <1>3, <2>1
<1> QED
  BY <1>4 DEF Max

LEMMA Quotients ==
  ASSUME NEW n \in Nat \ {0}, NEW a \in Int
  PROVE  /\ a \div n \in Int /\ a % n \in 0 .. n - 1
         /\ a = n * (a \div n) + (a % n)
OBVIOUS

LEMMA Remainder ==
  ASSUME NEW n \in Nat \ {0}, NEW a \in Int, NEW q \in Int, NEW r \in 0 .. n - 1, a = n * q + r
  PROVE  a % n = r
<1> DEFINE p == a \div n
           s == a % n
<1>1. p \in Int /\ s \in 0 .. n - 1 /\ a = n * p + s
  BY Quotients
<1> HIDE DEF p, s
<1>2. n * (p - q) = r - s
  BY <1>1
<1>3. CASE p - q >= 1
  <2>1. n * (p - q) >= n
    BY <1>1, <1>3
  <2> QED
    BY <1>1, <1>2, <2>1
<1>4. CASE p - q <= -1
  <2>1. n * (q - p) >= n
    BY <1>1, <1>4
  <2>2. n * (q - p) = s - r
    BY <1>1
  <2> QED
    BY <1>1, <2>1, <2>2
<1>5. CASE p = q
  BY <1>1, <1>2, <1>5 DEF s
<1> QED
  BY <1>1, <1>3, <1>4, <1>5

-----------------------------------------------------------------------------
(* Slots *)

LEMMA SlotType == \A a \in Int : Slot(a) \in Slots
BY Quotients, ArdpSendAssumption DEF Slot, Slots

\* Segments that are less than a window apart are in different slots.
LEMMA SlotsDiffer ==
  ASSUME NEW a \in Int, NEW b \in Int, a < b, b < a + SegMax
  PROVE  Slot(a) # Slot(b)
<1> DEFINE p == a \div SegMax
           q == b \div SegMax
<1>1. /\ a = SegMax * p + Slot(a) /\ b = SegMax * q + Slot(b) /\ p \in Int /\ q \in Int
      /\ Slot(a) \in Int /\ SegMax \in Nat \ {0}
  BY Quotients, ArdpSendAssumption DEF Slot
<1> HIDE DEF p, q
<1> SUFFICES ASSUME Slot(a) = Slot(b) PROVE FALSE
  OBVIOUS
<1>2. b - a = SegMax * (q - p)
  BY <1>1
<1>3. q - p >= 1
  BY <1>1, <1>2
<1>4. SegMax * (q - p) >= SegMax
  BY <1>1, <1>3
<1> QED
  BY <1>1, <1>2, <1>4

LEMMA SameSlot ==
  ASSUME NEW a \in Int, NEW b \in Int, Slot(a) = Slot(b), a - b < SegMax, b - a < SegMax
  PROVE  a = b
<1>1. SegMax \in Nat
  BY ArdpSendAssumption
<1> QED
  BY <1>1, SlotsDiffer

\* How far a slot is behind that of a.
Distance(i, a) == (i - Slot(a)) % SegMax

LEMMA DistanceInverse ==
  ASSUME NEW i \in Slots, NEW a \in Int
  PROVE  Distance(i, a) \in Slots /\ Slot(a + Distance(i, a)) = i
<1> DEFINE p == Distance(i, a)
           q == (i - Slot(a)) \div SegMax
           d == a \div SegMax
<1>1. SegMax \in Nat \ {0} /\ Slot(a) \in Int /\ i \in Int
  BY SlotType, ArdpSendAssumption DEF Slots
<1>2. p \in 0 .. SegMax - 1 /\ q \in Int /\ i - Slot(a) = SegMax * q + p
  <2> DEFINE e == i - Slot(a)
  <2>1. e \in Int
    BY <1>1
  <2> HIDE DEF e
  <2>2. e % SegMax \in 0 .. SegMax - 1 /\ e \div SegMax \in Int /\ e = SegMax * (e \div SegMax) + (e % SegMax)
    BY <1>1, <2>1, Quotients
  <2> QED
    BY <2>2 DEF e, Distance
<1>3. d \in Int /\ a = SegMax * d + Slot(a)
  BY <1>1, Quotients DEF Slot
<1> HIDE DEF p, q, d
<1>4. a + p = SegMax * (d - q) + i /\ d - q \in Int
  BY <1>1, <1>2, <1>3
<1>5. Slot(a + p) = i
  BY <1>1, <1>2, <1>4, Remainder DEF Slot, Slots
<1> QED
  BY <1>2, <1>5 DEF p, Slots

LEMMA DistanceOf ==
  ASSUME NEW a \in Int, NEW j \in Slots
  PROVE  Distance(Slot(a + j), a) = j
<1>1. SegMax \in Nat \ {0} /\ Slot(a + j) \in Slots
  BY SlotType, ArdpSendAssumption DEF Slots
<1>2. Distance(Slot(a + j), a) \in Slots /\ Slot(a + Distance(Slot(a + j), a)) = Slot(a + j)
  BY <1>1, DistanceInverse
<1> QED
  BY <1>1, <1>2, SameSlot DEF Slots

\* As many slots as segments.
LEMMA SlotsOf ==
  ASSUME NEW a \in Int, NEW b \in Int, b - a < SegMax
  PROVE  /\ IsFiniteSet({Slot(n) : n \in a .. b})
         /\ Cardinality({Slot(n) : n \in a .. b}) = IF a > b THEN 0 ELSE b - a + 1
<1> DEFINE T == {Slot(n) : n \in a .. b}
           f == [n \in a .. b |-> Slot(n)]
<1>1. SegMax \in Nat
  BY ArdpSendAssumption
<1>2. \A m, n \in a .. b : f[m] = f[n] => m = n
  BY <1>1, SameSlot
<1>3. f \in Bijection(a .. b, T)
  BY <1>2 DEF Bijection, Injection, Surjection, IsInjective
<1>4. ExistsBijection(a .. b, T)
  BY <1>3 DEF ExistsBijection
<1>5. IsFiniteSet(a .. b) /\ Cardinality(a .. b) = IF a > b THEN 0 ELSE b - a + 1
  BY FS_Interval
<1> HIDE DEF T, f
<1>6. IsFiniteSet(T) /\ Cardinality(T) = Cardinality(a .. b)
  BY <1>4, <1>5, FS_Bijection
<1> QED
  BY <1>5, <1>6 DEF T

\* The segments that some units take.
SegmentsFor(units) == (units + MaxDlen - 1) \div MaxDlen

LEMMA SegmentsEnough ==
  ASSUME NEW units \in Nat \ {0}
  PROVE  /\ SegmentsFor(units) \in Nat \ {0}
         /\ units - (SegmentsFor(units) - 1) * MaxDlen \in 1 .. MaxDlen
         /\ \A r \in Int : units <= MaxDlen * r => SegmentsFor(units) <= r
<1> DEFINE k == SegmentsFor(units)
           m == (units + MaxDlen - 1) % MaxDlen
<1>1. MaxDlen \in Nat \ {0}
  BY ArdpSendAssumption
<1>2. k \in Int /\ m \in 0 .. MaxDlen - 1 /\ units + MaxDlen - 1 = MaxDlen * k + m
  <2> DEFINE u == units + MaxDlen - 1
  <2>1. u \in Int
    BY <1>1
  <2> HIDE DEF u
  <2>2. u % MaxDlen \in 0 .. MaxDlen - 1 /\ u \div MaxDlen \in Int
        /\ u = MaxDlen * (u \div MaxDlen) + (u % MaxDlen)
    BY <1>1, <2>1, Quotients
  <2> QED
    BY <2>2 DEF u, SegmentsFor
<1> HIDE DEF k, m
<1>3. units = MaxDlen * (k - 1) + m + 1 /\ (k - 1) * MaxDlen = MaxDlen * (k - 1)
  BY <1>1, <1>2
<1>4. k >= 1
  <2> SUFFICES ASSUME k <= 0 PROVE FALSE
    BY <1>2
  <2>1. MaxDlen * (0 - k) >= 0
    BY <1>1, <1>2
  <2> QED
    BY <1>1, <1>2, <2>1
<1>5. ASSUME NEW r \in Int, units <= MaxDlen * r, k > r PROVE FALSE
  <2>1. MaxDlen * (k - 1 - r) >= 0
    BY <1>1, <1>2, <1>5
  <2>2. MaxDlen * (k - 1) >= MaxDlen * r
    BY <1>1, <1>2, <2>1
  <2> QED
    BY <1>1, <1>2, <1>3, <1>5, <2>2
<1> QED
  BY <1>1, <1>2, <1>3, <1>4, <1>5 DEF k
-----------------------------------------------------------------------------
(* The timers *)

\* What the timers leave alone, and what they may send.
Touched(c) ==
  /\ c.buf \in [Slots -> Buffer] /\ c.probe \in 0 .. Keepalives /\ c.failed \in BOOLEAN
  /\ \A i \in Slots : /\ c.buf[i].seq = buf[i].seq /\ c.buf[i].inFlight = buf[i].inFlight
                      /\ c.buf[i].dataLen = buf[i].dataLen
                      /\ c.buf[i].retry = 0 <=> buf[i].retry = 0
  /\ c.wire \subseteq wire \cup (snd.UNA .. snd.NXT - 1)

\* The outcome of the timers with that of an acknowledgement after them.
Masked(d) == {d} \cup {[d EXCEPT !.failed = ~ok] : ok \in SendOutcomes}

TimerRecord == [buf : {buf}, wire : {wire}, probe : 0 .. Keepalives, failed : BOOLEAN]

LEMMA RunOfSegments ==
  ASSUME NEW b, NEW i \in Slots, b[i].retry # 0
  PROVE  /\ InFlightFrom(b, i) \in 1 .. SegMax
         /\ \A j \in 0 .. InFlightFrom(b, i) - 1 : b[Slot(i + j)].retry # 0
<1> DEFINE S == {k \in 0 .. SegMax : \A j \in 0 .. k - 1 : b[Slot(i + j)].retry # 0}
<1>1. SegMax \in Nat \ {0} /\ i \in 0 .. SegMax - 1
  BY ArdpSendAssumption DEF Slots
<1>2. Slot(i + 0) = i
  <2>1. i + 0 = i /\ i = SegMax * 0 + i /\ i \in Int /\ 0 \in Int
    BY <1>1
  <2> QED
    BY ONLY <1>1, <2>1, Remainder DEF Slot
<1>3. 1 \in S
  <2>1. \A j \in 0 .. 1 - 1 : b[Slot(i + j)].retry # 0
    BY <1>2
  <2> QED
    BY <1>1, <2>1
<1>4. S \in SUBSET (0 .. SegMax)
  OBVIOUS
<1> HIDE DEF S
<1> DEFINE m == Max(S)
<1>5. m \in S /\ \A k \in S : k <= m
  BY <1>1, <1>3, <1>4, GreatestOf
<1>6. m = InFlightFrom(b, i)
  BY DEF S, InFlightFrom
<1> HIDE DEF m
<1>7. m \in 0 .. SegMax /\ 1 <= m /\ \A j \in 0 .. m - 1 : b[Slot(i + j)].retry # 0
  BY <1>3, <1>5 DEF S
<1> QED
  BY <1>1, <1>6, <1>7

LEMMA DataTimersTouch ==
  ASSUME Types, Live, Window, NEW c \in TimerRecord, NEW d \in CheckDataTimers(c)
  PROVE  Touched(d) /\ d.probe = c.probe
<1> DEFINE i == Slot(snd.UNA)
           b == c.buf
           run == InFlightFrom(b, i)
           retry == b[i].retry
           due(late) == IF late /\ retry + run > MinDataRetries + 1
                        THEN Max({0, MinDataRetries + 1 - retry}) ELSE run
<1>1. /\ c.buf = buf /\ c.wire = wire /\ c.probe \in 0 .. Keepalives /\ c.failed \in BOOLEAN
      /\ c = [buf |-> buf, wire |-> wire, probe |-> c.probe, failed |-> c.failed]
  BY DEF TimerRecord
<1>2. buf \in [Slots -> Buffer] /\ snd.UNA \in Nat /\ i \in Slots /\ MinDataRetries \in Nat
  BY SlotType, ArdpSendAssumption DEF Types, SndType
<1>3. CASE d = c
  BY <1>1, <1>2, <1>3 DEF Touched
<1>4. ASSUME buf[i].retry # 0, d \in DataTimerHandler(c, i) PROVE Touched(d) /\ d.probe = c.probe
  <2>1. retry \in 1 .. MinDataRetries + 1
    BY <1>1, <1>2, <1>4 DEF Buffer
  <2>2. run \in 1 .. SegMax /\ \A j \in 0 .. run - 1 : b[Slot(i + j)].retry # 0
    BY <1>1, <1>2, <1>4, RunOfSegments
  <2>3. \A late \in BOOLEAN : due(late) \in 0 .. run
    <3> HIDE DEF run, retry
    <3> SUFFICES ASSUME retry + run > MinDataRetries + 1
                 PROVE  Max({0, MinDataRetries + 1 - retry}) \in 0 .. run
      <4>1. run \in 0 .. run
        BY <2>2
      <4> QED
        BY <4>1
    <3> DEFINE x == MinDataRetries + 1 - retry
    <3>1. x \in 0 .. run - 1
      BY <1>2, <2>1, <2>2
    <3> HIDE DEF x
    <3>2. run \in Nat /\ {0, x} \in SUBSET (0 .. run) /\ {0, x} # {}
      BY <2>2, <3>1
    <3>3. Max({0, x}) \in {0, x}
      BY ONLY <3>2, GreatestOf
    <3> QED
      BY <2>2, <3>1, <3>3 DEF x
  <2>4. PICK m \in UNION {IF "send" \in Faults THEN 0 .. due(late) ELSE {due(late)} : late \in BOOLEAN} :
          d = [c EXCEPT !.buf[i].retry = Capped(@ + m, MinDataRetries + 1),
                        !.wire = @ \cup {c.buf[Slot(i + j)].seq : j \in 0 .. m - 1},
                        !.failed = m < run]
    BY <1>4 DEF DataTimerHandler
  <2> HIDE DEF due, run, retry
  <2>5. m \in 0 .. run
    BY <2>2, <2>3, <2>4
  <2>6. /\ d.buf = [buf EXCEPT ![i].retry = Capped(buf[i].retry + m, MinDataRetries + 1)]
        /\ d.wire = wire \cup {buf[Slot(i + j)].seq : j \in 0 .. m - 1}
        /\ d.probe = c.probe /\ d.failed = (m < run)
    BY <1>1, <2>4
  <2>7. \A j \in 0 .. m - 1 : buf[Slot(i + j)].seq \in snd.UNA .. snd.NXT - 1
    <3> TAKE j \in 0 .. m - 1
    <3>1. i \in Int /\ j \in Int /\ j \in 0 .. run - 1
      BY <1>2, <2>2, <2>5, ArdpSendAssumption DEF Slots
    <3>2. Slot(i + j) \in Slots /\ buf[Slot(i + j)].retry # 0
      BY <1>1, <2>2, <3>1, SlotType
    <3> QED
      BY <3>2 DEF Window, Sent
  <2>8. Capped(buf[i].retry + m, MinDataRetries + 1) \in 1 .. MinDataRetries + 1
    BY <1>1, <1>2, <2>1, <2>2, <2>5 DEF Capped, retry
  <2>9. d.buf \in [Slots -> Buffer]
    BY <1>2, <2>6, <2>8 DEF Buffer
  <2>10. \A k \in Slots : /\ d.buf[k].seq = buf[k].seq /\ d.buf[k].inFlight = buf[k].inFlight
                          /\ d.buf[k].dataLen = buf[k].dataLen
                          /\ d.buf[k].retry = 0 <=> buf[k].retry = 0
    BY <1>2, <1>4, <2>6, <2>8 DEF Buffer
  <2> QED
    BY <1>1, <2>6, <2>7, <2>9, <2>10 DEF Touched
<1> QED
  BY <1>1, <1>3, <1>4 DEF CheckDataTimers

LEMMA TimersTouch ==
  ASSUME Types, Live, Window, NEW c \in CheckTimers(Now)
  PROVE  Touched(c)
<1>1. Now \in TimerRecord
  BY DEF Now, TimerRecord, Types
<1>2. \A d : Touched(d) => Touched([d EXCEPT !.failed = FALSE]) /\ Touched([d EXCEPT !.failed = TRUE])
  BY DEF Touched
<1>3. Touched(Now)
  BY DEF Touched, Now, Types
<1>m. ASSUME NEW d, Touched(d), NEW e \in Masked(d) PROVE Touched(e)
  <2>1. SendOutcomes \subseteq BOOLEAN
    BY DEF SendOutcomes
  <2>2. PICK ok \in BOOLEAN : e = d \/ e = [d EXCEPT !.failed = ~ok]
    BY <1>m, <2>1 DEF Masked
  <2>3. CASE ok
    BY <1>m, <1>2, <2>2, <2>3
  <2>4. CASE ~ok
    BY <1>m, <1>2, <2>2, <2>4
  <2> QED
    BY <2>3, <2>4
<1>4. CASE c \in UNION {Masked(d) : d \in CheckDataTimers(Now)}
  BY <1>1, <1>m, <1>4, DataTimersTouch
<1>5. CASE Now.probe = 0 /\ c = [Now EXCEPT !.failed = TRUE]
  BY <1>2, <1>3, <1>5
<1>6. ASSUME Now.probe # 0, NEW d \in CheckDataTimers([Now EXCEPT !.probe = @ - 1]),
             c \in Masked(d)
      PROVE  Touched(c)
  <2>1. [Now EXCEPT !.probe = @ - 1] \in TimerRecord
    <3>1. probeTimer \in 0 .. Keepalives /\ probeTimer # 0
      BY <1>6 DEF Now, Types
    <3>2. probeTimer - 1 \in 0 .. Keepalives
      BY <3>1, ArdpSendAssumption
    <3> QED
      BY <3>2 DEF Now, TimerRecord
  <2>2. Touched(d)
    BY <1>6, <2>1, DataTimersTouch
  <2> QED
    BY <1>m, <1>6, <2>2
<1>7. CASE Now.probe # 0 /\ c \in UNION {Masked(d) : d \in CheckDataTimers([Now EXCEPT !.probe = @ - 1])}
  BY <1>6, <1>7
<1> QED
  BY <1>4, <1>5, <1>7 DEF CheckTimers, Masked

\* The timers keep the window, the account of the message and what is under way.
LEMMA TouchedKeepsWindow ==
  ASSUME Types, Live, Window, NEW c, Touched(c)
  PROVE  Sent(snd, c.buf, Told) /\ \A told : told # "OK" => Sent(snd, c.buf, told)
<1>1. /\ 1 <= snd.UNA /\ snd.pending = snd.NXT - snd.UNA
      /\ \A n \in snd.UNA .. snd.NXT - 1 : buf[Slot(n)].retry # 0
      /\ \A i \in Slots :
           /\ buf[i].retry # 0 =>
                buf[i].inFlight /\ buf[i].seq \in snd.UNA .. snd.NXT - 1 /\ Slot(buf[i].seq) = i
           /\ buf[i].inFlight /\ buf[i].retry = 0 =>
                Told # "OK" /\ buf[i].seq = snd.NXT /\ i = Slot(snd.NXT)
  BY DEF Window, Sent
<1>2. \A i \in Slots : /\ c.buf[i].seq = buf[i].seq /\ c.buf[i].inFlight = buf[i].inFlight
                       /\ c.buf[i].retry = 0 <=> buf[i].retry = 0
  BY DEF Touched
<1>3. \A n \in snd.UNA .. snd.NXT - 1 : Slot(n) \in Slots
  BY SlotType DEF Types, SndType
<1> QED
  BY <1>1, <1>2, <1>3 DEF Sent

LEMMA NextSlot == Types => snd.NXT \in Nat /\ Slot(snd.NXT) \in Slots
BY SlotType DEF Types, SndType

LEMMA TouchedKeepsAccount ==
  ASSUME Types, Whole, state = "OPEN", status = "OK", ~resumed, NEW c, Touched(c)
  PROVE  Accounted(snd, c.buf, left) /\ Accounted(Announced, c.buf, left)
<1>1. Waiting(snd, c.buf) = Waiting(snd, buf) /\ Waiting(Announced, c.buf) = Waiting(snd, buf)
  BY NextSlot DEF Touched, Waiting, Announced, Types, SndType
<1>2. Accounted(snd, c.buf, left)
  BY <1>1, NextSlot DEF Touched, Accounted, Whole
<1>3. CASE ~snd.newMsg
  BY <1>2, <1>3 DEF Announced
<1>4. CASE snd.newMsg
  <2>1. /\ Announced.NXT = snd.NXT /\ ~Announced.newMsg /\ Announced.msgTotal = left
        /\ Announced.msgSent = snd.msgSent
    BY <1>4 DEF Announced, Types, SndType
  <2>2. snd.msgSent = 0 /\ Waiting(snd, buf) = 0 /\ left \in Nat
    BY <1>4 DEF Whole, Accounted, Types
  <2> QED
    BY <1>1, <1>2, <2>1, <2>2 DEF Accounted
<1> QED
  BY <1>2, <1>3, <1>4

LEMMA TouchedStaysWithin ==
  ASSUME Types, PeerInv, PeerWindow, Live, Window, NEW c, Touched(c)
  PROVE  /\ c.wire \subseteq 1 .. snd.NXT - 1
         /\ ~overtaken => \A n \in c.wire : n <= rcvLcs + SegMax
<1>1. /\ snd.UNA \in Nat /\ snd.NXT \in Nat /\ 1 <= snd.UNA /\ snd.LCS \in Nat
      /\ rcvLcs \in Int /\ SegMax \in Nat
  BY ArdpSendAssumption DEF Types, SndType, Window, Sent
<1>2. wire \subseteq 1 .. snd.NXT - 1
  BY DEF PeerInv
<1>3. c.wire \subseteq 1 .. snd.NXT - 1
  <2>1. c.wire \subseteq wire \cup (snd.UNA .. snd.NXT - 1)
    BY DEF Touched
  <2>2. snd.UNA .. snd.NXT - 1 \subseteq 1 .. snd.NXT - 1
    BY <1>1
  <2> QED
    BY <1>2, <2>1, <2>2
<1>4. ASSUME ~overtaken, NEW n \in c.wire PROVE n <= rcvLcs + SegMax
  <2>1. snd.NXT <= snd.LCS + SegMax + 1 /\ snd.LCS <= rcvLcs /\ \A m \in wire : m <= rcvLcs + SegMax
    BY <1>4 DEF PeerWindow, Consumed, WithinPeerWindow
  <2> QED
    BY <1>1, <1>4, <2>1 DEF Touched
<1> QED
  BY <1>3, <1>4

-----------------------------------------------------------------------------
(* The handshake *)

LEMMA InitIInv == Init => IInv
<1> SUFFICES ASSUME Init PROVE IInv
  OBVIOUS
<1> USE DEF Init
<1>1. Types
  <2>1. snd \in SndType
    BY ArdpSendAssumption DEF SndType
  <2>2. Empty \in Buffer
    BY ArdpSendAssumption DEF Buffer, Empty
  <2>3. buf \in [Slots -> Buffer]
    BY <2>2
  <2>4. resumed \in BOOLEAN /\ overtaken \in BOOLEAN
    OBVIOUS
  <2>5. 0 \in 0 .. ConnectRetries /\ 0 \in 0 .. Keepalives /\ 0 \in 0 .. Patience - 1
    BY ArdpSendAssumption
  <2>6. acks \in Seq(Ack)
    OBVIOUS
  <2> QED
    BY <2>1, <2>3, <2>4, <2>5, <2>6 DEF Types
<1>2. Beginning
  BY DEF Beginning, Empty
<1>3. PeerInv
  <2>1. snd.UNA = 0 /\ snd.NXT = 1 /\ snd.LCS = 0 /\ DOMAIN acks = {} /\ ~Live
    BY DEF Live
  <2> QED
    BY <2>1 DEF PeerInv
<1>4. Window /\ Whole /\ Held /\ CallerInv
  BY DEF Window, Whole, Held, CallerInv, Live
<1>5. PeerWindow
  BY ArdpSendAssumption DEF PeerWindow, Consumed, WithinPeerWindow, Live
<1> QED
  BY <1>1, <1>2, <1>3, <1>4, <1>5 DEF IInv

LEMMA ConnectStep == IInv /\ Connect => IInv'
<1> SUFFICES ASSUME IInv, Connect PROVE IInv'
  OBVIOUS
<1> USE DEF Connect, IInv, caller, peer
<1>1. Types'
  <2>1. buf' \in [Slots -> Buffer]
    BY DEF Types, Buffer
  <2> QED
    BY <2>1, ArdpSendAssumption DEF Types
<1>2. Beginning'
  <2>1. \A i \in Slots : /\ buf'[i].retry = 0 /\ buf'[i].dataLen = 0
                         /\ i # 0 => ~buf'[i].inFlight
    BY DEF Types, Buffer, Beginning, Unused
  <2> QED
    BY <2>1 DEF Beginning, Unused
<1>3. PeerInv'
  BY DEF PeerInv, Live
<1>4. Window' /\ Whole' /\ Held' /\ CallerInv'
  BY DEF Window, Told, Whole, Held, CallerInv, Live
<1>5. PeerWindow'
  BY DEF PeerWindow, Consumed, WithinPeerWindow, Live
<1> QED
  BY <1>1, <1>2, <1>3, <1>4, <1>5

LEMMA ConnectTimerStep == IInv /\ ConnectTimer => IInv'
<1> SUFFICES ASSUME IInv, ConnectTimer PROVE IInv'
  OBVIOUS
<1> USE DEF ConnectTimer, IInv, caller, peer
<1>1. Types'
  BY ArdpSendAssumption DEF Types
<1>2. Beginning'
  BY DEF Beginning, Unused
<1>3. PeerInv'
  BY DEF PeerInv, Live
<1>4. Window' /\ Whole' /\ Held' /\ CallerInv'
  BY DEF Window, Told, Whole, Held, CallerInv, Live
<1>5. PeerWindow'
  BY DEF PeerWindow, Consumed, WithinPeerWindow, Live
<1> QED
  BY <1>1, <1>2, <1>3, <1>4, <1>5

LEMMA PeerAnswersStep == IInv /\ PeerAnswers => IInv'
<1> SUFFICES ASSUME IInv, PeerAnswers PROVE IInv'
  OBVIOUS
<1> USE DEF PeerAnswers, IInv, caller, peer, timers
<1>1. Types'
  BY DEF Types
<1>2. Beginning'
  BY DEF Beginning, Unused
<1>3. PeerInv'
  BY DEF PeerInv, Live, Beginning, Unused
<1>4. Window' /\ Whole' /\ Held' /\ CallerInv'
  BY DEF Window, Told, Whole, Held, CallerInv, Live
<1>5. PeerWindow'
  BY DEF PeerWindow, Consumed, WithinPeerWindow, Live, Beginning, Unused
<1> QED
  BY <1>1, <1>2, <1>3, <1>4, <1>5

LEMMA RecvSynAckStep == IInv /\ RecvSynAck => IInv'
<1> SUFFICES ASSUME IInv, RecvSynAck PROVE IInv'
  OBVIOUS
<1>0. /\ Types
      /\ state' \in {"OPEN", "NULL"} /\ status' \in {"OK", "READ"} /\ probeTimer' \in {probeTimer, Keepalives}
      /\ snd' = snd \/ snd' = [snd EXCEPT !.UNA = 1]
      /\ buf' = buf \/ buf' = [buf EXCEPT ![0].inFlight = FALSE]
      /\ connectTimer' = 0 /\ UNCHANGED <<caller, acks, peer, history>>
  BY DEF RecvSynAck, IInv
<1>1. Types'
  <2>1. snd' \in SndType
    <3>1. snd \in SndType
      BY <1>0 DEF Types
    <3>2. [snd EXCEPT !.UNA = 1] \in SndType
      BY <3>1 DEF SndType
    <3> QED
      BY <1>0, <3>1, <3>2
  <2>2. buf' \in [Slots -> Buffer]
    <3>1. buf \in [Slots -> Buffer]
      BY <1>0 DEF Types
    <3>2. \A b \in Buffer : [b EXCEPT !.inFlight = FALSE] \in Buffer
      BY DEF Buffer
    <3>3. [buf EXCEPT ![0].inFlight = FALSE] \in [Slots -> Buffer]
      BY <3>1, <3>2
    <3> QED
      BY <1>0, <3>1, <3>3
  <2>3. connectTimer' \in 0 .. ConnectRetries /\ probeTimer' \in 0 .. Keepalives
    BY <1>0, ArdpSendAssumption DEF Types
  <2> QED
    BY <1>0, <2>1, <2>2, <2>3 DEF Types, caller, peer
<1> USE DEF RecvSynAck, IInv, caller, peer
<1>2. Beginning'
  BY DEF Beginning, Unused
<1>3. PeerInv'
  <2>1. snd' = snd \/ snd' = [snd EXCEPT !.UNA = 1]
    OBVIOUS
  <2>2. snd'.NXT = 1 /\ snd'.UNA <= 1 /\ snd'.LCS = 0
    BY <2>1 DEF Beginning, Unused, Types, SndType
  <2> QED
    BY <2>2 DEF PeerInv, Live, Beginning, Unused
<1>4. CASE state' = "NULL"
  <2>1. Window' /\ Whole' /\ Held' /\ CallerInv'
    BY <1>4 DEF Window, Told, Whole, Held, CallerInv, Live
  <2>2. PeerWindow'
    <3>1. snd'.NXT = snd.NXT /\ snd'.LCS = snd.LCS
      BY DEF Types, SndType
    <3> QED
      BY <1>4, <3>1 DEF PeerWindow, Consumed, WithinPeerWindow, Live
  <2> QED
    BY <1>1, <1>2, <1>3, <2>1, <2>2
<1>5. CASE state' = "OPEN"
  <2>1. /\ status' = "OK" /\ snd' = [snd EXCEPT !.UNA = 1] /\ buf' = [buf EXCEPT ![0].inFlight = FALSE]
    BY <1>5
  <2>2. /\ snd'.NXT = 1 /\ snd'.UNA = 1 /\ snd'.LCS = 0 /\ snd'.pending = 0 /\ ~snd'.newMsg
        /\ snd'.msgTotal = 0 /\ snd'.msgSent = 0 /\ left' = 0
    BY <2>1 DEF Beginning, Unused, Types, SndType
  <2>3. \A i \in Slots : buf'[i].retry = 0 /\ buf'[i].dataLen = 0 /\ ~buf'[i].inFlight
    BY <2>1 DEF Beginning, Unused, Types, Buffer
  <2>4. Window' /\ Held'
    BY <2>1, <2>2, <2>3 DEF Window, Sent, Held
  <2>5. Whole'
    <3>1. Slot(1) \in Slots
      BY SlotType
    <3>2. Waiting(snd', buf') = 0
      BY <2>2, <2>3, <3>1 DEF Waiting
    <3>3. Accounted(snd', buf', left')
      BY <2>2, <2>3, <3>2 DEF Accounted
    <3> QED
      BY <3>3 DEF Whole
  <2>6. CallerInv'
    BY <2>1, <2>2 DEF CallerInv, Live
  <2>7. PeerWindow'
    BY <2>2, ArdpSendAssumption DEF PeerWindow, Consumed, WithinPeerWindow, Beginning, Unused
  <2> QED
    BY <1>1, <1>2, <1>3, <2>4, <2>5, <2>6, <2>7
<1> QED
  BY <1>4, <1>5

-----------------------------------------------------------------------------
(* Receiving *)

LEMMA ListeningLive == Listening => Live /\ phase # "again"
BY DEF Listening, Live

\* An error is told, and ends the wait.
LEMMA Reported ==
  ASSUME Types, CallerInv, Live, phase # "again", NEW failed \in BOOLEAN, Report(failed)
  PROVE  /\ status' \in {"OK", "READ", "WRITE"} /\ phase' \in {"idle", "wait", "again"}
         /\ left' = left /\ call' = call /\ tries' = tries
         /\ status' \in {status, "READ", "WRITE"}
         /\ failed => status' # "OK" /\ phase' = "idle"
         /\ ~failed => status' = status
         /\ phase' # "idle" => phase # "idle"
<1>1. status \in {"OK", "READ", "WRITE"} /\ phase \in {"idle", "wait", "again"}
  BY DEF Types, CallerInv
<1>2. phase # "idle" => status = "OK"
  BY DEF CallerInv
<1>3. CASE phase = "wait"
  BY <1>1, <1>2, <1>3 DEF Report
<1>4. CASE phase # "wait"
  <2>1. status' = (IF failed THEN "READ" ELSE status) /\ UNCHANGED caller
    BY <1>4 DEF Report
  <2> QED
    BY <1>1, <1>2, <1>4, <2>1 DEF caller
<1> QED
  BY <1>3, <1>4

\* The sending half survives its timers.
LEMMA RetimedKeeps ==
  ASSUME IInv, Live, NEW c, Touched(c), Timed(c), UNCHANGED <<snd, left, peer>>,
         status' \in {status, "READ", "WRITE"}, status' \in {"OK", "READ", "WRITE"},
         state' \in {state, "NULL"}, UNCHANGED <<asserts, resumed>>
  PROVE  Beginning' /\ Window' /\ Whole' /\ Held'
<1> USE DEF IInv, Timed, peer
<1>1. Beginning'
  BY DEF Beginning, Unused, Live
<1>2. Window'
  <2>1. Told' = Told \/ Told' # "OK"
    BY DEF Told
  <2> QED
    BY <2>1, TouchedKeepsWindow DEF Window, Live
<1>3. Whole' /\ Held'
  BY TouchedKeepsAccount DEF Whole, Held
<1> QED
  BY <1>1, <1>2, <1>3

LEMMA RecvNothingStep == IInv /\ RecvNothing => IInv'
<1> SUFFICES ASSUME IInv, RecvNothing PROVE IInv'
  OBVIOUS
<1> USE DEF IInv
<1>1. Live /\ phase # "again"
  BY ListeningLive DEF RecvNothing
<1>2. PICK c \in CheckTimers(Now) :
       /\ Timed(c) /\ Report(c.failed)
       /\ IF c.failed /\ state = "CLOSE_WAIT" THEN Gone
          ELSE probeTimer' = c.probe /\ UNCHANGED state
  BY DEF RecvNothing
<1>3. UNCHANGED <<snd, connectTimer, acks, peer, history>>
  BY DEF RecvNothing
<1>4. Touched(c)
  BY <1>1, TimersTouch
<1>5. c.failed \in BOOLEAN /\ c.buf \in [Slots -> Buffer] /\ c.probe \in 0 .. Keepalives
  BY <1>4 DEF Touched
<1>6. /\ status' \in {"OK", "READ", "WRITE"} /\ phase' \in {"idle", "wait", "again"}
      /\ left' = left /\ call' = call /\ tries' = tries
      /\ status' \in {status, "READ", "WRITE"}
      /\ c.failed => status' # "OK" /\ phase' = "idle"
      /\ ~c.failed => status' = status
      /\ phase' # "idle" => phase # "idle"
  BY <1>1, <1>2, <1>5, Reported
<1>7. state' \in {state, "NULL"} /\ probeTimer' \in 0 .. Keepalives /\ (~c.failed => state' = state)
  BY <1>2, <1>5, ArdpSendAssumption DEF Gone
<1>8. Beginning' /\ Window' /\ Whole' /\ Held'
  BY <1>1, <1>2, <1>3, <1>4, <1>6, <1>7, RetimedKeeps
<1>9. Types'
  BY <1>2, <1>3, <1>5, <1>6, <1>7 DEF Types, Timed, peer
<1>10. c.wire \subseteq 1 .. snd.NXT - 1 /\ (~overtaken => \A n \in c.wire : n <= rcvLcs + SegMax)
  BY <1>1, <1>4, TouchedStaysWithin
<1>11. PeerInv'
  BY <1>1, <1>2, <1>3, <1>7, <1>10 DEF PeerInv, Timed, peer, Live
<1>12. CallerInv'
  BY <1>1, <1>6, <1>7 DEF CallerInv, Live
<1>13. PeerWindow'
  BY <1>1, <1>2, <1>3, <1>7, <1>10 DEF PeerWindow, Consumed, WithinPeerWindow, Timed, peer, Live
<1> QED
  BY <1>8, <1>9, <1>11, <1>12, <1>13

LEMMA RecvResetStep == IInv /\ RecvReset => IInv'
<1> SUFFICES ASSUME IInv, RecvReset PROVE IInv'
  OBVIOUS
<1> USE DEF IInv, RecvReset, peer
<1>1. Live /\ phase # "again" /\ state' = "NULL" /\ probeTimer' = 0
  BY ListeningLive DEF Gone
<1>2. status' \in {"OK", "READ", "WRITE"} /\ phase' = "idle" /\ UNCHANGED <<left, call, tries>>
  BY <1>1, Reported
<1>3. Types'
  BY <1>1, <1>2, ArdpSendAssumption DEF Types
<1>4. Beginning' /\ Window' /\ Whole' /\ Held' /\ CallerInv'
  BY <1>1, <1>2 DEF Beginning, Unused, Window, Whole, Held, CallerInv, Live
<1>5. PeerInv'
  BY <1>1 DEF PeerInv, Live
<1>6. PeerWindow'
  BY <1>1 DEF PeerWindow, Consumed, WithinPeerWindow, Live
<1> QED
  BY <1>3, <1>4, <1>5, <1>6

\* What an acknowledgement acknowledges are the slots from UNA to it, one each.
LEMMA AcknowledgedSlots ==
  ASSUME Types, NEW b \in [Slots -> Buffer], NEW told, Sent(snd, b, told),
         NEW ack \in Nat, ack < snd.NXT
  PROVE  /\ Acknowledged(b, ack) = {Slot(n) : n \in snd.UNA .. ack}
         /\ Cardinality(Acknowledged(b, ack)) = IF snd.UNA > ack THEN 0 ELSE ack - snd.UNA + 1
<1>1. /\ snd.UNA \in Nat /\ snd.NXT \in Nat /\ SegMax \in Nat /\ snd.pending <= SegMax
      /\ snd.pending = snd.NXT - snd.UNA
  BY ArdpSendAssumption DEF Types, SndType, Sent
<1>2. ASSUME NEW i \in Acknowledged(b, ack) PROVE i \in {Slot(n) : n \in snd.UNA .. ack}
  <2>1. i \in Slots /\ b[i].inFlight /\ b[i].seq <= ack /\ b[i].seq \in Nat
    BY <1>2 DEF Acknowledged, Buffer
  <2>2. b[i].retry # 0
    BY <1>1, <2>1 DEF Sent
  <2>3. b[i].seq \in snd.UNA .. ack /\ Slot(b[i].seq) = i
    BY <1>1, <2>1, <2>2 DEF Sent
  <2> QED
    BY <2>3
<1>3. ASSUME NEW n \in snd.UNA .. ack PROVE Slot(n) \in Acknowledged(b, ack)
  <2>1. n \in snd.UNA .. snd.NXT - 1 /\ n \in Int
    BY <1>1
  <2>2. Slot(n) \in Slots /\ b[Slot(n)].retry # 0
    BY <2>1, SlotType DEF Sent
  <2>3. b[Slot(n)].inFlight /\ b[Slot(n)].seq \in snd.UNA .. snd.NXT - 1 /\ Slot(b[Slot(n)].seq) = Slot(n)
    BY <2>2 DEF Sent
  <2> DEFINE m == b[Slot(n)].seq
  <2>4. m \in Int /\ Slot(m) = Slot(n) /\ m - n < SegMax /\ n - m < SegMax
    BY <1>1, <2>1, <2>3
  <2> HIDE DEF m
  <2>5. m = n
    BY <2>1, <2>4, SameSlot
  <2> QED
    BY <1>1, <2>2, <2>3, <2>5 DEF Acknowledged, m
<1>4. Acknowledged(b, ack) = {Slot(n) : n \in snd.UNA .. ack}
  <2>1. Acknowledged(b, ack) \subseteq {Slot(n) : n \in snd.UNA .. ack}
    BY <1>2
  <2>2. {Slot(n) : n \in snd.UNA .. ack} \subseteq Acknowledged(b, ack)
    BY <1>3
  <2> QED
    BY <2>1, <2>2
<1>5. CASE snd.UNA <= ack
  <2>1. ack \in Int /\ snd.UNA \in Int /\ ack - snd.UNA < SegMax
    BY <1>1
  <2> QED
    BY <1>4, <2>1, SlotsOf
<1>6. CASE snd.UNA > ack
  <2>1. ack \in Int /\ snd.UNA \in Int /\ ack - snd.UNA < SegMax
    BY <1>1, <1>6
  <2> QED
    BY <1>4, <2>1, SlotsOf
<1> QED
  BY <1>1, <1>5, <1>6

\* snd after an acknowledgement.
AfterAck(b, ack, lcs) ==
  [snd EXCEPT !.UNA = IF InRange(ack) THEN ack + 1 ELSE @,
              !.pending = @ - (IF InRange(ack) /\ snd.pending # 0
                               THEN Cardinality(Acknowledged(b, ack)) ELSE 0),
              !.LCS = lcs]

\* What is left after it, in the buffers and in the window.
LEMMA ReleasedWindow ==
  ASSUME Types, NEW b \in [Slots -> Buffer], Sent(snd, b, Told),
         NEW ack \in Nat, ack < snd.NXT, NEW lcs \in Nat, NEW s,
         s = AfterAck(b, ack, lcs)
  PROVE  /\ s \in SndType /\ s.UNA <= s.NXT /\ s.NXT = snd.NXT /\ s.newMsg = snd.newMsg
         /\ s.msgTotal = snd.msgTotal /\ s.msgSent = snd.msgSent
         /\ Released(b, ack) \in [Slots -> Buffer]
         /\ Sent(s, Released(b, ack), Told)
<1>1. /\ snd.UNA \in Nat /\ snd.NXT \in Nat /\ SegMax \in Nat /\ snd.pending \in 0 .. SegMax
      /\ snd.pending = snd.NXT - snd.UNA /\ 1 <= snd.UNA /\ snd \in SndType
  <2>1. snd \in SndType /\ SegMax \in Nat
    BY ArdpSendAssumption DEF Types
  <2>2. snd.pending = snd.NXT - snd.UNA /\ 1 <= snd.UNA
    BY DEF Sent
  <2> QED
    BY <2>1, <2>2 DEF SndType
<1> DEFINE freed == IF InRange(ack) /\ snd.pending # 0 THEN Cardinality(Acknowledged(b, ack)) ELSE 0
<1>0. s.UNA = (IF InRange(ack) THEN ack + 1 ELSE snd.UNA) /\ s.pending = snd.pending - freed /\ s.LCS = lcs
  BY <1>1 DEF SndType, AfterAck
<1>s. s \in SndType <=> s.UNA \in Nat /\ s.pending \in 0 .. SegMax
  BY <1>1, <1>0 DEF SndType, AfterAck
<1>2. s.NXT = snd.NXT /\ s.newMsg = snd.newMsg /\ s.msgTotal = snd.msgTotal /\ s.msgSent = snd.msgSent
  BY <1>1 DEF SndType, AfterAck
<1>3. CASE ~InRange(ack)
  <2>1. s.UNA = snd.UNA /\ s.pending = snd.pending
    BY <1>0, <1>1, <1>3
  <2>2. Released(b, ack) = b
    BY <1>3 DEF Released
  <2>3. s \in SndType
    BY <1>1, <1>s, <2>1
  <2> QED
    BY <1>1, <1>2, <2>1, <2>2, <2>3 DEF Sent
<1>4. CASE InRange(ack)
  <2>1. snd.UNA <= ack /\ snd.pending # 0
    BY <1>1, <1>4 DEF InRange
  <2>2. Cardinality(Acknowledged(b, ack)) = ack - snd.UNA + 1
    BY <1>1, <2>1, AcknowledgedSlots
  <2>3. s.UNA = ack + 1 /\ s.pending = snd.NXT - (ack + 1)
    BY <1>0, <1>1, <1>4, <2>1, <2>2
  <2>4. s \in SndType
    <3>1. s.UNA \in Nat /\ s.pending \in 0 .. SegMax
      BY <1>1, <2>1, <2>3
    <3> QED
      BY <1>s, <3>1
  <2> DEFINE r == Released(b, ack)
  <2>5. \A i \in Slots : r[i] = IF b[i].inFlight /\ b[i].seq <= ack
                               THEN [b[i] EXCEPT !.inFlight = FALSE, !.retry = 0, !.dataLen = 0]
                               ELSE b[i]
    BY <1>4, <2>1 DEF Released, Acknowledged
  <2>6. r \in [Slots -> Buffer]
    <3>1. ASSUME NEW i \in Slots PROVE r[i] \in Buffer
      <4>1. b[i] \in Buffer /\ MinDataRetries \in Nat /\ MaxDlen \in Nat
        BY ArdpSendAssumption
      <4>2. [b[i] EXCEPT !.inFlight = FALSE, !.retry = 0, !.dataLen = 0] \in Buffer
        <5>1. 0 \in 0 .. MinDataRetries + 1 /\ 0 \in 0 .. MaxDlen
          BY <4>1
        <5> QED
          BY <4>1, <5>1 DEF Buffer
      <4> HIDE DEF r
      <4> QED
        BY <2>5, <4>1, <4>2
    <3>2. r = [i \in Slots |-> r[i]]
      BY DEF Released
    <3> QED
      BY <3>1, <3>2
  <2> HIDE DEF r
  <2>7. ASSUME NEW n \in s.UNA .. s.NXT - 1 PROVE r[Slot(n)].retry # 0
    <3>1. n \in snd.UNA .. snd.NXT - 1 /\ n > ack /\ n \in Int
      BY <1>1, <1>2, <2>1, <2>3
    <3>2. Slot(n) \in Slots /\ b[Slot(n)].retry # 0
      BY <3>1, SlotType DEF Sent
    <3> DEFINE m == b[Slot(n)].seq
    <3>3. m \in snd.UNA .. snd.NXT - 1 /\ Slot(m) = Slot(n)
      BY <3>2 DEF Sent
    <3>4. m \in Int /\ m - n < SegMax /\ n - m < SegMax
      BY <1>1, <3>1, <3>3
    <3> HIDE DEF m
    <3>5. m = n
      BY <3>1, <3>3, <3>4, SameSlot
    <3>6. ~(b[Slot(n)].seq <= ack)
      BY <3>1, <3>5 DEF m
    <3>7. r[Slot(n)] = b[Slot(n)]
      BY <2>5, <3>2, <3>6
    <3> QED
      BY <3>2, <3>7
  <2>8. ASSUME NEW i \in Slots
        PROVE  /\ r[i].retry # 0 =>
                    r[i].inFlight /\ r[i].seq \in s.UNA .. s.NXT - 1 /\ Slot(r[i].seq) = i
               /\ r[i].inFlight /\ r[i].retry = 0 =>
                    Told # "OK" /\ r[i].seq = s.NXT /\ i = Slot(s.NXT)
    <3>1. b[i] \in Buffer
      OBVIOUS
    <3>2. CASE b[i].inFlight /\ b[i].seq <= ack
      BY <2>5, <3>1, <3>2 DEF Buffer
    <3>3. CASE ~(b[i].inFlight /\ b[i].seq <= ack)
      <4>1. r[i] = b[i]
        BY <2>5, <3>3
      <4> QED
        BY <1>1, <1>2, <2>1, <2>3, <3>3, <4>1 DEF Sent
    <3> QED
      BY <3>2, <3>3
  <2>9. Sent(s, r, Told)
    BY <1>1, <1>2, <2>1, <2>3, <2>7, <2>8 DEF Sent
  <2> QED
    BY <1>1, <1>2, <2>1, <2>3, <2>4, <2>6, <2>9 DEF r, InRange
<1> QED
  BY <1>3, <1>4

\* An acknowledgement empties the buffers it frees.
LEMMA ReleasedAccount ==
  ASSUME Types, NEW b \in [Slots -> Buffer], Accounted(snd, b, left), NEW ack \in Nat, NEW s,
         s.NXT = snd.NXT, s.newMsg = snd.newMsg, s.msgTotal = snd.msgTotal, s.msgSent = snd.msgSent
  PROVE  Accounted(s, Released(b, ack), left)
<1> DEFINE r == Released(b, ack)
<1>1. \A i \in Slots : \/ r[i] = b[i]
                       \/ b[i].inFlight /\ ~r[i].inFlight /\ r[i].dataLen = 0
  BY DEF Released, Acknowledged, Buffer
<1>2. Slot(snd.NXT) \in Slots
  BY NextSlot
<1> HIDE DEF r
<1>3. Waiting(s, r) = Waiting(snd, b)
  BY <1>1, <1>2 DEF Waiting
<1>4. \A i \in Slots : ~r[i].inFlight /\ i # Slot(s.NXT) => r[i].dataLen = 0
  BY <1>1 DEF Accounted
<1> QED
  BY <1>3, <1>4 DEF Accounted, r

\* What is left of a sequence without one of its elements.
LEMMA RemoveAtIs ==
  ASSUME NEW T, NEW q \in Seq(T), NEW k \in DOMAIN q
  PROVE  /\ RemoveAt(q, k) \in Seq(T) /\ Len(RemoveAt(q, k)) = Len(q) - 1
         /\ \A j \in 1 .. Len(q) - 1 : RemoveAt(q, k)[j] = IF j < k THEN q[j] ELSE q[j + 1]
<1>1. k \in 1 .. Len(q) /\ Len(q) \in Nat
  OBVIOUS
<1> DEFINE u == SubSeq(q, 1, k - 1)
           v == SubSeq(q, k + 1, Len(q))
<1>2. u \in Seq(T) /\ Len(u) = k - 1 /\ \A j \in 1 .. k - 1 : u[j] = q[j]
  <2>1. 1 \in 1 .. Len(q) + 1 /\ k - 1 \in 0 .. Len(q)
    BY <1>1
  <2> QED
    BY <1>1, <2>1, SubSeqProperties
<1>3. v \in Seq(T) /\ Len(v) = Len(q) - k /\ \A j \in 1 .. Len(q) - k : v[j] = q[k + j]
  <2>1. k + 1 \in 1 .. Len(q) + 1 /\ Len(q) \in k + 1 - 1 .. Len(q)
    BY <1>1
  <2> QED
    BY <1>1, <2>1, SubSeqProperties
<1>4. RemoveAt(q, k) = u \o v
  BY DEF RemoveAt
<1> DEFINE w == u \o v
<1> HIDE DEF u, v
<1>5. /\ w \in Seq(T) /\ Len(w) = Len(u) + Len(v)
      /\ \A j \in 1 .. Len(u) + Len(v) : w[j] = IF j <= Len(u) THEN u[j] ELSE v[j - Len(u)]
  BY <1>2, <1>3, ConcatProperties
<1> HIDE DEF w
<1>6. ASSUME NEW j \in 1 .. Len(q) - 1 PROVE w[j] = IF j < k THEN q[j] ELSE q[j + 1]
  <2>1. CASE j < k
    <3>1. j \in 1 .. k - 1 /\ j \in 1 .. (k - 1) + (Len(q) - k) /\ j <= k - 1
      BY <1>1, <2>1
    <3>2. w[j] = u[j]
      BY <1>2, <1>3, <1>5, <3>1
    <3>3. u[j] = q[j]
      BY <1>2, <3>1
    <3> QED
      BY <2>1, <3>2, <3>3
  <2>2. CASE ~(j < k)
    <3>1. j - (k - 1) \in 1 .. Len(q) - k /\ k + (j - (k - 1)) = j + 1 /\ ~(j <= k - 1)
          /\ j \in 1 .. (k - 1) + (Len(q) - k)
      BY <1>1, <2>2
    <3>2. w[j] = v[j - (k - 1)]
      BY <1>2, <1>3, <1>5, <3>1
    <3>3. v[j - (k - 1)] = q[j + 1]
      BY <1>3, <3>1
    <3> QED
      BY <2>2, <3>2, <3>3
  <2> QED
    BY <2>1, <2>2
<1>7. Len(w) = Len(q) - 1
  BY <1>1, <1>2, <1>3, <1>5
<1> QED
  BY <1>4, <1>5, <1>6, <1>7 DEF w

LEMMA RecvAckStep == IInv /\ (\E k \in Arriving : RecvAck(k)) => IInv'
<1> SUFFICES ASSUME IInv, NEW k \in Arriving, RecvAck(k) PROVE IInv'
  OBVIOUS
<1> USE DEF IInv
<1> DEFINE ack == acks[k].ack
           lcs == acks[k].lcs
           freed(c) == IF InRange(ack) /\ snd.pending # 0 THEN Cardinality(Acknowledged(c.buf, ack)) ELSE 0
<1>1. Live /\ phase # "again"
  BY ListeningLive DEF RecvAck
<1>2. /\ UNCHANGED <<connectTimer, peer, asserts, resumed>> /\ acks' = RemoveAt(acks, k)
      /\ overtaken' = (overtaken \/ k # 1)
  BY DEF RecvAck
<1>3. PICK c \in CheckTimers(Now) :
        IF c.failed
        THEN /\ Timed(c) /\ Report(TRUE)
             /\ IF state = "CLOSE_WAIT" THEN Gone ELSE probeTimer' = c.probe /\ UNCHANGED state
             /\ UNCHANGED snd
        ELSE /\ wire' = c.wire
             /\ buf' = Released(c.buf, ack)
             /\ snd' = [snd EXCEPT !.UNA = IF InRange(ack) THEN ack + 1 ELSE @,
                                   !.pending = @ - freed(c), !.LCS = lcs]
             /\ IF state = "OPEN"
                THEN probeTimer' = Keepalives /\ Report(FALSE) /\ UNCHANGED state
                ELSE /\ IF snd'.pending = 0 THEN Gone ELSE probeTimer' = c.probe /\ UNCHANGED state
                     /\ UNCHANGED <<status, caller>>
  BY DEF RecvAck
<1>4. Touched(c) /\ c.failed \in BOOLEAN /\ c.buf \in [Slots -> Buffer] /\ c.probe \in 0 .. Keepalives
  BY <1>1, TimersTouch DEF Touched
<1>5. c.wire \subseteq 1 .. snd.NXT - 1 /\ (~overtaken => \A n \in c.wire : n <= rcvLcs + SegMax)
  BY <1>1, <1>4, TouchedStaysWithin
<1>6. /\ acks \in Seq(Ack) /\ k \in DOMAIN acks /\ ack \in Nat /\ lcs \in Nat /\ ack < snd.NXT
      /\ lcs <= rcvLcs /\ rcvLcs \in Int /\ rcvCur \in Int /\ rcvLcs < snd.NXT /\ snd.NXT \in Nat
  <2>1. acks \in Seq(Ack) /\ k \in DOMAIN acks
    BY DEF Types, Arriving
  <2>2. acks[k] \in Ack
    BY <2>1
  <2>3. ack \in Nat /\ lcs \in Nat
    BY <2>2 DEF Ack
  <2>4. ack < snd.NXT /\ lcs <= rcvLcs /\ rcvLcs <= rcvCur /\ rcvCur < snd.NXT
    BY <2>1 DEF PeerInv
  <2>5. snd.NXT \in Nat /\ rcvLcs \in Int /\ rcvCur \in Int
    BY NextSlot DEF Types
  <2> QED
    BY <2>1, <2>3, <2>4, <2>5
<1>7. /\ acks' \in Seq(Ack) /\ Len(acks') = Len(acks) - 1 /\ Len(acks) \in Nat
      /\ \A j \in DOMAIN acks' : acks'[j] = IF j < k THEN acks[j] ELSE acks[j + 1]
      /\ \A j \in DOMAIN acks' : j \in Nat /\ j \in DOMAIN acks /\ j + 1 \in DOMAIN acks
  <2>1. /\ acks' \in Seq(Ack) /\ Len(acks') = Len(acks) - 1
        /\ \A j \in 1 .. Len(acks) - 1 : acks'[j] = IF j < k THEN acks[j] ELSE acks[j + 1]
    BY <1>2, <1>6, RemoveAtIs
  <2>2. DOMAIN acks' = 1 .. Len(acks) - 1 /\ DOMAIN acks = 1 .. Len(acks) /\ Len(acks) \in Nat
    <3>1. DOMAIN acks' = 1 .. Len(acks')
      BY <2>1
    <3> QED
      BY <1>6, <2>1, <3>1
  <2> QED
    BY <2>1, <2>2
<1> DEFINE from(j) == IF j < k THEN j ELSE j + 1
<1>a. /\ \A j \in DOMAIN acks' : acks'[j] = acks[from(j)] /\ from(j) \in DOMAIN acks
      /\ \A i, j \in DOMAIN acks' : i < j => from(i) < from(j)
      /\ \A j \in DOMAIN acks' : k = 1 => k < from(j)
  <2>1. k \in Nat
    BY <1>6
  <2> QED
    BY <1>7, <2>1
<1> HIDE DEF from
<1>8. \A j \in DOMAIN acks' : acks'[j].ack < snd.NXT /\ acks'[j].lcs <= rcvLcs
  BY <1>7 DEF PeerInv
<1>9. CASE c.failed
  <2>0. /\ Timed(c) /\ Report(TRUE) /\ UNCHANGED snd
        /\ IF state = "CLOSE_WAIT" THEN Gone ELSE probeTimer' = c.probe /\ UNCHANGED state
    BY <1>3, <1>9
  <2>1. Timed(c) /\ Report(TRUE) /\ UNCHANGED snd
        /\ state' \in {state, "NULL"} /\ probeTimer' \in 0 .. Keepalives
    <3>1. 0 \in 0 .. Keepalives
      BY ArdpSendAssumption
    <3>2. state' \in {state, "NULL"} /\ probeTimer' \in 0 .. Keepalives
      BY <1>4, <2>0, <3>1 DEF Gone
    <3> QED
      BY <2>0, <3>2
  <2>2. /\ status' \in {"OK", "READ", "WRITE"} /\ phase' = "idle" /\ status' # "OK"
        /\ left' = left /\ call' = call /\ tries' = tries /\ status' \in {status, "READ", "WRITE"}
    BY <1>1, <2>1, Reported
  <2>3. Beginning' /\ Window' /\ Whole' /\ Held'
    BY <1>1, <1>2, <1>4, <2>1, <2>2, RetimedKeeps
  <2>4. Types'
    BY <1>2, <1>4, <1>7, <2>1, <2>2 DEF Types, Timed, peer
  <2>5. PeerInv'
    BY <1>1, <1>2, <1>5, <1>8, <2>1 DEF PeerInv, Timed, peer, Live
  <2>6. CallerInv'
    BY <1>1, <2>1, <2>2 DEF CallerInv, Live
  <2>7. ASSUME ~overtaken, k = 1 PROVE Consumed' /\ WithinPeerWindow'
    <3>1. Consumed /\ WithinPeerWindow
      BY <2>7 DEF PeerWindow
    <3>2. WithinPeerWindow'
      BY <1>2, <1>5, <2>1, <2>7 DEF WithinPeerWindow, Timed, peer
    <3>3. /\ \A j \in DOMAIN acks' : snd.LCS <= acks'[j].lcs
          /\ \A i, j \in DOMAIN acks' : i < j => acks'[i].lcs <= acks'[j].lcs
      <4>1. /\ \A j \in DOMAIN acks : snd.LCS <= acks[j].lcs
            /\ \A i, j \in DOMAIN acks : i < j => acks[i].lcs <= acks[j].lcs
        BY <3>1 DEF Consumed
      <4> QED
        BY <1>a, <4>1
    <3> QED
      BY <1>1, <1>2, <2>1, <3>1, <3>2, <3>3 DEF Consumed, peer, Live
  <2> QED
    BY <1>2, <2>3, <2>4, <2>5, <2>6, <2>7 DEF PeerWindow
<1>10. CASE ~c.failed
  <2>1. /\ wire' = c.wire /\ buf' = Released(c.buf, ack)
        /\ snd' = [snd EXCEPT !.UNA = IF InRange(ack) THEN ack + 1 ELSE @,
                              !.pending = @ - freed(c), !.LCS = lcs]
        /\ state' \in {state, "NULL"} /\ probeTimer' \in 0 .. Keepalives
        /\ \/ Report(FALSE)
           \/ state # "OPEN" /\ UNCHANGED <<status, caller>>
    <3> HIDE DEF freed, ack, lcs
    <3>1. /\ wire' = c.wire /\ buf' = Released(c.buf, ack)
          /\ snd' = [snd EXCEPT !.UNA = IF InRange(ack) THEN ack + 1 ELSE @,
                                !.pending = @ - freed(c), !.LCS = lcs]
          /\ IF state = "OPEN"
             THEN probeTimer' = Keepalives /\ Report(FALSE) /\ UNCHANGED state
             ELSE /\ IF snd'.pending = 0 THEN Gone ELSE probeTimer' = c.probe /\ UNCHANGED state
                  /\ UNCHANGED <<status, caller>>
      BY <1>3, <1>10
    <3>2. state' \in {state, "NULL"} /\ probeTimer' \in 0 .. Keepalives
      <4>1. 0 \in 0 .. Keepalives /\ Keepalives \in 0 .. Keepalives
        BY ArdpSendAssumption
      <4> QED
        BY <1>4, <3>1, <4>1 DEF Gone
    <3> QED
      BY <3>1, <3>2
  <2>2. /\ status' = status /\ status \in {"OK", "READ", "WRITE"} /\ phase' \in {"idle", "wait", "again"}
        /\ left' = left /\ call' = call /\ tries' = tries
        /\ phase' # "idle" => phase # "idle" /\ state' = state
    <3>1. CASE Report(FALSE)
      <4>1. phase' # "idle" => state' = state
        BY <1>1, <1>3, <1>10, <3>1, Reported DEF CallerInv
      <4> QED
        BY <1>1, <3>1, <4>1, Reported DEF CallerInv
    <3>2. CASE state # "OPEN" /\ UNCHANGED <<status, caller>>
      BY <1>1, <3>2 DEF CallerInv, Types, caller
    <3> QED
      BY <2>1, <3>1, <3>2
  <2>3. Sent(snd, c.buf, Told)
    BY <1>1, <1>4, TouchedKeepsWindow
  <2>4. /\ snd' \in SndType /\ snd'.UNA <= snd'.NXT /\ snd'.NXT = snd.NXT /\ snd'.newMsg = snd.newMsg
        /\ snd'.msgTotal = snd.msgTotal /\ snd'.msgSent = snd.msgSent
        /\ buf' \in [Slots -> Buffer] /\ Sent(snd', buf', Told)
    <3>1. snd' = AfterAck(c.buf, ack, lcs)
      BY <2>1 DEF AfterAck
    <3> HIDE DEF ack, lcs, freed
    <3>2. /\ snd' \in SndType /\ snd'.UNA <= snd'.NXT /\ snd'.NXT = snd.NXT /\ snd'.newMsg = snd.newMsg
          /\ snd'.msgTotal = snd.msgTotal /\ snd'.msgSent = snd.msgSent
          /\ Released(c.buf, ack) \in [Slots -> Buffer] /\ Sent(snd', Released(c.buf, ack), Told)
      BY <1>4, <1>6, <2>3, <3>1, ReleasedWindow
    <3> QED
      BY <2>1, <3>2
  <2>5. snd'.LCS = lcs
    BY <2>1 DEF Types, SndType
  <2>6. Types'
    BY <1>2, <1>7, <2>1, <2>2, <2>4 DEF Types, peer
  <2>7. Beginning'
    BY <1>1, <2>1, <2>2 DEF Beginning, Unused, Live
  <2>8. PeerInv'
    <3>1. wire' \subseteq 1 .. snd'.NXT - 1
      BY <1>5, <2>1, <2>4
    <3>2. snd'.LCS < snd'.NXT
      BY <1>6, <2>4, <2>5
    <3> QED
      BY <1>1, <1>2, <1>8, <2>1, <2>4, <3>1, <3>2 DEF PeerInv, peer, Live
  <2>9. Window' /\ Held'
    BY <1>2, <2>2, <2>4 DEF Window, Told, Held
  <2>10. Whole'
    <3> SUFFICES ASSUME state' = "OPEN", status' = "OK", ~resumed PROVE Accounted(snd', buf', left)
      BY <1>2, <2>2 DEF Whole
    <3>1. Accounted(snd, c.buf, left)
      BY <1>4, <2>1, <2>2, TouchedKeepsAccount
    <3> HIDE DEF ack
    <3> QED
      BY <1>4, <1>6, <2>1, <2>4, <3>1, ReleasedAccount
  <2>11. CallerInv'
    BY <1>1, <2>1, <2>2 DEF CallerInv, Live
  <2>12. ASSUME ~overtaken, k = 1 PROVE Consumed' /\ WithinPeerWindow'
    <3>1. Consumed /\ WithinPeerWindow /\ k = 1
      BY <2>12 DEF PeerWindow
    <3>2. WithinPeerWindow'
      BY <1>2, <1>5, <2>1, <2>12 DEF WithinPeerWindow, peer
    <3>3. /\ \A j \in DOMAIN acks' : lcs <= acks'[j].lcs
          /\ \A i, j \in DOMAIN acks' : i < j => acks'[i].lcs <= acks'[j].lcs
      <4>1. \A i, j \in DOMAIN acks : i < j => acks[i].lcs <= acks[j].lcs
        BY <3>1 DEF Consumed
      <4> QED
        BY <1>6, <1>a, <3>1, <4>1
    <3>4. snd'.NXT <= lcs + SegMax + 1
      <4>1. snd.NXT <= snd.LCS + SegMax + 1 /\ snd.LCS <= lcs /\ snd.LCS \in Nat
        BY <1>6, <3>1 DEF Consumed, Types, SndType
      <4> QED
        BY <1>6, <2>4, <4>1, ArdpSendAssumption
    <3> QED
      BY <1>2, <1>6, <2>5, <3>2, <3>3, <3>4 DEF Consumed, peer
  <2> QED
    BY <1>2, <2>6, <2>7, <2>8, <2>9, <2>10, <2>11, <2>12 DEF PeerWindow
<1> QED
  BY <1>4, <1>9, <1>10

-----------------------------------------------------------------------------
(* The caller *)

LEMMA StartMsgStep == IInv /\ StartMsg => IInv'
<1> SUFFICES ASSUME IInv, StartMsg PROVE IInv'
  OBVIOUS
<1> USE DEF IInv, peer, timers
<1>1. /\ state = "OPEN" /\ phase = "idle" /\ (status = "WRITE" \/ (status = "OK" /\ left = 0))
      /\ left' \in MsgLens /\ snd' = [snd EXCEPT !.newMsg = TRUE, !.msgSent = 0] /\ status' = "OK"
      /\ resumed' = (resumed \/ status = "WRITE")
      /\ UNCHANGED <<state, buf, timers, phase, call, tries, wire, acks, peer, asserts, overtaken>>
  BY DEF StartMsg
<1>2. Live /\ left' \in Nat \ {0}
  BY <1>1, ArdpSendAssumption DEF CallerInv, Live
<1>3. /\ snd'.NXT = snd.NXT /\ snd'.UNA = snd.UNA /\ snd'.LCS = snd.LCS /\ snd'.pending = snd.pending
      /\ snd'.newMsg = TRUE /\ snd'.msgSent = 0 /\ snd' \in SndType
  <2>1. snd \in SndType /\ snd' = [snd EXCEPT !.newMsg = TRUE, !.msgSent = 0]
    BY <1>1 DEF Types
  <2>2. /\ snd'.NXT = snd.NXT /\ snd'.UNA = snd.UNA /\ snd'.LCS = snd.LCS /\ snd'.pending = snd.pending
        /\ snd'.newMsg = TRUE /\ snd'.msgSent = 0
    BY <2>1 DEF SndType
  <2>3. snd' = [NXT |-> snd.NXT, UNA |-> snd.UNA, LCS |-> snd.LCS, pending |-> snd.pending,
                newMsg |-> TRUE, msgTotal |-> snd.msgTotal, msgSent |-> 0]
    BY <2>1 DEF SndType
  <2>4. snd' \in SndType
    <3>1. /\ snd.NXT \in 1 .. MaxSegment + 1 /\ snd.UNA \in Nat /\ snd.LCS \in Nat
          /\ snd.pending \in 0 .. SegMax /\ snd.msgTotal \in Nat
      BY <2>1 DEF SndType
    <3> QED
      BY <2>3, <3>1 DEF SndType
  <2> QED
    BY <2>2, <2>4
<1>4. Types'
  BY <1>1, <1>2, <1>3 DEF Types
<1>5. Beginning'
  BY <1>1 DEF Beginning, Unused
<1>6. PeerInv'
  BY <1>1, <1>3 DEF PeerInv, Live
<1>7. Window' /\ Held'
  <2>1. Told' = Told
    BY <1>1 DEF Told
  <2>2. Sent(snd', buf', Told)
    BY <1>1, <1>2, <1>3 DEF Window, Sent
  <2>3. Held'
    BY <1>1 DEF Held
  <2> QED
    BY <2>1, <2>2, <2>3 DEF Window
<1>8. Whole'
  <2> SUFFICES ASSUME ~resumed, status = "OK" PROVE Accounted(snd', buf', left')
    BY <1>1 DEF Whole
  <2>1. Waiting(snd, buf) = 0 /\ Waiting(snd', buf') = Waiting(snd, buf)
    BY <1>1, <1>2, <1>3 DEF Whole, Accounted, Waiting
  <2>2. Accounted(snd', buf', left')
    BY <1>1, <1>2, <1>3, <2>1 DEF Whole, Accounted
  <2> QED
    BY <2>2
<1>9. CallerInv'
  BY <1>1 DEF CallerInv
<1>10. PeerWindow'
  BY <1>1, <1>2, <1>3 DEF PeerWindow, Consumed, WithinPeerWindow, Live
<1> QED
  BY <1>4, <1>5, <1>6, <1>7, <1>8, <1>9, <1>10

LEMMA DisconnectStep == IInv /\ (Disconnect \/ DrainTimeout) => IInv'
<1> SUFFICES ASSUME IInv, Disconnect \/ DrainTimeout PROVE IInv'
  OBVIOUS
<1> USE DEF IInv, peer, caller
<1>1. /\ Live /\ phase = "idle" /\ state' \in {"CLOSE_WAIT", "NULL"} /\ probeTimer' \in 0 .. Keepalives
      /\ UNCHANGED <<snd, buf, connectTimer, caller, status, wire, acks, peer, history>>
  <2>1. 0 \in 0 .. Keepalives /\ probeTimer \in 0 .. Keepalives
    BY ArdpSendAssumption DEF Types
  <2>2. CASE Disconnect
    BY <2>1, <2>2 DEF Disconnect, Gone, Live
  <2>3. CASE DrainTimeout
    BY <2>1, <2>3 DEF DrainTimeout, Gone, Live, CallerInv
  <2> QED
    BY <2>2, <2>3
<1>2. Types'
  BY <1>1 DEF Types
<1>3. Beginning' /\ Whole' /\ Held' /\ CallerInv'
  BY <1>1 DEF Beginning, Unused, Whole, Held, CallerInv, Live
<1>4. PeerInv'
  BY <1>1 DEF PeerInv, Live
<1>5. Window'
  BY <1>1 DEF Window, Told, Live
<1>6. PeerWindow'
  BY <1>1 DEF PeerWindow, Consumed, WithinPeerWindow, Live
<1> QED
  BY <1>2, <1>3, <1>4, <1>5, <1>6

-----------------------------------------------------------------------------
(* The peer and the network *)

LEMMA PeerReceivesStep == IInv /\ PeerReceives => IInv'
<1> SUFFICES ASSUME IInv, PeerReceives PROVE IInv'
  OBVIOUS
<1> USE DEF IInv, PeerReceives, timers, caller
<1>1. rcvCur + 1 < snd.NXT /\ rcvCur \in Int /\ rcvLcs <= rcvCur /\ rcvLcs \in Int /\ snd.NXT \in Nat
  BY NextSlot DEF PeerInv, Types
<1>2. Types'
  BY DEF Types
<1>3. Beginning'
  BY DEF Beginning, Unused
<1>4. PeerInv'
  BY <1>1 DEF PeerInv, Live
<1>5. Window' /\ Whole' /\ Held' /\ CallerInv'
  BY DEF Window, Told, Whole, Held, CallerInv, Live
<1>6. PeerWindow'
  BY DEF PeerWindow, Consumed, WithinPeerWindow, Live
<1> QED
  BY <1>2, <1>3, <1>4, <1>5, <1>6

LEMMA PeerConsumesStep == IInv /\ PeerConsumes => IInv'
<1> SUFFICES ASSUME IInv, PeerConsumes PROVE IInv'
  OBVIOUS
<1> USE DEF IInv, PeerConsumes, timers, caller
<1>1. rcvLcs < rcvCur /\ rcvCur \in Int /\ rcvLcs \in Int /\ snd.LCS \in Nat /\ SegMax \in Nat
      /\ snd.NXT \in Nat
  BY ArdpSendAssumption DEF Types, SndType
<1>a. \A k \in DOMAIN acks : acks[k].lcs \in Nat
  <2>1. \A k \in DOMAIN acks : acks[k] \in Ack
    BY DEF Types
  <2> QED
    BY <2>1 DEF Ack
<1>2. Types'
  BY DEF Types
<1>3. Beginning'
  BY <1>1 DEF Beginning, Unused
<1>4. PeerInv'
  BY <1>1, <1>a DEF PeerInv, Live
<1>5. Window' /\ Whole' /\ Held' /\ CallerInv'
  BY DEF Window, Told, Whole, Held, CallerInv, Live
<1>6. PeerWindow'
  <2>1. \A n \in wire : n \in Int
    BY <1>1 DEF PeerInv
  <2> QED
    BY <1>1, <2>1 DEF PeerWindow, Consumed, WithinPeerWindow, Live
<1> QED
  BY <1>2, <1>3, <1>4, <1>5, <1>6

LEMMA PeerAcksStep == IInv /\ PeerAcks => IInv'
<1> SUFFICES ASSUME IInv, PeerAcks PROVE IInv'
  OBVIOUS
<1> USE DEF IInv, timers, caller, peer
<1>1. /\ state \notin {"NULL", "SYN_SENT"} /\ acks' = Append(acks, [ack |-> rcvCur, lcs |-> rcvLcs])
      /\ UNCHANGED <<state, snd, buf, timers, caller, status, wire, peer, history>>
  BY DEF PeerAcks
<1>2. /\ Live /\ rcvLcs \in Nat /\ rcvCur \in Nat /\ rcvCur < snd.NXT /\ acks \in Seq(Ack)
      /\ [ack |-> rcvCur, lcs |-> rcvLcs] \in Ack
  BY <1>1 DEF Types, PeerInv, Live, Ack
<1>3. /\ acks' \in Seq(Ack) /\ DOMAIN acks' = 1 .. Len(acks) + 1 /\ DOMAIN acks = 1 .. Len(acks)
      /\ Len(acks) \in Nat
      /\ \A k \in DOMAIN acks : acks'[k] = acks[k]
      /\ acks'[Len(acks) + 1] = [ack |-> rcvCur, lcs |-> rcvLcs]
  BY <1>1, <1>2
<1>4. Types'
  BY <1>1, <1>3 DEF Types
<1>5. Beginning'
  BY <1>1 DEF Beginning, Unused
<1>6. PeerInv'
  <2>1. \A k \in DOMAIN acks' : acks'[k].ack < snd.NXT /\ acks'[k].lcs <= rcvLcs
    BY <1>2, <1>3 DEF PeerInv
  <2> QED
    BY <1>1, <2>1 DEF PeerInv, Live
<1>7. Window' /\ Whole' /\ Held' /\ CallerInv'
  BY <1>1 DEF Window, Told, Whole, Held, CallerInv, Live
<1>8. ASSUME ~overtaken PROVE Consumed' /\ WithinPeerWindow'
  <2>1. Consumed /\ WithinPeerWindow
    BY <1>8 DEF PeerWindow
  <2>2. \A k \in DOMAIN acks : acks[k].lcs <= rcvLcs
    BY DEF PeerInv
  <2>3. \A k \in DOMAIN acks' : snd.LCS <= acks'[k].lcs
    BY <1>2, <1>3, <2>1 DEF Consumed
  <2>4. \A j, k \in DOMAIN acks' : j < k => acks'[j].lcs <= acks'[k].lcs
    BY <1>2, <1>3, <2>1, <2>2 DEF Consumed
  <2> QED
    BY <1>1, <2>1, <2>3, <2>4 DEF Consumed, WithinPeerWindow, Live
<1> QED
  BY <1>1, <1>4, <1>5, <1>6, <1>7, <1>8 DEF PeerWindow

LEMMA LoseSegmentStep == IInv /\ (\E n \in wire : LoseSegment(n)) => IInv'
<1> SUFFICES ASSUME IInv, NEW n \in wire, LoseSegment(n) PROVE IInv'
  OBVIOUS
<1> USE DEF IInv, LoseSegment, timers, caller, peer
<1>1. Types' /\ Beginning' /\ PeerInv'
  BY DEF Types, Beginning, Unused, PeerInv, Live
<1>2. Window' /\ Whole' /\ Held' /\ CallerInv' /\ PeerWindow'
  BY DEF Window, Told, Whole, Held, CallerInv, Live, PeerWindow, Consumed, WithinPeerWindow
<1> QED
  BY <1>1, <1>2

LEMMA LoseAckStep == IInv /\ LoseAck => IInv'
<1> SUFFICES ASSUME IInv, LoseAck PROVE IInv'
  OBVIOUS
<1> USE DEF IInv, timers, caller, peer
<1>1. /\ acks # <<>> /\ acks' = Tail(acks)
      /\ UNCHANGED <<state, snd, buf, timers, caller, status, wire, peer, history>>
  BY DEF LoseAck
<1>2. acks \in Seq(Ack)
  BY DEF Types
<1>3. /\ acks' \in Seq(Ack) /\ \A k \in DOMAIN acks' : acks'[k] = acks[k + 1] /\ k + 1 \in DOMAIN acks
      /\ \A k \in DOMAIN acks' : k \in Nat
  BY <1>1, <1>2
<1>4. Types'
  BY <1>1, <1>3 DEF Types
<1>5. Beginning'
  BY <1>1 DEF Beginning, Unused
<1>6. PeerInv'
  BY <1>1, <1>3 DEF PeerInv, Live
<1>7. Window' /\ Whole' /\ Held' /\ CallerInv'
  BY <1>1 DEF Window, Told, Whole, Held, CallerInv, Live
<1>8. PeerWindow'
  BY <1>1, <1>3 DEF PeerWindow, Consumed, WithinPeerWindow, Live
<1> QED
  BY <1>4, <1>5, <1>6, <1>7, <1>8

LEMMA StutterStep == IInv /\ UNCHANGED vars => IInv'
<1> SUFFICES ASSUME IInv, UNCHANGED vars PROVE IInv'
  OBVIOUS
<1> USE DEF IInv, vars, timers, caller, peer
<1>1. Types' /\ Beginning' /\ PeerInv'
  BY DEF Types, Beginning, Unused, PeerInv, Live
<1>2. Window' /\ Whole' /\ Held' /\ CallerInv' /\ PeerWindow'
  BY DEF Window, Told, Whole, Held, CallerInv, Live, PeerWindow, Consumed, WithinPeerWindow
<1> QED
  BY <1>1, <1>2

-----------------------------------------------------------------------------
(* Sending *)

AnnouncedAs == /\ Announced \in SndType /\ Announced.NXT = snd.NXT /\ Announced.UNA = snd.UNA
               /\ Announced.LCS = snd.LCS /\ Announced.pending = snd.pending
               /\ Announced.msgSent = snd.msgSent /\ ~Announced.newMsg

LEMMA AnnouncedSame == Types => AnnouncedAs
<1> SUFFICES ASSUME Types PROVE AnnouncedAs
  OBVIOUS
<1>1. snd \in SndType /\ left \in Nat
  BY DEF Types
<1>2. CASE snd.newMsg
  BY <1>1, <1>2 DEF AnnouncedAs, Announced, SndType
<1>3. CASE ~snd.newMsg
  BY <1>1, <1>3 DEF AnnouncedAs, Announced, SndType
<1> QED
  BY <1>2, <1>3

\* The timers of the buffers from the next one on are off, up to the window's
\* size.  None is marked if no send has failed, and else the next alone.
LEMMA NextAreFree ==
  ASSUME Types, NEW b, NEW told, Sent(snd, b, told), NEW i \in Slots,
         Distance(i, snd.NXT) < SegMax - snd.pending
  PROVE  /\ b[i].retry = 0
         /\ b[i].inFlight => told # "OK" /\ b[i].seq = snd.NXT /\ i = Slot(snd.NXT)
<1> SUFFICES ASSUME b[i].retry # 0 PROVE FALSE
  BY DEF Sent
<1> DEFINE m == b[i].seq
           d == Distance(i, snd.NXT)
<1>1. /\ snd.UNA \in Nat /\ snd.NXT \in Nat /\ SegMax \in Nat /\ snd.pending = snd.NXT - snd.UNA
  BY ArdpSendAssumption DEF Types, SndType, Sent
<1>2. m \in snd.UNA .. snd.NXT - 1 /\ Slot(m) = i
  BY DEF Sent
<1>3. d \in 0 .. SegMax - 1 /\ Slot(snd.NXT + d) = i
  <2>1. snd.NXT \in Int
    BY <1>1
  <2>2. d \in Slots /\ Slot(snd.NXT + d) = i
    BY <2>1, DistanceInverse
  <2> QED
    BY <2>2 DEF Slots
<1>4. d < SegMax - snd.pending
  OBVIOUS
<1> HIDE DEF m, d
<1>5. m \in Int /\ snd.NXT + d \in Int /\ (snd.NXT + d) - m < SegMax /\ m - (snd.NXT + d) < SegMax
  BY <1>1, <1>2, <1>3, <1>4
<1>6. m = snd.NXT + d
  BY <1>2, <1>3, <1>5, SameSlot
<1> QED
  BY <1>1, <1>2, <1>3, <1>6

\* The buffers after `units' units were laid in k segments from the next one,
\* `whole' of them to be sent and n of them sent.
Filling(b, units, k, n, whole) ==
  LET length(j) == IF j < k - 1 THEN MaxDlen ELSE units - (k - 1) * MaxDlen
      place(i) == Distance(i, snd.NXT)
      failed == n < whole
      filled == IF failed THEN n + 1 ELSE k
      marked == IF failed THEN n + 1 ELSE whole
  IN [i \in Slots |->
        IF place(i) >= filled THEN b[i]
        ELSE [b[i] EXCEPT !.dataLen = length(place(i)),
                          !.seq = IF place(i) < marked THEN snd.NXT + place(i) ELSE @,
                          !.inFlight = place(i) < marked \/ @,
                          !.retry = IF place(i) < n THEN 1 ELSE @]]

\* What becomes of the buffer in slot i.
Filled(i, b, units, k, n, whole) ==
  LET f == Filling(b, units, k, n, whole)
      d == Distance(i, snd.NXT)
  IN /\ n < whole /\ d > n => f[i] = b[i]
     /\ n = whole /\ d >= k => f[i] = b[i]
     /\ d < n => f[i].inFlight /\ f[i].seq = snd.NXT + d /\ f[i].retry = 1
     /\ n < whole /\ d = n => f[i].inFlight /\ f[i].seq = snd.NXT + d /\ f[i].retry = b[i].retry
     /\ n = whole /\ whole = k - 1 /\ d = n =>
          /\ (f[i].inFlight <=> b[i].inFlight) /\ f[i].seq = b[i].seq /\ f[i].retry = b[i].retry
          /\ f[i].dataLen = units - (k - 1) * MaxDlen
     /\ f[i] \in Buffer

LEMMA FillingFields ==
  ASSUME Types, NEW b \in [Slots -> Buffer], NEW units \in Nat \ {0}, NEW k \in Nat \ {0},
         units - (k - 1) * MaxDlen \in 1 .. MaxDlen,
         NEW whole \in {k - 1, k}, NEW n \in 0 .. whole, NEW i \in Slots
  PROVE  Filled(i, b, units, k, n, whole)
<1> DEFINE f == Filling(b, units, k, n, whole)
           d == Distance(i, snd.NXT)
           last == units - (k - 1) * MaxDlen
           length == IF d < k - 1 THEN MaxDlen ELSE last
           filled == IF n < whole THEN n + 1 ELSE k
           marked == IF n < whole THEN n + 1 ELSE whole
           g == [b[i] EXCEPT !.dataLen = length, !.seq = IF d < marked THEN snd.NXT + d ELSE @,
                             !.inFlight = d < marked \/ @, !.retry = IF d < n THEN 1 ELSE @]
<1>1. snd.NXT \in Nat /\ b[i] \in Buffer /\ MaxDlen \in Nat /\ MinDataRetries \in Nat
  BY NextSlot, ArdpSendAssumption
<1>2. d \in Nat
  <2>1. snd.NXT \in Int
    BY <1>1
  <2>2. d \in Slots
    BY <2>1, DistanceInverse
  <2> QED
    BY <2>2, ArdpSendAssumption DEF Slots
<1>3. f[i] = IF d >= filled THEN b[i] ELSE g
  BY DEF Filling
<1>4. last \in 1 .. MaxDlen
  OBVIOUS
<1> HIDE DEF f, d, last
<1>5. length \in 0 .. MaxDlen /\ 1 \in 0 .. MinDataRetries + 1
  BY <1>1, <1>2, <1>4
<1>6. /\ g.dataLen = length /\ g.seq = (IF d < marked THEN snd.NXT + d ELSE b[i].seq)
      /\ (g.inFlight <=> (d < marked \/ b[i].inFlight)) /\ g.retry = (IF d < n THEN 1 ELSE b[i].retry)
  BY <1>1 DEF Buffer
<1>7. g \in Buffer
  <2> HIDE DEF marked, length
  <2>1. /\ length \in 0 .. MaxDlen /\ (IF d < marked THEN snd.NXT + d ELSE b[i].seq) \in Nat
        /\ (d < marked \/ b[i].inFlight) \in BOOLEAN /\ (IF d < n THEN 1 ELSE b[i].retry) \in 0 .. MinDataRetries + 1
    BY <1>1, <1>2, <1>5 DEF Buffer
  <2> QED
    BY <1>1, <2>1 DEF Buffer
<1> HIDE DEF g
<1>8. f[i] \in Buffer
  BY <1>1, <1>3, <1>7
<1>m. /\ n \in Nat /\ whole \in Nat /\ n <= whole /\ whole <= k
      /\ n < whole => filled = n + 1 /\ marked = n + 1
      /\ n = whole => filled = k /\ marked = whole
  OBVIOUS
<1> HIDE DEF filled, marked, length
<1>9. n < whole /\ d > n => f[i] = b[i]
  BY <1>2, <1>3, <1>m
<1>10. n = whole /\ d >= k => f[i] = b[i]
  BY <1>2, <1>3, <1>m
<1>11. d < n => f[i].inFlight /\ f[i].seq = snd.NXT + d /\ f[i].retry = 1
  <2> SUFFICES ASSUME d < n PROVE f[i].inFlight /\ f[i].seq = snd.NXT + d /\ f[i].retry = 1
    OBVIOUS
  <2>1. ~(d >= filled) /\ d < marked
    BY <1>2, <1>m
  <2> QED
    BY <1>3, <1>6, <2>1
<1>12. n < whole /\ d = n => f[i].inFlight /\ f[i].seq = snd.NXT + d /\ f[i].retry = b[i].retry
  <2> SUFFICES ASSUME n < whole, d = n
               PROVE  f[i].inFlight /\ f[i].seq = snd.NXT + d /\ f[i].retry = b[i].retry
    OBVIOUS
  <2>1. ~(d >= filled) /\ d < marked /\ ~(d < n)
    BY <1>2, <1>m
  <2> QED
    BY <1>3, <1>6, <2>1
<1>13. n = whole /\ whole = k - 1 /\ d = n =>
         /\ (f[i].inFlight <=> b[i].inFlight) /\ f[i].seq = b[i].seq /\ f[i].retry = b[i].retry
         /\ f[i].dataLen = last
  <2> SUFFICES ASSUME n = whole, whole = k - 1, d = n
               PROVE  /\ (f[i].inFlight <=> b[i].inFlight) /\ f[i].seq = b[i].seq
                      /\ f[i].retry = b[i].retry /\ f[i].dataLen = last
    OBVIOUS
  <2>1. ~(d >= filled) /\ ~(d < marked) /\ ~(d < n) /\ ~(d < k - 1)
    BY <1>2, <1>m
  <2>2. length = last
    BY <2>1 DEF length
  <2> QED
    BY <1>3, <1>6, <2>1, <2>2
<1> QED
  BY <1>8, <1>9, <1>10, <1>11, <1>12, <1>13 DEF f, d, last, Filled

LEMMA TransmitStep ==
  ASSUME IInv, state = "OPEN", status = "OK", NEW c, Touched(c), NEW len \in 1 .. left,
         snd.pending # SegMax, ~NoRoom(c.buf[Slot(snd.NXT)].dataLen + len), Transmit(c, len),
         UNCHANGED <<state, timers, acks, peer, resumed, overtaken>>
  PROVE  IInv'
<1> USE DEF IInv
<1> DEFINE b == c.buf
           next == Slot(snd.NXT)
           offset == b[next].dataLen
           units == offset + len
           k == SegmentsFor(units)
           whole == IF HoldsLast(units, k) THEN k - 1 ELSE k
           last == units - (k - 1) * MaxDlen
           d(i) == Distance(i, snd.NXT)
<1>1. /\ snd \in SndType /\ snd.NXT \in Nat /\ snd.UNA \in Nat /\ snd.LCS \in Nat /\ snd.pending \in 0 .. SegMax - 1
      /\ snd.msgSent \in Int /\ snd.pending = snd.NXT - snd.UNA /\ 1 <= snd.UNA /\ SegMax \in Nat \ {0}
      /\ MaxDlen \in Nat \ {0} /\ left \in Nat /\ Live /\ snd.LCS < snd.NXT
  <2>1. snd \in SndType /\ left \in Nat /\ Live /\ SegMax \in Nat \ {0} /\ MaxDlen \in Nat \ {0}
        /\ snd.LCS < snd.NXT
    BY ArdpSendAssumption DEF Types, Live, PeerInv
  <2>2. snd.pending = snd.NXT - snd.UNA /\ 1 <= snd.UNA
    BY <2>1 DEF Window, Sent
  <2> QED
    BY <2>1, <2>2 DEF SndType
<1>2. Sent(snd, b, Told) /\ (~resumed => Accounted(Announced, b, left) /\ Told = "OK")
  BY <1>1, TouchedKeepsWindow, TouchedKeepsAccount DEF Told
<1>3. AnnouncedAs
  BY AnnouncedSame
<1>4. \A i \in Slots : /\ b[i] \in Buffer /\ d(i) \in 0 .. SegMax - 1 /\ Slot(snd.NXT + d(i)) = i
                       /\ d(i) < SegMax - snd.pending =>
                            /\ b[i].retry = 0
                            /\ b[i].inFlight => resumed /\ b[i].seq = snd.NXT /\ i = Slot(snd.NXT)
  <2>1. snd.NXT \in Int /\ b \in [Slots -> Buffer]
    BY <1>1 DEF Touched
  <2> QED
    BY <1>2, <2>1, DistanceInverse, NextAreFree DEF Slots
<1>5. \A j \in 0 .. SegMax - 1 : Slot(snd.NXT + j) \in Slots /\ d(Slot(snd.NXT + j)) = j
  <2> TAKE j \in 0 .. SegMax - 1
  <2>1. snd.NXT \in Int /\ snd.NXT + j \in Int /\ j \in Slots
    BY <1>1 DEF Slots
  <2>2. Slot(snd.NXT + j) \in Slots
    BY <2>1, SlotType
  <2>3. Distance(Slot(snd.NXT + j), snd.NXT) = j
    BY <2>1, DistanceOf
  <2> QED
    BY <2>2, <2>3
<1>6. next \in Slots /\ d(next) = 0 /\ (b[next].inFlight => resumed) /\ offset \in Nat
  <2>1. snd.NXT + 0 = snd.NXT /\ 0 \in 0 .. SegMax - 1
    BY <1>1
  <2>2. next \in Slots /\ d(next) = 0
    BY <1>5, <2>1
  <2> QED
    BY <1>1, <1>4, <2>2 DEF Buffer
<1>7. units \in Nat \ {0} /\ units = offset + len /\ len \in Nat /\ len <= left
  BY <1>1, <1>6
<1>8. c.buf \in [Slots -> Buffer]
  BY DEF Touched
<1>9. ~NoRoom(units) /\ Transmit(c, len)
  OBVIOUS
<1> HIDE DEF b, offset, units, k, d, next
<1>10. /\ k \in Nat \ {0} /\ last \in 1 .. MaxDlen /\ k <= SegMax - snd.pending
       /\ ~overtaken => snd.NXT + k <= snd.LCS + SegMax + 1
  <2>1. /\ k \in Nat \ {0} /\ last \in 1 .. MaxDlen
        /\ \A r \in Int : units <= MaxDlen * r => k <= r
    BY <1>7, SegmentsEnough DEF k
  <2>2. units <= MaxDlen * (SegMax - snd.pending)
    BY <1>1, <1>7, <1>9 DEF NoRoom
  <2>3. k <= SegMax - snd.pending
    BY <1>1, <2>1, <2>2
  <2>4. ASSUME ~overtaken PROVE snd.NXT + k <= snd.LCS + SegMax + 1
    <3>1. snd.NXT <= snd.LCS + SegMax + 1
      BY <2>4 DEF PeerWindow, Consumed
    <3>2. PeerPending = snd.NXT - snd.LCS - 1 /\ PeerPending \in Int /\ PeerPending <= SegMax
      BY <1>1, <3>1 DEF PeerPending
    <3>3. units <= MaxDlen * (SegMax - PeerPending)
      <4> HIDE DEF last
      <4>1. (SegMax - PeerPending) \in Int /\ MaxDlen * (SegMax - PeerPending) \in Int
        BY <1>1, <3>2
      <4> QED
        BY <1>7, <1>9, <3>2, <4>1 DEF NoRoom
    <3>4. k <= SegMax - PeerPending
      <4> DEFINE r == SegMax - PeerPending
      <4>1. r \in Int /\ units <= MaxDlen * r
        BY <1>1, <3>2, <3>3
      <4> HIDE DEF r
      <4>2. k <= r
        BY <2>1, <4>1
      <4> QED
        BY <4>2 DEF r
    <3> QED
      BY <1>1, <2>1, <3>2, <3>4
  <2> QED
    BY <2>1, <2>3, <2>4
<1> DEFINE length(j) == IF j < k - 1 THEN MaxDlen ELSE last
           marked(n) == IF n < whole THEN n + 1 ELSE whole
           filled(n) == IF n < whole THEN n + 1 ELSE k
           Body(n) ==
             /\ buf' = Filling(b, units, k, n, whole)
             /\ snd' = [Announced EXCEPT !.NXT = @ + n, !.pending = @ + n,
                          !.msgSent = @ + MaxDlen * marked(n)
                                        - (IF marked(n) = k THEN MaxDlen - length(k - 1) ELSE 0)]
             /\ wire' = c.wire \cup (snd.NXT .. snd.NXT + n - 1)
             /\ status' = IF n < whole THEN "WRITE" ELSE "OK"
             /\ left' = IF n < whole THEN left ELSE left - len
             /\ asserts' = (asserts /\ \A i \in Slots : d(i) < filled(n) => ~b[i].inFlight)
<1>11. PICK n \in 0 .. whole : Body(n)
  <2>1. whole \in Nat
    BY <1>10
  <2>2. \E n \in IF "send" \in Faults THEN 0 .. whole ELSE {whole} : Body(n)
    BY <1>9, Zenon DEF Transmit, Filling, Distance, SegmentsFor, b, k, units, offset, next, d
  <2> HIDE DEF whole, Body
  <2>3. (IF "send" \in Faults THEN 0 .. whole ELSE {whole}) \subseteq 0 .. whole
    BY <2>1
  <2> QED
    BY <2>2, <2>3
<1>12. snd.NXT + k - 1 <= MaxSegment /\ phase' = "idle" /\ call' = 0 /\ tries' = 0
  BY <1>9 DEF Transmit, SegmentsFor, b, k, units, offset, next
<1> HIDE DEF length
<1> DEFINE failed == n < whole
<1>13. /\ n \in Nat /\ whole \in {k - 1, k} /\ whole \in Nat /\ n <= whole /\ n <= k
       /\ failed => n < k
  BY <1>10, <1>11
<1>14. /\ wire' = c.wire \cup (snd.NXT .. snd.NXT + n - 1)
       /\ status' = (IF failed THEN "WRITE" ELSE "OK")
       /\ left' = (IF failed THEN left ELSE left - len)
       /\ buf' = Filling(b, units, k, n, whole)
  BY <1>11
<1>15. /\ snd' \in SndType /\ snd'.NXT = snd.NXT + n /\ snd'.UNA = snd.UNA /\ snd'.LCS = snd.LCS
       /\ snd'.pending = snd.pending + n /\ ~snd'.newMsg /\ snd'.msgTotal = Announced.msgTotal
       /\ ~failed /\ whole = k => snd'.msgSent = snd.msgSent + units
       /\ ~failed /\ whole = k - 1 => snd'.msgSent = snd.msgSent + units - last
  <2> DEFINE m == marked(n)
             total == snd.msgSent + MaxDlen * m - (IF m = k THEN MaxDlen - length(k - 1) ELSE 0)
  <2>1. snd' = [Announced EXCEPT !.NXT = @ + n, !.pending = @ + n,
                 !.msgSent = @ + MaxDlen * m - (IF m = k THEN MaxDlen - length(k - 1) ELSE 0)]
    BY <1>11
  <2>a. length(k - 1) = last
    BY <1>10 DEF length
  <2>2. m \in Nat /\ MaxDlen * m \in Int
    BY <1>1, <1>13
  <2>3. total \in Int
    BY <1>1, <1>10, <2>2, <2>a
  <2>4. /\ Announced.msgSent = snd.msgSent /\ Announced.NXT = snd.NXT /\ Announced.pending = snd.pending
        /\ Announced.UNA = snd.UNA /\ Announced.LCS = snd.LCS /\ ~Announced.newMsg /\ Announced \in SndType
    BY <1>3 DEF AnnouncedAs
  <2>5. snd' = [Announced EXCEPT !.NXT = snd.NXT + n, !.pending = snd.pending + n, !.msgSent = total]
    BY <2>1, <2>4
  <2>6. snd.NXT + n \in 1 .. MaxSegment + 1 /\ snd.pending + n \in 0 .. SegMax
    <3>1. snd.NXT >= 1 /\ MaxSegment \in Nat
      BY <1>1, ArdpSendAssumption DEF SndType
    <3> QED
      BY <1>1, <1>10, <1>12, <1>13, <3>1
  <2>7. ~failed /\ whole = k => total = snd.msgSent + units
    <3> SUFFICES ASSUME ~failed, whole = k PROVE total = snd.msgSent + units
      OBVIOUS
    <3>1. m = k /\ ~(k - 1 < k - 1)
      BY <1>10
    <3>2. MaxDlen * k = (k - 1) * MaxDlen + MaxDlen /\ (k - 1) * MaxDlen \in Int
      BY <1>1, <1>10
    <3>3. last = units - (k - 1) * MaxDlen
      OBVIOUS
    <3> QED
      BY <1>1, <1>7, <2>a, <3>1, <3>2, <3>3
  <2>8. ~failed /\ whole = k - 1 => total = snd.msgSent + units - last
    <3> SUFFICES ASSUME ~failed, whole = k - 1 PROVE total = snd.msgSent + units - last
      OBVIOUS
    <3>1. m = k - 1 /\ m # k
      BY <1>10
    <3>2. MaxDlen * (k - 1) = (k - 1) * MaxDlen /\ (k - 1) * MaxDlen \in Int
      BY <1>1, <1>10
    <3>3. last = units - (k - 1) * MaxDlen
      OBVIOUS
    <3> QED
      BY <1>1, <1>7, <2>a, <3>1, <3>2, <3>3
  <2> HIDE DEF total, failed, last
  <2>9. /\ snd'.NXT = snd.NXT + n /\ snd'.UNA = snd.UNA /\ snd'.LCS = snd.LCS
        /\ snd'.pending = snd.pending + n /\ ~snd'.newMsg /\ snd'.msgTotal = Announced.msgTotal
        /\ snd'.msgSent = total /\ snd' \in SndType
    BY <2>3, <2>4, <2>5, <2>6 DEF SndType
  <2> QED
    BY <2>7, <2>8, <2>9
<1> HIDE DEF last, whole, failed
<1> DEFINE f == Filling(b, units, k, n, whole)
<1>16. \A i \in Slots :
         /\ failed /\ d(i) > n => f[i] = b[i]
         /\ ~failed /\ d(i) >= k => f[i] = b[i]
         /\ d(i) < n => f[i].inFlight /\ f[i].seq = snd.NXT + d(i) /\ f[i].retry = 1
         /\ failed /\ d(i) = n => f[i].inFlight /\ f[i].seq = snd.NXT + d(i) /\ f[i].retry = b[i].retry
         /\ ~failed /\ whole = k - 1 /\ d(i) = n =>
              /\ (f[i].inFlight <=> b[i].inFlight) /\ f[i].seq = b[i].seq /\ f[i].retry = b[i].retry
              /\ f[i].dataLen = last
         /\ f[i] \in Buffer
  <2> TAKE i \in Slots
  <2>1. b \in [Slots -> Buffer] /\ units \in Nat \ {0} /\ k \in Nat \ {0} /\ last \in 1 .. MaxDlen
        /\ whole \in {k - 1, k} /\ n \in 0 .. whole /\ (~failed <=> n = whole)
    BY <1>7, <1>8, <1>10, <1>13 DEF b, failed
  <2>2. units - (k - 1) * MaxDlen \in 1 .. MaxDlen /\ (failed <=> n < whole) /\ (~failed <=> n = whole)
    BY <2>1 DEF last, failed
  <2> DEFINE e == Distance(i, snd.NXT)
  <2> HIDE DEF failed, b, d
  <2>3. Filled(i, b, units, k, n, whole)
    <3>1. Types
      BY DEF IInv
    <3> HIDE DEF f
    <3>2. b \in [Slots -> Buffer]
      BY <2>1
    <3>3. units \in Nat \ {0}
      BY <2>1
    <3>4. k \in Nat \ {0}
      BY <2>1
    <3>5. units - (k - 1) * MaxDlen \in 1 .. MaxDlen
      BY <2>2
    <3>6. whole \in {k - 1, k}
      BY <2>1
    <3>7. n \in 0 .. whole
      OBVIOUS
    <3> HIDE DEF IInv
    <3> QED
      BY <3>1, <3>2, <3>3, <3>4, <3>5, <3>6, <3>7, FillingFields
  <2>4. d(i) = e /\ units - (k - 1) * MaxDlen = last
    BY DEF d, last
  <2>5. f = Filling(b, units, k, n, whole)
    OBVIOUS
  <2> HIDE DEF f, d, last
  <2> QED
    BY <2>2, <2>3, <2>4, <2>5 DEF Filled
<1> HIDE DEF f
<1>17. buf' = f /\ \A i \in Slots : d(i) \in Nat
  BY <1>4, <1>14 DEF f
<1>18. Held'
  <2> SUFFICES ASSUME ~resumed PROVE asserts'
    BY DEF Held
  <2>1. asserts' = (asserts /\ \A i \in Slots : d(i) < filled(n) => ~b[i].inFlight)
    BY <1>11
  <2>2. filled(n) <= k /\ filled(n) \in Nat
    BY <1>10, <1>13 DEF failed
  <2> HIDE DEF filled
  <2>3. \A i \in Slots : d(i) < filled(n) => ~b[i].inFlight
    BY <1>1, <1>4, <1>10, <2>2
  <2> QED
    BY <2>1, <2>3 DEF Held
<1>19. Types'
  <2>1. buf' \in [Slots -> Buffer]
    <3>1. buf' = [i \in Slots |-> buf'[i]]
      BY <1>14 DEF Filling
    <3>2. \A i \in Slots : buf'[i] \in Buffer
      BY <1>16, <1>17
    <3> QED
      BY <3>1, <3>2
  <2>2. left' \in Nat /\ status' \in {"OK", "WRITE"}
    BY <1>1, <1>7, <1>14
  <2>3. 0 \in 0 .. Patience - 1
    BY ArdpSendAssumption
  <2> QED
    BY <1>12, <1>15, <2>1, <2>2, <2>3 DEF Types, timers, peer
<1>20. Beginning'
  BY DEF Beginning, Unused
<1>21. c.wire \subseteq 1 .. snd.NXT - 1 /\ (~overtaken => \A m \in c.wire : m <= rcvLcs + SegMax)
  BY <1>1, TouchedStaysWithin
<1>22. PeerInv'
  <2>1. wire' \subseteq 1 .. snd'.NXT - 1
    BY <1>1, <1>13, <1>14, <1>15, <1>21 DEF SndType
  <2>2. rcvCur \in Int /\ rcvLcs \in Int
    BY DEF Types
  <2>3. \A j \in DOMAIN acks : acks[j].ack \in Nat
    <3>1. \A j \in DOMAIN acks : acks[j] \in Ack
      BY DEF Types
    <3> QED
      BY <3>1 DEF Ack
  <2> QED
    BY <1>1, <1>13, <1>15, <2>1, <2>2, <2>3 DEF PeerInv, peer, Live
<1>23. CallerInv'
  BY <1>12, <1>14 DEF CallerInv
<1>24. Sent(snd', f, Told')
  <2>1. 1 <= snd'.UNA /\ snd'.pending = snd'.NXT - snd'.UNA
    BY <1>1, <1>13, <1>15
  <2>2. \A i \in Slots : b[i].retry # 0 => d(i) >= k /\ f[i] = b[i]
    <3>1. \A i \in Slots : b[i].retry # 0 => d(i) >= k
      BY <1>1, <1>4, <1>10
    <3> QED
      BY <1>10, <1>13, <1>16, <1>17, <3>1
  <2>3. ASSUME NEW m \in snd'.UNA .. snd'.NXT - 1 PROVE f[Slot(m)].retry # 0
    <3>1. m \in Int /\ Slot(m) \in Slots
      BY <1>1, <1>13, <1>15, SlotType
    <3>2. CASE m < snd.NXT
      <4>1. m \in snd.UNA .. snd.NXT - 1
        BY <1>1, <1>15, <3>1, <3>2
      <4> QED
        BY <1>2, <2>2, <3>1, <4>1 DEF Sent
    <3>3. CASE m >= snd.NXT
      <4> DEFINE j == m - snd.NXT
      <4>1. j \in 0 .. SegMax - 1 /\ j < n /\ snd.NXT + j = m
        BY <1>1, <1>10, <1>13, <1>15, <3>1, <3>3
      <4>2. d(Slot(m)) = j
        BY <1>5, <4>1
      <4> QED
        BY <1>16, <3>1, <4>1, <4>2
    <3> QED
      BY <1>1, <3>1, <3>2, <3>3
  <2>4. ASSUME NEW i \in Slots, f[i].retry # 0
        PROVE  f[i].inFlight /\ f[i].seq \in snd'.UNA .. snd'.NXT - 1 /\ Slot(f[i].seq) = i
    <3>1. CASE b[i].retry # 0
      <4>1. f[i] = b[i]
        BY <2>2, <3>1
      <4>2. b[i].inFlight /\ b[i].seq \in snd.UNA .. snd.NXT - 1 /\ Slot(b[i].seq) = i
        BY <1>2, <3>1 DEF Sent
      <4> QED
        BY <1>1, <1>13, <1>15, <4>1, <4>2
    <3>2. CASE b[i].retry = 0
      <4>1. d(i) < n
        BY <1>10, <1>13, <1>16, <1>17, <2>4, <3>2 DEF failed
      <4>2. f[i].inFlight /\ f[i].seq = snd.NXT + d(i)
        BY <1>16, <4>1
      <4>3. snd.NXT + d(i) \in snd'.UNA .. snd'.NXT - 1
        BY <1>1, <1>13, <1>15, <1>17, <4>1
      <4> QED
        BY <1>4, <4>2, <4>3
    <3> QED
      BY <3>1, <3>2
  <2>5. ASSUME NEW i \in Slots, f[i].inFlight, f[i].retry = 0
        PROVE  Told' # "OK" /\ f[i].seq = snd'.NXT /\ i = Slot(snd'.NXT)
    <3>1. CASE failed /\ d(i) = n
      <4>1. Told' # "OK"
        BY <1>14, <3>1 DEF Told
      <4> QED
        BY <1>4, <1>15, <1>16, <3>1, <4>1
    <3>2. CASE ~(failed /\ d(i) = n)
      <4>1. b[i].inFlight /\ b[i].retry = 0 /\ f[i].seq = b[i].seq /\ ~(d(i) < n)
        BY <1>10, <1>13, <1>16, <1>17, <2>5, <3>2 DEF failed
      <4>2. Told # "OK" /\ b[i].seq = snd.NXT /\ i = next
        BY <1>2, <4>1 DEF Sent, next
      <4>3. resumed /\ n = 0
        BY <1>2, <1>6, <1>13, <4>1, <4>2
      <4>4. Told' # "OK"
        BY <4>3 DEF Told
      <4> QED
        BY <1>1, <1>15, <4>1, <4>2, <4>3, <4>4 DEF next
    <3> QED
      BY <3>1, <3>2
  <2> QED
    BY <2>1, <2>3, <2>4, <2>5 DEF Sent
<1>25. Window'
  BY <1>17, <1>24 DEF Window
<1>26. ASSUME ~failed, ~resumed PROVE Accounted(snd', f, left')
  <2>1. n = whole /\ left' = left - len
    BY <1>13, <1>14, <1>26 DEF failed
  <2>2. Announced.NXT = snd.NXT /\ ~Announced.newMsg /\ Announced.msgSent = snd.msgSent
    BY <1>3 DEF AnnouncedAs
  <2>3. \A i \in Slots : ~b[i].inFlight /\ i # next => b[i].dataLen = 0
    BY <1>2, <1>26, <2>2 DEF Accounted, next
  <2>4. Announced.msgTotal = snd.msgSent + offset + left
    BY <1>2, <1>6, <1>26, <2>2 DEF Accounted, Waiting, next, offset
  <2>5. \A i \in Slots : d(i) >= k => f[i] = b[i] /\ i # next
    BY <1>6, <1>10, <1>16, <1>17, <1>26
  <2> DEFINE i0 == Slot(snd'.NXT)
  <2>6. i0 \in Slots /\ snd'.NXT \in Nat
    BY <1>1, <1>13, <1>15, SlotType
  <2>7. CASE whole = k
    <3>1. \A i \in Slots : ~f[i].inFlight => f[i].dataLen = 0
      BY <1>13, <1>16, <1>17, <2>1, <2>3, <2>5, <2>7
    <3>2. Waiting(snd', f) = 0
      BY <2>6, <3>1 DEF Waiting
    <3>3. snd'.msgTotal = snd'.msgSent + left' /\ snd'.msgSent \in Int /\ left' \in Int
      BY <1>1, <1>6, <1>7, <1>15, <1>26, <2>1, <2>4, <2>7
    <3>4. snd'.msgTotal = snd'.msgSent + Waiting(snd', f) + left'
      BY <3>2, <3>3
    <3> QED
      BY <1>15, <3>1, <3>2, <3>4 DEF Accounted
  <2>8. CASE whole = k - 1
    <3>1. k - 1 \in 0 .. SegMax - 1 /\ snd'.NXT = snd.NXT + (k - 1)
      BY <1>1, <1>10, <1>15, <2>1, <2>8
    <3>2. d(i0) = k - 1
      BY <1>5, <3>1
    <3>3. ~f[i0].inFlight /\ f[i0].dataLen = last
      <4>1. ~b[i0].inFlight
        BY <1>1, <1>4, <1>10, <1>26, <2>6, <3>2
      <4> QED
        BY <1>16, <1>26, <2>1, <2>6, <2>8, <3>2, <4>1
    <3>4. Waiting(snd', f) = last
      BY <3>3 DEF Waiting
    <3>5. \A i \in Slots : ~f[i].inFlight /\ i # i0 => f[i].dataLen = 0
      <4>1. \A i \in Slots : d(i) = k - 1 => i = i0
        BY <1>4, <3>1
      <4> QED
        BY <1>10, <1>16, <1>17, <2>1, <2>3, <2>5, <2>8, <4>1
    <3>6. snd'.msgTotal = snd'.msgSent + last + left'
      BY <1>1, <1>6, <1>7, <1>10, <1>15, <1>26, <2>1, <2>4, <2>8
    <3>7. left' # 0
      <4>1. HoldsLast(units, k)
        BY <1>10, <2>8 DEF whole
      <4>2. last # Announced.msgTotal - snd.msgSent - (k - 1) * MaxDlen /\ last = units - (k - 1) * MaxDlen
        BY <4>1 DEF HoldsLast, last
      <4>3. (k - 1) * MaxDlen \in Int
        BY <1>1, <1>10
      <4> QED
        BY <1>1, <1>6, <1>7, <2>1, <2>4, <4>2, <4>3
    <3> QED
      BY <1>15, <3>4, <3>5, <3>6, <3>7 DEF Accounted
  <2> QED
    BY <1>13, <2>7, <2>8
<1>27. Whole'
  BY <1>14, <1>17, <1>26 DEF Whole
<1>28. ASSUME ~overtaken PROVE Consumed' /\ WithinPeerWindow'
  <2>1. Consumed
    BY <1>28 DEF PeerWindow
  <2>2. snd'.NXT <= snd'.LCS + SegMax + 1
    BY <1>1, <1>10, <1>13, <1>15, <1>28
  <2>3. \A m \in snd.NXT .. snd.NXT + n - 1 : m <= rcvLcs + SegMax
    <3>1. snd.LCS <= rcvLcs /\ rcvLcs \in Int
      BY <1>1, <2>1 DEF Consumed, Types
    <3> QED
      BY <1>1, <1>13, <1>15, <2>2, <3>1
  <2>4. WithinPeerWindow'
    BY <1>14, <1>21, <1>28, <2>3 DEF WithinPeerWindow, peer
  <2> QED
    BY <1>15, <2>1, <2>2, <2>4 DEF Consumed, peer, Live
<1> QED
  BY <1>18, <1>19, <1>20, <1>22, <1>23, <1>25, <1>27, <1>28 DEF PeerWindow

LEMMA TrySendStep ==
  ASSUME IInv, state = "OPEN", status = "OK", NEW len \in 1 .. left, TrySend(len),
         UNCHANGED <<state, timers, acks, peer, resumed, overtaken>>
  PROVE  IInv'
<1> USE DEF IInv
<1>1. Live
  BY DEF Live
<1>2. PICK c \in CheckDataTimers(Now) :
        IF c.failed
        THEN /\ Timed(c) /\ status' = "WRITE"
             /\ phase' = "idle" /\ call' = 0 /\ tries' = 0
             /\ UNCHANGED <<snd, left, asserts>>
        ELSE IF snd.pending = SegMax \/ NoRoom(c.buf[Slot(snd.NXT)].dataLen + len)
        THEN /\ Timed(c)
             /\ IF tries + 1 >= Patience
                THEN phase' = "idle" /\ call' = 0 /\ tries' = 0 /\ status' = "WRITE"
                ELSE phase' = "wait" /\ call' = len /\ tries' = tries + 1 /\ UNCHANGED status
             /\ IF snd.pending = SegMax
                THEN UNCHANGED <<snd, asserts>>
                ELSE snd' = Announced /\ asserts' = (asserts /\ ~c.buf[Slot(snd.NXT)].inFlight)
             /\ UNCHANGED left
        ELSE Transmit(c, len)
  BY DEF TrySend
<1>3. Touched(c)
  <2>1. Now \in TimerRecord
    BY DEF Now, TimerRecord, Types
  <2> QED
    BY <1>1, <2>1, DataTimersTouch
<1>4. CASE ~c.failed /\ ~(snd.pending = SegMax \/ NoRoom(c.buf[Slot(snd.NXT)].dataLen + len))
  BY <1>2, <1>3, <1>4, TransmitStep
<1>5. ASSUME /\ Timed(c) /\ UNCHANGED left /\ snd' \in {snd, Announced} /\ Held'
             /\ \/ status' = "WRITE" /\ phase' = "idle" /\ call' = 0 /\ tries' = 0
                \/ /\ phase' = "wait" /\ call' = len /\ tries' = tries + 1 /\ UNCHANGED status
                   /\ tries + 1 < Patience
      PROVE  IInv'
  <2>1. AnnouncedAs /\ snd \in SndType
    BY AnnouncedSame DEF Types
  <2>2. /\ snd' \in SndType /\ snd'.NXT = snd.NXT /\ snd'.UNA = snd.UNA /\ snd'.LCS = snd.LCS
        /\ snd'.pending = snd.pending
    BY <1>5, <2>1 DEF AnnouncedAs
  <2>3. Types'
    <3>1. tries' \in 0 .. Patience - 1 /\ call' \in Nat
      BY <1>5, ArdpSendAssumption DEF Types
    <3>2. c.buf \in [Slots -> Buffer]
      BY <1>3 DEF Touched
    <3> QED
      BY <1>5, <2>2, <3>1, <3>2 DEF Types, Timed, timers, peer
  <2>4. Beginning'
    BY DEF Beginning, Unused
  <2>5. c.wire \subseteq 1 .. snd.NXT - 1 /\ (~overtaken => \A m \in c.wire : m <= rcvLcs + SegMax)
    BY <1>1, <1>3, TouchedStaysWithin
  <2>6. PeerInv'
    BY <1>5, <2>2, <2>5 DEF PeerInv, Timed, peer, Live
  <2>7. Sent(snd, c.buf, Told) /\ \A told : told # "OK" => Sent(snd, c.buf, told)
    BY <1>1, <1>3, TouchedKeepsWindow
  <2>8. Window'
    <3>0. Told' = Told \/ Told' # "OK"
      BY <1>5 DEF Told
    <3>1. Sent(snd, c.buf, Told')
      BY <2>7, <3>0
    <3>2. Sent(snd', c.buf, Told')
      BY <2>2, <3>1 DEF Sent
    <3> QED
      BY <1>5, <3>2 DEF Window, Timed
  <2>9. Whole'
    <3>1. ~resumed => Accounted(snd, c.buf, left) /\ Accounted(Announced, c.buf, left)
      BY <1>3, TouchedKeepsAccount
    <3> QED
      BY <1>5, <3>1 DEF Whole, Timed
  <2>10. CallerInv'
    BY <1>5 DEF CallerInv
  <2>11. PeerWindow'
    BY <1>1, <1>5, <2>2, <2>5 DEF PeerWindow, Consumed, WithinPeerWindow, Timed, peer, Live
  <2> QED
    BY <1>5, <2>3, <2>4, <2>6, <2>8, <2>9, <2>10, <2>11
<1>6. CASE c.failed
  <2>1. UNCHANGED asserts
    BY <1>2, <1>6
  <2>2. Held'
    BY <2>1 DEF Held
  <2> QED
    BY <1>2, <1>5, <1>6, <2>2
<1>7. CASE ~c.failed /\ (snd.pending = SegMax \/ NoRoom(c.buf[Slot(snd.NXT)].dataLen + len))
  <2>1. /\ Timed(c)
        /\ IF tries + 1 >= Patience
           THEN phase' = "idle" /\ call' = 0 /\ tries' = 0 /\ status' = "WRITE"
           ELSE phase' = "wait" /\ call' = len /\ tries' = tries + 1 /\ UNCHANGED status
        /\ IF snd.pending = SegMax
           THEN UNCHANGED <<snd, asserts>>
           ELSE snd' = Announced /\ asserts' = (asserts /\ ~c.buf[Slot(snd.NXT)].inFlight)
        /\ UNCHANGED left
    BY <1>2, <1>7
  <2>2. tries + 1 >= Patience \/ tries + 1 < Patience
    BY ArdpSendAssumption DEF Types
  <2>3. ASSUME ~resumed, snd.pending # SegMax PROVE ~c.buf[Slot(snd.NXT)].inFlight
    <3>1. Sent(snd, c.buf, Told) /\ Told = "OK"
      BY <1>1, <1>3, <2>3, TouchedKeepsWindow DEF Told
    <3>2. Slot(snd.NXT) \in Slots /\ snd.NXT + 0 = snd.NXT /\ 0 \in Slots /\ snd.NXT \in Int
      BY NextSlot, ArdpSendAssumption DEF Slots
    <3>3. Distance(Slot(snd.NXT), snd.NXT) = 0
      BY <3>2, DistanceOf
    <3>4. snd.pending \in 0 .. SegMax /\ SegMax \in Nat
      BY ArdpSendAssumption DEF Types, SndType
    <3>5. 0 < SegMax - snd.pending
      BY <2>3, <3>4
    <3> QED
      BY <3>1, <3>2, <3>3, <3>5, NextAreFree
  <2>4. Held'
    BY <2>1, <2>3 DEF Held
  <2> QED
    BY <1>5, <2>1, <2>2, <2>4
<1> QED
  BY <1>4, <1>6, <1>7

LEMMA SendStep == IInv /\ (Send \/ SendAgain) => IInv'
<1> SUFFICES ASSUME IInv, Send \/ SendAgain PROVE IInv'
  OBVIOUS
<1>1. CASE Send
  <2>1. /\ state = "OPEN" /\ status = "OK" /\ \E len \in 1 .. left : TrySend(len)
        /\ UNCHANGED <<state, timers, acks, peer, resumed, overtaken>>
    BY <1>1 DEF Send
  <2> QED
    BY <2>1, TrySendStep
<1>2. CASE SendAgain
  <2>1. /\ state = "OPEN" /\ status = "OK" /\ call \in 1 .. left /\ TrySend(call)
        /\ UNCHANGED <<state, timers, acks, peer, resumed, overtaken>>
    BY <1>2 DEF SendAgain, IInv, CallerInv
  <2> QED
    BY <2>1, TrySendStep
<1> QED
  BY <1>1, <1>2

-----------------------------------------------------------------------------
(* The theorems *)

LEMMA Inductive == IInv /\ [Next]_vars => IInv'
BY ConnectStep, ConnectTimerStep, PeerAnswersStep, RecvSynAckStep, RecvNothingStep, RecvAckStep,
   RecvResetStep, StartMsgStep, SendStep, DisconnectStep, PeerReceivesStep, PeerConsumesStep,
   PeerAcksStep, LoseSegmentStep, LoseAckStep, StutterStep DEF Next

LEMMA InvariantHolds == Spec => []IInv
<1>1. IInv /\ [Next]_vars => IInv'
  BY Inductive
<1>2. Init => IInv
  BY InitIInv
<1> QED
  BY <1>1, <1>2, PTL DEF Spec

LEMMA IInvTypeOK == IInv => TypeOK
<1> SUFFICES ASSUME IInv PROVE TypeOK
  OBVIOUS
<1> USE DEF IInv
<1>1. /\ snd.NXT \in 1 .. MaxSegment + 1 /\ snd.UNA \in 0 .. snd.NXT /\ snd.LCS \in 0 .. snd.NXT - 1
      /\ snd.pending \in 0 .. SegMax
  BY NextSlot DEF Types, SndType, PeerInv
<1>2. \A i \in Slots : buf[i].dataLen \in 0 .. MaxDlen /\ buf[i].retry \in 0 .. MinDataRetries + 1
  BY DEF Types, Buffer
<1> QED
  BY <1>1, <1>2 DEF Types, TypeOK

LEMMA IInvWindowAgrees == IInv => WindowAgrees
<1> SUFFICES ASSUME IInv PROVE WindowAgrees
  OBVIOUS
<1> USE DEF IInv
<1> DEFINE running == {i \in Slots : buf[i].retry # 0}
<1>1. ASSUME Live
      PROVE  /\ snd.pending = Cardinality(running) /\ running \subseteq InFlight
             /\ {buf[i].seq : i \in running} = snd.UNA .. snd.NXT - 1
             /\ \A i \in running : Slot(buf[i].seq) = i
             /\ status = "OK" /\ ~resumed => InFlight = running
  <2>1. Sent(snd, buf, Told)
    BY <1>1 DEF Window
  <2>2. /\ snd.UNA \in Nat /\ snd.NXT \in Nat /\ snd.pending \in 0 .. SegMax /\ SegMax \in Nat
        /\ snd.pending = snd.NXT - snd.UNA
    BY <2>1, ArdpSendAssumption DEF Types, SndType, Sent
  <2>3. ASSUME NEW m \in snd.UNA .. snd.NXT - 1 PROVE Slot(m) \in running /\ buf[Slot(m)].seq = m
    <3>1. m \in Int /\ Slot(m) \in Slots
      BY <2>2, SlotType
    <3>2. /\ buf[Slot(m)].retry # 0 /\ buf[Slot(m)].seq \in snd.UNA .. snd.NXT - 1
          /\ Slot(buf[Slot(m)].seq) = Slot(m)
      BY <2>1, <3>1 DEF Sent
    <3> DEFINE q == buf[Slot(m)].seq
    <3>3. q \in Int /\ q - m < SegMax /\ m - q < SegMax /\ Slot(q) = Slot(m)
      BY <2>2, <3>1, <3>2
    <3> HIDE DEF q
    <3>4. q = m
      BY <3>1, <3>3, SameSlot
    <3> QED
      BY <3>1, <3>2, <3>4 DEF q
  <2>4. \A i \in running : buf[i].inFlight /\ buf[i].seq \in snd.UNA .. snd.NXT - 1 /\ Slot(buf[i].seq) = i
    BY <2>1 DEF Sent
  <2>5. running = {Slot(m) : m \in snd.UNA .. snd.NXT - 1}
    <3> HIDE DEF running
    <3>1. running \subseteq {Slot(m) : m \in snd.UNA .. snd.NXT - 1}
      BY <2>4
    <3>2. {Slot(m) : m \in snd.UNA .. snd.NXT - 1} \subseteq running
      BY <2>3
    <3> QED
      BY <3>1, <3>2
  <2>6. Cardinality(running) = snd.pending
    <3>1. snd.UNA \in Int /\ snd.NXT - 1 \in Int /\ snd.NXT - 1 - snd.UNA < SegMax
      BY <2>2
    <3>2. Cardinality(running) = IF snd.UNA > snd.NXT - 1 THEN 0 ELSE snd.NXT - 1 - snd.UNA + 1
      BY <2>5, <3>1, SlotsOf
    <3> QED
      BY <2>2, <3>2
  <2>7. {buf[i].seq : i \in running} = snd.UNA .. snd.NXT - 1
    <3> HIDE DEF running
    <3>1. snd.UNA .. snd.NXT - 1 \subseteq {buf[i].seq : i \in running}
      BY <2>3
    <3> QED
      BY <2>4, <3>1
  <2>8. running \subseteq InFlight /\ (status = "OK" /\ ~resumed => InFlight = running)
    BY <2>1, <2>4 DEF Sent, InFlight, Told
  <2> QED
    BY <2>4, <2>6, <2>7, <2>8
<1>2. ASSUME state = "OPEN", status = "OK", left = 0, ~snd.newMsg, ~resumed
      PROVE  /\ snd.msgSent = snd.msgTotal
             /\ ~buf[Slot(snd.NXT)].inFlight => buf[Slot(snd.NXT)].dataLen = 0
  <2>1. Accounted(snd, buf, left) /\ snd.msgSent \in Int
    BY <1>2 DEF Whole, Types, SndType
  <2>2. Waiting(snd, buf) = 0
    BY <1>2, <2>1 DEF Accounted
  <2> QED
    BY <1>2, <2>1, <2>2 DEF Accounted, Waiting
<1>3. ~resumed => asserts
  BY DEF Held
<1> HIDE DEF running
<1>4. state \in {"OPEN", "CLOSE_WAIT"} =>
        /\ snd.pending = Cardinality({i \in Slots : buf[i].retry # 0})
        /\ {i \in Slots : buf[i].retry # 0} \subseteq InFlight
        /\ {buf[i].seq : i \in {i \in Slots : buf[i].retry # 0}} = snd.UNA .. snd.NXT - 1
        /\ \A i \in {i \in Slots : buf[i].retry # 0} : Slot(buf[i].seq) = i
        /\ status = "OK" /\ ~resumed => InFlight = {i \in Slots : buf[i].retry # 0}
  BY <1>1 DEF Live, running
<1> QED
  BY <1>2, <1>3, <1>4 DEF WindowAgrees

\* For every number of buffers and retries, and for callers that stop after a
\* failed send and callers that go on, the variables of the sending half keep
\* their types and its counters their bounds.
THEOREM TypeOKHolds == Spec => []TypeOK
<1>1. IInv => TypeOK
  BY IInvTypeOK
<1> QED
  BY <1>1, InvariantHolds, PTL

\* Whatever is lost, late or refused, ARDP_Send, UpdateSndSegments and the
\* timers agree on what was sent and not acknowledged: a buffer each, its timer
\* running, the oldest included.  As long as no message was begun after a send
\* that failed, nothing else is marked as in flight, no marked buffer is filled
\* again, and a message handed over whole is sent whole.
THEOREM WindowAgreesHolds == Spec => []WindowAgrees
<1>1. IInv => WindowAgrees
  BY IInvWindowAgrees
<1> QED
  BY <1>1, InvariantHolds, PTL

\* Until an acknowledgement overtakes another, ARDP_Send never sends a segment
\* that the peer has no buffer for, whatever fails and whoever goes on.
THEOREM WithinWindowInOrderHolds == Spec => []WithinWindowInOrder
<1>1. IInv => WithinWindowInOrder
  BY DEF IInv, PeerWindow, WithinWindowInOrder
<1> QED
  BY <1>1, InvariantHolds, PTL
=============================================================================

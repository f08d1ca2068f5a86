--------------------------- MODULE ConnectProofs ---------------------------
(***************************************************************************)
(* Proofs about LinkWatch, for any timeouts and any number of probes, and  *)
(* about Connect, for any nodes and answers and any length of its lists.   *)
(***************************************************************************)
EXTENDS Connect, FiniteSetTheorems, SequenceTheorems, TLAPS

-----------------------------------------------------------------------------
(* The watch over the link *)

\* The ping timer starts after the link timer, and is counted after it has started.
TimersInOrder ==
  /\ linkTimer = Off => pingTimer = Off
  /\ pingTimer = Off => numOfPingTimedOut = 0

\* The age of a running timer never exceeds the silence it stands for, if it was
\* started on this connection.
TimersWithinSilence ==
  ~inherited =>
    /\ linkTimer # Off => linkTimer <= silence
    /\ pingTimer # Off =>
         BusLinkTimeout + numOfPingTimedOut * PingTimeout + pingTimer <= silence

\* A request is counted when the ping timer starts, and each time it restarts.
ProbesCounted ==
  /\ pingTimer = Off => probes = 0
  /\ pingTimer # Off => probes <= numOfPingTimedOut + 1
  /\ pingTimer # Off /\ ~inherited => probes = numOfPingTimedOut + 1

IInv == TypeOK /\ TimersInOrder /\ TimersWithinSilence /\ ProbesCounted

\* The time that n + 1 ping timeouts take, and its bound.
LEMMA PingsTake ==
  ASSUME NEW n \in Nat, n < MaxPings
  PROVE  /\ n * PingTimeout \in Nat
         /\ (n + 1) * PingTimeout = n * PingTimeout + PingTimeout
         /\ n * PingTimeout + PingTimeout <= MaxPings * PingTimeout
         /\ MaxPings * PingTimeout \in Nat
<1>1. PingTimeout \in Nat /\ MaxPings \in Nat
  BY TimeoutAssumption
<1>2. (n + 1) * PingTimeout = n * PingTimeout + PingTimeout
  BY <1>1
<1>3. n + 1 <= MaxPings
  BY <1>1
<1>4. \A a, b, c \in Nat : a <= b => a * c <= b * c
  OBVIOUS
<1>5. (n + 1) * PingTimeout <= MaxPings * PingTimeout
  BY <1>1, <1>3, <1>4
<1> QED
  BY <1>1, <1>2, <1>5

\* A second makes the silence one second longer, up to the cap.
LEMMA SilenceStep ==
  ASSUME TypeOK, SilenceGrows
  PROVE  /\ silence' \in 0 .. Patience
         /\ silence' >= silence
         /\ \A n \in Nat : n <= silence + 1 /\ n <= Patience => n <= silence'
<1>1. Patience \in Nat
  BY PingsTake, TimeoutAssumption DEF Patience
<1> QED
  BY <1>1 DEF TypeOK, SilenceGrows, Capped

LEMMA InitIInv == Init => IInv
<1>1. Patience \in Nat
  BY PingsTake, TimeoutAssumption DEF Patience
<1>2. Init => TypeOK
  <2> SUFFICES ASSUME Init PROVE TypeOK
    OBVIOUS
  <2>1. /\ linkTimer \in Off .. BusLinkTimeout /\ pingTimer \in Off .. PingTimeout
        /\ silence \in 0 .. Patience /\ probes \in Nat
    BY <1>1, TimeoutAssumption DEF Init, Off
  <2>2. numOfPingTimedOut \in 0 .. MaxPings - 1
    BY TimeoutAssumption DEF Init
  <2>3. /\ connected \in BOOLEAN /\ isProbeRequired \in BOOLEAN /\ nodeAlive \in BOOLEAN
        /\ inherited \in BOOLEAN
    BY DEF Init
  <2> QED BY <2>1, <2>2, <2>3 DEF TypeOK
<1>3. Init => TimersInOrder /\ TimersWithinSilence /\ ProbesCounted
  BY DEF Init, TimersInOrder, TimersWithinSilence, ProbesCounted
<1> QED
  BY <1>2, <1>3 DEF IInv

\* What both timers show a second later is within the longer silence.
LEMMA AgesStep ==
  ASSUME IInv, SilenceGrows
  PROVE  /\ LinkAge \in Off .. BusLinkTimeout /\ PingAge \in Off .. PingTimeout
         /\ (LinkAge = Off) = (linkTimer = Off) /\ (PingAge = Off) = (pingTimer = Off)
         /\ ~inherited =>
              /\ LinkAge # Off => LinkAge <= silence'
              /\ PingAge # Off =>
                   BusLinkTimeout + numOfPingTimedOut * PingTimeout + PingAge <= silence'
<1>1. /\ LinkAge \in Off .. BusLinkTimeout /\ PingAge \in Off .. PingTimeout
      /\ (LinkAge = Off) = (linkTimer = Off) /\ (PingAge = Off) = (pingTimer = Off)
      /\ LinkAge # Off => LinkAge \in Nat /\ LinkAge <= linkTimer + 1
      /\ PingAge # Off => PingAge \in Nat /\ PingAge <= pingTimer + 1
  BY TimeoutAssumption DEF IInv, TypeOK, LinkAge, PingAge, Older, Capped, Off
<1> DEFINE spent == numOfPingTimedOut * PingTimeout
<1>2. numOfPingTimedOut \in Nat /\ numOfPingTimedOut < MaxPings
  BY TimeoutAssumption DEF IInv, TypeOK
<1>3. spent \in Nat /\ spent + PingTimeout <= MaxPings * PingTimeout
      /\ MaxPings * PingTimeout \in Nat
  BY <1>2, PingsTake
<1>4. \A n \in Nat : n <= silence + 1 /\ n <= Patience => n <= silence'
  BY SilenceStep DEF IInv
<1>5. BusLinkTimeout \in Nat /\ PingTimeout \in Nat /\ silence \in Nat
      /\ Patience = BusLinkTimeout + MaxPings * PingTimeout
  BY <1>3, TimeoutAssumption DEF IInv, TypeOK, Patience
<1>6. ASSUME ~inherited, LinkAge # Off PROVE LinkAge <= silence'
  <2>1. linkTimer # Off /\ linkTimer <= silence /\ linkTimer \in Int
    BY <1>1, <1>6 DEF IInv, TimersWithinSilence, TypeOK, Off
  <2>2. LinkAge \in Nat /\ LinkAge <= silence + 1
    BY <1>1, <1>5, <1>6, <2>1
  <2>3. LinkAge <= Patience
    BY <1>1, <1>3, <1>5, <2>2
  <2> QED
    BY <1>4, <2>2, <2>3
<1>7. ASSUME ~inherited, PingAge # Off PROVE BusLinkTimeout + spent + PingAge <= silence'
  <2>1. pingTimer # Off /\ BusLinkTimeout + spent + pingTimer <= silence /\ pingTimer \in Int
    BY <1>1, <1>7 DEF IInv, TimersWithinSilence, TypeOK, Off
  <2>2. PingAge \in Nat /\ PingAge <= pingTimer + 1 /\ PingAge <= PingTimeout
    BY <1>1, <1>5, <1>7
  <2> HIDE DEF spent
  <2>3. /\ BusLinkTimeout + spent + PingAge \in Nat
        /\ BusLinkTimeout + spent + PingAge <= silence + 1
        /\ BusLinkTimeout + spent + PingAge <= Patience
    BY <1>3, <1>5, <2>1, <2>2
  <2> QED
    BY <1>4, <2>3
<1> QED
  BY <1>1, <1>6, <1>7

-----------------------------------------------------------------------------

\* A silent second keeps the invariant.
LEMMA SilentSecondKeeps == ASSUME IInv, SilentSecond PROVE IInv'
<1> USE DEF Off
<1>1. /\ SilenceGrows /\ TypeOK /\ TimersInOrder /\ TimersWithinSilence /\ ProbesCounted
      /\ UNCHANGED <<connected, isProbeRequired, nodeAlive, inherited>>
  BY DEF SilentSecond, IInv
<1>2. silence' \in 0 .. Patience /\ silence' >= silence /\ silence \in Nat
  BY <1>1, SilenceStep DEF TypeOK
<1>3. /\ LinkAge \in Off .. BusLinkTimeout /\ PingAge \in Off .. PingTimeout
      /\ (LinkAge = Off) = (linkTimer = Off) /\ (PingAge = Off) = (pingTimer = Off)
      /\ ~inherited =>
           /\ LinkAge # Off => LinkAge <= silence'
           /\ PingAge # Off =>
                BusLinkTimeout + numOfPingTimedOut * PingTimeout + PingAge <= silence'
  BY AgesStep, <1>1 DEF IInv
<1>4. CASE TooEarly
  <2>1. TypeOK'
    BY <1>1, <1>2, <1>3, <1>4 DEF TypeOK, TooEarly
  <2>2. TimersInOrder' /\ TimersWithinSilence'
    BY <1>1, <1>3, <1>4 DEF TimersInOrder, TimersWithinSilence, TooEarly
  <2>3. ProbesCounted'
    BY <1>1, <1>3, <1>4 DEF ProbesCounted, TooEarly
  <2> QED BY <2>1, <2>2, <2>3 DEF IInv
<1>5. CASE StartLinkTimer
  <2>1. TypeOK'
    BY <1>1, <1>2, <1>3, <1>5, TimeoutAssumption DEF TypeOK, StartLinkTimer
  <2>2. pingTimer = Off /\ pingTimer' = Off
    BY <1>1, <1>3, <1>5 DEF TimersInOrder, TimersWithinSilence, StartLinkTimer
  <2>3. TimersInOrder' /\ TimersWithinSilence'
    BY <1>1, <1>2, <1>5, <2>2 DEF TimersInOrder, TimersWithinSilence, StartLinkTimer
  <2>4. ProbesCounted'
    BY <1>1, <1>5, <2>2 DEF ProbesCounted, StartLinkTimer
  <2> QED BY <2>1, <2>3, <2>4 DEF IInv
<1>6. CASE FirstProbe
  <2>1. TypeOK'
    BY <1>1, <1>2, <1>3, <1>6, TimeoutAssumption DEF TypeOK, FirstProbe
  <2>2. /\ pingTimer = Off /\ numOfPingTimedOut = 0 /\ numOfPingTimedOut' = 0
        /\ linkTimer' = BusLinkTimeout /\ pingTimer' = 0
        /\ ~inherited => BusLinkTimeout <= silence'
    BY <1>1, <1>3, <1>6, TimeoutAssumption DEF TimersInOrder, TimersWithinSilence, FirstProbe, LinkSilent
  <2>3. numOfPingTimedOut' * PingTimeout = 0
    BY <2>2, TimeoutAssumption
  <2>4. TimersInOrder' /\ TimersWithinSilence'
    BY <1>1, <2>2, <2>3, <1>2, TimeoutAssumption DEF TimersInOrder, TimersWithinSilence
  <2>5. ProbesCounted'
    BY <1>1, <1>6, <2>2 DEF ProbesCounted, FirstProbe, TypeOK
  <2> QED BY <2>1, <2>4, <2>5 DEF IInv
<1>7. CASE NextProbe
  <2>1. /\ numOfPingTimedOut \in Nat /\ numOfPingTimedOut + 1 < MaxPings
        /\ numOfPingTimedOut' = numOfPingTimedOut + 1
    BY <1>1, <1>7, TimeoutAssumption DEF NextProbe, TypeOK
  <2>2. TypeOK'
    BY <1>1, <1>2, <1>3, <1>7, <2>1, TimeoutAssumption DEF TypeOK, NextProbe
  <2>3. /\ linkTimer' = BusLinkTimeout /\ PingAge = PingTimeout /\ pingTimer' = 0
        /\ pingTimer # Off /\ (~inherited => BusLinkTimeout <= silence')
    BY <1>3, <1>7, TimeoutAssumption DEF NextProbe, PingTimedOut, LinkSilent
  <2>4. numOfPingTimedOut' * PingTimeout = numOfPingTimedOut * PingTimeout + PingTimeout
        /\ numOfPingTimedOut * PingTimeout \in Nat
    BY <2>1, PingsTake, TimeoutAssumption
  <2>5. ASSUME ~inherited
        PROVE  BusLinkTimeout + numOfPingTimedOut' * PingTimeout + pingTimer' <= silence'
    <3>1. BusLinkTimeout + numOfPingTimedOut * PingTimeout + PingTimeout <= silence'
      BY <1>3, <2>3, <2>5, TimeoutAssumption
    <3> DEFINE spent == numOfPingTimedOut * PingTimeout
               later == numOfPingTimedOut' * PingTimeout
    <3>2. /\ BusLinkTimeout + spent + PingTimeout <= silence'
          /\ later = spent + PingTimeout /\ spent \in Nat
      BY <2>4, <3>1
    <3> HIDE DEF spent, later
    <3>3. BusLinkTimeout + later + pingTimer' <= silence'
      BY <3>2, <2>3, <1>2, TimeoutAssumption
    <3> QED BY <3>3 DEF later
  <2>6. TimersInOrder' /\ TimersWithinSilence'
    BY <1>1, <2>3, <2>5, TimeoutAssumption DEF TimersInOrder, TimersWithinSilence
  <2>7. ProbesCounted'
    BY <1>1, <1>7, <2>1, <2>3 DEF ProbesCounted, NextProbe, TypeOK
  <2> QED BY <2>2, <2>6, <2>7 DEF IInv
<1> QED
  BY <1>4, <1>5, <1>6, <1>7 DEF SilentSecond

\* So does a second spent elsewhere.
LEMMA OtherSecondKeeps == ASSUME IInv, OtherSecond PROVE IInv'
<1> USE DEF Off
<1>1. /\ SilenceGrows /\ TypeOK /\ TimersInOrder /\ TimersWithinSilence /\ ProbesCounted
      /\ linkTimer' = LinkAge /\ pingTimer' = PingAge
      /\ UNCHANGED <<numOfPingTimedOut, connected, isProbeRequired, nodeAlive, probes, inherited>>
  BY DEF OtherSecond, IInv
<1>2. silence' \in 0 .. Patience
  BY <1>1, SilenceStep
<1>3. /\ LinkAge \in Off .. BusLinkTimeout /\ PingAge \in Off .. PingTimeout
      /\ (LinkAge = Off) = (linkTimer = Off) /\ (PingAge = Off) = (pingTimer = Off)
      /\ ~inherited =>
           /\ LinkAge # Off => LinkAge <= silence'
           /\ PingAge # Off =>
                BusLinkTimeout + numOfPingTimedOut * PingTimeout + PingAge <= silence'
  BY AgesStep, <1>1 DEF IInv
<1>4. TypeOK'
  BY <1>1, <1>2, <1>3 DEF TypeOK
<1>5. TimersInOrder' /\ TimersWithinSilence'
  BY <1>1, <1>3 DEF TimersInOrder, TimersWithinSilence
<1>6. ProbesCounted'
  BY <1>1, <1>3 DEF ProbesCounted
<1> QED BY <1>4, <1>5, <1>6 DEF IInv

LEMMA ClearedKeeps ==
  ASSUME IInv, Cleared,
         connected' \in BOOLEAN, UNCHANGED <<isProbeRequired, nodeAlive>>
  PROVE  IInv'
<1>1. Patience \in Nat
  BY PingsTake, TimeoutAssumption DEF Patience
<1>2. /\ linkTimer' \in Off .. BusLinkTimeout /\ pingTimer' \in Off .. PingTimeout
      /\ numOfPingTimedOut' \in 0 .. MaxPings - 1
      /\ silence' \in 0 .. Patience /\ probes' \in Nat
  BY <1>1, TimeoutAssumption DEF Cleared, Off
<1>3. /\ isProbeRequired' \in BOOLEAN /\ nodeAlive' \in BOOLEAN
      /\ inherited' \in BOOLEAN
  BY DEF IInv, TypeOK, Cleared
<1>4. TypeOK'
  BY <1>2, <1>3 DEF TypeOK
<1>5. TimersInOrder' /\ TimersWithinSilence' /\ ProbesCounted'
  BY DEF Cleared, TimersInOrder, TimersWithinSilence, ProbesCounted
<1> QED BY <1>4, <1>5 DEF IInv

\* When the ping timer has run out for the last time, the silence, one second
\* from now, is the watcher's whole patience, and every request has been sent.
LEMMA PatienceSpent ==
  ASSUME IInv, GiveUp, ~inherited
  PROVE  silence + 1 >= Patience /\ probes = MaxPings
<1> DEFINE grown == Capped(silence + 1, Patience)
<1>1. TypeOK /\ TimersWithinSilence /\ ProbesCounted /\ PingTimedOut /\ numOfPingTimedOut + 1 >= MaxPings
  BY DEF IInv, GiveUp
<1>2. numOfPingTimedOut \in Nat /\ numOfPingTimedOut + 1 = MaxPings
      /\ BusLinkTimeout \in Nat /\ PingTimeout \in Nat \ {0} /\ silence \in Nat
  BY <1>1, TimeoutAssumption DEF TypeOK
<1>3. pingTimer # Off /\ pingTimer \in Nat /\ pingTimer + 1 >= PingTimeout
  BY <1>1, <1>2, TimeoutAssumption DEF PingTimedOut, PingAge, Older, Capped, TypeOK, Off
<1>4. BusLinkTimeout + numOfPingTimedOut * PingTimeout + pingTimer <= silence
  BY <1>1, <1>3 DEF TimersWithinSilence
<1>5. numOfPingTimedOut * PingTimeout \in Nat
      /\ MaxPings * PingTimeout = numOfPingTimedOut * PingTimeout + PingTimeout
  BY <1>2, PingsTake
<1> DEFINE spent == numOfPingTimedOut * PingTimeout
           all == MaxPings * PingTimeout
<1>6. BusLinkTimeout + spent + pingTimer <= silence /\ all = spent + PingTimeout /\ spent \in Nat
  BY <1>4, <1>5
<1> HIDE DEF spent, all
<1>7. silence + 1 >= BusLinkTimeout + all
  BY <1>2, <1>3, <1>6
<1>8. probes = MaxPings
  BY <1>1, <1>2, <1>3 DEF ProbesCounted
<1> QED
  BY <1>7, <1>8 DEF all, Patience

\* A new connection inherits the timers, with no request sent over it yet.
LEMMA ConnectKeeps == ASSUME IInv, RoutingNodeConnect PROVE IInv'
<1>1. Patience \in Nat
  BY PingsTake, TimeoutAssumption DEF Patience
<1>2. TypeOK'
  BY <1>1 DEF RoutingNodeConnect, watcher, IInv, TypeOK
<1>3. TimersInOrder' /\ TimersWithinSilence'
  BY DEF RoutingNodeConnect, watcher, IInv, TimersInOrder, TimersWithinSilence
<1>4. probes' = 0
  BY DEF RoutingNodeConnect
<1>5. numOfPingTimedOut' \in Nat
  BY <1>2, TimeoutAssumption DEF TypeOK
<1>6. \A n \in Nat : 0 <= n + 1
  OBVIOUS
<1>7. ~inherited' => pingTimer' = Off
  BY DEF RoutingNodeConnect, watcher, IInv, TimersInOrder
<1>8. ProbesCounted'
  BY <1>4, <1>5, <1>6, <1>7 DEF ProbesCounted
<1> QED BY <1>2, <1>3, <1>8 DEF IInv

LEMMA NextKeeps == IInv /\ [Next]_vars => IInv'
<1> SUFFICES ASSUME IInv, [Next]_vars PROVE IInv'
  OBVIOUS
<1>1. CASE SilentSecond
  BY <1>1, SilentSecondKeeps
<1>2. CASE GiveUp
  BY <1>2, ClearedKeeps DEF GiveUp
<1>3. CASE HandleMessage
  BY <1>3, ClearedKeeps DEF HandleMessage, IInv, TypeOK
<1>4. CASE OtherSecond
  BY <1>4, OtherSecondKeeps
<1>5. CASE Disconnect
  BY <1>5 DEF Disconnect, watcher, IInv, TypeOK, TimersInOrder,
             TimersWithinSilence, ProbesCounted
<1>6. CASE RoutingNodeConnect
  BY <1>6, ConnectKeeps
<1>7. CASE NodeDies
  BY <1>7 DEF NodeDies, watcher, IInv, TypeOK, TimersInOrder, TimersWithinSilence, ProbesCounted
<1>8. CASE UNCHANGED vars
  BY <1>8 DEF vars, watcher, IInv, TypeOK, TimersInOrder, TimersWithinSilence, ProbesCounted
<1> QED
  BY <1>1, <1>2, <1>3, <1>4, <1>5, <1>6, <1>7, <1>8 DEF Next

\* The inductive invariant holds throughout.
THEOREM InductiveInvariant == Spec => []IInv
<1> QED
  BY InitIInv, NextKeeps, PTL DEF Spec

\* At most MaxPings requests are sent before the link is active again or lost.
THEOREM ProbesBoundedHolds == Spec => []ProbesBounded
<1>1. IInv => ProbesBounded
  BY TimeoutAssumption DEF IInv, TypeOK, ProbesCounted, ProbesBounded
<1> QED
  BY <1>1, InductiveInvariant, PTL

\* Unless its timers ran already when it was connected and nothing has been
\* handled since, the link is given up only after the bus link timeout and the
\* timeouts of all the probes have passed on it, and all the probes been sent over
\* it, however these are chosen.
THEOREM GivenUpAfterProbesHolds == Spec => GivenUpAfterProbes
<1>1. IInv /\ [Next]_vars =>
        [GiveUp /\ ~inherited => silence + 1 >= Patience /\ probes = MaxPings]_vars
  BY PatienceSpent
<1> QED
  BY <1>1, InductiveInvariant, PTL DEF Spec, GivenUpAfterProbes

-----------------------------------------------------------------------------
(* Connecting *)

\* Every step of Connect is a step of the watch, or none.
LEMMA NextIsWatch == [NextConnect]_connVars => [Next]_vars
<1> SUFFICES ASSUME NextConnect, ~(UNCHANGED vars) PROVE Next
  BY DEF connVars
<1>1. CASE Watch
  BY <1>1 DEF Watch, WatchLink, Next
<1>2. CASE Try
  BY <1>2 DEF Try, Connect, AttemptFails, Refused, Hangs, Next
<1> QED
  BY <1>1, <1>2 DEF NextConnect, StartDiscovery, TakeAnswer, TakeAnswerOf, EndDiscovery

\* However nodes are found and tried, the link is watched as LinkWatch says.
THEOREM ConnectImplementsLinkWatch == SpecConnect => Spec
<1>1. InitConnect => Init
  BY DEF InitConnect
<1> QED
  BY <1>1, NextIsWatch, PTL DEF SpecConnect, Spec

\* So a link found by all that is given up as GivenUpAfterProbes says, too.
THEOREM ConnectGivenUpAfterProbes == SpecConnect => GivenUpAfterProbes
BY ConnectImplementsLinkWatch, GivenUpAfterProbesHolds

-----------------------------------------------------------------------------
(* Numbers *)

\* A set of numbers has a least element, so what holds of 1 and passes from each
\* number to the next holds of them all.
LEMMA LeastOf ==
  ASSUME NEW S \in SUBSET Nat, S # {}
  PROVE  \E n \in S : \A k \in S : n <= k
<1> DEFINE R == OpToRel(<, Nat)
<1>1. IsWellFoundedOn(R, Nat)
  BY NatLessThanWellFounded
<1> HIDE DEF R
<1>2. PICK n \in S : \A k \in S : <<k, n>> \notin R
  BY <1>1, WFMin
<1>3. \A k \in S : ~ (k < n)
  BY <1>2 DEF R, OpToRel
<1> QED
  BY <1>3

LEMMA Reaches ==
  ASSUME NEW n \in Nat, NEW S, 1 \in S, \A m \in 1 .. n - 1 : m \in S => m + 1 \in S
  PROVE  1 .. n \subseteq S
<1> DEFINE T == (1 .. n) \ S
<1> SUFFICES ASSUME T # {} PROVE FALSE
  OBVIOUS
<1>1. T \in SUBSET Nat
  OBVIOUS
<1> HIDE DEF T
<1>2. PICK t \in T : \A k \in T : t <= k
  BY <1>1, LeastOf
<1>3. t \in 1 .. n /\ t \notin S /\ t # 1
  BY <1>2 DEF T
<1>4. t - 1 \in 1 .. n - 1
  BY <1>3
<1>5. t - 1 \in S
  BY <1>2, <1>3, <1>4 DEF T
<1> QED
  BY <1>3, <1>4, <1>5

LEMMA Quotients ==
  ASSUME NEW n \in Nat \ {0}, NEW a \in Int
  PROVE  /\ a \div n \in Int /\ a % n \in 0 .. n - 1
         /\ a = n * (a \div n) + (a % n)
OBVIOUS

LEMMA Remainder ==
  ASSUME NEW n \in Nat \ {0}, NEW a \in Int, NEW q \in Int, NEW r \in 0 .. n - 1, a = n * q + r
  PROVE  a % n = r
<1> DEFINE p == a \div n
           s == a % n
<1>1. p \in Int /\ s \in 0 .. n - 1 /\ a = n * p + s
  BY Quotients
<1> HIDE DEF p, s
<1>2. n * (p - q) = r - s
  BY <1>1
<1>3. CASE p - q >= 1
  <2>1. n * (p - q) >= n
    BY <1>1, <1>3
  <2> QED
    BY <1>1, <1>2, <2>1
<1>4. CASE p - q <= -1
  <2>1. n * (q - p) >= n
    BY <1>1, <1>4
  <2>2. n * (q - p) = s - r
    BY <1>1
  <2> QED
    BY <1>1, <2>1, <2>2
<1>5. CASE p = q
  BY <1>1, <1>2, <1>5 DEF s
<1> QED
  BY <1>1, <1>3, <1>4, <1>5

\* Two remainders in a difference.
LEMMA RemainderOfDifference ==
  ASSUME NEW n \in Nat \ {0}, NEW a \in Int, NEW b \in Int, NEW x \in Int
  PROVE  /\ ((a % n) - b) % n = (a - b) % n
         /\ ((((a % n) - x) % n) - a) % n = (0 - x) % n
<1> DEFINE p == a \div n
           s == a % n
<1>1. p \in Int /\ s \in 0 .. n - 1 /\ a = n * p + s
  BY Quotients
<1> HIDE DEF p, s
<1>2. ASSUME NEW y \in Int PROVE (s - y) % n = (a - y) % n
  <2> DEFINE q == (a - y) \div n
             r == (a - y) % n
  <2>1. a - y \in Int
    OBVIOUS
  <2>2. q \in Int /\ r \in 0 .. n - 1 /\ a - y = n * q + r
    BY <2>1, Quotients
  <2> HIDE DEF q, r
  <2>3. s - y = n * (q - p) + r /\ s - y \in Int /\ q - p \in Int
    BY <1>1, <2>2
  <2>4. (s - y) % n = r
    BY <2>2, <2>3, Remainder
  <2> QED
    BY <2>4 DEF r
<1>3. (((s - x) % n) - a) % n = (0 - x) % n
  <2> DEFINE u == s - x
             q == u \div n
             r == u % n
             v == (0 - x) \div n
             w == (0 - x) % n
  <2>1. u \in Int /\ 0 - x \in Int
    BY <1>1
  <2>2. v \in Int /\ w \in 0 .. n - 1 /\ 0 - x = n * v + w
    BY <2>1, Quotients
  <2>a. u = s - x
    OBVIOUS
  <2> HIDE DEF u, v, w
  <2>3. q \in Int /\ r \in 0 .. n - 1 /\ u = n * q + r
    BY <2>1, Quotients
  <2> HIDE DEF q, r
  <2>4. r - a = n * (v - q - p) + w /\ r - a \in Int /\ v - q - p \in Int
    BY <1>1, <2>2, <2>3, <2>a
  <2>5. (r - a) % n = w
    BY <2>2, <2>4, Remainder
  <2> QED
    BY <2>5 DEF r, w, u
<1> QED
  BY <1>2, <1>3 DEF s

-----------------------------------------------------------------------------
(* The response list *)

\* Ranking is a strict order in which ties are alike.
LEMMA Ranking ==
  ASSUME NEW a \in Answers, NEW b \in Answers, NEW c \in Answers
  PROVE  /\ Outranks(a, b) => ~Outranks(b, a)
         /\ ~Outranks(a, b) /\ ~Outranks(b, c) => ~Outranks(a, c)
<1>1. /\ a.pv \in Nat /\ b.pv \in Nat /\ c.pv \in Nat
      /\ a.priority \in Nat /\ b.priority \in Nat /\ c.priority \in Nat
  BY ConnectAssumption
<1> QED
  BY <1>1 DEF Outranks

\* The list: its nodes are distinct, and none that is still to be tried is one
\* whose refusal is remembered.
ListInv ==
  /\ phase \in {"idle", "discovering", "trying"}
  /\ list \in Seq(Answers) /\ Len(list) <= ListSize /\ attempts \subseteq DOMAIN list
  /\ \A i, j \in DOMAIN list : list[i].node = list[j].node => i = j
  /\ \A i \in DOMAIN list \ attempts : <<list[i].node, "tcp">> \notin ToSet(refusals)
  /\ phase = "idle" => list = <<>> /\ attempts = {}
  /\ phase = "discovering" => attempts = {}
  /\ phase = "trying" => \E i \in attempts : chosen = list[i]
  /\ phase # "trying" => chosen = Nowhere
  /\ phase # "idle" => ~connected

\* What Select goes through: the first element, then the picks of each next one.
From(s, i) ==
  IF i \in attempts THEN {s}
  ELSE IF s \in attempts \/ Outranks(list[i], list[s]) THEN {i}
  ELSE IF Outranks(list[s], list[i]) \/ list[i].priority = 0 THEN {s} ELSE {s, i}

SelectPass(g, n) == g = [i \in 1 .. n |-> IF i = 1 THEN {1} ELSE UNION {From(s, i) : s \in g[i - 1]}]

LEMMA SelectPassExists ==
  ASSUME NEW n \in Nat \ {0}
  PROVE  \E g : SelectPass(g, n)
<1> DEFINE S == {m \in 1 .. n : \E g : SelectPass(g, m)}
<1>1. 1 \in S
  <2> DEFINE g == [i \in 1 .. 1 |-> {1}]
  <2>1. SelectPass(g, 1)
    BY DEF SelectPass
  <2> QED
    BY <2>1
<1>2. ASSUME NEW m \in 1 .. n - 1, m \in S PROVE m + 1 \in S
  <2>1. PICK g : SelectPass(g, m)
    BY <1>2
  <2> DEFINE h == [i \in 1 .. m + 1 |-> IF i <= m THEN g[i] ELSE UNION {From(s, i) : s \in g[m]}]
             k == [i \in 1 .. m + 1 |-> IF i = 1 THEN {1} ELSE UNION {From(s, i) : s \in h[i - 1]}]
  <2>2. ASSUME NEW i \in 1 .. m + 1 PROVE h[i] = k[i]
    <3>1. CASE i = 1
      BY <2>1, <3>1 DEF SelectPass
    <3>2. CASE i # 1 /\ i <= m
      <4>1. i \in 1 .. m /\ i - 1 \in 1 .. m /\ i - 1 \in 1 .. m + 1
        BY <3>2
      <4>2. g[i] = UNION {From(s, i) : s \in g[i - 1]}
        BY <2>1, <3>2, <4>1 DEF SelectPass
      <4>3. h[i - 1] = g[i - 1] /\ h[i] = g[i]
        BY <4>1
      <4> HIDE DEF h
      <4> QED
        BY <3>2, <4>2, <4>3
    <3>3. CASE i = m + 1
      <4>1. i - 1 = m /\ i # 1 /\ m \in 1 .. m + 1 /\ m \in Nat
        BY <3>3
      <4>2. h[i - 1] = g[m] /\ h[i] = UNION {From(s, i) : s \in g[m]}
        BY <3>3, <4>1
      <4> HIDE DEF h
      <4> QED
        BY <4>1, <4>2
    <3> QED
      BY <3>1, <3>2, <3>3
  <2>3. h = k
    <3>1. h = [i \in 1 .. m + 1 |-> h[i]] /\ k = [i \in 1 .. m + 1 |-> k[i]]
      OBVIOUS
    <3> HIDE DEF h, k
    <3> QED
      BY <2>2, <3>1
  <2>4. SelectPass(h, m + 1)
    BY <2>3 DEF SelectPass
  <2> QED
    BY <2>4
<1> HIDE DEF S
<1>3. 1 .. n \subseteq S
  BY <1>1, <1>2, Reaches
<1> QED
  BY <1>3 DEF S

\* s is untried and no untried element up to the m-th ranks above it; or all of
\* them have been tried.
BestOf(s, m) ==
  /\ s \in 1 .. m
  /\ IF s \in attempts THEN 1 .. m \subseteq attempts
     ELSE \A j \in 1 .. m : j \notin attempts => ~Outranks(list[j], list[s])

LEMMA SelectPassFinds ==
  ASSUME list \in Seq(Answers), NEW n \in Nat \ {0}, n = Len(list), NEW g, SelectPass(g, n)
  PROVE  \A s \in g[n] : BestOf(s, n)
<1> DEFINE S == {m \in 1 .. n : \A s \in g[m] : BestOf(s, m)}
<1>0. \A i \in 1 .. n : list[i] \in Answers
  OBVIOUS
<1>1. 1 \in S
  <2>1. g[1] = {1} /\ 1 \in 1 .. n
    BY DEF SelectPass
  <2>2. ~Outranks(list[1], list[1])
    BY <1>0, <2>1, Ranking
  <2>3. 1 .. 1 = {1}
    OBVIOUS
  <2>4. BestOf(1, 1)
    BY <2>2, <2>3 DEF BestOf
  <2> QED
    BY <2>1, <2>4
<1>2. ASSUME NEW m \in 1 .. n - 1, m \in S PROVE m + 1 \in S
  <2> DEFINE i == m + 1
  <2>1. i \in 1 .. n /\ i # 1 /\ i - 1 = m /\ m \in 1 .. n /\ 1 .. i = (1 .. m) \cup {i}
    OBVIOUS
  <2>2. g[i] = UNION {From(s, i) : s \in g[m]}
    BY <2>1 DEF SelectPass
  <2>3. ASSUME NEW t \in g[i] PROVE BestOf(t, i)
    <3>1. PICK s \in g[m] : t \in From(s, i)
      BY <2>2
    <3>2. BestOf(s, m)
      BY <1>2
    <3>3. /\ list[i] \in Answers /\ list[s] \in Answers /\ s \in 1 .. m /\ s \in 1 .. n
          /\ \A j \in 1 .. m : list[j] \in Answers
      BY <1>0, <2>1, <3>2 DEF BestOf
    <3> HIDE DEF i
    <3>4. CASE i \in attempts
      BY <2>1, <3>1, <3>2, <3>4 DEF From, BestOf
    <3>5. CASE i \notin attempts /\ t = i /\ s \in attempts
      <4>1. ~Outranks(list[i], list[i])
        BY <3>3, Ranking
      <4> QED
        BY <2>1, <3>2, <3>5, <4>1 DEF BestOf
    <3>6. CASE i \notin attempts /\ t = i /\ s \notin attempts
      <4>1. ~Outranks(list[s], list[i])
        BY <3>1, <3>3, <3>6, Ranking DEF From
      <4>2. \A j \in 1 .. m : j \notin attempts => ~Outranks(list[j], list[i])
        BY <3>2, <3>3, <3>6, <4>1, Ranking DEF BestOf
      <4>3. ~Outranks(list[i], list[i])
        BY <3>3, Ranking
      <4> QED
        BY <2>1, <3>6, <4>2, <4>3 DEF BestOf
    <3>7. CASE i \notin attempts /\ t = s /\ t # i
      <4>1. s \notin attempts /\ ~Outranks(list[i], list[s])
        BY <3>1, <3>7 DEF From
      <4> QED
        BY <2>1, <3>2, <3>3, <3>7, <4>1 DEF BestOf
    <3> QED
      BY <3>1, <3>4, <3>5, <3>6, <3>7 DEF From
  <2> QED
    BY <2>1, <2>3
<1> HIDE DEF S
<1>3. 1 .. n \subseteq S
  BY <1>1, <1>2, Reaches
<1> QED
  BY <1>3 DEF S

\* What Select returns has not been tried, and nothing ranks above it that has not.
LEMMA Selected ==
  ASSUME list \in Seq(Answers), NEW i \in Select
  PROVE  /\ i \in DOMAIN list \ attempts
         /\ \A j \in DOMAIN list \ attempts : ~Outranks(list[j], list[i])
<1>1. list # <<>>
  BY DEF Select
<1>2. DOMAIN list = 1 .. Len(list) /\ Len(list) \in Nat \ {0}
  BY <1>1
<1> DEFINE pass == CHOOSE g : SelectPass(g, Len(list))
<1>3. SelectPass(pass, Len(list))
  BY <1>2, SelectPassExists
<1>4. Select = pass[Len(list)] \ attempts
  BY <1>1, <1>2, Zenon DEF Select, SelectPass, From
<1> HIDE DEF pass
<1>5. BestOf(i, Len(list)) /\ i \notin attempts
  BY <1>2, <1>3, <1>4, SelectPassFinds
<1> QED
  BY <1>2, <1>5 DEF BestOf

\* What Candidate goes through.
CandidatePass(g) ==
  g = [i \in 1 .. ListSize |->
         IF i = 1 THEN 1 ELSE IF Outranks(list[g[i - 1]], list[i]) THEN i ELSE g[i - 1]]

LEMMA CandidatePassExists == \E g : CandidatePass(g)
<1> DEFINE Upto(g, m) ==
             g = [i \in 1 .. m |->
                    IF i = 1 THEN 1 ELSE IF Outranks(list[g[i - 1]], list[i]) THEN i ELSE g[i - 1]]
           S == {m \in 1 .. ListSize : \E g : Upto(g, m)}
<1>a. ListSize \in Nat \ {0}
  BY ConnectAssumption
<1>1. 1 \in S
  <2> DEFINE g == [i \in 1 .. 1 |-> 1]
  <2>1. Upto(g, 1)
    OBVIOUS
  <2> HIDE DEF Upto, g
  <2>2. 1 \in 1 .. ListSize
    BY <1>a
  <2> QED
    BY <2>1, <2>2
<1>2. ASSUME NEW m \in 1 .. ListSize - 1, m \in S PROVE m + 1 \in S
  <2>1. PICK g : Upto(g, m)
    BY <1>2
  <2> DEFINE h == [i \in 1 .. m + 1 |->
                     IF i <= m THEN g[i]
                     ELSE IF Outranks(list[g[m]], list[m + 1]) THEN m + 1 ELSE g[m]]
             k == [i \in 1 .. m + 1 |->
                     IF i = 1 THEN 1 ELSE IF Outranks(list[h[i - 1]], list[i]) THEN i ELSE h[i - 1]]
  <2>2. ASSUME NEW i \in 1 .. m + 1 PROVE h[i] = k[i]
    <3>1. CASE i = 1
      BY <2>1, <3>1
    <3>2. CASE i # 1 /\ i <= m
      <4>1. i \in 1 .. m /\ i - 1 \in 1 .. m /\ i - 1 \in 1 .. m + 1
        BY <3>2
      <4>2. g[i] = IF Outranks(list[g[i - 1]], list[i]) THEN i ELSE g[i - 1]
        BY <2>1, <3>2, <4>1
      <4>3. h[i - 1] = g[i - 1] /\ h[i] = g[i]
        BY <4>1
      <4> HIDE DEF h
      <4> QED
        BY <3>2, <4>2, <4>3
    <3>3. CASE i = m + 1
      <4>1. i - 1 = m /\ i # 1 /\ m \in 1 .. m + 1 /\ m \in Nat
        BY <3>3
      <4>2. h[i - 1] = g[m] /\ h[i] = IF Outranks(list[g[m]], list[i]) THEN i ELSE g[m]
        BY <3>3, <4>1
      <4> HIDE DEF h
      <4> QED
        BY <4>1, <4>2
    <3> QED
      BY <3>1, <3>2, <3>3
  <2>3. h = k
    <3>1. h = [i \in 1 .. m + 1 |-> h[i]] /\ k = [i \in 1 .. m + 1 |-> k[i]]
      OBVIOUS
    <3> HIDE DEF h, k
    <3> QED
      BY <2>2, <3>1
  <2>4. Upto(h, m + 1)
    BY <2>3
  <2> HIDE DEF Upto, h
  <2>5. m + 1 \in 1 .. ListSize
    BY <1>a
  <2> QED
    BY <2>4, <2>5
<1> HIDE DEF S
<1>3. ListSize \in S
  <2>1. 1 .. ListSize \subseteq S
    BY <1>a, <1>1, <1>2, Reaches
  <2> QED
    BY <1>a, <2>1
<1> QED
  BY <1>3 DEF S, CandidatePass

\* The candidate for replacement ranks above no element of the list.
LEMMA CandidateIsWorst ==
  ASSUME list \in Seq(Answers), Len(list) = ListSize
  PROVE  Candidate \in DOMAIN list /\ \A j \in DOMAIN list : ~Outranks(list[Candidate], list[j])
<1>a. ListSize \in Nat \ {0} /\ DOMAIN list = 1 .. ListSize /\ \A i \in 1 .. ListSize : list[i] \in Answers
  BY ConnectAssumption
<1> DEFINE pass == CHOOSE g : CandidatePass(g)
<1>1. CandidatePass(pass)
  BY CandidatePassExists
<1>2. Candidate = pass[ListSize]
  BY Zenon DEF Candidate, CandidatePass
<1> HIDE DEF pass
<1> DEFINE S == {m \in 1 .. ListSize :
                   pass[m] \in 1 .. m /\ \A j \in 1 .. m : ~Outranks(list[pass[m]], list[j])}
<1>3. 1 \in S
  <2>1. pass[1] = 1 /\ 1 \in 1 .. ListSize
    BY <1>a, <1>1 DEF CandidatePass
  <2>2. ~Outranks(list[1], list[1])
    BY <1>a, <2>1, Ranking
  <2>3. \A j \in 1 .. 1 : j = 1
    OBVIOUS
  <2> QED
    BY <2>1, <2>2, <2>3
<1>4. ASSUME NEW m \in 1 .. ListSize - 1, m \in S PROVE m + 1 \in S
  <2> DEFINE i == m + 1
             s == pass[m]
  <2>1. i \in 1 .. ListSize /\ i # 1 /\ i - 1 = m /\ m \in 1 .. ListSize /\ 1 .. i = (1 .. m) \cup {i}
    BY <1>a
  <2>2. pass[i] = IF Outranks(list[s], list[i]) THEN i ELSE s
    BY <1>1, <2>1 DEF CandidatePass
  <2>3. s \in 1 .. m /\ \A j \in 1 .. m : ~Outranks(list[s], list[j])
    BY <1>4
  <2>4. list[i] \in Answers /\ list[s] \in Answers /\ \A j \in 1 .. m : list[j] \in Answers
    BY <1>a, <2>1, <2>3
  <2> HIDE DEF i, s
  <2>5. CASE Outranks(list[s], list[i])
    <3>1. ~Outranks(list[i], list[s]) /\ ~Outranks(list[i], list[i])
      BY <2>4, <2>5, Ranking
    <3>2. \A j \in 1 .. m : ~Outranks(list[i], list[j])
      BY <2>3, <2>4, <3>1, Ranking
    <3> QED
      BY <2>1, <2>2, <2>5, <3>1, <3>2 DEF i
  <2>6. CASE ~Outranks(list[s], list[i])
    BY <2>1, <2>2, <2>3, <2>6 DEF i
  <2> QED
    BY <2>5, <2>6
<1> HIDE DEF S
<1>5. 1 .. ListSize \subseteq S
  BY <1>a, <1>3, <1>4, Reaches
<1>6. ListSize \in S
  BY <1>a, <1>5
<1> QED
  BY <1>a, <1>2, <1>6 DEF S

-----------------------------------------------------------------------------
(* The blacklist *)

Address == Nodes \X {"tcp", "udp"}

\* The ring holds the last refusals, the latest before the oldest record.
RingInv ==
  /\ blacklist \in [0 .. BlacklistSize - 1 -> {Nowhere} \cup Address] /\ oldest \in 0 .. BlacklistSize - 1
  /\ refusals \in Seq(Address) /\ Len(refusals) <= BlacklistSize
  /\ \A a \in 0 .. Len(refusals) - 1 :
       blacklist[(oldest - 1 - a) % BlacklistSize] = refusals[Len(refusals) - a]

LEMMA RefusalsAreListed ==
  ASSUME RingInv, NEW node, ~Blacklisted(node)
  PROVE  <<node, "tcp">> \notin ToSet(refusals)
<1> SUFFICES ASSUME <<node, "tcp">> \in ToSet(refusals) PROVE FALSE
  OBVIOUS
<1>1. Len(refusals) \in Nat /\ DOMAIN refusals = 1 .. Len(refusals)
  BY DEF RingInv
<1>2. PICK k \in 1 .. Len(refusals) : refusals[k] = <<node, "tcp">>
  BY <1>1 DEF ToSet
<1> DEFINE a == Len(refusals) - k
           i == (oldest - 1 - a) % BlacklistSize
<1>3. a \in 0 .. Len(refusals) - 1 /\ Len(refusals) - a = k /\ oldest \in Int
  BY <1>1, <1>2 DEF RingInv
<1>4. i \in 0 .. BlacklistSize - 1
  <2>1. oldest - 1 - a \in Int
    BY <1>3
  <2> QED
    BY <2>1, Quotients, ConnectAssumption
<1> HIDE DEF a
<1>5. blacklist[i] = refusals[k]
  BY <1>3 DEF RingInv
<1> QED
  BY <1>2, <1>4, <1>5 DEF Blacklisted, RingInv

LEMMA RefusalsRecorded ==
  ASSUME RingInv, NEW addresses \in Seq(Address), Len(addresses) <= 2, AddToBlacklist(addresses)
  PROVE  RingInv' /\ ToSet(refusals') \subseteq ToSet(refusals) \cup ToSet(addresses)
<1> DEFINE n == BlacklistSize
           m == Len(addresses)
           l == Len(refusals)
           log == refusals \o addresses
<1>1. /\ n \in Nat \ {0, 1} /\ m \in 0 .. n /\ l \in 0 .. n /\ oldest \in 0 .. n - 1
      /\ refusals \in Seq(Address) /\ blacklist \in [0 .. n - 1 -> {Nowhere} \cup Address]
      /\ DOMAIN addresses = 1 .. m /\ DOMAIN refusals = 1 .. l
  BY ConnectAssumption DEF RingInv
<1>2. /\ log \in Seq(Address) /\ Len(log) = l + m
      /\ \A k \in 1 .. l : log[k] = refusals[k]
      /\ \A k \in 1 .. m : log[l + k] = addresses[k]
  <2>1. /\ log \in Seq(Address) /\ Len(log) = l + m
        /\ \A k \in 1 .. l + m : log[k] = IF k <= l THEN refusals[k] ELSE addresses[k - l]
    BY <1>1, ConcatProperties
  <2> HIDE DEF log, l, m
  <2>2. ASSUME NEW k \in 1 .. m PROVE log[l + k] = addresses[k]
    <3>1. l + k \in 1 .. l + m /\ ~(l + k <= l) /\ (l + k) - l = k
      BY <1>1
    <3> QED
      BY <2>1, <3>1
  <2>3. \A k \in 1 .. l : log[k] = refusals[k]
    BY <1>1, <2>1
  <2> QED
    BY <2>1, <2>2, <2>3
<1> HIDE DEF log
<1>3. /\ blacklist' = Replaced(addresses) /\ oldest' = (oldest + m) % n
      /\ refusals' = IF Len(log) <= n THEN log ELSE SubSeq(log, Len(log) - n + 1, Len(log))
  BY DEF AddToBlacklist, Recorded, log
<1> HIDE DEF m, l
<1>4. /\ refusals' \in Seq(Address) /\ Len(refusals') \in 0 .. n /\ Len(refusals') <= l + m
      /\ \A k \in 0 .. Len(refusals') - 1 : refusals'[Len(refusals') - k] = log[(l + m) - k]
      /\ ToSet(refusals') \subseteq ToSet(log)
  <2>1. CASE l + m <= n
    <3>1. refusals' = log /\ l + m \in 0 .. n
      BY <1>1, <1>2, <1>3, <2>1
    <3> QED
      BY <1>2, <3>1
  <2>2. CASE ~(l + m <= n)
    <3> DEFINE f == Len(log) - n + 1
               q == SubSeq(log, f, Len(log))
    <3>2. refusals' = q
      <4>1. ~(Len(log) <= n)
        BY <1>2, <2>2
      <4> QED
        BY <1>3, <4>1
    <3> HIDE DEF q
    <3>a. f = l + m - n + 1 /\ q = SubSeq(log, f, l + m)
      <4>1. f = l + m - n + 1
        BY <1>1, <1>2
      <4> HIDE DEF f
      <4> QED
        BY <1>2, <4>1 DEF q
    <3>1. f \in 1 .. Len(log) + 1 /\ l + m \in f - 1 .. Len(log) /\ f - 1 = l + m - n /\ f \in Nat /\ f + n - 1 = l + m
      BY <1>1, <1>2, <2>2, <3>a
    <3> HIDE DEF f
    <3>3. q \in Seq(Address) /\ Len(q) = n /\ \A k \in 1 .. n : q[k] = log[f + k - 1]
      <4>1. /\ q \in Seq(Address) /\ Len(q) = (l + m) - f + 1
            /\ \A k \in 1 .. (l + m) - f + 1 : q[k] = log[f + k - 1]
        BY <1>2, <3>1, <3>a, SubSeqProperties
      <4>2. (l + m) - f + 1 = n
        BY <1>1, <3>1
      <4> QED
        BY <4>1, <4>2
    <3>4. ASSUME NEW k \in 0 .. n - 1 PROVE q[n - k] = log[(l + m) - k]
      <4>1. n - k \in 1 .. n /\ f + (n - k) - 1 = (l + m) - k
        BY <1>1, <3>1
      <4> QED
        BY <3>3, <4>1
    <3>5. \A k \in 1 .. n : q[k] \in ToSet(log)
      <4> TAKE k \in 1 .. n
      <4>1. f + k - 1 \in DOMAIN log
        BY <1>1, <1>2, <3>1
      <4> QED
        BY <3>3, <4>1 DEF ToSet
    <3>6. ToSet(q) \subseteq ToSet(log)
      <4>1. DOMAIN q = 1 .. n
        BY <3>3
      <4> QED
        BY <3>5, <4>1 DEF ToSet
    <3> QED
      BY <1>1, <2>2, <3>2, <3>3, <3>4, <3>6
  <2> QED
    BY <2>1, <2>2
<1>5. ToSet(log) \subseteq ToSet(refusals) \cup ToSet(addresses)
  <2>1. DOMAIN log = 1 .. l + m
    BY <1>1, <1>2
  <2>2. ASSUME NEW k \in 1 .. l + m PROVE log[k] \in ToSet(refusals) \cup ToSet(addresses)
    <3>1. CASE k <= l
      <4>1. k \in 1 .. l /\ k \in DOMAIN refusals /\ log[k] = refusals[k]
        BY <1>1, <1>2, <3>1
      <4>2. refusals[k] \in ToSet(refusals)
        BY <4>1, Zenon DEF ToSet
      <4> QED
        BY <4>1, <4>2
    <3>2. CASE k > l
      <4>1. k - l \in 1 .. m /\ l + (k - l) = k
        BY <1>1, <3>2
      <4>2. log[l + (k - l)] = addresses[k - l]
        BY <1>2, <4>1
      <4>3. log[k] = addresses[k - l] /\ k - l \in DOMAIN addresses
        BY <1>1, <4>1, <4>2
      <4>4. addresses[k - l] \in ToSet(addresses)
        BY <4>3, Zenon DEF ToSet
      <4> QED
        BY <4>3, <4>4
    <3> QED
      BY <1>1, <3>1, <3>2
  <2> QED
    BY <2>1, <2>2 DEF ToSet
<1>6. /\ oldest' \in 0 .. n - 1 /\ blacklist' \in [0 .. n - 1 -> {Nowhere} \cup Address]
      /\ \A i \in 0 .. n - 1 :
           blacklist'[i] = LET age == (i - oldest) % n
                           IN IF age < m THEN addresses[age + 1] ELSE blacklist[i]
  <2>1. oldest' \in 0 .. n - 1
    <3>1. oldest + m \in Int
      BY <1>1
    <3> QED
      BY <1>1, <1>3, <3>1, Quotients
  <2>2. \A i \in 0 .. n - 1 :
          blacklist'[i] = LET age == (i - oldest) % n
                          IN IF age < m THEN addresses[age + 1] ELSE blacklist[i]
    BY <1>1, <1>3 DEF Replaced, m
  <2>3. ASSUME NEW i \in 0 .. n - 1 PROVE blacklist'[i] \in {Nowhere} \cup Address
    <3> DEFINE age == (i - oldest) % n
    <3>1. age \in 0 .. n - 1
      <4>1. i - oldest \in Int
        BY <1>1
      <4> QED
        BY <1>1, <4>1, Quotients
    <3>2. blacklist'[i] = IF age < m THEN addresses[age + 1] ELSE blacklist[i]
      BY <2>2
    <3> HIDE DEF age
    <3>3. age < m => age + 1 \in DOMAIN addresses
      BY <1>1, <3>1
    <3> QED
      BY <1>1, <3>2, <3>3
  <2>4. blacklist' = [i \in 0 .. n - 1 |-> blacklist'[i]]
    BY <1>1, <1>3 DEF Replaced
  <2> QED
    BY <2>1, <2>2, <2>3, <2>4
<1>7. ASSUME NEW a \in 0 .. Len(refusals') - 1
      PROVE  blacklist'[(oldest' - 1 - a) % n] = refusals'[Len(refusals') - a]
  <2> DEFINE i == (oldest' - 1 - a) % n
             age == (i - oldest) % n
  <2>1. a \in 0 .. n - 1 /\ a < l + m /\ refusals'[Len(refusals') - a] = log[(l + m) - a]
    BY <1>1, <1>4
  <2>2. i = (oldest + m - 1 - a) % n /\ i \in 0 .. n - 1 /\ age = (m - 1 - a) % n
    <3>1. oldest + m \in Int /\ 1 + a \in Int /\ n \in Nat \ {0} /\ oldest \in Int /\ m \in Int /\ a \in Int
      BY <1>1, <2>1
    <3>2. (((oldest + m) % n) - (1 + a)) % n = ((oldest + m) - (1 + a)) % n
      BY <3>1, RemainderOfDifference
    <3>3. (oldest + m) - (1 + a) = oldest + m - 1 - a /\ (oldest + m) % n \in Int
      BY <3>1
    <3>4. ((oldest + m) % n) - (1 + a) = ((oldest + m) % n) - 1 - a
      BY <3>1, <3>3
    <3>5. i = (oldest + m - 1 - a) % n
      BY <1>3, <3>2, <3>3, <3>4
    <3> DEFINE y == oldest + m - 1 - a
    <3>6. y \in Int /\ y - oldest = m - 1 - a
      BY <3>1
    <3>7. i = y % n
      BY <3>5
    <3> HIDE DEF y, i
    <3>8. i \in 0 .. n - 1
      BY <3>1, <3>6, <3>7, Quotients
    <3>9. (i - oldest) % n = (m - 1 - a) % n
      <4>1. n \in Nat \ {0} /\ y \in Int /\ oldest \in Int
        BY <3>1, <3>6
      <4>2. ((y % n) - oldest) % n = (y - oldest) % n
        BY <4>1, RemainderOfDifference
      <4> QED
        BY <3>6, <3>7, <4>2
    <3> QED
      BY <3>7, <3>8, <3>9 DEF y
  <2>3. blacklist'[i] = IF age < m THEN addresses[age + 1] ELSE blacklist[i]
    BY <1>6, <2>2
  <2> HIDE DEF i, age
  <2>4. CASE a < m
    <3>1. m - 1 - a \in 0 .. n - 1 /\ m - 1 - a = n * 0 + (m - 1 - a)
      BY <1>1, <2>1, <2>4
    <3>2. age = m - 1 - a
      <4> DEFINE d == m - 1 - a
      <4>2. d \in 0 .. n - 1 /\ d \in Int /\ d = n * 0 + d /\ n \in Nat \ {0} /\ 0 \in Int
        BY <1>1, <3>1
      <4> HIDE DEF d
      <4>3. d % n = d
        BY <4>2, Remainder
      <4>1. (m - 1 - a) % n = m - 1 - a
        BY <4>3 DEF d
      <4> QED
        BY <2>2, <4>1
    <3>3. age < m /\ age + 1 = m - a /\ m - a \in 1 .. m /\ l + (m - a) = (l + m) - a
      BY <1>1, <2>1, <2>4, <3>2
    <3> QED
      BY <1>2, <2>1, <2>3, <3>3 DEF i
  <2>5. CASE a >= m
    <3>a. n \in Nat /\ m \in Nat /\ a \in Nat /\ a <= n + m - 1 /\ m <= a
      BY <1>1, <2>1, <2>5
    <3>b. \A k \in Nat : k * (-1) = -k
      OBVIOUS
    <3>0. n \in Nat /\ m \in Nat /\ a \in Nat /\ a <= n + m - 1 /\ m <= a /\ n * (-1) = -n
      BY <3>a, <3>b
    <3>1. n + m - 1 - a \in 0 .. n - 1 /\ m - 1 - a = n * (-1) + (n + m - 1 - a) /\ m - 1 - a \in Int
      BY <3>0
    <3>2. age = n + m - 1 - a
      <4> DEFINE d == m - 1 - a
                 r == n + m - 1 - a
      <4>2. r \in 0 .. n - 1 /\ d \in Int /\ d = n * (-1) + r /\ n \in Nat \ {0} /\ -1 \in Int
        BY <1>1, <3>1
      <4> HIDE DEF d, r
      <4>3. d % n = r
        BY <4>2, Remainder
      <4>1. (m - 1 - a) % n = n + m - 1 - a
        BY <4>3 DEF d, r
      <4> QED
        BY <2>2, <4>1
    <3>3. ~(age < m)
      BY <1>1, <2>1, <3>2
    <3> DEFINE b == a - m
    <3>4. b \in 0 .. l - 1 /\ oldest + m - 1 - a = oldest - 1 - b /\ l - b = (l + m) - a /\ l - b \in 1 .. l
      BY <1>1, <2>1, <2>5
    <3> HIDE DEF b
    <3>5. blacklist[(oldest - 1 - b) % n] = refusals[l - b]
      BY <3>4 DEF RingInv, l
    <3> QED
      BY <1>2, <2>1, <2>2, <2>3, <3>3, <3>4, <3>5 DEF i
  <2> QED
    BY <1>1, <2>1, <2>4, <2>5
<1> QED
  BY <1>4, <1>5, <1>6, <1>7 DEF RingInv

-----------------------------------------------------------------------------
(* The response list, the blacklist and the attempts together *)

IConnect == ListInv /\ RingInv

\* The two halves of BestFirst.
ChoosesBest ==
  chosen' \notin {chosen, Nowhere} =>
    /\ \A i \in DOMAIN list \ attempts : ~Outranks(list[i], chosen')
    /\ <<chosen'.node, "tcp">> \notin ToSet(refusals')

KeepsBest ==
  phase' = "discovering" =>
    \A i \in DOMAIN list : list[i].node # list'[i].node =>
      \A j \in DOMAIN list' : ~Outranks(list[i], list'[j])

LEMMA ExitEmpties == Exit => ListInv' /\ ChoosesBest /\ KeepsBest
<1> SUFFICES ASSUME Exit PROVE ListInv' /\ ChoosesBest /\ KeepsBest
  OBVIOUS
<1>1. phase' = "idle" /\ list' = <<>> /\ attempts' = {} /\ chosen' = Nowhere
  BY DEF Exit
<1>2. list' \in Seq(Answers) /\ Len(list') = 0 /\ DOMAIN list' = {}
  BY <1>1
<1> QED
  BY <1>1, <1>2, ConnectAssumption DEF ListInv, ChoosesBest, KeepsBest

\* A refusal recorded in the same step must be of a node that has been tried.
LEMMA SelectedIsTried ==
  ASSUME ListInv, TrySelected, ~connected, UNCHANGED connected,
         \A i \in DOMAIN list \ attempts : <<list[i].node, "tcp">> \notin ToSet(refusals')
  PROVE  ListInv' /\ ChoosesBest /\ KeepsBest
<1>1. PICK i \in Select :
        phase' = "trying" /\ chosen' = list[i] /\ attempts' = attempts \cup {i} /\ list' = list
  BY DEF TrySelected
<1>2. /\ i \in DOMAIN list \ attempts
      /\ \A j \in DOMAIN list \ attempts : ~Outranks(list[j], list[i])
  BY Selected DEF ListInv
<1>3. ListInv'
  BY <1>1, <1>2 DEF ListInv
<1> QED
  BY <1>1, <1>2, <1>3 DEF ChoosesBest, KeepsBest

LEMMA StartKeeps == ListInv /\ StartDiscovery => ListInv' /\ ChoosesBest /\ KeepsBest
<1> SUFFICES ASSUME ListInv, StartDiscovery PROVE ListInv' /\ ChoosesBest /\ KeepsBest
  OBVIOUS
<1>1. /\ phase' = "discovering" /\ ~connected /\ connected' = connected
      /\ list = <<>> /\ list' = list /\ attempts = {} /\ attempts' = {} /\ chosen = Nowhere /\ chosen' = Nowhere
      /\ refusals' = refusals
  BY DEF StartDiscovery, ListInv, finding, ring, vars
<1>2. list' \in Seq(Answers) /\ Len(list') = 0 /\ DOMAIN list = {} /\ DOMAIN list' = {}
  BY <1>1
<1> QED
  BY <1>1, <1>2, ConnectAssumption DEF ListInv, ChoosesBest, KeepsBest

LEMMA EndKeeps == ListInv /\ EndDiscovery => ListInv' /\ ChoosesBest /\ KeepsBest
<1> SUFFICES ASSUME ListInv, EndDiscovery PROVE ListInv' /\ ChoosesBest /\ KeepsBest
  OBVIOUS
<1>1. refusals' = refusals /\ ~connected /\ connected' = connected
  BY DEF EndDiscovery, ListInv, ring, vars
<1>2. \A i \in DOMAIN list \ attempts : <<list[i].node, "tcp">> \notin ToSet(refusals')
  BY <1>1 DEF ListInv
<1> QED
  BY <1>1, <1>2, SelectedIsTried, ExitEmpties DEF EndDiscovery

\* An answer in slot c, which is of the same node or of one that is not listed.
LEMMA SlotReplaced ==
  ASSUME ListInv, phase = "discovering", UNCHANGED <<phase, attempts, chosen, connected, refusals>>,
         NEW answer \in Answers, NEW c \in DOMAIN list,
         \A i \in DOMAIN list : list[i].node = answer.node => i = c,
         <<answer.node, "tcp">> \notin ToSet(refusals),
         list' = [list EXCEPT ![c] = answer]
  PROVE  /\ ListInv'
         /\ DOMAIN list' = DOMAIN list /\ list'[c] = answer
         /\ \A i \in DOMAIN list : i # c => list'[i] = list[i]
<1>1. /\ list' \in Seq(Answers) /\ Len(list') = Len(list)
      /\ DOMAIN list' = DOMAIN list /\ list'[c] = answer
      /\ \A i \in DOMAIN list : i # c => list'[i] = list[i]
  BY DEF ListInv
<1>2. ListInv'
  BY <1>1 DEF ListInv
<1> QED
  BY <1>1, <1>2

LEMMA TakeKeeps ==
  ASSUME IConnect, TakeAnswer
  PROVE  ListInv' /\ ChoosesBest /\ KeepsBest
<1>1. PICK node \in Nodes, answer \in Answers :
        /\ phase = "discovering" /\ ~Blacklisted(node) /\ answer.node = node
        /\ UpdateListed(answer) \/ AddListed(answer)
        /\ UNCHANGED <<vars, phase, attempts, chosen, ring, nature>>
  BY DEF TakeAnswer, TakeAnswerOf
<1>2. <<answer.node, "tcp">> \notin ToSet(refusals)
  BY <1>1, RefusalsAreListed DEF IConnect
<1>3. UNCHANGED <<phase, attempts, chosen, connected, refusals>>
  BY <1>1 DEF vars, ring
<1>4. ListInv /\ list \in Seq(Answers) /\ \A i \in DOMAIN list : list[i] \in Answers
  BY DEF IConnect, ListInv
<1>5. ChoosesBest
  BY <1>3 DEF ChoosesBest
<1>6. CASE list' = list
  BY <1>3, <1>4, <1>5, <1>6 DEF ListInv, KeepsBest
<1>7. CASE UpdateListed(answer) /\ list' # list
  <2>1. PICK c \in Listed(answer.node) : list' = [list EXCEPT ![c] = answer]
    BY <1>7 DEF UpdateListed
  <2>2. c \in DOMAIN list /\ list[c].node = answer.node
    BY DEF Listed
  <2>3. \A i \in DOMAIN list : list[i].node = answer.node => i = c
    BY <1>4, <2>2 DEF ListInv
  <2>4. /\ ListInv' /\ list'[c] = answer
        /\ \A i \in DOMAIN list : i # c => list'[i] = list[i]
    BY <1>1, <1>2, <1>3, <1>4, <2>1, <2>2, <2>3, SlotReplaced
  <2>5. \A i \in DOMAIN list : list[i].node = list'[i].node
    BY <2>2, <2>4
  <2> QED
    BY <1>5, <2>4, <2>5 DEF KeepsBest
<1>8. CASE AddListed(answer) /\ Len(list) < ListSize
  <2>1. list' = Append(list, answer) /\ \A i \in DOMAIN list : list[i].node # answer.node
    BY <1>8 DEF AddListed, Listed
  <2>2. /\ list' \in Seq(Answers) /\ Len(list') = Len(list) + 1 /\ Len(list) \in Nat
        /\ DOMAIN list = 1 .. Len(list) /\ DOMAIN list' = DOMAIN list \cup {Len(list) + 1}
        /\ list'[Len(list) + 1] = answer /\ \A i \in DOMAIN list : list'[i] = list[i]
    BY <1>4, <2>1
  <2>3. Len(list') <= ListSize
    BY <1>8, <2>2, ConnectAssumption
  <2>4. \A i, j \in DOMAIN list' : list'[i].node = list'[j].node => i = j
    <3>1. \A i, j \in DOMAIN list : list[i].node = list[j].node => i = j
      BY <1>4 DEF ListInv
    <3> QED
      BY <2>1, <2>2, <3>1
  <2>5. \A i \in DOMAIN list' \ attempts : <<list'[i].node, "tcp">> \notin ToSet(refusals)
    <3>1. \A i \in DOMAIN list \ attempts : <<list[i].node, "tcp">> \notin ToSet(refusals)
      BY <1>4 DEF ListInv
    <3> QED
      BY <1>2, <2>2, <3>1
  <2>6. attempts \subseteq DOMAIN list' /\ \A i \in attempts : list'[i] = list[i]
    BY <1>4, <2>2 DEF ListInv
  <2>7. ListInv'
    BY <1>1, <1>3, <1>4, <2>2, <2>3, <2>4, <2>5, <2>6 DEF ListInv
  <2> QED
    BY <1>5, <2>2, <2>7 DEF KeepsBest
<1>9. CASE AddListed(answer) /\ ~(Len(list) < ListSize) /\ list' # list
  <2> DEFINE c == Candidate
  <2>1. /\ Outranks(answer, list[c]) /\ list' = [list EXCEPT ![c] = answer]
        /\ \A i \in DOMAIN list : list[i].node # answer.node
    BY <1>9 DEF AddListed, Listed
  <2>2. Len(list) = ListSize
    BY <1>4, <1>9, ConnectAssumption DEF ListInv
  <2>3. c \in DOMAIN list /\ \A j \in DOMAIN list : ~Outranks(list[c], list[j])
    BY <1>4, <2>2, CandidateIsWorst
  <2> HIDE DEF c
  <2>4. /\ ListInv' /\ DOMAIN list' = DOMAIN list /\ list'[c] = answer
        /\ \A i \in DOMAIN list : i # c => list'[i] = list[i]
    BY <1>1, <1>2, <1>3, <1>4, <2>1, <2>3, SlotReplaced
  <2>5. ~Outranks(list[c], answer)
    BY <1>4, <2>1, <2>3, Ranking
  <2>6. \A j \in DOMAIN list' : ~Outranks(list[c], list'[j])
    BY <2>3, <2>4, <2>5
  <2> QED
    BY <1>5, <2>4, <2>6 DEF KeepsBest
<1> QED
  BY <1>1, <1>6, <1>7, <1>8, <1>9

\* The node being tried, which is no longer among those still to be tried.
LEMMA ChosenIsTried ==
  ASSUME ListInv, phase = "trying"
  PROVE  /\ chosen \in Answers /\ chosen.node \in Nodes
         /\ \A i \in DOMAIN list \ attempts : list[i].node # chosen.node
<1>1. PICK k \in attempts : chosen = list[k]
  BY DEF ListInv
<1>2. k \in DOMAIN list /\ list[k] \in Answers
  BY DEF ListInv
<1> QED
  BY <1>1, <1>2, ConnectAssumption DEF ListInv

LEMMA UdpRefusalsOfChosen ==
  ASSUME chosen.node \in Nodes
  PROVE  UdpRefusals \in Seq(Address) /\ Len(UdpRefusals) <= 1 /\ ToSet(UdpRefusals) \subseteq {<<chosen.node, "udp">>}
<1>1. <<chosen.node, "udp">> \in Address
  BY DEF Address
<1> DEFINE s == <<<<chosen.node, "udp">>>>
<1>2. s \in Seq(Address) /\ Len(s) = 1 /\ ToSet(s) = {<<chosen.node, "udp">>}
  BY <1>1 DEF ToSet
<1>3. <<>> \in Seq(Address) /\ Len(<<>>) = 0 /\ ToSet(<<>>) = {}
  BY DEF ToSet
<1>4. UdpRefusals = s \/ UdpRefusals = <<>>
  BY DEF UdpRefusals, s
<1> HIDE DEF s
<1>5. CASE UdpRefusals = s
  <2>1. UdpRefusals \in Seq(Address) /\ Len(UdpRefusals) = 1 /\ ToSet(UdpRefusals) = {<<chosen.node, "udp">>}
    BY <1>2, <1>5, Zenon
  <2> QED
    BY <2>1
<1>6. CASE UdpRefusals = <<>>
  <2>1. UdpRefusals \in Seq(Address) /\ Len(UdpRefusals) = 0 /\ ToSet(UdpRefusals) = {}
    BY <1>3, <1>6, Zenon
  <2> QED
    BY <2>1
<1> QED
  BY <1>4, <1>5, <1>6

LEMMA FailsKeeps ==
  ASSUME IConnect, AttemptFails
  PROVE  IConnect' /\ ChoosesBest /\ KeepsBest
<1>1. phase = "trying" /\ Exit /\ AddToBlacklist(UdpRefusals)
  BY DEF AttemptFails, Does
<1>2. UdpRefusals \in Seq(Address) /\ Len(UdpRefusals) <= 2
  BY <1>1, ChosenIsTried, UdpRefusalsOfChosen DEF IConnect
<1>3. RingInv'
  BY <1>1, <1>2, RefusalsRecorded DEF IConnect
<1> QED
  BY <1>1, <1>3, ExitEmpties DEF IConnect

LEMMA RefusedKeeps ==
  ASSUME IConnect, Refused
  PROVE  IConnect' /\ ChoosesBest /\ KeepsBest
<1> DEFINE tcp == <<<<chosen.node, "tcp">>>>
           both == UdpRefusals \o tcp
<1>1. /\ phase = "trying" /\ TryNext /\ AddToBlacklist(both)
      /\ ~connected /\ UNCHANGED connected
  BY DEF Refused, Does, vars, IConnect, ListInv
<1>2. chosen.node \in Nodes /\ \A i \in DOMAIN list \ attempts : list[i].node # chosen.node
  BY <1>1, ChosenIsTried DEF IConnect
<1>3. tcp \in Seq(Address) /\ Len(tcp) = 1 /\ ToSet(tcp) = {<<chosen.node, "tcp">>}
  BY <1>2 DEF Address, ToSet
<1>4. UdpRefusals \in Seq(Address) /\ Len(UdpRefusals) <= 1 /\ ToSet(UdpRefusals) \subseteq {<<chosen.node, "udp">>}
  BY <1>2, UdpRefusalsOfChosen
<1> HIDE DEF tcp
<1>c. /\ both \in Seq(Address) /\ Len(both) = Len(UdpRefusals) + Len(tcp)
      /\ \A k \in 1 .. Len(UdpRefusals) + Len(tcp) :
           both[k] = IF k <= Len(UdpRefusals) THEN UdpRefusals[k] ELSE tcp[k - Len(UdpRefusals)]
  BY <1>3, <1>4, ConcatProperties
<1> HIDE DEF both
<1>l. Len(UdpRefusals) \in Nat /\ DOMAIN UdpRefusals = 1 .. Len(UdpRefusals) /\ DOMAIN tcp = 1 .. 1
  BY <1>3, <1>4
<1>5. both \in Seq(Address) /\ Len(both) <= 2
  BY <1>3, <1>4, <1>c, <1>l
<1>6. ToSet(both) \subseteq ToSet(UdpRefusals) \cup ToSet(tcp)
  <2>1. ASSUME NEW k \in DOMAIN both PROVE both[k] \in ToSet(UdpRefusals) \cup ToSet(tcp)
    <3>1. /\ Len(UdpRefusals) \in Nat /\ Len(tcp) = 1
          /\ DOMAIN UdpRefusals = 1 .. Len(UdpRefusals) /\ DOMAIN tcp = 1 .. 1
          /\ DOMAIN both = 1 .. Len(UdpRefusals) + 1
      BY <1>3, <1>c, <1>l
    <3>2. CASE k <= Len(UdpRefusals)
      <4>1. k \in DOMAIN UdpRefusals /\ both[k] = UdpRefusals[k]
        BY <1>3, <1>c, <3>1, <3>2
      <4> QED
        BY <4>1, Zenon DEF ToSet
    <3>3. CASE ~(k <= Len(UdpRefusals))
      <4>1. k = Len(UdpRefusals) + 1 /\ k - Len(UdpRefusals) = 1
        BY <3>1, <3>3
      <4>2. 1 \in DOMAIN tcp /\ both[k] = tcp[1]
        BY <1>3, <1>c, <3>1, <4>1
      <4> QED
        BY <4>2, Zenon DEF ToSet
    <3> QED
      BY <3>2, <3>3
  <2> QED
    BY <2>1 DEF ToSet
<1>7. RingInv' /\ ToSet(refusals') \subseteq ToSet(refusals) \cup ToSet(both)
  BY <1>1, <1>5, RefusalsRecorded DEF IConnect
<1>8. ASSUME NEW i \in DOMAIN list \ attempts
      PROVE  <<list[i].node, "tcp">> \notin ToSet(refusals')
  <2>1. <<list[i].node, "tcp">> \notin ToSet(refusals)
    BY DEF IConnect, ListInv
  <2>2. <<list[i].node, "tcp">> # <<chosen.node, "tcp">> /\ <<list[i].node, "tcp">> # <<chosen.node, "udp">>
    BY <1>2
  <2> QED
    BY <1>3, <1>4, <1>6, <1>7, <2>1, <2>2
<1>9. CASE TrySelected
  BY <1>1, <1>7, <1>8, <1>9, SelectedIsTried DEF IConnect
<1>10. CASE Exit
  BY <1>7, <1>10, ExitEmpties DEF IConnect
<1> QED
  BY <1>1, <1>9, <1>10 DEF TryNext

LEMMA HangsKeeps ==
  ASSUME ListInv, Hangs
  PROVE  ListInv' /\ ChoosesBest /\ KeepsBest
<1>1. TryNext /\ ~connected /\ UNCHANGED connected /\ refusals' = refusals
  BY DEF Hangs, Does, vars, ring, ListInv
<1>2. \A i \in DOMAIN list \ attempts : <<list[i].node, "tcp">> \notin ToSet(refusals')
  BY <1>1 DEF ListInv
<1> QED
  BY <1>1, <1>2, SelectedIsTried, ExitEmpties DEF TryNext

\* A step that leaves the search as it is.
LEMMA SearchUntouched ==
  ASSUME ListInv, UNCHANGED <<phase, finding, refusals>>, phase = "idle" \/ UNCHANGED connected
  PROVE  ListInv' /\ ChoosesBest /\ KeepsBest
<1>1. phase' = phase /\ list' = list /\ attempts' = attempts /\ chosen' = chosen /\ refusals' = refusals
  BY DEF finding
<1> QED
  BY <1>1 DEF ListInv, ChoosesBest, KeepsBest

LEMMA RingUntouched == RingInv /\ UNCHANGED ring => RingInv'
BY DEF ring, RingInv

LEMMA NextConnectKeeps ==
  ASSUME IConnect, [NextConnect]_connVars
  PROVE  IConnect' /\ [ChoosesBest /\ KeepsBest]_connVars
<1>1. CASE StartDiscovery
  BY <1>1, StartKeeps, RingUntouched DEF StartDiscovery, IConnect
<1>2. CASE TakeAnswer
  BY <1>2, TakeKeeps, RingUntouched DEF TakeAnswer, TakeAnswerOf, IConnect
<1>3. CASE EndDiscovery
  BY <1>3, EndKeeps, RingUntouched DEF EndDiscovery, IConnect
<1>4. CASE Connect
  BY <1>4, ExitEmpties, RingUntouched DEF Connect, IConnect
<1>5. CASE AttemptFails
  BY <1>5, FailsKeeps
<1>6. CASE Refused
  BY <1>6, RefusedKeeps
<1>7. CASE Hangs
  BY <1>7, HangsKeeps, RingUntouched DEF Hangs, IConnect
<1>8. CASE Watch
  <2>1. phase = "idle" /\ UNCHANGED <<phase, finding, ring, nature>>
    BY <1>8 DEF Watch, WatchLink, Watching
  <2> QED
    BY <2>1, SearchUntouched, RingUntouched DEF IConnect, ring
<1>9. CASE UNCHANGED connVars
  BY <1>9, SearchUntouched, RingUntouched DEF connVars, vars, ring, IConnect
<1> QED
  BY <1>1, <1>2, <1>3, <1>4, <1>5, <1>6, <1>7, <1>8, <1>9 DEF NextConnect, Try

LEMMA InitConnectI == InitConnect => IConnect
<1> SUFFICES ASSUME InitConnect PROVE IConnect
  OBVIOUS
<1>1. /\ phase = "idle" /\ list = <<>> /\ attempts = {} /\ chosen = Nowhere /\ refusals = <<>>
      /\ blacklist = [i \in 0 .. BlacklistSize - 1 |-> Nowhere] /\ oldest = 0
  BY DEF InitConnect
<1>2. list \in Seq(Answers) /\ Len(list) = 0 /\ DOMAIN list = {}
  BY <1>1
<1>3. refusals \in Seq(Address) /\ Len(refusals) = 0
  BY <1>1
<1>4. ListInv
  BY <1>1, <1>2, ConnectAssumption DEF ListInv
<1>5. RingInv
  BY <1>1, <1>3, ConnectAssumption DEF RingInv
<1> QED
  BY <1>4, <1>5 DEF IConnect

LEMMA IConnectHolds == SpecConnect => []IConnect
BY InitConnectI, NextConnectKeeps, PTL DEF SpecConnect

\* AJ_SelectRoutingNodeFromResponseList and the replacement in a full list choose
\* by rank, and no node is tried whose refusal the blacklist still records, for
\* any nodes, answers, and lengths of the list and of the blacklist.
THEOREM BestFirstHolds == SpecConnect => BestFirst
<1>1. IConnect /\ [NextConnect]_connVars => [ChoosesBest /\ KeepsBest]_connVars
  BY NextConnectKeeps
<1> QED
  BY <1>1, IConnectHolds, PTL DEF SpecConnect, BestFirst, ChoosesBest, KeepsBest

\* The list, its attempts and the blacklist stay within their bounds, a node is
\* being tried exactly in that phase, and no search runs while connected.
THEOREM TypeOKConnectHolds == SpecConnect => []TypeOKConnect
<1>1. ASSUME IConnect, TypeOK PROVE TypeOKConnect
  <2>1. list \in BoundedSeq(Answers, ListSize)
    <3>1. Len(list) \in 0 .. ListSize /\ list \in [1 .. Len(list) -> Answers]
      BY <1>1, ConnectAssumption DEF IConnect, ListInv
    <3> QED
      BY <3>1, Zenon DEF BoundedSeq, SeqOf
  <2>2. \A answer \in Answers : answer # Nowhere
    <3> TAKE answer \in Answers
    <3>1. "node" \in DOMAIN answer
      BY ConnectAssumption
    <3>2. DOMAIN Nowhere = {}
      BY DEF Nowhere
    <3> QED
      BY <3>1, <3>2
  <2>3. chosen \in Answers \cup {Nowhere} /\ (phase = "trying" <=> chosen # Nowhere)
    <3>1. CASE phase = "trying"
      BY <1>1, <2>2, <3>1, ChosenIsTried DEF IConnect
    <3>2. CASE phase # "trying"
      BY <1>1, <3>2 DEF IConnect, ListInv
    <3> QED
      BY <3>1, <3>2
  <2> QED
    BY <1>1, <2>1, <2>3 DEF IConnect, ListInv, RingInv, Address, TypeOKConnect
<1>2. IInv => TypeOK
  BY DEF IInv
<1> QED
  BY <1>1, <1>2, IConnectHolds, ConnectImplementsLinkWatch, InductiveInvariant, PTL
=============================================================================

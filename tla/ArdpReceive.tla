---------------------------- MODULE ArdpReceive ----------------------------
(***************************************************************************)
(* The receiving half of an ARDP connection (aj_ardp.c), from the SYN that *)
(* opens it.  One action is one turn of the loop in AJ_ARDP_Recv: at most  *)
(* one datagram is taken, CheckTimers runs, the datagram is validated and  *)
(* handled, and the caller is given up to `len' units of what is buffered. *)
(*                                                                         *)
(* The peer is the routing node, which is not in the repository: it keeps  *)
(* the window it was given, retransmits what is not acknowledged and may   *)
(* let messages expire.  Its segments are numbered 0, 1, 2... by their     *)
(* contents; on the wire they carry sequence numbers modulo SeqModulus.    *)
(***************************************************************************)
EXTENDS Integers, Sequences, SequencesExt, FiniteSets

CONSTANTS
  SegMax,      \* UDP_SEGMAX, 5: buffers on either side
  SeqModulus,  \* 2^32
  ISS,         \* the peer's initial sequence number
  SynUnits,    \* units of data in the peer's SYN
  SegUnits,    \* units of data in any other segment
  MaxLen,      \* the most units the caller asks for at once
  MaxSegment,  \* bound: the last segment the peer sends
  MaxFaulty,   \* bound: the same over a network with faults
  MaxWire,     \* bound: datagrams under way
  Networks     \* what the network may do: sets of "lose", "reorder" and "expire"

ASSUME ArdpReceiveAssumption ==
  /\ MaxSegment \in Nat /\ MaxFaulty \in 0 .. MaxSegment
  /\ SynUnits \in Nat \ {0} /\ SegUnits \in Nat \ {0}
  /\ MaxLen \in Nat /\ MaxWire \in Nat \ {0}
  /\ SegMax \in Nat \ {0, 1} /\ SeqModulus \in Nat /\ SeqModulus > 2 * SegMax
  /\ ISS \in 0 .. SeqModulus - 1
  /\ Networks \subseteq SUBSET {"lose", "reorder", "expire"}

VARIABLES
  conn,       \* rcv and UDP_Recv_State, and what the caller has been given
  ackWire,    \* the acknowledgement last sent: CUR and LCS
  wire,       \* datagrams from the peer, oldest first
  una, nxt,   \* external: the peer's oldest unacknowledged and next segment
  consumed,   \* external: the last consumed segment the peer knows of
  arrived,    \* history: the segments handed to ARDP_Recv
  expired,    \* history: the segments the peer has let expire
  network     \* external: what this network does

peer == <<una, nxt, consumed>>
vars == <<conn, ackWire, wire, peer, arrived, expired, network>>

Reliable == network = {}

-----------------------------------------------------------------------------
(* Sequence numbers *)

Seq32(n)       == (ISS + n) % SeqModulus
Ahead(a, b)    == (a - b) % SeqModulus
SEQ32_LT(a, b) == Ahead(a, b) >= SeqModulus \div 2
SEQ32_LET(a, b) == SEQ32_LT(a, b) \/ a = b
Succ32(a)      == (a + 1) % SeqModulus

UnitsOf(n) == IF n = 0 THEN SynUnits ELSE SegUnits
Slots      == 0 .. SegMax - 1
Slot(seq)  == seq % SegMax
NextSlot(i) == (i + 1) % SegMax

\* No segment: the payload of a NUL segment, the rxContext NULL.
None == -1

EmptyBuffer == [seq |-> 0, data |-> None, inUse |-> FALSE, dataLen |-> 0]

-----------------------------------------------------------------------------
(* The steps of AJ_ARDP_Recv, on the connection record *)

\* Arms the delayed ACK timer unless it runs already.
ArmAck(c)   == [c EXCEPT !.ackTimer = TRUE]
\* SendHeader, or any segment that is sent: the ACK went with it.
AckSent(c)  == [c EXCEPT !.ackTimer = FALSE, !.pending = 0]

AckOf(c) == [ack |-> c.CUR, lcs |-> c.LCS]

AddRcvBuffer(c, seg) ==
  LET i == Slot(seg.SEQ)
      idle == c.rxContext = None
  IN [c EXCEPT !.asserts = @ /\ ~c.buf[i].inUse,
               !.buf[i] = [seq |-> seg.SEQ, data |-> seg.data,
                           inUse |-> seg.FCNT # 0, dataLen |-> UnitsOf(seg.data)],
               !.rxContext = IF idle THEN i ELSE @,
               !.left = IF idle THEN UnitsOf(seg.data) ELSE @]

\* Clears one buffer for every expired segment, from that of CUR on.
FlushExpiredRcvMessages(c, acknxt) ==
  LET count == Ahead(acknxt, Succ32(c.CUR))
      at(k) == (c.CUR + k) % SegMax
      kept  == [i \in Slots |-> IF \E k \in 0 .. count - 1 : at(k) = i
                                THEN [c.buf[i] EXCEPT !.inUse = FALSE, !.dataLen = 0] ELSE c.buf[i]]
      next  == (c.CUR + count) % SegMax
  IN [c EXCEPT !.buf = kept,
               !.CUR = (@ + count) % SeqModulus,
               !.rxContext = IF kept[next].dataLen # 0 THEN next ELSE None,
               !.left = IF kept[next].dataLen # 0 THEN kept[next].dataLen ELSE @]

\* Mutant of RecvReady: the buffer stays in use.
RecvReadyKeeps(c) == [ArmAck(c) EXCEPT !.buf[c.rxContext].dataLen = 0, !.LCS = c.buf[c.rxContext].seq]

\* Mutant of RecvReady: all that was received counts as consumed.
RecvReadyEarly(c) ==
  [ArmAck(c) EXCEPT !.buf[c.rxContext].inUse = FALSE, !.buf[c.rxContext].dataLen = 0, !.LCS = c.CUR]

\* Mutant of RecvReady: the peer is not told.
RecvReadySilent(c) ==
  [c EXCEPT !.buf[c.rxContext].inUse = FALSE, !.buf[c.rxContext].dataLen = 0, !.LCS = c.buf[c.rxContext].seq]

RecvReady(c) ==
  LET i == c.rxContext
  IN [ArmAck(c) EXCEPT !.buf[i].inUse = FALSE, !.buf[i].dataLen = 0, !.LCS = c.buf[i].seq]

\* Mutant of ReadUnit: an empty buffer is kept.
ReadUnitLate(c) ==
  IF c.rxContext = None \/ c.left = 0 THEN c
  ELSE [c EXCEPT !.app = Append(@, c.buf[c.rxContext].data), !.left = @ - 1]

\* One unit of UpdateReadBuffer: it goes on to the next buffer, if that holds
\* data, when the unit was the last of its buffer.
ReadUnit(c) ==
  LET i == c.rxContext
      given == [c EXCEPT !.app = Append(@, c.buf[i].data), !.left = @ - 1]
      done == RecvReady(given)
      next == done.buf[NextSlot(i)].dataLen
  IN IF i = None THEN c
     ELSE IF c.left > 1 THEN given
     ELSE [done EXCEPT !.rxContext = IF next # 0 THEN NextSlot(i) ELSE None, !.left = next]

UpdateReadBuffer(c, len) ==
  LET read[k \in 0 .. len] == IF k = 0 THEN c ELSE ReadUnit(read[k - 1]) IN read[len]

\* RecvValidateSegment, as far as it looks at the peer's half.
Valid(seg) ==
  seg.SYN \/ (/\ ~SEQ32_LT(seg.SEQ, seg.ACKNXT)
              /\ seg.data # None => Ahead(seg.SEQ, seg.ACKNXT) < SegMax)

Opens(c, seg) ==
  AddRcvBuffer(AckSent([c EXCEPT !.state = "OPEN", !.CUR = seg.SEQ, !.LCS = seg.SEQ]), seg)

\* Mutant of Accepts: a retransmitted segment is taken again.
AcceptsAgain(c, seg) == seg.data # None /\ SEQ32_LET(c.CUR, seg.SEQ)

\* Mutant of Accepts: whatever arrives is taken.
AcceptsAny(c, seg) == seg.data # None

Accepts(c, seg) == seg.data # None /\ SEQ32_LET(Succ32(c.CUR), seg.SEQ)

Expired(c, seg) == SEQ32_LT(Succ32(c.CUR), seg.ACKNXT)

\* The tail of the OPEN case of ArdpMachine.
TakeData(c, seg) ==
  LET armed == IF seg.data = None THEN AckSent(c) ELSE [ArmAck(c) EXCEPT !.pending = @ + 1]
  IN IF Accepts(armed, seg) THEN [AddRcvBuffer(armed, seg) EXCEPT !.CUR = seg.SEQ] ELSE armed

\* ARDP_Recv and what AJ_ARDP_Recv makes of its status.
Handle(c, seg, len) ==
  LET machine == TakeData(IF Expired(c, seg) THEN FlushExpiredRcvMessages(c, seg.ACKNXT) ELSE c, seg)
  IN IF ~Valid(seg) THEN [c EXCEPT !.state = "CLOSED"]
     ELSE IF c.state = "SYN_SENT"
       THEN IF seg.SYN THEN UpdateReadBuffer(Opens(c, seg), len) ELSE c
     ELSE IF seg.SYN THEN UpdateReadBuffer(c, len)
     ELSE IF Expired(c, seg) THEN [ArmAck(machine) EXCEPT !.LCS = machine.CUR]
     ELSE UpdateReadBuffer(machine, len)

-----------------------------------------------------------------------------
(* The receiver *)

\* Segment 0 is the SYN.  Any other is a message of its own.
Segment(n) == [SYN |-> n = 0, NUL |-> FALSE, SEQ |-> Seq32(n), ACKNXT |-> Seq32(una),
               FCNT |-> IF n = 0 THEN 0 ELSE 1, data |-> n]

Init ==
  /\ una = 0 /\ nxt = 1 /\ consumed = -1
  /\ conn = [state |-> "SYN_SENT", CUR |-> 0, LCS |-> 0, pending |-> 0, ackTimer |-> FALSE,
             buf |-> [i \in Slots |-> EmptyBuffer], rxContext |-> None, left |-> 0,
             app |-> <<>>, asserts |-> TRUE]
  /\ ackWire = <<>> /\ wire = <<Segment(0)>>
  /\ arrived = {} /\ expired = {}
  /\ network \in Networks

\* CheckTimers: the delayed ACK is sent when it is due, and at once when two
\* segments wait for it.
DelayedAck(fire) ==
  /\ fire => conn.ackTimer
  /\ conn.ackTimer /\ conn.pending >= 2 => fire

\* A call made to send or to disconnect asks for no data; none is made
\* before the reply in the SYN has been read.
Wanted == {len \in 0 .. MaxLen : len > 0 \/ Len(conn.app) >= SynUnits}

RecvNothing(len, fire) ==
  /\ conn.state = "OPEN" /\ DelayedAck(fire)
  /\ LET c == IF fire THEN AckSent(conn) ELSE conn
     IN /\ conn' = UpdateReadBuffer(c, len)
        /\ ackWire' = IF fire THEN <<AckOf(c)>> ELSE ackWire
  /\ UNCHANGED <<wire, peer, arrived, expired, network>>

\* The i-th datagram under way: the first, unless the network reorders.
RecvSegment(len, fire, i) ==
  /\ conn.state # "CLOSED" /\ DelayedAck(fire)
  /\ LET c == IF fire THEN AckSent(conn) ELSE conn
         seg == wire[i]
         handled == Handle(c, seg, len)
         answered == Valid(seg) /\ IF c.state = "OPEN" THEN seg.NUL ELSE seg.SYN
     IN /\ conn' = handled
        /\ ackWire' = IF answered THEN <<[ack |-> IF seg.SYN THEN seg.SEQ ELSE handled.CUR,
                                          lcs |-> IF seg.SYN THEN seg.SEQ ELSE c.LCS]>>
                      ELSE IF fire THEN <<AckOf(c)>> ELSE ackWire
        /\ arrived' = arrived \cup ({seg.data} \ {None})
  /\ wire' = RemoveAt(wire, i)
  /\ UNCHANGED <<peer, expired, network>>

\* ARDP_Send: a segment of our own carries the acknowledgement.
SendSegment ==
  /\ conn.state = "OPEN" /\ Len(conn.app) >= SynUnits
  /\ conn' = AckSent(conn) /\ ackWire' = <<AckOf(conn)>>
  /\ UNCHANGED <<wire, peer, arrived, expired, network>>

-----------------------------------------------------------------------------
(* External: the routing node, and the network *)

Emit(seg) == Len(wire) < MaxWire /\ wire' = Append(wire, seg)

PeerSends ==
  /\ una > 0 /\ nxt <= IF Reliable THEN MaxSegment ELSE MaxFaulty
  /\ nxt - una < SegMax /\ nxt <= consumed + SegMax
  /\ Emit(Segment(nxt)) /\ nxt' = nxt + 1
  /\ UNCHANGED <<conn, ackWire, una, consumed, arrived, expired, network>>

PeerRetransmits ==
  /\ \E n \in una .. nxt - 1 : Emit(Segment(n))
  /\ UNCHANGED <<conn, ackWire, peer, arrived, expired, network>>

PeerProbes ==
  /\ una > 0 /\ wire = <<>>
  /\ Emit([Segment(nxt) EXCEPT !.NUL = TRUE, !.data = None])
  /\ UNCHANGED <<conn, ackWire, peer, arrived, expired, network>>

PeerTakesAck ==
  /\ ackWire # <<>>
  /\ una' = IF \E n \in una .. nxt - 1 : Seq32(n) = ackWire[1].ack
             THEN 1 + CHOOSE n \in una .. nxt - 1 : Seq32(n) = ackWire[1].ack ELSE una
  /\ consumed' = CHOOSE n \in 0 .. nxt - 1 : Seq32(n) = ackWire[1].lcs
  /\ UNCHANGED <<conn, ackWire, wire, nxt, arrived, expired, network>>

PeerExpires ==
  /\ "expire" \in network /\ 0 < una /\ una < nxt
  /\ una' = una + 1 /\ expired' = expired \cup {una}
  /\ UNCHANGED <<conn, ackWire, wire, nxt, consumed, arrived, network>>

\* An expired message may be lost for good also where nothing else is.
Lose ==
  /\ \E i \in DOMAIN wire :
       /\ "lose" \in network \/ wire[i].data \in expired
       /\ wire' = RemoveAt(wire, i)
  /\ UNCHANGED <<conn, ackWire, peer, arrived, expired, network>>

Arriving == {i \in DOMAIN wire : i = 1 \/ "reorder" \in network}

Recv ==
  \E len \in Wanted, fire \in BOOLEAN :
    RecvNothing(len, fire) \/ \E i \in Arriving : RecvSegment(len, fire, i)

Next ==
  \/ Recv \/ SendSegment
  \/ PeerSends \/ PeerRetransmits \/ PeerProbes \/ PeerTakesAck \/ PeerExpires \/ Lose

\* The message loop asks for the next message again and again, and the peer
\* has segments to send and takes the acknowledgements it gets.
Fairness ==
  /\ WF_vars(\E len \in 1 .. MaxLen, fire \in BOOLEAN : RecvNothing(len, fire))
  /\ WF_vars(\E len \in Wanted, fire \in BOOLEAN : wire # <<>> /\ RecvSegment(len, fire, 1))
  /\ WF_vars(PeerSends) /\ WF_vars(PeerTakesAck)

Spec     == Init /\ [][Next]_vars
FairSpec == Spec /\ Fairness

-----------------------------------------------------------------------------
(* Properties *)

Indexes == 0 .. MaxSegment

\* The types of the connection's fields and of the peer's.
TypeOK ==
  /\ conn.state \in {"SYN_SENT", "OPEN", "CLOSED"}
  /\ {conn.CUR, conn.LCS} \subseteq 0 .. SeqModulus - 1
  /\ conn.rxContext \in Slots \cup {None}
  /\ conn.rxContext # None => conn.left \in 1 .. conn.buf[conn.rxContext].dataLen
  /\ conn.pending \in Nat /\ conn.ackTimer \in BOOLEAN
  /\ \A i \in Slots : conn.buf[i].data \in Indexes \cup {None}
  /\ una \in 0 .. nxt /\ nxt \in 1 .. MaxSegment + 1 /\ Len(wire) <= MaxWire
  /\ network \in Networks

Stream == INSTANCE InOrderStream
  WITH Units <- UnitsOf, sent <- nxt, read <- IF Reliable THEN conn.app ELSE <<>>

\* Over a network that delays and repeats but neither loses nor reorders, the
\* caller gets what the peer sent, in order, each unit once and none left out,
\* whatever is retransmitted and however the reads cut the segments ("in-order
\* sequence delivery is in force", aj_ardp.c:53).
InOrder == Stream!Spec

\* There the buffers hold what was received and not read, and nothing else: all
\* units of a segment that has arrived are either the caller's already or held
\* (aj_ardp.c:165, "received buffers not consumed by the app");
\* whenever nothing is being read no buffer holds data ("Otherwise, there are no
\* pending received data", :760); and a new segment's buffer was not in use, as
\* AddRcvBuffer asserts.
HeldUntilRead == Reliable =>
  /\ \A n \in arrived :
       \/ \E i \in Slots : conn.buf[i].data = n /\ conn.buf[i].dataLen # 0
       \/ Contains(conn.app, n)
  /\ conn.rxContext = None => \A i \in Slots : conn.buf[i].dataLen = 0
  /\ conn.asserts

\* The segments acknowledged as received in sequence were all received, or
\* given up by the peer ("only acknowledge segments received in sequence",
\* aj_ardp.h:60).
AckedInSequence ==
  ackWire # <<>> =>
    \A n \in Indexes : (\E m \in n .. MaxSegment : Seq32(m) = ackWire[1].ack) => n \in arrived \cup expired

\* Whatever the network does, the peer finds no fault with an acknowledgement: it
\* is for a segment that was sent, and what has been consumed is not ahead of it
\* (RecvValidateSegment makes the same two tests of the peer's).
AckAcceptable ==
  ackWire # <<>> =>
    /\ ~SEQ32_LT(Seq32(nxt), ackWire[1].ack)
    /\ ~SEQ32_LT(ackWire[1].ack, ackWire[1].lcs)

\* There, too, everything the peer has to send is read in the end: the window
\* opens again each time it has closed.
AllRead == Reliable => <>(Len(conn.app) = SynUnits + MaxSegment * SegUnits)

=============================================================================

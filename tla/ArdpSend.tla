----------------------------- MODULE ArdpSend ------------------------------
(***************************************************************************)
(* An ARDP connection (aj_ardp.c) from AJ_ARDP_Connect to its end: the     *)
(* handshake, the sending half, its timers and the two ways to disconnect. *)
(* ArdpReceive has the receiving half and the wrap of sequence numbers;    *)
(* here the initial sequence number is 0 and none wraps.                   *)
(*                                                                         *)
(* Lengths are in units, MaxDlen of them to a segment.  A timer may expire *)
(* whenever it is armed.  The datagram socket may refuse a send, if Faults *)
(* says so; the caller then disconnects or, as the callers of              *)
(* AJ_DeliverMsg do that drop its status, goes on with another message.    *)
(* The peer takes segments in sequence and reads them when it likes;       *)
(* segments under way are lost and reordered at will, acknowledgements are *)
(* lost too, and reordered if Faults says so.                              *)
(***************************************************************************)
EXTENDS Integers, Sequences, SequencesExt, FiniteSets, FiniteSetsExt

CONSTANTS
  SegMax,          \* UDP_SEGMAX, 5
  MaxDlen,         \* ARDP_MAX_DLEN, in units
  MsgLens,         \* the lengths of messages
  ConnectRetries,  \* UDP_CONNECT_RETRIES, 10
  MinDataRetries,  \* UDP_MIN_DATA_RETRIES, 5
  Keepalives,      \* UDP_KEEPALIVE_RETRIES, 5
  Patience,        \* ARDP_MAX_BACKPRESSURE_RETRIES, 300
  MaxSegment,      \* bound: the last segment that is sent
  MaxAcks,         \* bound: acknowledgements under way
  Faults           \* "send": sends may fail; "reorder": acknowledgements overtake

ASSUME ArdpSendAssumption ==
  /\ SegMax \in Nat \ {0} /\ MaxDlen \in Nat \ {0}
  /\ MsgLens \subseteq Nat \ {0} /\ Patience \in Nat \ {0}
  /\ ConnectRetries \in Nat \ {0} /\ MinDataRetries \in Nat /\ Keepalives \in Nat
  /\ MaxSegment \in Nat /\ MaxAcks \in Nat

VARIABLES
  state,         \* NULL when there is no connection record
  snd,           \* struct ArdpSnd, without its buffers
  buf,           \* snd.buf; roundtrips are not measured, retransmits is left out
  connectTimer, probeTimer,  \* their retry counts
  left,          \* what of the message the caller has yet to hand over
  phase,         \* AJ_ARDP_Send: "idle", to "wait" for room, or to try "again"
  call,          \* the length it was called with
  tries,         \* how often it has waited
  status,        \* what the last call told the caller
  wire,          \* data segments under way
  acks,          \* acknowledgements under way, oldest first; 0 is the SYN's
  rcvCur, rcvLcs, \* external: the peer's CUR and LCS
  asserts,       \* history: every AJ_ASSERT of ARDP_Send has held
  resumed,       \* history: a message has been begun after a send that failed
  overtaken      \* history: an acknowledgement has overtaken another

timers  == <<connectTimer, probeTimer>>
caller  == <<left, phase, call, tries>>
peer    == <<rcvCur, rcvLcs>>
history == <<asserts, resumed, overtaken>>
vars    == <<state, snd, buf, timers, caller, status, wire, acks, peer, history>>

Slots    == 0 .. SegMax - 1
Slot(seq) == seq % SegMax
Empty    == [seq |-> 0, inFlight |-> FALSE, retry |-> 0, dataLen |-> 0]

Capped(n, cap) == IF n < cap THEN n ELSE cap

SendOutcomes == IF "send" \in Faults THEN BOOLEAN ELSE {TRUE}

Init ==
  /\ state = "NULL" /\ status = "NONE"
  /\ snd = [NXT |-> 1, UNA |-> 0, LCS |-> 0, pending |-> 0,
            newMsg |-> FALSE, msgTotal |-> 0, msgSent |-> 0]
  /\ buf = [i \in Slots |-> Empty]
  /\ connectTimer = 0 /\ probeTimer = 0
  /\ left = 0 /\ phase = "idle" /\ call = 0 /\ tries = 0
  /\ wire = {} /\ acks = <<>> /\ rcvCur = -1 /\ rcvLcs = -1
  /\ asserts = TRUE /\ resumed = FALSE /\ overtaken = FALSE

-----------------------------------------------------------------------------
(* The handshake *)

\* AJ_ARDP_Connect, once.
Connect ==
  /\ state = "NULL" /\ status = "NONE"
  /\ \E ok \in SendOutcomes :
       /\ state' = IF ok THEN "SYN_SENT" ELSE "NULL"
       /\ status' = IF ok THEN "OK" ELSE "CONNECT"
       /\ connectTimer' = IF ok THEN ConnectRetries ELSE 0
  /\ buf' = [buf EXCEPT ![0].inFlight = TRUE]
  /\ UNCHANGED <<snd, probeTimer, caller, wire, acks, peer, history>>

\* ConnectTimerHandler.
ConnectTimer ==
  /\ state = "SYN_SENT"
  /\ \E ok \in SendOutcomes :
       IF connectTimer > 1 /\ ok
       THEN connectTimer' = connectTimer - 1 /\ UNCHANGED <<state, status>>
       ELSE connectTimer' = 0 /\ state' = "NULL" /\ status' = "CONNECT"
  /\ UNCHANGED <<snd, buf, probeTimer, caller, wire, acks, peer, history>>

\* External: the peer answers the SYN.  An answer sent twice is ignored.
PeerAnswers ==
  /\ state = "SYN_SENT" /\ rcvCur = -1
  /\ rcvCur' = 0 /\ rcvLcs' = 0
  /\ UNCHANGED <<state, snd, buf, timers, caller, status, wire, acks, history>>

\* The answer arrives.  One with a version, a window or a number that will
\* not do ends the connection, as does an ACK of it that cannot be sent.
RecvSynAck ==
  /\ state = "SYN_SENT" /\ rcvCur = 0
  /\ \E good \in BOOLEAN, ok \in SendOutcomes :
       IF good
       THEN /\ state' = IF ok THEN "OPEN" ELSE "NULL"
            /\ status' = IF ok THEN "OK" ELSE "READ"
            /\ snd' = [snd EXCEPT !.UNA = 1]
            /\ buf' = [buf EXCEPT ![0].inFlight = FALSE]
            /\ probeTimer' = Keepalives
       ELSE /\ state' = "NULL" /\ status' = "READ"
            /\ UNCHANGED <<snd, buf, probeTimer>>
  /\ connectTimer' = 0
  /\ UNCHANGED <<caller, wire, acks, peer, history>>

-----------------------------------------------------------------------------
(* The timers.  What they touch is a record, for AJ_ARDP_Recv runs them *)
(* between receiving a segment and handling it.                         *)

Now == [buf |-> buf, wire |-> wire, probe |-> probeTimer, failed |-> FALSE]

\* The segments from slot i on whose timers run, by their distance from it.
InFlightFrom(b, i) ==
  Max({k \in 0 .. SegMax : \A j \in 0 .. k - 1 : b[Slot(i + j)].retry # 0})

\* Mutant of DataTimerHandler: only the oldest segment is sent again, and
\* nothing else is done.
DataTimerHandlerQuiet(c, i) == {c}

\* The segment in slot i and those in flight after it are sent again, until a
\* send fails or, the total timeout being over, the first has been tried
\* often enough.  Its timer counts every one of these sends.
DataTimerHandler(c, i) ==
  LET run == InFlightFrom(c.buf, i)
      retry == c.buf[i].retry
      due(late) == IF late /\ retry + run > MinDataRetries + 1
                   THEN Max({0, MinDataRetries + 1 - retry}) ELSE run
  IN {[c EXCEPT !.buf[i].retry = Capped(@ + m, MinDataRetries + 1),
                !.wire = @ \cup {c.buf[Slot(i + j)].seq : j \in 0 .. m - 1},
                !.failed = m < run]
      : m \in UNION {IF "send" \in Faults THEN 0 .. due(late) ELSE {due(late)} : late \in BOOLEAN}}

\* The timer of the oldest unacknowledged segment may be due.
CheckDataTimers(c) ==
  {c} \cup IF c.buf[Slot(snd.UNA)].retry # 0 THEN DataTimerHandler(c, Slot(snd.UNA)) ELSE {}

\* The probe timer may be due as well.  An acknowledgement that is due after
\* the data timers replaces their status with its own.
CheckTimers(c) ==
  LET masked(d) == {d} \cup {[d EXCEPT !.failed = ~ok] : ok \in SendOutcomes}
  IN (UNION {masked(d) : d \in CheckDataTimers(c)})
     \cup IF c.probe = 0 THEN {[c EXCEPT !.failed = TRUE]}
          ELSE UNION {masked(d) : d \in CheckDataTimers([c EXCEPT !.probe = @ - 1])}

-----------------------------------------------------------------------------
(* AJ_ARDP_Recv: from the message loop, from AJ_ARDP_Send while it waits for *)
(* room, and from AJ_ARDP_Disconnect while it waits for the queue to drain.  *)

Listening ==
  /\ state \in {"OPEN", "CLOSE_WAIT"} /\ phase # "again"
  /\ phase = "idle" /\ state = "OPEN" => status = "WRITE" \/ (status = "OK" /\ left = 0)

\* Mutant of Report: AJ_ARDP_Send does not try again.
ReportKeepsWaiting(failed) ==
  IF failed THEN phase' = "idle" /\ status' = "WRITE" /\ UNCHANGED <<left, call, tries>>
  ELSE UNCHANGED <<status, caller>>

\* What AJ_ARDP_Recv means to its caller: AJ_ARDP_Send tries again or, after
\* an error or too many turns, gives up.
Report(failed) ==
  IF phase = "wait"
  THEN /\ phase' = IF failed THEN "idle" ELSE "again"
       /\ status' = IF failed THEN "WRITE" ELSE status
       /\ UNCHANGED <<left, call, tries>>
  ELSE /\ status' = IF failed THEN "READ" ELSE status
       /\ UNCHANGED caller

\* AJ_ARDP_Disconnect, once it is done waiting: a reset and the end.
Gone == state' = "NULL" /\ probeTimer' = 0

Timed(c) ==
  /\ buf' = c.buf /\ wire' = c.wire

RecvNothing ==
  /\ Listening
  /\ \E c \in CheckTimers(Now) :
       /\ Timed(c) /\ Report(c.failed)
       /\ IF c.failed /\ state = "CLOSE_WAIT" THEN Gone
          ELSE probeTimer' = c.probe /\ UNCHANGED state
  /\ UNCHANGED <<snd, connectTimer, acks, peer, history>>

\* Mutant of Acknowledged: strictly before the acknowledged one.
AcknowledgedBefore(b, ack) == {i \in Slots : b[i].inFlight /\ b[i].seq < ack}

\* Mutant of Acknowledged: free buffers are counted too.
AcknowledgedTwice(b, ack) == {i \in Slots : b[i].seq <= ack}

Acknowledged(b, ack) == {i \in Slots : b[i].inFlight /\ b[i].seq <= ack}

InRange(ack) == snd.UNA <= ack /\ ack <= snd.NXT

\* Mutant of Released: the buffer is not marked free.
ReleasedKeeps(b, ack) ==
  [i \in Slots |-> IF InRange(ack) /\ snd.pending # 0 /\ i \in Acknowledged(b, ack)
                   THEN [b[i] EXCEPT !.retry = 0, !.dataLen = 0]
                   ELSE b[i]]

\* UpdateSndSegments.
Released(b, ack) ==
  [i \in Slots |-> IF InRange(ack) /\ snd.pending # 0 /\ i \in Acknowledged(b, ack)
                   THEN [b[i] EXCEPT !.inFlight = FALSE, !.retry = 0, !.dataLen = 0]
                   ELSE b[i]]

RecvAck(k) ==
  /\ Listening
  /\ acks' = RemoveAt(acks, k)
  /\ \E c \in CheckTimers(Now) :
       LET ack == acks[k].ack
           freed == IF InRange(ack) /\ snd.pending # 0 THEN Cardinality(Acknowledged(c.buf, ack)) ELSE 0
       IN IF c.failed
          THEN /\ Timed(c) /\ Report(TRUE)
               /\ IF state = "CLOSE_WAIT" THEN Gone ELSE probeTimer' = c.probe /\ UNCHANGED state
               /\ UNCHANGED snd
          ELSE /\ wire' = c.wire
               /\ buf' = Released(c.buf, ack)
               /\ snd' = [snd EXCEPT !.UNA = IF InRange(ack) THEN ack + 1 ELSE @,
                                     !.pending = @ - freed, !.LCS = acks[k].lcs]
               /\ IF state = "OPEN"
                  THEN probeTimer' = Keepalives /\ Report(FALSE) /\ UNCHANGED state
                  ELSE /\ IF snd'.pending = 0 THEN Gone ELSE probeTimer' = c.probe /\ UNCHANGED state
                       /\ UNCHANGED <<status, caller>>
  /\ overtaken' = (overtaken \/ k # 1)
  /\ UNCHANGED <<connectTimer, peer, asserts, resumed>>

\* The peer resets the connection, or its data make AJ_ARDP_Recv do so.
RecvReset ==
  /\ Listening /\ Gone /\ Report(TRUE)
  /\ UNCHANGED <<snd, buf, connectTimer, wire, acks, peer, history>>

-----------------------------------------------------------------------------
(* AJ_ARDP_Send *)

\* Bound: a message of l units does not go beyond MaxSegment.  What an earlier
\* one has left in the next buffer goes with it, and may take a segment more.
Fits(l) ==
  LET old == buf[Slot(snd.NXT)].dataLen
  IN snd.NXT + (old + l + MaxDlen - 1) \div MaxDlen + (IF old = 0 THEN 0 ELSE 1) <= MaxSegment + 1

\* AJ_ARDP_StartMsgSend, after a message or in the place of one that failed.
StartMsg ==
  /\ state = "OPEN" /\ phase = "idle"
  /\ status = "WRITE" \/ (status = "OK" /\ left = 0)
  /\ left' \in {l \in MsgLens : Fits(l)}
  /\ snd' = [snd EXCEPT !.newMsg = TRUE, !.msgSent = 0]
  /\ status' = "OK" /\ resumed' = (resumed \/ status = "WRITE")
  /\ UNCHANGED <<state, buf, timers, phase, call, tries, wire, acks, peer, asserts, overtaken>>

\* The message header gives the length when the message begins.
Announced == IF snd.newMsg THEN [snd EXCEPT !.newMsg = FALSE, !.msgTotal = left] ELSE snd

\* The segments between the last one consumed and the next.
PeerPending == snd.NXT - snd.LCS - 1

\* Mutant of NoRoom: the peer's window is not looked at.
NoRoomHere(units) == units > MaxDlen * (SegMax - snd.pending)

\* Too much for the buffers here or those of the peer.  The difference is
\* unsigned: with more pending than the window holds it is huge.
NoRoom(units) ==
  \/ units > MaxDlen * (SegMax - snd.pending)
  \/ PeerPending <= SegMax /\ units > MaxDlen * (SegMax - PeerPending)

\* Mutant of HoldsLast: a segment that is not full always waits for more.
HoldsLastAlways(units, k) == units - (k - 1) * MaxDlen < MaxDlen

\* Whether the k-th and last segment waits for more: it is neither full nor
\* the end of the message.
HoldsLast(units, k) ==
  LET last == units - (k - 1) * MaxDlen
  IN last < MaxDlen /\ last # Announced.msgTotal - snd.msgSent - (k - 1) * MaxDlen

\* ARDP_Send(len) after its tests: `offset' units wait already in the next
\* buffer.  The send of one segment may fail and leaves it neither in flight
\* nor free; one that is held keeps the mark of an earlier failure.
Transmit(c, len) ==
  LET b == c.buf
      offset == b[Slot(snd.NXT)].dataLen
      units  == offset + len
      k      == (units + MaxDlen - 1) \div MaxDlen
      length(j) == IF j < k - 1 THEN MaxDlen ELSE units - (k - 1) * MaxDlen
      whole  == IF HoldsLast(units, k) THEN k - 1 ELSE k
      place(i) == (i - Slot(snd.NXT)) % SegMax
  IN /\ snd.NXT + k - 1 <= MaxSegment
     /\ \E n \in IF "send" \in Faults THEN 0 .. whole ELSE {whole} :
          LET failed == n < whole
              filled == IF failed THEN n + 1 ELSE k
              marked == IF failed THEN n + 1 ELSE whole
          IN /\ buf' = [i \in Slots |->
                          IF place(i) >= filled THEN b[i]
                          ELSE [b[i] EXCEPT !.dataLen = length(place(i)),
                                            !.seq = IF place(i) < marked THEN snd.NXT + place(i) ELSE @,
                                            !.inFlight = place(i) < marked \/ @,
                                            !.retry = IF place(i) < n THEN 1 ELSE @]]
             /\ snd' = [Announced EXCEPT
                          !.NXT = @ + n, !.pending = @ + n,
                          !.msgSent = @ + MaxDlen * marked
                                        - (IF marked = k THEN MaxDlen - length(k - 1) ELSE 0)]
             /\ wire' = c.wire \cup (snd.NXT .. snd.NXT + n - 1)
             /\ status' = IF failed THEN "WRITE" ELSE "OK"
             /\ left' = IF failed THEN left ELSE left - len
             /\ asserts' = (asserts /\ \A i \in Slots : place(i) < filled => ~b[i].inFlight)
     /\ phase' = "idle" /\ call' = 0 /\ tries' = 0

\* One turn of ARDP_Send: the data timers, then the window, then the segments.
TrySend(len) ==
  \E c \in CheckDataTimers(Now) :
    IF c.failed
    THEN /\ Timed(c) /\ status' = "WRITE"
         /\ phase' = "idle" /\ call' = 0 /\ tries' = 0
         /\ UNCHANGED <<snd, left, asserts>>
    ELSE IF snd.pending = SegMax \/ NoRoom(c.buf[Slot(snd.NXT)].dataLen + len)
    THEN /\ Timed(c)
         /\ IF tries + 1 >= Patience
            THEN phase' = "idle" /\ call' = 0 /\ tries' = 0 /\ status' = "WRITE"
            ELSE phase' = "wait" /\ call' = len /\ tries' = tries + 1 /\ UNCHANGED status
         /\ IF snd.pending = SegMax
            THEN UNCHANGED <<snd, asserts>>
            ELSE snd' = Announced /\ asserts' = (asserts /\ ~c.buf[Slot(snd.NXT)].inFlight)
         /\ UNCHANGED left
    ELSE Transmit(c, len)

Send ==
  /\ state = "OPEN" /\ phase = "idle" /\ status = "OK"
  /\ \E len \in 1 .. left : TrySend(len)
  /\ UNCHANGED <<state, timers, acks, peer, resumed, overtaken>>

SendAgain ==
  /\ phase = "again" /\ TrySend(call)
  /\ UNCHANGED <<state, timers, acks, peer, resumed, overtaken>>

\* AJ_ARDP_Disconnect: not forced, it waits for the queue to drain.
Disconnect ==
  /\ state = "OPEN" /\ phase = "idle" /\ (left = 0 \/ status # "OK")
  /\ IF snd.pending # 0 THEN state' = "CLOSE_WAIT" /\ UNCHANGED probeTimer ELSE Gone
  /\ UNCHANGED <<snd, buf, connectTimer, caller, status, wire, acks, peer, history>>

\* UDP_DISCONNECT_TIMEOUT.
DrainTimeout ==
  /\ state = "CLOSE_WAIT" /\ Gone
  /\ UNCHANGED <<snd, buf, connectTimer, caller, status, wire, acks, peer, history>>

-----------------------------------------------------------------------------
(* External: the peer and the network *)

\* Any but the next segment is dropped, as if lost.
PeerReceives ==
  /\ rcvCur + 1 \in wire /\ wire' = wire \ {rcvCur + 1}
  /\ rcvCur' = rcvCur + 1
  /\ UNCHANGED <<state, snd, buf, timers, caller, status, acks, rcvLcs, history>>

PeerConsumes ==
  /\ rcvLcs < rcvCur /\ rcvLcs' = rcvLcs + 1
  /\ UNCHANGED <<state, snd, buf, timers, caller, status, wire, acks, rcvCur, history>>

PeerAcks ==
  /\ state \notin {"NULL", "SYN_SENT"} /\ Len(acks) < MaxAcks
  /\ acks' = Append(acks, [ack |-> rcvCur, lcs |-> rcvLcs])
  /\ UNCHANGED <<state, snd, buf, timers, caller, status, wire, peer, history>>

LoseSegment(n) ==
  /\ n \in wire /\ wire' = wire \ {n}
  /\ UNCHANGED <<state, snd, buf, timers, caller, status, acks, peer, history>>

LoseAck ==
  /\ acks # <<>> /\ acks' = Tail(acks)
  /\ UNCHANGED <<state, snd, buf, timers, caller, status, wire, peer, history>>

Arriving == {k \in DOMAIN acks : k = 1 \/ "reorder" \in Faults}

Next ==
  \/ Connect \/ ConnectTimer \/ PeerAnswers \/ RecvSynAck
  \/ RecvNothing \/ (\E k \in Arriving : RecvAck(k)) \/ RecvReset
  \/ StartMsg \/ Send \/ SendAgain \/ Disconnect \/ DrainTimeout
  \/ PeerReceives \/ PeerConsumes \/ PeerAcks
  \/ (\E n \in wire : LoseSegment(n)) \/ LoseAck

Spec == Init /\ [][Next]_vars

\* The program keeps receiving and sending and its timers do expire; the
\* network does not lose the same segment, nor every acknowledgement, for ever,
\* and the peer goes on acknowledging.
Listen == RecvNothing /\ (snd.pending # 0 => snd.UNA \in wire' \ wire)

Fairness ==
  /\ WF_vars(Listen) /\ WF_vars(Send \/ SendAgain)
  /\ SF_vars(PeerReceives)
  /\ SF_vars(PeerAcks /\ acks = <<>>) /\ SF_vars(acks # <<>> /\ RecvAck(1))

FairSpec == Spec /\ Fairness

-----------------------------------------------------------------------------
(* Properties *)

InFlight == {i \in Slots : buf[i].inFlight}

\* The types of the variables and the bounds of the counters.
TypeOK ==
  /\ state \in {"NULL", "SYN_SENT", "OPEN", "CLOSE_WAIT"}
  /\ status \in {"NONE", "OK", "CONNECT", "READ", "WRITE"}
  /\ snd.NXT \in 1 .. MaxSegment + 1 /\ snd.UNA \in 0 .. snd.NXT /\ snd.LCS \in 0 .. snd.NXT - 1
  /\ snd.pending \in 0 .. SegMax
  /\ \A i \in Slots : buf[i].dataLen \in 0 .. MaxDlen /\ buf[i].retry \in 0 .. MinDataRetries + 1
  /\ connectTimer \in 0 .. ConnectRetries /\ probeTimer \in 0 .. Keepalives
  /\ phase \in {"idle", "wait", "again"} /\ tries \in 0 .. Patience - 1

\* The segments sent and not acknowledged, whatever fails and whoever goes on
\* after a failure: one buffer each, its timer running, so that
\* CheckDataTimers, which looks at the oldest only, finds it.  As long as no
\* message has been begun after a send that failed, these are also the buffers
\* marked as in flight, but for a segment whose send failed; no buffer in
\* flight is filled, as ARDP_Send asserts; and when a message has been handed
\* over whole no tail of it waits in a buffer.
WindowAgrees ==
  LET running == {i \in Slots : buf[i].retry # 0}
  IN /\ state \in {"OPEN", "CLOSE_WAIT"} =>
          /\ snd.pending = Cardinality(running) /\ running \subseteq InFlight
          /\ {buf[i].seq : i \in running} = snd.UNA .. snd.NXT - 1
          /\ \A i \in running : Slot(buf[i].seq) = i
          /\ status = "OK" /\ ~resumed => InFlight = running
     /\ ~resumed => asserts
     /\ /\ state = "OPEN" /\ status = "OK" /\ phase = "idle" /\ left = 0
        /\ snd.msgTotal # 0 /\ ~snd.newMsg /\ ~resumed
        => /\ snd.msgSent = snd.msgTotal
           /\ ~buf[Slot(snd.NXT)].inFlight => buf[Slot(snd.NXT)].dataLen = 0

\* AJ_ASSERT(sBuf->inFlight == 0), aj_ardp.c:1012 and :1063: ARDP_Send never
\* fills a buffer that is marked as in flight.
AssertionsHold == asserts

\* Every segment under way fits the buffers of the peer ("check if the remote
\* side can currently accept these data", aj_ardp.c:1028).
WithinPeerWindow == \A n \in wire : n <= rcvLcs + SegMax

\* So it is, whatever fails and whoever goes on, until an acknowledgement
\* overtakes another: an old one moves snd.LCS back (aj_ardp.c:867).
WithinWindowInOrder == ~overtaken => WithinPeerWindow

\* Nobody waits for ever: a caller of AJ_ARDP_Send gets an answer, and what is
\* in flight is acknowledged, or the connection ends, or the caller is told.
Drains ==
  (state = "OPEN" /\ (snd.pending # 0 \/ phase # "idle"))
    ~> (phase = "idle" /\ (snd.pending = 0 \/ state # "OPEN" \/ status \in {"READ", "WRITE"}))
=============================================================================

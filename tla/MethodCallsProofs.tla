------------------------- MODULE MethodCallsProofs -------------------------
(***************************************************************************)
(* Proofs about MethodCalls, for any number of contexts, calls, serial     *)
(* numbers and sessions.                                                   *)
(***************************************************************************)
EXTENDS MethodCalls, SequenceTheorems, TLAPS

Live(c) == calls[c].fate # "gone"

\* The serial numbers of the live calls count up to the next one, around the end.
Numbered ==
  /\ Made <= MaxCalls
  /\ \A c \in DOMAIN calls : Live(c) =>
       \/ serial = SerialOf(c) + (Made + 1 - c)
       \/ serial = SerialOf(c) + (Made + 1 - c) - LastSerial

\* Nothing outlives its connection.
Closed ==
  ~connected => /\ \A c \in DOMAIN calls : ~Live(c)
                /\ InUse = {} /\ sessions = {} /\ members = {}

IInv == TypeOK /\ Numbered /\ Closed /\ PoolAgrees /\ ToldOnce /\ JoinsOnRecord

CallRecord == [serial : 1 .. LastSerial, method : Methods, fate : Fates]

-----------------------------------------------------------------------------
(* Serial numbers tell the live calls apart. *)

LEMMA CallTypes ==
  ASSUME TypeOK
  PROVE  /\ calls \in Seq(CallRecord) /\ Made \in Nat
         /\ DOMAIN calls = 1 .. Made /\ DOMAIN told = 1 .. Made
         /\ \A c \in DOMAIN calls : /\ calls[c] \in CallRecord
                                    /\ SerialOf(c) \in 1 .. LastSerial
                                    /\ told[c] \in Seq(Methods)
<1>1. calls \in Seq(CallRecord) /\ told \in Seq(Seq(Methods)) /\ Len(told) = Made
  BY DEF TypeOK, CallRecord, Made
<1>2. Made \in Nat /\ DOMAIN calls = 1 .. Made /\ DOMAIN told = 1 .. Made
  BY <1>1, LenProperties DEF Made
<1>3. \A c \in DOMAIN calls : calls[c] \in CallRecord /\ told[c] \in Seq(Methods)
  BY <1>1, <1>2, ElementOfSeq DEF Made
<1>4. \A c \in DOMAIN calls : SerialOf(c) \in 1 .. LastSerial
  BY <1>3 DEF SerialOf, CallRecord
<1> QED
  BY <1>1, <1>2, <1>3, <1>4

\* The next serial number is that of no live call.
LEMMA SerialFresh ==
  ASSUME TypeOK, Numbered, Made < MaxCalls, NEW c \in DOMAIN calls, Live(c)
  PROVE  SerialOf(c) # serial
<1>1. /\ c \in 1 .. Made /\ Made \in Nat /\ SerialOf(c) \in 1 .. LastSerial
  BY CallTypes
<1>2. LastSerial \in Nat /\ MaxCalls \in Nat /\ LastSerial > MaxCalls
  BY MethodCallsAssumption
<1>3. \/ serial = SerialOf(c) + (Made + 1 - c)
      \/ serial = SerialOf(c) + (Made + 1 - c) - LastSerial
  BY DEF Numbered
<1> QED
  BY <1>1, <1>2, <1>3

\* No two live calls have the same.
LEMMA SerialsDiffer ==
  ASSUME TypeOK, Numbered, NEW c \in DOMAIN calls, NEW d \in DOMAIN calls,
         Live(c), Live(d), SerialOf(c) = SerialOf(d)
  PROVE  c = d
<1>1. /\ c \in 1 .. Made /\ d \in 1 .. Made /\ Made \in Nat
      /\ SerialOf(c) \in 1 .. LastSerial
  BY CallTypes
<1>2. LastSerial \in Nat /\ MaxCalls \in Nat /\ LastSerial > MaxCalls /\ Made <= MaxCalls
  BY MethodCallsAssumption DEF Numbered
<1>3. /\ \/ serial = SerialOf(c) + (Made + 1 - c)
         \/ serial = SerialOf(c) + (Made + 1 - c) - LastSerial
      /\ \/ serial = SerialOf(c) + (Made + 1 - d)
         \/ serial = SerialOf(c) + (Made + 1 - d) - LastSerial
  BY DEF Numbered
<1> QED
  BY <1>1, <1>2, <1>3

\* A context in use belongs to one call, which is live and untold.
LEMMA ContextOfCall ==
  ASSUME IInv, NEW i \in InUse
  PROVE  \E c \in DOMAIN calls :
           /\ SerialOf(c) = contexts[i].serial /\ calls[c].method = contexts[i].method
           /\ Live(c) /\ calls[c].fate \in {"sent", "unsent"} /\ told[c] = <<>>
           /\ \A d \in DOMAIN calls : Live(d) /\ SerialOf(d) = contexts[i].serial => d = c
<1>1. PICK c \in DOMAIN calls :
         /\ calls[c].serial = contexts[i].serial /\ calls[c].method = contexts[i].method
         /\ calls[c].fate \in {"sent", "unsent"} /\ told[c] = <<>>
  BY DEF IInv, PoolAgrees
<1>2. Live(c) /\ SerialOf(c) = contexts[i].serial
  BY <1>1 DEF Live, SerialOf
<1>3. \A d \in DOMAIN calls : Live(d) /\ SerialOf(d) = contexts[i].serial => d = c
  BY <1>2, SerialsDiffer DEF IInv
<1> QED
  BY <1>1, <1>2, <1>3

-----------------------------------------------------------------------------
(* Making a call. *)

\* What marshalling a call leaves of the other calls, and what it adds.
Added(method, fate) ==
  /\ calls' \in Seq(CallRecord) /\ told' \in Seq(Seq(Methods)) /\ Len(told') = Len(calls')
  /\ Made \in Nat /\ Made' = Made + 1
  /\ DOMAIN calls' = 1 .. Made + 1 /\ DOMAIN told' = 1 .. Made + 1
  /\ \A c \in 1 .. Made : calls'[c] = calls[c] /\ told'[c] = told[c]
  /\ calls'[Made + 1] = [serial |-> serial, method |-> method, fate |-> fate]
  /\ told'[Made + 1] = <<>>

LEMMA MarshalledAdds ==
  ASSUME TypeOK, NEW method \in Methods, NEW fate \in Fates, Marshalled(method, fate)
  PROVE  Added(method, fate)
<1> DEFINE r == [serial |-> serial, method |-> method, fate |-> fate]
<1>1. calls \in Seq(CallRecord) /\ told \in Seq(Seq(Methods)) /\ Len(told) = Len(calls)
  BY DEF TypeOK, CallRecord
<1>2. r \in CallRecord /\ <<>> \in Seq(Methods)
  BY DEF TypeOK, CallRecord
<1>3. calls' = Append(calls, r) /\ told' = Append(told, <<>>)
  BY DEF Marshalled
<1> HIDE DEF r
<1>4. /\ calls' \in Seq(CallRecord) /\ Len(calls') = Len(calls) + 1
      /\ \A c \in 1 .. Len(calls) : calls'[c] = calls[c]
      /\ calls'[Len(calls) + 1] = r
  BY <1>1, <1>2, <1>3, AppendProperties
<1>5. /\ told' \in Seq(Seq(Methods)) /\ Len(told') = Len(told) + 1
      /\ \A c \in 1 .. Len(told) : told'[c] = told[c]
      /\ told'[Len(told) + 1] = <<>>
  BY <1>1, <1>2, <1>3, AppendProperties
<1>6. DOMAIN calls' = 1 .. Len(calls') /\ DOMAIN told' = 1 .. Len(told')
  BY <1>4, <1>5, LenProperties
<1> QED
  BY <1>1, <1>4, <1>5, <1>6 DEF Added, Made, r

\* The numbers go on counting.
LEMMA MarshalledNumbers ==
  ASSUME TypeOK, Numbered, NEW method \in Methods, NEW fate \in Fates, Marshalled(method, fate)
  PROVE  Numbered' /\ serial' \in 1 .. LastSerial
<1>0. Added(method, fate)
  BY MarshalledAdds
<1>1. /\ Made \in Nat /\ Made < MaxCalls /\ serial \in 1 .. LastSerial
      /\ serial' = IF serial = LastSerial THEN 1 ELSE serial + 1
  BY CallTypes DEF Marshalled, SerialAfter, TypeOK
<1>2. LastSerial \in Nat /\ MaxCalls \in Nat /\ LastSerial > MaxCalls
  BY MethodCallsAssumption
<1>3. ASSUME NEW c \in DOMAIN calls', Live(c)'
      PROVE  \/ serial' = SerialOf(c)' + (Made' + 1 - c)
             \/ serial' = SerialOf(c)' + (Made' + 1 - c) - LastSerial
  <2>1. Made' = Made + 1 /\ c \in 1 .. Made + 1
    BY <1>0, <1>3 DEF Added
  <2>2. CASE c = Made + 1
    <3>1. SerialOf(c)' = serial
      BY <1>0, <2>2 DEF SerialOf, Added
    <3> QED
      BY <1>1, <1>2, <2>1, <2>2, <3>1
  <2>3. CASE c \in 1 .. Made
    <3>1. SerialOf(c)' = SerialOf(c) /\ Live(c) /\ c \in DOMAIN calls /\ SerialOf(c) \in 1 .. LastSerial
      BY <1>0, <1>3, <2>3, CallTypes DEF SerialOf, Live, Added
    <3>2. \/ serial = SerialOf(c) + (Made + 1 - c)
          \/ serial = SerialOf(c) + (Made + 1 - c) - LastSerial
      BY <3>1 DEF Numbered
    <3> QED
      BY <1>1, <1>2, <2>1, <2>3, <3>1, <3>2
  <2> QED
    BY <1>1, <2>1, <2>2, <2>3
<1>4. Made' <= MaxCalls
  BY <1>0, <1>1, <1>2 DEF Added
<1>5. serial' \in 1 .. LastSerial
  BY <1>1, <1>2
<1> QED
  BY <1>3, <1>4, <1>5 DEF Numbered

\* A call that takes no context, or the first free one, keeps the pool in agreement.
LEMMA MarshalledPool ==
  ASSUME IInv, NEW method \in Methods, NEW fate \in Fates, Marshalled(method, fate),
         \/ UNCHANGED contexts
         \/ fate \in {"sent", "unsent"} /\ \E timeout \in Timeouts : Alloc(method, timeout)
  PROVE  /\ PoolAgrees' /\ ToldOnce' /\ Closed'
         /\ contexts' \in [Slots -> [serial : 0 .. LastSerial, method : Methods, left : Nat]]
         /\ \A i \in InUse' :
              \/ /\ i \in InUse /\ contexts'[i] = contexts[i]
              \/ /\ contexts'[i].serial = serial /\ contexts'[i].method = method
                 /\ fate \in {"sent", "unsent"}
         /\ \A i \in InUse : contexts[i].serial # serial
<1>0. Added(method, fate)
  BY MarshalledAdds DEF IInv
<1>1. \A i \in InUse : contexts[i].serial # serial
  BY ContextOfCall, SerialFresh DEF IInv, Marshalled
<1> DEFINE Context == [serial : 0 .. LastSerial, method : Methods, left : Nat]
           new(i) == /\ contexts'[i].serial = serial /\ contexts'[i].method = method
                     /\ fate \in {"sent", "unsent"}
<1>2. /\ contexts' \in [Slots -> Context]
      /\ \A i \in InUse' : (i \in InUse /\ contexts'[i] = contexts[i]) \/ new(i)
      /\ \A i, j \in InUse' : contexts'[i].serial = serial /\ contexts'[j].serial = serial => i = j
  <2>0. contexts \in [Slots -> Context] /\ serial \in 1 .. LastSerial
    BY DEF IInv, TypeOK
  <2>1. CASE UNCHANGED contexts
    <3>1. InUse' = InUse
      BY <2>1 DEF InUse
    <3> QED
      BY <1>1, <2>0, <2>1, <3>1
  <2>2. ASSUME fate \in {"sent", "unsent"}, NEW timeout \in Timeouts, Alloc(method, timeout)
        PROVE  <1>2
    <3> DEFINE c == [serial |-> serial, method |-> method, left |-> timeout]
    <3>1. PICK k \in Slots : contexts' = [contexts EXCEPT ![k] = c]
      BY <2>2 DEF Alloc, Finds
    <3>2. c \in Context
      BY <2>0, MethodCallsAssumption
    <3>3. contexts'[k] = c /\ \A i \in Slots \ {k} : contexts'[i] = contexts[i]
      BY <2>0, <3>1
    <3>4. contexts' \in [Slots -> Context]
      BY <2>0, <3>1, <3>2
    <3>5. new(k)
      BY <2>2, <3>3
    <3>6. \A i \in InUse' \ {k} : i \in InUse /\ contexts'[i] = contexts[i]
      BY <3>3 DEF InUse
    <3>7. \A i \in InUse' : contexts'[i].serial = serial => i = k
      BY <1>1, <3>6
    <3> QED
      BY <3>4, <3>5, <3>6, <3>7
  <2> QED
    BY <2>1, <2>2
<1>3. PoolAgrees'
  <2> SUFFICES ASSUME NEW i \in InUse'
               PROVE  /\ \A j \in InUse' : contexts'[j].serial = contexts'[i].serial => i = j
                      /\ \E c \in DOMAIN calls' :
                           /\ calls'[c].serial = contexts'[i].serial /\ calls'[c].method = contexts'[i].method
                           /\ calls'[c].fate \in {"sent", "unsent"} /\ told'[c] = <<>>
    BY DEF PoolAgrees
  <2>1. \A j \in InUse' : contexts'[j].serial = contexts'[i].serial => i = j
    BY <1>1, <1>2 DEF IInv, PoolAgrees
  <2>2. CASE i \in InUse /\ contexts'[i] = contexts[i]
    <3>1. PICK c \in DOMAIN calls :
             /\ calls[c].serial = contexts[i].serial /\ calls[c].method = contexts[i].method
             /\ calls[c].fate \in {"sent", "unsent"} /\ told[c] = <<>>
      BY <2>2 DEF IInv, PoolAgrees
    <3>2. c \in DOMAIN calls' /\ calls'[c] = calls[c] /\ told'[c] = told[c]
      BY <1>0, CallTypes DEF IInv, Added
    <3> QED
      BY <2>1, <2>2, <3>1, <3>2
  <2>3. CASE new(i)
    <3>1. Made + 1 \in DOMAIN calls'
      BY <1>0, CallTypes DEF IInv, Added
    <3>2. /\ calls'[Made + 1].serial = contexts'[i].serial /\ calls'[Made + 1].method = contexts'[i].method
          /\ calls'[Made + 1].fate \in {"sent", "unsent"} /\ told'[Made + 1] = <<>>
      BY <1>0, <2>3 DEF Added
    <3> QED
      BY <2>1, <3>1, <3>2
  <2> QED
    BY <1>2, <2>2, <2>3
<1>4. ToldOnce'
  <2> SUFFICES ASSUME NEW c \in DOMAIN told' PROVE told'[c] \in {<<>>, <<calls'[c].method>>}
    BY DEF ToldOnce
  <2>1. c \in 1 .. Made + 1 /\ Made \in Nat
    BY <1>0, CallTypes DEF IInv, Added
  <2>2. CASE c = Made + 1
    BY <1>0, <2>2 DEF IInv, Added
  <2>3. CASE c \in 1 .. Made
    BY <1>0, <2>3, CallTypes DEF IInv, ToldOnce, Added
  <2> QED
    BY <2>1, <2>2, <2>3
<1>5. Closed'
  BY DEF Closed, Marshalled
<1> HIDE DEF Context, new
<1>6. /\ contexts' \in [Slots -> Context]
      /\ \A i \in InUse' : (i \in InUse /\ contexts'[i] = contexts[i]) \/ new(i)
  BY <1>2
<1> QED
  BY <1>1, <1>3, <1>4, <1>5, <1>6 DEF Context, new

\* The sessions on record, too, once the calls and sessions agree for the new call.
LEMMA MarshalledJoins ==
  ASSUME IInv, NEW method \in Methods, NEW fate \in Fates, Marshalled(method, fate),
         \/ UNCHANGED contexts
         \/ fate \in {"sent", "unsent"} /\ \E timeout \in Timeouts : Alloc(method, timeout),
         \/ sessions' = sessions /\ (method = "join" => fate # "sent")
         \/ sessions' = sessions \cup {<<serial, 0>>}
  PROVE  /\ JoinsOnRecord'
         /\ sessions' \subseteq (1 .. LastSerial) \X (SessionIds \cup {0})
<1>0. Added(method, fate) /\ members' = members /\ serial \in 1 .. LastSerial
  BY MarshalledAdds DEF IInv, Marshalled, TypeOK
<1>1. ASSUME NEW i \in InUse', contexts'[i].method = "join", NEW c \in DOMAIN calls',
             SerialOf(c)' = contexts'[i].serial, calls'[c].fate = "sent"
      PROVE  <<contexts'[i].serial, 0>> \in sessions'
  <2>1. CASE c = Made + 1
    <3>1. calls'[c].serial = serial /\ calls'[c].method = method /\ calls'[c].fate = fate
      BY <1>0, <2>1 DEF Added
    <3>2. contexts'[i].serial = serial
      BY <1>1, <3>1 DEF SerialOf
    <3>3. contexts'[i].method = method
      BY <3>2, MarshalledPool
    <3> QED
      BY <1>1, <3>1, <3>2, <3>3
  <2>2. CASE c \in 1 .. Made
    <3>1. c \in DOMAIN calls /\ calls[c].fate = "sent" /\ SerialOf(c) = contexts'[i].serial
      BY <1>0, <1>1, <2>2, CallTypes DEF Added, IInv, SerialOf
    <3>2. SerialOf(c) # serial
      BY <3>1, SerialFresh DEF IInv, Marshalled, Live
    <3>3. i \in InUse /\ contexts'[i] = contexts[i]
      BY <3>1, <3>2, MarshalledPool
    <3>4. <<contexts[i].serial, 0>> \in sessions
      BY <1>1, <3>1, <3>3 DEF IInv, JoinsOnRecord
    <3> QED
      BY <3>3, <3>4
  <2> QED
    BY <1>0, <2>1, <2>2 DEF Added
<1>2. {e[2] : e \in sessions'} \ {0} = members'
  <2>1. {e[2] : e \in sessions} \ {0} = members
    BY DEF IInv, JoinsOnRecord
  <2> QED
    BY <1>0, <2>1
<1>3. sessions' \subseteq (1 .. LastSerial) \X (SessionIds \cup {0})
  BY <1>0 DEF IInv, TypeOK
<1> QED
  BY <1>1, <1>2, <1>3 DEF JoinsOnRecord

\* Every way of making a call keeps the invariant.
LEMMA CallKeeps == ASSUME IInv, Call PROVE IInv'
<1>1. ASSUME NEW method \in Methods, NEW fate \in Fates, Marshalled(method, fate),
             \/ UNCHANGED contexts
             \/ fate \in {"sent", "unsent"} /\ \E timeout \in Timeouts : Alloc(method, timeout),
             \/ sessions' = sessions /\ (method = "join" => fate # "sent")
             \/ sessions' = sessions \cup {<<serial, 0>>}
      PROVE  IInv'
  <2>1. Numbered' /\ serial' \in 1 .. LastSerial
    BY <1>1, MarshalledNumbers DEF IInv
  <2>2. /\ PoolAgrees' /\ ToldOnce' /\ Closed'
        /\ contexts' \in [Slots -> [serial : 0 .. LastSerial, method : Methods, left : Nat]]
    BY <1>1, MarshalledPool
  <2>3. JoinsOnRecord' /\ sessions' \subseteq (1 .. LastSerial) \X (SessionIds \cup {0})
    BY <1>1, MarshalledJoins
  <2>4. Added(method, fate)
    BY <1>1, MarshalledAdds DEF IInv
  <2>5. TypeOK'
    BY <1>1, <2>1, <2>2, <2>3, <2>4 DEF IInv, TypeOK, Added, CallRecord, Marshalled
  <2> QED
    BY <2>1, <2>2, <2>3, <2>5 DEF IInv
<1>2. CASE CallOneWay
  BY <1>1, <1>2 DEF CallOneWay, Methods, Fates
<1>3. ASSUME NEW method \in Methods \ {"oneway"}, CallRefused(method) PROVE IInv'
  BY <1>1, <1>3 DEF CallRefused, Fates
<1>4. ASSUME NEW method \in Methods \ {"oneway"}, CallSpoilt(method) PROVE IInv'
  BY <1>1, <1>4 DEF CallSpoilt, Fates
<1>5. ASSUME NEW method \in Methods \ {"oneway"}, NEW timeout \in Timeouts, CallUnsent(method, timeout)
      PROVE  IInv'
  BY <1>1, <1>5 DEF CallUnsent, Fates
<1>6. ASSUME NEW method \in Methods \ {"oneway"}, NEW timeout \in Timeouts, CallSent(method, timeout)
      PROVE  IInv'
  BY <1>1, <1>6 DEF CallSent, Fates
<1> QED
  BY <1>2, <1>3, <1>4, <1>5, <1>6 DEF Call

-----------------------------------------------------------------------------
(* A context is freed. *)

\* A function on the numbers up to the length of a sequence is one as well.
LEMMA SameLength ==
  ASSUME NEW S, NEW T, NEW s \in Seq(S), NEW t, t \in [DOMAIN s -> T]
  PROVE  t \in Seq(T) /\ Len(t) = Len(s) /\ DOMAIN t = DOMAIN s
<1>1. DOMAIN s = 1 .. Len(s) /\ Len(s) \in Nat
  BY LenProperties
<1> QED
  BY <1>1

\* What freeing a context does to the pool and the history: it is the context of
\* one call, which the application may be told of.
LEMMA FreedPool ==
  ASSUME IInv, NEW i \in InUse, FreeContext(i), connected' = TRUE, UNCHANGED <<calls, serial>>,
         UNCHANGED told \/ Hand(contexts[i].serial, contexts[i].method)
  PROVE  /\ PoolAgrees' /\ ToldOnce' /\ Numbered' /\ Closed'
         /\ contexts' \in [Slots -> [serial : 0 .. LastSerial, method : Methods, left : Nat]]
         /\ told' \in Seq(Seq(Methods)) /\ Len(told') = Len(calls')
         /\ \A j \in InUse' : j \in InUse /\ contexts'[j] = contexts[j]
                              /\ contexts[j].serial # contexts[i].serial
<1>0. /\ contexts \in [Slots -> [serial : 0 .. LastSerial, method : Methods, left : Nat]]
      /\ told \in Seq(Seq(Methods)) /\ Len(told) = Len(calls) /\ i \in Slots
  BY DEF IInv, TypeOK, InUse
<1>1. PICK c \in DOMAIN calls :
         /\ SerialOf(c) = contexts[i].serial /\ calls[c].method = contexts[i].method
         /\ Live(c) /\ told[c] = <<>>
         /\ \A d \in DOMAIN calls : Live(d) /\ SerialOf(d) = contexts[i].serial => d = c
  BY ContextOfCall
<1>2. Free \in [serial : 0 .. LastSerial, method : Methods, left : Nat] /\ Free.serial = 0
  BY MethodCallsAssumption DEF Free, Methods
<1>3. contexts' \in [Slots -> [serial : 0 .. LastSerial, method : Methods, left : Nat]]
  BY <1>0, <1>2 DEF FreeContext
<1>4. contexts'[i].serial = 0 /\ \A j \in Slots \ {i} : contexts'[j] = contexts[j]
  BY <1>0, <1>2 DEF FreeContext
<1>5. \A j \in InUse' : j \in InUse /\ j # i /\ contexts'[j] = contexts[j]
  BY <1>4 DEF InUse
<1>6. \A j \in InUse' : contexts[j].serial # contexts[i].serial
  BY <1>5 DEF IInv, PoolAgrees
<1>7. /\ told' \in [DOMAIN told -> Seq(Methods)]
      /\ told'[c] \in {<<>>, <<calls[c].method>>}
      /\ \A d \in DOMAIN calls : d # c => told'[d] = told[d]
  <2>0. DOMAIN told = DOMAIN calls /\ \A d \in DOMAIN told : told[d] \in Seq(Methods)
    BY CallTypes DEF IInv
  <2>1. CASE UNCHANGED told
    <3>1. told \in [DOMAIN told -> Seq(Methods)]
      BY <1>0, LenProperties
    <3> QED
      BY <1>1, <2>1, <3>1
  <2>2. CASE Hand(contexts[i].serial, contexts[i].method)
    <3>1. contexts[i].method \in Methods
      BY <1>0
    <3>2. \A s \in Seq(Methods) : Append(s, contexts[i].method) \in Seq(Methods)
      BY <3>1, AppendProperties
    <3>3. told' \in [DOMAIN told -> Seq(Methods)]
      BY <2>0, <2>2, <3>2 DEF Hand
    <3>4. told'[c] = Append(told[c], contexts[i].method)
      BY <1>1, <2>0, <2>2 DEF Hand, Live
    <3>5. told'[c] = <<calls[c].method>>
      BY <1>1, <3>4
    <3>6. \A d \in DOMAIN calls : d # c => told'[d] = told[d]
      BY <1>1, <2>0, <2>2 DEF Hand, Live
    <3> QED
      BY <3>3, <3>5, <3>6
  <2> QED
    BY <2>1, <2>2
<1>8. told' \in Seq(Seq(Methods)) /\ Len(told') = Len(calls') /\ DOMAIN told' = DOMAIN calls
  <2>1. DOMAIN told = DOMAIN calls
    BY CallTypes DEF IInv
  <2>2. told' \in Seq(Seq(Methods)) /\ Len(told') = Len(told) /\ DOMAIN told' = DOMAIN told
    BY <1>0, <1>7, SameLength
  <2> QED
    BY <1>0, <2>1, <2>2
<1>9. PoolAgrees'
  <2> SUFFICES ASSUME NEW j \in InUse'
               PROVE  /\ \A k \in InUse' : contexts'[k].serial = contexts'[j].serial => j = k
                      /\ \E d \in DOMAIN calls' :
                           /\ calls'[d].serial = contexts'[j].serial /\ calls'[d].method = contexts'[j].method
                           /\ calls'[d].fate \in {"sent", "unsent"} /\ told'[d] = <<>>
    BY DEF PoolAgrees
  <2>1. \A k \in InUse' : contexts'[k].serial = contexts'[j].serial => j = k
    BY <1>5 DEF IInv, PoolAgrees
  <2>2. PICK d \in DOMAIN calls :
           /\ calls[d].serial = contexts[j].serial /\ calls[d].method = contexts[j].method
           /\ calls[d].fate \in {"sent", "unsent"} /\ told[d] = <<>>
    BY <1>5 DEF IInv, PoolAgrees
  <2>3. d # c
    BY <1>1, <1>6, <2>2 DEF SerialOf
  <2>4. told'[d] = <<>>
    BY <1>7, <2>2, <2>3
  <2> QED
    BY <1>5, <2>1, <2>2, <2>4
<1>10. ToldOnce'
  <2> SUFFICES ASSUME NEW d \in DOMAIN calls PROVE told'[d] \in {<<>>, <<calls[d].method>>}
    BY <1>8 DEF ToldOnce
  <2>1. CASE d = c
    BY <1>7, <2>1
  <2>2. CASE d # c
    BY <1>7, <2>2, CallTypes DEF IInv, ToldOnce
  <2> QED
    BY <2>1, <2>2
<1>11. Numbered' /\ Closed'
  BY DEF IInv, Numbered, Closed, Made, SerialOf, Live
<1> QED
  BY <1>3, <1>5, <1>6, <1>8, <1>9, <1>10, <1>11

\* A reply's context goes, and a join's session is completed or taken off the record.
LEMMA ReceiveReplyKeeps == ASSUME IInv, ReceiveReply PROVE IInv'
<1>1. PICK c \in DOMAIN calls :
         /\ calls[c].fate = "sent"
         /\ \/ \E id \in (SessionIds \cup {0}) \ members, error \in BOOLEAN : Reply(SerialOf(c), id, error)
            \/ ReplyDiscarded(SerialOf(c))
  BY DEF ReceiveReply
<1>2. SerialOf(c) \in 1 .. LastSerial
  BY CallTypes DEF IInv
<1> DEFINE Freed(i) ==
             /\ FreeContext(i) /\ connected' = TRUE /\ UNCHANGED <<calls, serial, quiet>>
             /\ UNCHANGED told \/ Hand(contexts[i].serial, contexts[i].method)
             /\ \/ UNCHANGED <<sessions, members>>
                \/ /\ contexts[i].method = "join"
                   /\ \E id \in SessionIds \cup {0}, error \in BOOLEAN :
                        HandleJoinReply(SerialOf(c), id, error)
<1>a. \E i \in Finds(SerialOf(c)) : Freed(i)
  <2>1. ASSUME NEW id \in SessionIds \cup {0}, NEW error \in BOOLEAN, Reply(SerialOf(c), id, error)
        PROVE  <1>a
    <3>1. PICK i \in Finds(SerialOf(c)) :
             /\ FreeContext(i) /\ Hand(SerialOf(c), contexts[i].method)
             /\ IF contexts[i].method = "join" THEN HandleJoinReply(SerialOf(c), id, error)
                ELSE UNCHANGED <<sessions, members>>
      BY <2>1 DEF Reply
    <3>2. connected' = TRUE /\ UNCHANGED <<calls, serial, quiet>>
      BY <2>1 DEF Reply, IInv, TypeOK
    <3>3. contexts[i].serial = SerialOf(c)
      BY DEF Finds
    <3>4. Freed(i)
      BY <3>1, <3>2, <3>3
    <3> QED
      BY <3>4
  <2>2. ASSUME ReplyDiscarded(SerialOf(c)) PROVE <1>a
    BY <2>2 DEF ReplyDiscarded, IInv, TypeOK
  <2> QED
    BY <1>1, <2>1, <2>2
<1>3. PICK i \in Finds(SerialOf(c)) : Freed(i)
  BY <1>a
<1>4. i \in InUse /\ contexts[i].serial = SerialOf(c)
  BY <1>2 DEF Finds, InUse
<1>5. /\ PoolAgrees' /\ ToldOnce' /\ Numbered' /\ Closed'
      /\ contexts' \in [Slots -> [serial : 0 .. LastSerial, method : Methods, left : Nat]]
      /\ told' \in Seq(Seq(Methods)) /\ Len(told') = Len(calls')
      /\ \A j \in InUse' : j \in InUse /\ contexts'[j] = contexts[j]
                           /\ contexts[j].serial # contexts[i].serial
  BY <1>3, <1>4, FreedPool
<1>6. /\ sessions' \subseteq (1 .. LastSerial) \X (SessionIds \cup {0}) /\ members' \subseteq SessionIds
      /\ {e[2] : e \in sessions'} \ {0} = members'
      /\ \A s : <<s, 0>> \in sessions /\ s # SerialOf(c) => <<s, 0>> \in sessions'
  <2>0. /\ sessions \subseteq (1 .. LastSerial) \X (SessionIds \cup {0}) /\ members \subseteq SessionIds
        /\ {e[2] : e \in sessions} \ {0} = members
    BY DEF IInv, TypeOK, JoinsOnRecord
  <2>1. CASE UNCHANGED <<sessions, members>>
    BY <2>0, <2>1
  <2>2. ASSUME contexts[i].method = "join", NEW id \in SessionIds \cup {0},
               HandleJoinReply(SerialOf(c), id, TRUE)
        PROVE  <1>6
    <3>1. sessions' = sessions \ Pending(SerialOf(c)) /\ members' = members
      BY <2>2 DEF HandleJoinReply
    <3>2. \A e \in sessions \ sessions' : e = <<SerialOf(c), 0>>
      BY <3>1 DEF Pending
    <3>3. sessions' \subseteq sessions /\ sessions \ sessions' \subseteq {<<SerialOf(c), 0>>}
      BY <3>1, <3>2
    <3>4. {e[2] : e \in sessions'} \ {0} = {e[2] : e \in sessions} \ {0}
      BY <3>3
    <3> QED
      BY <2>0, <3>1, <3>3, <3>4
  <2>3. ASSUME contexts[i].method = "join", NEW id \in SessionIds \cup {0},
               HandleJoinReply(SerialOf(c), id, FALSE)
        PROVE  <1>6
    <3>1. <<SerialOf(c), 0>> \in sessions
      BY <1>1, <1>4, <2>3 DEF IInv, JoinsOnRecord
    <3>2. Pending(SerialOf(c)) = {<<SerialOf(c), 0>>}
      BY <3>1 DEF Pending
    <3>3. /\ sessions' = (sessions \ {<<SerialOf(c), 0>>}) \cup {<<SerialOf(c), id>>}
          /\ members' = members \cup ({id} \ {0})
      <4>1. /\ sessions' = (sessions \ Pending(SerialOf(c))) \cup {<<SerialOf(c), id>> : e \in Pending(SerialOf(c))}
            /\ members' = members \cup ({id} \ {0})
        BY <2>3 DEF HandleJoinReply
      <4>2. \A P : P = {<<SerialOf(c), 0>>} => {<<SerialOf(c), id>> : e \in P} = {<<SerialOf(c), id>>}
        OBVIOUS
      <4> QED
        BY <3>2, <4>1, <4>2
    <3>4. sessions' \subseteq (1 .. LastSerial) \X (SessionIds \cup {0}) /\ members' \subseteq SessionIds
      BY <1>2, <2>0, <3>3
    <3>5. {e[2] : e \in sessions'} \ {0} = members'
      <4>1. <<SerialOf(c), 0>>[2] = 0 /\ <<SerialOf(c), id>>[2] = id
        OBVIOUS
      <4>2. ASSUME NEW x, x # 0
            PROVE  (\E e \in sessions' : e[2] = x) <=> (\E e \in sessions : e[2] = x) \/ x = id
        BY <3>3, <4>1, <4>2
      <4>3. ASSUME NEW x
            PROVE  x \in {e[2] : e \in sessions'} \ {0} <=> x \in members'
        BY <2>0, <3>3, <4>2
      <4> QED
        BY <4>3
    <3> QED
      BY <3>3, <3>4, <3>5
  <2> QED
    BY <1>3, <2>1, <2>2, <2>3
<1>7. JoinsOnRecord'
  <2> SUFFICES ASSUME NEW j \in InUse', contexts'[j].method = "join", NEW d \in DOMAIN calls',
                      SerialOf(d)' = contexts'[j].serial, calls'[d].fate = "sent"
               PROVE  <<contexts'[j].serial, 0>> \in sessions'
    BY <1>6 DEF JoinsOnRecord
  <2>1. j \in InUse /\ contexts'[j] = contexts[j] /\ contexts[j].serial # SerialOf(c)
    BY <1>4, <1>5
  <2>2. SerialOf(d) = contexts[j].serial /\ calls[d].fate = "sent" /\ d \in DOMAIN calls
    BY <1>3, <2>1 DEF SerialOf
  <2>3. <<contexts[j].serial, 0>> \in sessions
    BY <2>1, <2>2 DEF IInv, JoinsOnRecord
  <2> QED
    BY <1>6, <2>1, <2>3
<1>8. TypeOK'
  BY <1>3, <1>5, <1>6 DEF IInv, TypeOK
<1> QED
  BY <1>5, <1>7, <1>8 DEF IInv

\* A call that timed out leaves its session pending.
LEMMA TimeOutKeeps == ASSUME IInv, TimeOut PROVE IInv'
<1>1. PICK i \in Slots : TimedOut(i) /\ FreeContext(i) /\ Hand(contexts[i].serial, contexts[i].method)
  BY DEF TimeOut
<1>2. i \in InUse
  BY <1>1 DEF TimedOut, InUse
<1>3. connected' = TRUE /\ UNCHANGED <<quiet, serial, sessions, calls, members>>
  BY DEF TimeOut, IInv, TypeOK
<1>4. /\ PoolAgrees' /\ ToldOnce' /\ Numbered' /\ Closed'
      /\ contexts' \in [Slots -> [serial : 0 .. LastSerial, method : Methods, left : Nat]]
      /\ told' \in Seq(Seq(Methods)) /\ Len(told') = Len(calls')
      /\ \A j \in InUse' : j \in InUse /\ contexts'[j] = contexts[j]
                           /\ contexts[j].serial # contexts[i].serial
  BY <1>1, <1>2, <1>3, FreedPool
<1>5. JoinsOnRecord'
  BY <1>3, <1>4 DEF IInv, JoinsOnRecord, SerialOf
<1>6. TypeOK'
  BY <1>3, <1>4 DEF IInv, TypeOK
<1> QED
  BY <1>4, <1>5, <1>6 DEF IInv

-----------------------------------------------------------------------------
(* The other steps, and the theorems. *)

LEMMA InitIInv == Init => IInv
<1> SUFFICES ASSUME Init PROVE IInv
  OBVIOUS
<1>1. calls = <<>> /\ told = <<>> /\ DOMAIN calls = {} /\ DOMAIN told = {} /\ Made = 0
  BY DEF Init, Made
<1>2. Free \in [serial : 0 .. LastSerial, method : Methods, left : Nat] /\ Free.serial = 0
  BY MethodCallsAssumption DEF Free, Methods
<1>3. InUse = {}
  BY <1>2 DEF Init, InUse
<1>4. TypeOK
  <2>1. calls \in Seq([serial : 1 .. LastSerial, method : Methods, fate : Fates]) /\ told \in Seq(Seq(Methods))
    BY <1>1
  <2> QED
    BY <1>1, <1>2, <2>1, MethodCallsAssumption DEF Init, TypeOK
<1>5. Numbered /\ Closed
  BY <1>1, <1>3, MethodCallsAssumption DEF Init, Numbered, Closed
<1>6. PoolAgrees /\ ToldOnce
  BY <1>1, <1>3 DEF PoolAgrees, ToldOnce
<1>7. JoinsOnRecord
  BY <1>3 DEF Init, JoinsOnRecord
<1> QED
  BY <1>4, <1>5, <1>6, <1>7 DEF IInv

\* A new connection starts where it likes: no call is live.
LEMMA ConnectKeeps == ASSUME IInv, Connect PROVE IInv'
<1>1. /\ \A c \in DOMAIN calls : ~Live(c)
      /\ InUse = {} /\ serial' \in 1 .. LastSerial /\ connected' = TRUE
      /\ UNCHANGED <<quiet, contexts, sessions, calls, told, members>>
  BY MethodCallsAssumption DEF IInv, Closed, Connect
<1>2. TypeOK'
  BY <1>1 DEF IInv, TypeOK
<1>3. Numbered' /\ Closed'
  BY <1>1 DEF IInv, Numbered, Closed, Live, Made
<1>4. InUse' = {}
  BY <1>1 DEF InUse
<1> QED
  BY <1>1, <1>2, <1>3, <1>4 DEF IInv, PoolAgrees, ToldOnce, JoinsOnRecord

LEMMA DisconnectKeeps == ASSUME IInv, Disconnect PROVE IInv'
<1>1. Free \in [serial : 0 .. LastSerial, method : Methods, left : Nat] /\ Free.serial = 0
  BY MethodCallsAssumption DEF Free, Methods
<1>2. /\ contexts' \in [Slots -> [serial : 0 .. LastSerial, method : Methods, left : Nat]]
      /\ InUse' = {} /\ sessions' = {} /\ members' = {} /\ connected' = FALSE
      /\ UNCHANGED <<quiet, serial, told>>
  BY <1>1 DEF Disconnect, InUse
<1>3. calls \in Seq(CallRecord) /\ calls' = [c \in DOMAIN calls |-> [calls[c] EXCEPT !.fate = "gone"]]
  BY DEF IInv, TypeOK, CallRecord, Disconnect
<1>4. \A c \in DOMAIN calls : calls[c] \in CallRecord
  BY CallTypes DEF IInv
<1>5. calls' \in [DOMAIN calls -> CallRecord]
      /\ \A c \in DOMAIN calls : calls'[c].method = calls[c].method /\ calls'[c].fate = "gone"
  BY <1>3, <1>4 DEF CallRecord, Fates
<1>6. calls' \in Seq(CallRecord) /\ Len(calls') = Len(calls) /\ DOMAIN calls' = DOMAIN calls
  BY <1>3, <1>5, SameLength
<1>7. TypeOK'
  BY <1>2, <1>6 DEF IInv, TypeOK, CallRecord
<1>8. Numbered' /\ Closed'
  BY <1>2, <1>5, <1>6 DEF IInv, Numbered, Closed, Live, Made
<1>9. PoolAgrees' /\ JoinsOnRecord'
  BY <1>2 DEF PoolAgrees, JoinsOnRecord
<1>10. ToldOnce'
  BY <1>2, <1>5, CallTypes DEF IInv, ToldOnce
<1> QED
  BY <1>7, <1>8, <1>9, <1>10 DEF IInv

LEMMA SessionLostKeeps == ASSUME IInv, SessionLost PROVE IInv'
<1>1. PICK id \in members : sessions' = {e \in sessions : e[2] # id} /\ members' = members \ {id}
  BY DEF SessionLost
<1>2. id # 0 /\ connected' = TRUE /\ UNCHANGED <<quiet, serial, contexts, calls, told>>
  BY MethodCallsAssumption DEF IInv, TypeOK, SessionLost
<1>3. TypeOK'
  BY <1>1, <1>2 DEF IInv, TypeOK
<1>4. Numbered' /\ Closed' /\ PoolAgrees' /\ ToldOnce'
  BY <1>2 DEF IInv, Numbered, Closed, PoolAgrees, ToldOnce, Made, SerialOf, Live, InUse
<1>5. JoinsOnRecord'
  <2>1. {e[2] : e \in sessions'} \ {0} = members'
    BY <1>1 DEF IInv, JoinsOnRecord
  <2>2. \A s : <<s, 0>> \in sessions => <<s, 0>> \in sessions'
    BY <1>1, <1>2
  <2> QED
    BY <1>2, <2>1, <2>2 DEF IInv, JoinsOnRecord, SerialOf, InUse
<1> QED
  BY <1>3, <1>4, <1>5 DEF IInv

LEMMA SecondKeeps == ASSUME IInv, Second PROVE IInv'
<1>1. connected' = TRUE /\ UNCHANGED <<quiet, serial, sessions, calls, told, members>>
  BY DEF IInv, TypeOK, Second
<1>2. /\ contexts' \in [Slots -> [serial : 0 .. LastSerial, method : Methods, left : Nat]]
      /\ \A i \in Slots : /\ contexts'[i].serial = contexts[i].serial
                          /\ contexts'[i].method = contexts[i].method
  <2>1. contexts \in [Slots -> [serial : 0 .. LastSerial, method : Methods, left : Nat]]
    BY DEF IInv, TypeOK
  <2>2. contexts' = [i \in Slots |->
          IF contexts[i].left > 0 THEN [contexts[i] EXCEPT !.left = @ - 1] ELSE contexts[i]]
    BY DEF Second
  <2>3. ASSUME NEW i \in Slots
        PROVE  /\ contexts'[i] \in [serial : 0 .. LastSerial, method : Methods, left : Nat]
               /\ contexts'[i].serial = contexts[i].serial /\ contexts'[i].method = contexts[i].method
    BY <2>1, <2>2
  <2> QED
    BY <2>2, <2>3
<1>3. InUse' = InUse
  BY <1>2 DEF InUse
<1>4. TypeOK'
  BY <1>1, <1>2 DEF IInv, TypeOK
<1>5. Numbered' /\ Closed' /\ ToldOnce'
  BY <1>1 DEF IInv, Numbered, Closed, ToldOnce, Made, SerialOf, Live
<1>6. PoolAgrees'
  BY <1>1, <1>2, <1>3 DEF IInv, PoolAgrees, InUse
<1>7. JoinsOnRecord'
  BY <1>1, <1>2, <1>3 DEF IInv, JoinsOnRecord, SerialOf, InUse
<1> QED
  BY <1>4, <1>5, <1>6, <1>7 DEF IInv

\* Every step keeps the invariant.
LEMMA NextKeeps == IInv /\ [Next]_vars => IInv'
<1> SUFFICES ASSUME IInv, [Next]_vars PROVE IInv'
  OBVIOUS
<1>1. CASE Connect
  BY <1>1, ConnectKeeps
<1>2. CASE Disconnect
  BY <1>2, DisconnectKeeps
<1>3. CASE Call
  BY <1>3, CallKeeps
<1>4. CASE ReceiveReply
  BY <1>4, ReceiveReplyKeeps
<1>5. CASE SessionLost
  BY <1>5, SessionLostKeeps
<1>6. CASE Second
  BY <1>6, SecondKeeps
<1>7. CASE TimeOut
  BY <1>7, TimeOutKeeps
<1>8. CASE Traffic
  BY <1>8 DEF Traffic, IInv, TypeOK, Numbered, Closed, PoolAgrees, ToldOnce, JoinsOnRecord,
              Made, SerialOf, Live, InUse
<1>9. CASE UNCHANGED vars
  BY <1>9 DEF vars, IInv, TypeOK, Numbered, Closed, PoolAgrees, ToldOnce, JoinsOnRecord,
              Made, SerialOf, Live, InUse
<1> QED
  BY <1>1, <1>2, <1>3, <1>4, <1>5, <1>6, <1>7, <1>8, <1>9 DEF Next

THEOREM Invariant == Spec => []IInv
<1> QED
  BY InitIInv, NextKeeps, PTL DEF Spec

\* The contexts, calls and sessions are what their types allow, and no message has
\* the number 0.
THEOREM TypeOKHolds == Spec => []TypeOK
<1>1. IInv => TypeOK
  BY DEF IInv
<1> QED
  BY <1>1, Invariant, PTL

\* A reply context always belongs to one call of this connection the application
\* has been told nothing of.
THEOREM PoolAgreesHolds == Spec => []PoolAgrees
<1>1. IInv => PoolAgrees
  BY DEF IInv
<1> QED
  BY <1>1, Invariant, PTL

\* The application is told of a call at most once, as a call of its method.
THEOREM ToldOnceHolds == Spec => []ToldOnce
<1>1. IInv => ToldOnce
  BY DEF IInv
<1> QED
  BY <1>1, Invariant, PTL

\* Joins and sessions on record agree.
THEOREM JoinsOnRecordHolds == Spec => []JoinsOnRecord
<1>1. IInv => JoinsOnRecord
  BY DEF IInv
<1> QED
  BY <1>1, Invariant, PTL
=============================================================================

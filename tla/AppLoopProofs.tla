--------------------------- MODULE AppLoopProofs ---------------------------
(***************************************************************************)
(* Proofs about AppLoop, for any number of attempts, sessions and waiting  *)
(* messages, and any way a send may end.                                   *)
(***************************************************************************)
EXTENDS AppLoop, SequenceTheorems, TLAPS

\* The messages about sessions, and the sessions a queue names in them.
OfSession(m) == m.type \in {"accept", "joined", "lost"}
Named(q, t)  == {q[i].id : i \in {j \in DOMAIN q : q[j].type = t}}

\* The queue tells the life of each session in order: asked for, joined, lost,
\* each at most once.
Ordered(q, last) ==
  /\ \A i \in DOMAIN q : OfSession(q[i]) => q[i].id \in 1 .. last
  /\ \A i, j \in DOMAIN q :
       OfSession(q[i]) /\ q[j].type = q[i].type /\ q[j].id = q[i].id => i = j
  /\ \A i, j \in DOMAIN q :
       OfSession(q[j]) /\ q[i].type = "accept" /\ q[j].id = q[i].id => i = j
  /\ \A i, j \in DOMAIN q :
       q[i].type = "joined" /\ q[j].type = "lost" /\ q[j].id = q[i].id => i < j

\* By the end of it the open sessions are those on record.
Agree(q, open, table, last) ==
  /\ table \subseteq 1 .. last
  /\ \A i \in DOMAIN q : q[i].type \in {"accept", "joined"} => q[i].id \notin table
  /\ open = (table \cup Named(q, "joined")) \ Named(q, "lost")

InOrder(q, open, table, last) == Ordered(q, last) /\ Agree(q, open, table, last)

\* What each stage of the initialization knows of the calls and messages under way.
StageInv ==
  /\ pc = "connect" => /\ cur = "SERVICES" /\ nxt = "SERVICES" /\ ~announced
                       /\ inbox = <<>> /\ live = {} /\ ongoing = {} /\ missed = {}
  /\ pc # "disconnect" => initAttempts <= MaxInitAttempts
  /\ nxt \in {"SERVICES", "PORT"} => ~bindCall /\ ~bindAsked /\ ~portBound /\ Len(inbox) <= MaxInbox
  /\ bindAsked => ~portBound /\ Len(inbox) <= MaxInbox
  /\ Len(inbox) <= MaxInbox + 1
  /\ bindAsked \/ portBound => bound
  /\ \A i \in DOMAIN inbox : inbox[i].type \in {"accept", "joined"} => portBound
  /\ bindCall => cur = "PORT" /\ nxt = "ABOUT"
  /\ cur \in {"ABOUT", "ANNOUNCE"} => answered
  /\ cur = "ANNOUNCE" => aboutPort

QueueInv == InOrder(inbox, live, ongoing, lastId) /\ sessionId \notin missed

IInv == TypeOK /\ StageInv /\ AnnouncedAfterReply /\ QueueInv

-----------------------------------------------------------------------------
(* The queue *)

LEMMA MessageTypes ==
  ASSUME NEW m \in Messages
  PROVE  /\ OfSession(m) => m.id \in Ids
         /\ OfSession(m) <=> m \in [type : {"accept", "joined", "lost"}, id : Ids]
         /\ ~OfSession(m) <=> m.type \in {"bindReply", "update", "restart", "other"}
BY DEF Messages, OfSession

\* Reading the first message shifts the others.
LEMMA TailQueue ==
  ASSUME NEW q \in Seq(Messages), q # <<>>
  PROVE  /\ Tail(q) \in Seq(Messages) /\ Len(q) \in Nat /\ Len(Tail(q)) = Len(q) - 1 /\ Len(q) > 0
         /\ DOMAIN q = 1 .. Len(q) /\ DOMAIN Tail(q) = 1 .. Len(q) - 1
         /\ \A i \in DOMAIN Tail(q) : Tail(q)[i] = q[i + 1]
         /\ Head(q) = q[1] /\ Head(q) \in Messages
BY HeadTailProperties, LenProperties, EmptySeq

LEMMA TailNamed ==
  ASSUME NEW q \in Seq(Messages), q # <<>>, NEW t
  PROVE  /\ Head(q).type = t => Named(q, t) = Named(Tail(q), t) \cup {Head(q).id}
         /\ Head(q).type # t => Named(q, t) = Named(Tail(q), t)
<1>1. ASSUME NEW x \in Named(q, t)
      PROVE  x \in Named(Tail(q), t) \/ (Head(q).type = t /\ x = Head(q).id)
  <2>1. PICK i \in DOMAIN q : q[i].type = t /\ x = q[i].id
    BY <1>1 DEF Named
  <2>2. CASE i = 1
    BY <2>1, <2>2, TailQueue
  <2>3. CASE i # 1
    <3>1. i - 1 \in DOMAIN Tail(q) /\ Tail(q)[i - 1] = q[i]
      BY <2>1, <2>3, TailQueue
    <3> QED
      BY <2>1, <3>1 DEF Named
  <2> QED
    BY <2>2, <2>3
<1>2. ASSUME NEW x \in Named(Tail(q), t) PROVE x \in Named(q, t)
  <2>1. PICK i \in DOMAIN Tail(q) : Tail(q)[i].type = t /\ x = Tail(q)[i].id
    BY <1>2 DEF Named
  <2>2. i + 1 \in DOMAIN q /\ q[i + 1] = Tail(q)[i]
    BY <2>1, TailQueue
  <2> QED
    BY <2>1, <2>2 DEF Named
<1>3. Head(q).type = t => Head(q).id \in Named(q, t)
  <2>1. 1 \in DOMAIN q /\ Head(q) = q[1]
    BY TailQueue
  <2> QED
    BY <2>1 DEF Named
<1> QED
  BY <1>1, <1>2, <1>3

\* A new message comes last.
LEMMA AppendQueue ==
  ASSUME NEW q \in Seq(Messages), NEW m \in Messages
  PROVE  /\ Append(q, m) \in Seq(Messages) /\ Len(q) \in Nat /\ Len(Append(q, m)) = Len(q) + 1
         /\ DOMAIN q = 1 .. Len(q) /\ DOMAIN Append(q, m) = 1 .. Len(q) + 1
         /\ \A i \in DOMAIN q : Append(q, m)[i] = q[i]
         /\ Append(q, m)[Len(q) + 1] = m
BY AppendProperties, LenProperties

LEMMA AppendNamed ==
  ASSUME NEW q \in Seq(Messages), NEW m \in Messages, NEW t
  PROVE  /\ m.type = t => Named(Append(q, m), t) = Named(q, t) \cup {m.id}
         /\ m.type # t => Named(Append(q, m), t) = Named(q, t)
<1> DEFINE p == Append(q, m)
<1>1. /\ Len(q) \in Nat /\ DOMAIN q = 1 .. Len(q) /\ DOMAIN p = 1 .. Len(q) + 1
      /\ \A i \in DOMAIN q : p[i] = q[i]
      /\ p[Len(q) + 1] = m
  BY AppendQueue
<1> HIDE DEF p
<1>2. ASSUME NEW x \in Named(p, t) PROVE x \in Named(q, t) \/ (m.type = t /\ x = m.id)
  <2>1. PICK i \in DOMAIN p : p[i].type = t /\ x = p[i].id
    BY <1>2 DEF Named
  <2>2. CASE i = Len(q) + 1
    BY <1>1, <2>1, <2>2
  <2>3. CASE i \in DOMAIN q
    BY <1>1, <2>1, <2>3 DEF Named
  <2> QED
    BY <1>1, <2>1, <2>2, <2>3
<1>3. ASSUME NEW x \in Named(q, t) PROVE x \in Named(p, t)
  <2>1. PICK i \in DOMAIN q : q[i].type = t /\ x = q[i].id
    BY <1>3 DEF Named
  <2>2. i \in DOMAIN p /\ p[i] = q[i]
    BY <1>1, <2>1
  <2> QED
    BY <2>1, <2>2 DEF Named
<1>4. m.type = t => m.id \in Named(p, t)
  <2>1. Len(q) + 1 \in DOMAIN p /\ p[Len(q) + 1] = m
    BY <1>1
  <2> QED
    BY <2>1 DEF Named
<1> QED
  BY <1>2, <1>3, <1>4 DEF p

LEMMA TailOrdered ==
  ASSUME NEW q \in Seq(Messages), q # <<>>, NEW last, Ordered(q, last)
  PROVE  Ordered(Tail(q), last)
<1>1. \A i \in DOMAIN Tail(q) : i \in Nat /\ i + 1 \in DOMAIN q /\ Tail(q)[i] = q[i + 1]
  BY TailQueue
<1> QED
  BY <1>1 DEF Ordered

\* What a message that comes last must not find in the queue.
Follows(q, m, last) ==
  OfSession(m) =>
    /\ m.id \in 1 .. last
    /\ \A i \in DOMAIN q : OfSession(q[i]) /\ q[i].id = m.id =>
         m.type = "lost" /\ q[i].type = "joined"

LEMMA AppendOrdered ==
  ASSUME NEW q \in Seq(Messages), NEW m \in Messages, NEW last, Ordered(q, last), Follows(q, m, last)
  PROVE  Ordered(Append(q, m), last)
<1> DEFINE p == Append(q, m)
<1>1. /\ Len(q) \in Nat /\ DOMAIN q = 1 .. Len(q) /\ DOMAIN p = 1 .. Len(q) + 1
      /\ \A i \in DOMAIN q : p[i] = q[i]
      /\ p[Len(q) + 1] = m
  BY AppendQueue
<1> HIDE DEF p
<1>2. \A i \in DOMAIN p : OfSession(p[i]) => p[i].id \in 1 .. last
  BY <1>1 DEF Ordered, Follows
<1>3. ASSUME NEW i \in DOMAIN p, NEW j \in DOMAIN p
      PROVE  /\ OfSession(p[i]) /\ p[j].type = p[i].type /\ p[j].id = p[i].id => i = j
             /\ OfSession(p[j]) /\ p[i].type = "accept" /\ p[j].id = p[i].id => i = j
             /\ p[i].type = "joined" /\ p[j].type = "lost" /\ p[j].id = p[i].id => i < j
  <2>1. CASE i \in DOMAIN q /\ j \in DOMAIN q
    BY <1>1, <2>1 DEF Ordered
  <2>2. CASE i \in DOMAIN q /\ j = Len(q) + 1
    BY <1>1, <2>2 DEF Follows, OfSession
  <2>3. CASE i = Len(q) + 1 /\ j \in DOMAIN q
    BY <1>1, <2>3 DEF Follows, OfSession
  <2>4. CASE i = Len(q) + 1 /\ j = Len(q) + 1
    BY <1>1, <2>4
  <2> QED
    BY <1>1, <2>1, <2>2, <2>3, <2>4
<1> QED
  BY <1>2, <1>3 DEF Ordered, p

\* What is left of the queue when its first message has been read.
LEMMA TailFacts ==
  ASSUME NEW q \in Seq(Messages), q # <<>>, NEW last, Ordered(q, last), OfSession(Head(q))
  PROVE  /\ Head(q).id \in 1 .. last
         /\ Head(q).type = "accept" => \A i \in DOMAIN Tail(q) : OfSession(Tail(q)[i]) => Tail(q)[i].id # Head(q).id
         /\ \A i \in DOMAIN Tail(q) : Tail(q)[i].type \in {"accept", "joined"} /\ Head(q).type \in {"joined", "lost"}
              => Tail(q)[i].id # Head(q).id
<1>1. \A i \in DOMAIN Tail(q) : i \in Nat /\ i >= 1 /\ i + 1 \in DOMAIN q /\ Tail(q)[i] = q[i + 1]
  BY TailQueue
<1>2. 1 \in DOMAIN q /\ Head(q) = q[1]
  BY TailQueue
<1>3. Head(q).id \in 1 .. last
  BY <1>2 DEF Ordered
<1>4. ASSUME Head(q).type = "accept", NEW i \in DOMAIN Tail(q), OfSession(Tail(q)[i])
      PROVE  Tail(q)[i].id # Head(q).id
  BY <1>1, <1>2, <1>4 DEF Ordered
<1>5. ASSUME NEW i \in DOMAIN Tail(q), Tail(q)[i].type \in {"accept", "joined"}, Head(q).type \in {"joined", "lost"}
      PROVE  Tail(q)[i].id # Head(q).id
  <2>1. CASE Tail(q)[i].type = "accept"
    BY <1>1, <1>2, <1>5, <2>1 DEF Ordered, OfSession
  <2>2. CASE Tail(q)[i].type = "joined"
    BY <1>1, <1>2, <1>5, <2>2 DEF Ordered, OfSession
  <2> QED
    BY <1>5, <2>1, <2>2
<1> QED
  BY <1>3, <1>4, <1>5

-----------------------------------------------------------------------------
(* What the loop and the routing node do with the queue. *)

\* A message that is not about sessions is read, or a request is refused.
LEMMA ReadOther ==
  ASSUME NEW q \in Seq(Messages), q # <<>>, NEW open, NEW table, NEW last,
         InOrder(q, open, table, last), Head(q).type \notin {"joined", "lost"}
  PROVE  InOrder(Tail(q), open, table, last)
<1>1. Ordered(Tail(q), last)
  BY TailOrdered DEF InOrder
<1>2. \A i \in DOMAIN Tail(q) : i + 1 \in DOMAIN q /\ Tail(q)[i] = q[i + 1]
  BY TailQueue
<1>3. Named(Tail(q), "joined") = Named(q, "joined") /\ Named(Tail(q), "lost") = Named(q, "lost")
  BY TailNamed
<1> QED
  BY <1>1, <1>2, <1>3 DEF InOrder, Agree

\* A request is read and its session opened.
LEMMA ReadAccept ==
  ASSUME NEW q \in Seq(Messages), q # <<>>, NEW open, NEW table, NEW last,
         InOrder(q, open, table, last), Head(q).type = "accept"
  PROVE  /\ Session("joined", Head(q).id) \in Messages
         /\ InOrder(Append(Tail(q), Session("joined", Head(q).id)), open \cup {Head(q).id}, table, last)
<1> DEFINE m == Session("joined", Head(q).id)
           r == Tail(q)
<1>1. Head(q) \in Messages /\ OfSession(Head(q)) /\ r \in Seq(Messages) /\ 1 \in DOMAIN q /\ Head(q) = q[1]
  BY TailQueue DEF OfSession
<1>2. /\ m \in Messages /\ m.type = "joined" /\ m.id = Head(q).id
  BY <1>1, MessageTypes DEF Session, Messages, OfSession
<1>3. InOrder(r, open, table, last)
  BY ReadOther
<1>4. /\ Head(q).id \in 1 .. last
      /\ \A i \in DOMAIN r : OfSession(r[i]) => r[i].id # Head(q).id
  BY <1>1, TailFacts DEF InOrder
<1> HIDE DEF m, r
<1>5. Follows(r, m, last)
  BY <1>2, <1>4 DEF Follows
<1>6. Ordered(Append(r, m), last)
  BY <1>1, <1>2, <1>3, <1>5, AppendOrdered DEF InOrder
<1>7. Head(q).id \notin table
  BY <1>1 DEF InOrder, Agree
<1>8. Head(q).id \notin Named(r, "lost")
  BY <1>4 DEF Named, OfSession
<1>9. /\ Named(Append(r, m), "joined") = Named(r, "joined") \cup {Head(q).id}
      /\ Named(Append(r, m), "lost") = Named(r, "lost")
  <2>1. r \in Seq(Messages) /\ m \in Messages /\ m.type = "joined" /\ m.type # "lost" /\ m.id = Head(q).id
    BY <1>1, <1>2
  <2>2. Named(Append(r, m), "joined") = Named(r, "joined") \cup {m.id}
    BY <2>1, AppendNamed
  <2>3. Named(Append(r, m), "lost") = Named(r, "lost")
    BY <2>1, AppendNamed
  <2> QED
    BY <2>1, <2>2, <2>3
<1>10. /\ Len(r) \in Nat /\ DOMAIN r = 1 .. Len(r) /\ DOMAIN Append(r, m) = 1 .. Len(r) + 1
       /\ \A i \in DOMAIN r : Append(r, m)[i] = r[i]
       /\ Append(r, m)[Len(r) + 1] = m
  BY <1>1, <1>2, AppendQueue
<1>11. \A i \in DOMAIN Append(r, m) : Append(r, m)[i].type \in {"accept", "joined"} => Append(r, m)[i].id \notin table
  <2> SUFFICES ASSUME NEW i \in DOMAIN Append(r, m), Append(r, m)[i].type \in {"accept", "joined"}
               PROVE  Append(r, m)[i].id \notin table
    OBVIOUS
  <2>1. CASE i \in DOMAIN r
    BY <1>3, <1>10, <2>1 DEF InOrder, Agree
  <2>2. CASE i = Len(r) + 1
    BY <1>2, <1>7, <1>10, <2>2
  <2> QED
    BY <1>10, <2>1, <2>2
<1>12. Agree(Append(r, m), open \cup {Head(q).id}, table, last)
  BY <1>3, <1>8, <1>9, <1>11 DEF InOrder, Agree
<1> QED
  BY <1>2, <1>6, <1>12 DEF InOrder, m, r

\* A session that was joined is entered in the table.
LEMMA ReadJoined ==
  ASSUME NEW q \in Seq(Messages), q # <<>>, NEW open, NEW table, NEW last,
         InOrder(q, open, table, last), Head(q).type = "joined"
  PROVE  InOrder(Tail(q), open, table \cup {Head(q).id}, last)
<1> DEFINE r == Tail(q)
<1>1. OfSession(Head(q)) /\ r \in Seq(Messages)
  BY TailQueue DEF OfSession
<1>2. Ordered(r, last)
  BY TailOrdered DEF InOrder
<1>3. /\ Head(q).id \in 1 .. last
      /\ \A i \in DOMAIN r : r[i].type \in {"accept", "joined"} => r[i].id # Head(q).id
  BY <1>1, TailFacts DEF InOrder
<1>4. \A i \in DOMAIN r : i + 1 \in DOMAIN q /\ r[i] = q[i + 1]
  BY TailQueue
<1>5. Named(q, "joined") = Named(r, "joined") \cup {Head(q).id} /\ Named(q, "lost") = Named(r, "lost")
  BY TailNamed
<1>6. Agree(r, open, table \cup {Head(q).id}, last)
  BY <1>3, <1>4, <1>5 DEF InOrder, Agree
<1> QED
  BY <1>2, <1>6 DEF InOrder

\* A session that was lost is taken out.
LEMMA ReadLost ==
  ASSUME NEW q \in Seq(Messages), q # <<>>, NEW open, NEW table, NEW last,
         InOrder(q, open, table, last), Head(q).type = "lost"
  PROVE  InOrder(Tail(q), open, table \ {Head(q).id}, last)
<1> DEFINE r == Tail(q)
<1>1. OfSession(Head(q)) /\ r \in Seq(Messages)
  BY TailQueue DEF OfSession
<1>2. Ordered(r, last)
  BY TailOrdered DEF InOrder
<1>3. \A i \in DOMAIN r : r[i].type \in {"accept", "joined"} => r[i].id # Head(q).id
  BY <1>1, TailFacts DEF InOrder
<1>4. \A i \in DOMAIN r : i + 1 \in DOMAIN q /\ r[i] = q[i + 1]
  BY TailQueue
<1>5. Named(q, "joined") = Named(r, "joined") /\ Named(q, "lost") = Named(r, "lost") \cup {Head(q).id}
  BY TailNamed
<1>6. Head(q).id \notin Named(r, "joined")
  BY <1>3 DEF Named
<1>7. Agree(r, open, table \ {Head(q).id}, last)
  BY <1>4, <1>5, <1>6 DEF InOrder, Agree
<1> QED
  BY <1>2, <1>7 DEF InOrder

\* A message that is not about sessions comes.
LEMMA AddOther ==
  ASSUME NEW q \in Seq(Messages), NEW m \in Messages, NEW open, NEW table, NEW last,
         InOrder(q, open, table, last), ~OfSession(m)
  PROVE  InOrder(Append(q, m), open, table, last)
<1>1. Ordered(Append(q, m), last)
  BY AppendOrdered DEF InOrder, Follows
<1>2. Named(Append(q, m), "joined") = Named(q, "joined") /\ Named(Append(q, m), "lost") = Named(q, "lost")
  BY AppendNamed DEF OfSession
<1>3. /\ Len(q) \in Nat /\ DOMAIN q = 1 .. Len(q) /\ DOMAIN Append(q, m) = 1 .. Len(q) + 1
      /\ \A i \in DOMAIN q : Append(q, m)[i] = q[i]
      /\ Append(q, m)[Len(q) + 1] = m
  BY AppendQueue
<1>4. \A i \in DOMAIN Append(q, m) : Append(q, m)[i].type \in {"accept", "joined"} => i \in DOMAIN q
  BY <1>3 DEF OfSession
<1>5. Agree(Append(q, m), open, table, last)
  BY <1>2, <1>3, <1>4 DEF InOrder, Agree
<1> QED
  BY <1>1, <1>5 DEF InOrder

\* A new session is asked for.
LEMMA AddAccept ==
  ASSUME NEW q \in Seq(Messages), NEW open, NEW table, NEW last \in Nat, last + 1 \in Ids,
         InOrder(q, open, table, last)
  PROVE  /\ Session("accept", last + 1) \in Messages
         /\ InOrder(Append(q, Session("accept", last + 1)), open, table, last + 1)
<1> DEFINE m == Session("accept", last + 1)
<1>1. m \in Messages /\ m.type = "accept" /\ m.id = last + 1
  BY DEF Session, Messages
<1> HIDE DEF m
<1>2. \A n \in 1 .. last : n \in 1 .. last + 1 /\ n # last + 1
  OBVIOUS
<1>3. Ordered(q, last + 1)
  BY <1>2 DEF InOrder, Ordered
<1>4. Follows(q, m, last + 1)
  BY <1>1, <1>2 DEF InOrder, Ordered, Follows
<1>5. Ordered(Append(q, m), last + 1)
  BY <1>1, <1>3, <1>4, AppendOrdered
<1>6. Named(Append(q, m), "joined") = Named(q, "joined") /\ Named(Append(q, m), "lost") = Named(q, "lost")
  BY <1>1, AppendNamed
<1>7. /\ Len(q) \in Nat /\ DOMAIN q = 1 .. Len(q) /\ DOMAIN Append(q, m) = 1 .. Len(q) + 1
      /\ \A i \in DOMAIN q : Append(q, m)[i] = q[i]
      /\ Append(q, m)[Len(q) + 1] = m
  BY <1>1, AppendQueue
<1>8. \A i \in DOMAIN Append(q, m) :
        Append(q, m)[i].type \in {"accept", "joined"} => Append(q, m)[i].id \notin table
  <2> SUFFICES ASSUME NEW i \in DOMAIN Append(q, m), Append(q, m)[i].type \in {"accept", "joined"}
               PROVE  Append(q, m)[i].id \notin table
    OBVIOUS
  <2>1. CASE i \in DOMAIN q
    BY <1>7, <2>1 DEF InOrder, Agree
  <2>2. CASE i = Len(q) + 1
    BY <1>1, <1>2, <1>7, <2>2 DEF InOrder, Agree
  <2> QED
    BY <1>7, <2>1, <2>2
<1>9. Agree(Append(q, m), open, table, last + 1)
  BY <1>2, <1>6, <1>8 DEF InOrder, Agree
<1> QED
  BY <1>1, <1>5, <1>9 DEF InOrder, m

\* An open session is left.
LEMMA AddLost ==
  ASSUME NEW q \in Seq(Messages), NEW open, NEW table, NEW last, NEW id \in open, id \in Ids,
         InOrder(q, open, table, last)
  PROVE  /\ Session("lost", id) \in Messages
         /\ InOrder(Append(q, Session("lost", id)), open \ {id}, table, last)
<1> DEFINE m == Session("lost", id)
<1>1. m \in Messages /\ m.type = "lost" /\ m.id = id
  BY DEF Session, Messages
<1> HIDE DEF m
<1>2. id \in table \/ id \in Named(q, "joined")
  BY DEF InOrder, Agree
<1>3. id \notin Named(q, "lost")
  BY DEF InOrder, Agree
<1>4. \A i \in DOMAIN q : q[i].type = "lost" => q[i].id # id
  BY <1>3 DEF Named
<1>5. \A i \in DOMAIN q : q[i].type = "accept" => q[i].id # id
  <2> SUFFICES ASSUME NEW i \in DOMAIN q, q[i].type = "accept", q[i].id = id PROVE FALSE
    OBVIOUS
  <2>1. id \notin table
    BY DEF InOrder, Agree
  <2>2. PICK j \in DOMAIN q : q[j].type = "joined" /\ q[j].id = id
    BY <1>2, <2>1 DEF Named
  <2> QED
    BY <2>2 DEF InOrder, Ordered, OfSession
<1>6. id \in 1 .. last
  <2>1. CASE id \in table
    BY <2>1 DEF InOrder, Agree
  <2>2. CASE id \in Named(q, "joined")
    BY <2>2 DEF InOrder, Ordered, Named, OfSession
  <2> QED
    BY <1>2, <2>1, <2>2
<1>7. Follows(q, m, last)
  BY <1>1, <1>4, <1>5, <1>6 DEF Follows, OfSession
<1>8. Ordered(Append(q, m), last)
  BY <1>1, <1>7, AppendOrdered DEF InOrder
<1>9. /\ Named(Append(q, m), "joined") = Named(q, "joined")
      /\ Named(Append(q, m), "lost") = Named(q, "lost") \cup {id}
  BY <1>1, AppendNamed
<1>10. /\ Len(q) \in Nat /\ DOMAIN q = 1 .. Len(q) /\ DOMAIN Append(q, m) = 1 .. Len(q) + 1
       /\ \A i \in DOMAIN q : Append(q, m)[i] = q[i]
       /\ Append(q, m)[Len(q) + 1] = m
  BY <1>1, AppendQueue
<1>11. \A i \in DOMAIN Append(q, m) : Append(q, m)[i].type \in {"accept", "joined"} => i \in DOMAIN q
  BY <1>1, <1>10
<1>12. Agree(Append(q, m), open \ {id}, table, last)
  BY <1>9, <1>10, <1>11 DEF InOrder, Agree
<1> QED
  BY <1>1, <1>8, <1>12 DEF InOrder, m

-----------------------------------------------------------------------------
(* The steps *)

\* Every message that is delivered is one of Messages.
LEMMA SimpleMessage ==
  ASSUME NEW t \in {"bindReply", "update", "restart", "other"}
  PROVE  Simple(t) \in Messages /\ Simple(t).type = t /\ ~OfSession(Simple(t))
BY DEF Simple, Messages, OfSession

LEMMA SessionMessage ==
  ASSUME NEW t \in {"accept", "joined", "lost"}, NEW id \in Ids
  PROVE  Session(t, id) \in Messages /\ Session(t, id).type = t /\ Session(t, id).id = id
BY DEF Session, Messages

\* What is waiting, when a message has been read.
LEMMA ReadQueue ==
  ASSUME TypeOK, inbox # <<>>
  PROVE  /\ Tail(inbox) \in Seq(Messages) /\ Len(inbox) \in Nat /\ Len(Tail(inbox)) \in Nat
         /\ Len(Tail(inbox)) = Len(inbox) - 1
         /\ Head(inbox) \in Messages
         /\ 1 \in DOMAIN inbox /\ Head(inbox) = inbox[1]
         /\ \A i \in DOMAIN Tail(inbox) : \E j \in DOMAIN inbox : Tail(inbox)[i] = inbox[j]
<1>1. inbox \in Seq(Messages)
  BY DEF TypeOK
<1>2. \A i \in DOMAIN Tail(inbox) : i + 1 \in DOMAIN inbox /\ Tail(inbox)[i] = inbox[i + 1]
  BY <1>1, TailQueue
<1>3. 1 \in DOMAIN inbox /\ Head(inbox) = inbox[1]
  BY <1>1, TailQueue
<1>4. /\ Tail(inbox) \in Seq(Messages) /\ Len(inbox) \in Nat /\ Len(Tail(inbox)) \in Nat
      /\ Len(Tail(inbox)) = Len(inbox) - 1
      /\ Head(inbox) \in Messages
  BY <1>1, TailQueue, LenProperties
<1> QED
  BY <1>2, <1>3, <1>4

\* What is waiting, when one more has come.
LEMMA WaitQueue ==
  ASSUME TypeOK, NEW m \in Messages
  PROVE  /\ Append(inbox, m) \in Seq(Messages) /\ Len(inbox) \in Nat
         /\ Len(Append(inbox, m)) = Len(inbox) + 1
         /\ \A i \in DOMAIN Append(inbox, m) :
              Append(inbox, m)[i] = m \/ \E j \in DOMAIN inbox : Append(inbox, m)[i] = inbox[j]
<1>1. inbox \in Seq(Messages)
  BY DEF TypeOK
<1>2. /\ Append(inbox, m) \in Seq(Messages) /\ Len(inbox) \in Nat
      /\ Len(Append(inbox, m)) = Len(inbox) + 1
      /\ DOMAIN inbox = 1 .. Len(inbox) /\ DOMAIN Append(inbox, m) = 1 .. Len(inbox) + 1
      /\ \A i \in DOMAIN inbox : Append(inbox, m)[i] = inbox[i]
      /\ Append(inbox, m)[Len(inbox) + 1] = m
  BY <1>1, AppendQueue
<1>3. ASSUME NEW i \in DOMAIN Append(inbox, m)
      PROVE  Append(inbox, m)[i] = m \/ \E j \in DOMAIN inbox : Append(inbox, m)[i] = inbox[j]
  <2>1. CASE i = Len(inbox) + 1
    BY <1>2, <2>1
  <2>2. CASE i \in DOMAIN inbox
    BY <1>2, <2>2
  <2> QED
    BY <1>2, <2>1, <2>2
<1> QED
  BY <1>2, <1>3

\* A request that is read is of a session neither open nor on record.
LEMMA RequestIsNew ==
  ASSUME IInv, inbox # <<>>, Head(inbox).type = "accept"
  PROVE  Head(inbox).id \in Ids /\ Head(inbox).id \notin ongoing /\ Head(inbox).id \notin live
<1>1. /\ Head(inbox) \in Messages /\ 1 \in DOMAIN inbox /\ Head(inbox) = inbox[1]
  BY ReadQueue DEF IInv
<1>2. Head(inbox).id \in Ids
  BY <1>1, MessageTypes DEF OfSession
<1>3. Head(inbox).id \notin ongoing
  BY <1>1 DEF IInv, QueueInv, InOrder, Agree
<1>4. Head(inbox).id \notin Named(inbox, "joined")
  BY <1>1 DEF IInv, QueueInv, InOrder, Ordered, Named, OfSession
<1> QED
  BY <1>2, <1>3, <1>4 DEF IInv, QueueInv, InOrder, Agree

\* With nothing waiting, the open sessions are those on record.
LEMMA EmptyAgrees ==
  ASSUME IInv, inbox = <<>>
  PROVE  live = ongoing
<1>1. DOMAIN inbox = {}
  BY EmptySeq DEF IInv, TypeOK
<1>2. Named(inbox, "joined") = {} /\ Named(inbox, "lost") = {}
  BY <1>1 DEF Named
<1> QED
  BY <1>2 DEF IInv, QueueInv, InOrder, Agree

\* A step that leaves the queue, the open sessions and the table as they are.
LEMMA QueueKept ==
  ASSUME IInv, UNCHANGED <<inbox, live, ongoing, lastId, sessionId, missed>>
  PROVE  QueueInv'
BY DEF IInv, QueueInv, InOrder, Ordered, Agree, Named, OfSession

LEMMA ConnectKeeps ==
  ASSUME IInv, RoutingNodeConnect
  PROVE  IInv'
<1> USE DEF RoutingNodeConnect, init, bind, router
<1>1. TypeOK'
  BY DEF IInv, TypeOK
<1>2. StageInv' /\ AnnouncedAfterReply'
  BY DEF IInv, StageInv, TypeOK, AnnouncedAfterReply
<1>3. QueueInv'
  BY QueueKept DEF IInv, StageInv
<1> QED
  BY <1>1, <1>2, <1>3 DEF IInv

\* What a send that failed does to the attempts.
LEMMA FailTypes ==
  ASSUME TypeOK, StageInv, pc = "handler", NEW result, Fail(result)
  PROVE  /\ pc' \in {"handler", "disconnect"}
         /\ initAttempts' \in 0 .. MaxInitAttempts + 1
         /\ pc' # "disconnect" => initAttempts' <= MaxInitAttempts
BY BoundAssumption DEF TypeOK, StageInv, Fail

LEMMA HandlerKeeps ==
  ASSUME IInv, ConnectedHandler
  PROVE  IInv'
<1> USE DEF init, about, bind, sessions, router
<1>1. CASE InitServices \/ AwaitBindReply \/ NothingToAnnounce
  <2> USE <1>1 DEF InitServices, AwaitBindReply, NothingToAnnounce
  <2>1. TypeOK'
    BY DEF IInv, TypeOK, Stages
  <2>2. StageInv' /\ AnnouncedAfterReply'
    BY DEF IInv, StageInv, AnnouncedAfterReply
  <2>3. QueueInv'
    BY QueueKept
  <2> QED
    BY <2>1, <2>2, <2>3 DEF IInv
<1>2. ASSUME NEW result \in SendResults, BindPort(result)
      PROVE  IInv'
  <2> USE <1>2 DEF BindPort
  <2>1. CASE result = "OK"
    <3>1. TypeOK'
      BY <2>1 DEF IInv, TypeOK, Stages
    <3>2. StageInv' /\ AnnouncedAfterReply'
      BY <2>1 DEF IInv, StageInv, AnnouncedAfterReply, TypeOK
    <3>3. QueueInv'
      BY QueueKept
    <3> QED
      BY <3>1, <3>2, <3>3 DEF IInv
  <2>2. CASE result # "OK"
    <3>1. /\ pc' \in {"handler", "disconnect"} /\ initAttempts' \in 0 .. MaxInitAttempts + 1
          /\ pc' # "disconnect" => initAttempts' <= MaxInitAttempts
      BY <2>2, FailTypes DEF IInv
    <3>2. TypeOK'
      BY <2>2, <3>1 DEF IInv, TypeOK
    <3>3. StageInv' /\ AnnouncedAfterReply'
      BY <2>2, <3>1 DEF IInv, StageInv, AnnouncedAfterReply
    <3>4. QueueInv'
      BY <2>2, QueueKept
    <3> QED
      BY <3>2, <3>3, <3>4 DEF IInv
  <2> QED
    BY <2>1, <2>2
<1>3. ASSUME NEW result \in SendResults, InitAbout(result) \/ CheckAnnounce(result)
      PROVE  IInv'
  <2> USE <1>3 DEF InitAbout, CheckAnnounce, AboutAnnounce
  <2>1. /\ pc' \in {"handler", "unmarshal", "disconnect"}
        /\ initAttempts' \in 0 .. MaxInitAttempts + 1
        /\ pc' # "disconnect" => initAttempts' <= MaxInitAttempts
    BY FailTypes DEF IInv, TypeOK, StageInv
  <2>2. /\ cur' \in {"ABOUT", "ANNOUNCE"} /\ nxt' \in {"ABOUT", "ANNOUNCE"} /\ cur' = nxt'
        /\ cur \in {"ABOUT", "ANNOUNCE"} /\ nxt = cur
        /\ doAnnounce' = FALSE /\ aboutPort' \in BOOLEAN /\ changed' \in BOOLEAN /\ announced' \in BOOLEAN
        /\ aboutPort'
    BY DEF IInv, TypeOK, StageInv
  <2>3. UNCHANGED <<reboot, bind, sessions, router>>
    OBVIOUS
  <2>4. TypeOK'
    BY <2>1, <2>2, <2>3 DEF IInv, TypeOK, Stages
  <2>5. StageInv' /\ AnnouncedAfterReply'
    BY <2>1, <2>2, <2>3 DEF IInv, StageInv, AnnouncedAfterReply
  <2>6. QueueInv'
    BY <2>3, QueueKept
  <2> QED
    BY <2>4, <2>5, <2>6 DEF IInv
<1> QED
  BY <1>1, <1>2, <1>3 DEF ConnectedHandler

\* What reading a message leaves of what the stages know of the queue.
LEMMA ReadStages ==
  ASSUME IInv, inbox # <<>>, inbox' = Tail(inbox), UNCHANGED portBound
  PROVE  /\ inbox' \in Seq(Messages) /\ Len(inbox') <= MaxInbox
         /\ \A i \in DOMAIN inbox' : inbox'[i].type \in {"accept", "joined"} => portBound'
<1>1. /\ Tail(inbox) \in Seq(Messages) /\ Len(inbox) \in Nat /\ Len(Tail(inbox)) \in Nat
      /\ Len(Tail(inbox)) = Len(inbox) - 1
      /\ \A i \in DOMAIN Tail(inbox) : \E j \in DOMAIN inbox : Tail(inbox)[i] = inbox[j]
  BY ReadQueue DEF IInv
<1> QED
  BY <1>1, BoundAssumption DEF IInv, StageInv

\* A message that is not about sessions.
LEMMA PlainMessageKeeps ==
  ASSUME IInv,
         \/ HandleBindReply \/ HandleRestart
         \/ \E result \in SendResults : HandleUpdate(result) \/ HandleOther(result)
  PROVE  IInv'
<1> USE DEF HandleBindReply, HandleRestart, HandleUpdate, HandleOther, Receive, Advance,
            init, about, bind, sessions, router
<1>1. /\ inbox # <<>> /\ inbox' = Tail(inbox) /\ UNCHANGED portBound
      /\ Head(inbox).type \in {"bindReply", "restart", "update", "other"}
      /\ UNCHANGED <<live, ongoing, bound, lastId, sessionId, missed>>
  OBVIOUS
<1>2. /\ inbox' \in Seq(Messages) /\ Len(inbox') <= MaxInbox
      /\ \A i \in DOMAIN inbox' : inbox'[i].type \in {"accept", "joined"} => portBound'
  BY <1>1, ReadStages
<1> HIDE DEF Receive
<1>3. /\ pc' \in {"handler", "disconnect"} /\ pc = "unmarshal"
      /\ reboot' \in BOOLEAN /\ UNCHANGED <<nxt, initAttempts, aboutPort, announced, bindAsked>>
      /\ doAnnounce' \in BOOLEAN /\ changed' \in BOOLEAN
      /\ \/ UNCHANGED <<cur, bindCall, answered>>
         \/ cur' = (IF bindCall THEN nxt ELSE cur) /\ bindCall' = FALSE /\ answered' = TRUE
  BY DEF IInv, TypeOK, Receive
<1>4. TypeOK'
  <2>1. Len(inbox') <= MaxInbox + 2
    BY <1>2, BoundAssumption, LenProperties
  <2> QED
    BY <1>1, <1>2, <1>3, <2>1 DEF IInv, TypeOK
<1>5. StageInv' /\ AnnouncedAfterReply'
  <2>1. Len(inbox') <= MaxInbox + 1
    BY <1>2, BoundAssumption, LenProperties
  <2> QED
    BY <1>1, <1>2, <1>3, <2>1 DEF IInv, StageInv, AnnouncedAfterReply
<1>6. QueueInv'
  <2>1. InOrder(Tail(inbox), live, ongoing, lastId)
    BY <1>1, ReadOther DEF IInv, TypeOK, QueueInv
  <2> QED
    BY <1>1, <2>1 DEF IInv, QueueInv
<1> QED
  BY <1>4, <1>5, <1>6 DEF IInv

LEMMA JoinedOrLostKeeps ==
  ASSUME IInv, HandleSessionJoined \/ HandleSessionLost
  PROVE  IInv'
<1> USE DEF HandleSessionJoined, HandleSessionLost, Receive, init, about, bind
<1>1. /\ inbox # <<>> /\ inbox' = Tail(inbox) /\ pc = "unmarshal" /\ pc' = "handler"
      /\ UNCHANGED <<reboot, init, about, bind, bound, live, lastId, sessionId, missed>>
  OBVIOUS
<1>2. /\ inbox' \in Seq(Messages) /\ Len(inbox') <= MaxInbox
      /\ \A i \in DOMAIN inbox' : inbox'[i].type \in {"accept", "joined"} => portBound'
  BY <1>1, ReadStages
<1>3. /\ Head(inbox) \in Messages /\ 1 \in DOMAIN inbox /\ Head(inbox) = inbox[1]
  BY <1>1, ReadQueue DEF IInv
<1>4. \/ Head(inbox).type = "joined" /\ ongoing' = ongoing \cup {Head(inbox).id}
      \/ Head(inbox).type = "lost" /\ ongoing' = ongoing \ {Head(inbox).id}
  BY <1>3 DEF IInv, StageInv
<1>5. ongoing' \subseteq Ids
  BY <1>3, <1>4, MessageTypes DEF IInv, TypeOK, OfSession
<1>6. TypeOK'
  <2>1. Len(inbox') <= MaxInbox + 2
    BY <1>2, BoundAssumption, LenProperties
  <2> QED
    BY <1>1, <1>2, <1>5, <2>1 DEF IInv, TypeOK
<1>7. StageInv' /\ AnnouncedAfterReply'
  <2>1. Len(inbox') <= MaxInbox + 1
    BY <1>2, BoundAssumption, LenProperties
  <2> QED
    BY <1>1, <1>2, <2>1 DEF IInv, StageInv, AnnouncedAfterReply
<1>8. InOrder(Tail(inbox), live, ongoing', lastId)
  <2>1. inbox \in Seq(Messages) /\ InOrder(inbox, live, ongoing, lastId)
    BY DEF IInv, TypeOK, QueueInv
  <2>2. CASE Head(inbox).type = "joined" /\ ongoing' = ongoing \cup {Head(inbox).id}
    BY <1>1, <2>1, <2>2, ReadJoined
  <2>3. CASE Head(inbox).type = "lost" /\ ongoing' = ongoing \ {Head(inbox).id}
    BY <1>1, <2>1, <2>3, ReadLost
  <2> QED
    BY <1>4, <2>2, <2>3
<1>9. QueueInv'
  BY <1>1, <1>8 DEF IInv, QueueInv, InOrder, Ordered, Agree, Named, OfSession
<1> QED
  BY <1>6, <1>7, <1>9 DEF IInv

LEMMA AcceptKeeps ==
  ASSUME IInv, NEW result \in SendResults, NEW present \in BOOLEAN, HandleAcceptSession(result, present)
  PROVE  IInv'
<1> DEFINE id == Head(inbox).id
           m == Session("joined", id)
<1> USE DEF init, about, bind
<1>1. /\ inbox # <<>> /\ Head(inbox).type = "accept" /\ pc = "unmarshal" /\ pc' \in {"handler", "disconnect"}
      /\ sessionId' = id
      /\ UNCHANGED <<reboot, init, about, bind, bound, ongoing, lastId, missed>>
      /\ \/ live' = live /\ inbox' = Tail(inbox)
         \/ live' = live \cup {id} /\ inbox' = Append(Tail(inbox), m)
  BY DEF HandleAcceptSession, Receive
<1>2. id \in Ids /\ id \notin ongoing /\ id \notin live
  BY <1>1, RequestIsNew
<1>3. inbox \in Seq(Messages) /\ InOrder(inbox, live, ongoing, lastId)
  BY DEF IInv, TypeOK, QueueInv
<1>4. InOrder(inbox', live', ongoing, lastId)
  <2>1. CASE live' = live /\ inbox' = Tail(inbox)
    BY <1>1, <1>3, <2>1, ReadOther
  <2>2. CASE live' = live \cup {id} /\ inbox' = Append(Tail(inbox), m)
    BY <1>1, <1>3, <2>2, ReadAccept
  <2> QED
    BY <1>1, <2>1, <2>2
<1>5. QueueInv'
  <2>1. InOrder(inbox, live, ongoing, lastId)'
    BY <1>1, <1>4 DEF InOrder, Ordered, Agree, Named, OfSession
  <2>2. sessionId' \notin missed'
    BY <1>1, <1>2 DEF IInv, TypeOK
  <2> QED
    BY <2>1, <2>2 DEF QueueInv
<1>6. portBound
  <2>1. 1 \in DOMAIN inbox /\ Head(inbox) = inbox[1]
    BY <1>1, ReadQueue DEF IInv
  <2> QED
    BY <1>1, <2>1 DEF IInv, StageInv
<1>7. inbox' \in Seq(Messages) /\ Len(inbox') <= MaxInbox + 1 /\ Len(inbox') \in Nat
  <2>1. /\ Tail(inbox) \in Seq(Messages) /\ Len(inbox) \in Nat /\ Len(Tail(inbox)) \in Nat
        /\ Len(Tail(inbox)) = Len(inbox) - 1
    BY <1>1, ReadQueue DEF IInv
  <2>2. m \in Messages
    BY <1>2, SessionMessage
  <2>3. Append(Tail(inbox), m) \in Seq(Messages) /\ Len(Append(Tail(inbox), m)) = Len(Tail(inbox)) + 1
    BY <2>1, <2>2, AppendQueue
  <2>4. Len(inbox) <= MaxInbox + 1
    BY DEF IInv, StageInv
  <2> HIDE DEF m
  <2> QED
    BY <1>1, <2>1, <2>3, <2>4, BoundAssumption
<1>8. TypeOK'
  <2>1. live \subseteq live' /\ live' \subseteq Ids
    BY <1>1, <1>2 DEF IInv, TypeOK
  <2>2. sessionId' \in 0 .. MaxId
    BY <1>1, <1>2, BoundAssumption DEF Ids
  <2>3. Len(inbox') <= MaxInbox + 2
    BY <1>7, BoundAssumption
  <2> HIDE DEF id, m
  <2> QED
    BY <1>1, <1>7, <2>1, <2>2, <2>3 DEF IInv, TypeOK
<1>9. StageInv' /\ AnnouncedAfterReply'
  BY <1>1, <1>6, <1>7 DEF IInv, StageInv, AnnouncedAfterReply
<1> QED
  BY <1>5, <1>8, <1>9 DEF IInv

\* A silent second: nothing is read.
LEMMA SilenceKeeps ==
  ASSUME IInv, TimedOutBindCall \/ DoWork \/ LinkFails
  PROVE  IInv'
<1> USE DEF init, about, bind, sessions, router
<1>1. CASE TimedOutBindCall \/ LinkFails
  <2> USE <1>1 DEF TimedOutBindCall, LinkFails, Advance
  <2>1. TypeOK'
    BY DEF IInv, TypeOK
  <2>2. StageInv' /\ AnnouncedAfterReply'
    BY DEF IInv, StageInv, AnnouncedAfterReply
  <2>3. QueueInv'
    BY QueueKept
  <2> QED
    BY <2>1, <2>2, <2>3 DEF IInv
<1>2. CASE DoWork
  <2> USE <1>2 DEF DoWork
  <2>1. live = ongoing
    BY EmptyAgrees
  <2>2. missed' \subseteq live /\ sessionId \notin missed'
    BY <2>1 DEF IInv, TypeOK, QueueInv, Reached
  <2>3. TypeOK'
    BY <2>2 DEF IInv, TypeOK
  <2>4. StageInv' /\ AnnouncedAfterReply'
    BY DEF IInv, StageInv, AnnouncedAfterReply
  <2>5. QueueInv'
    BY <2>2 DEF IInv, QueueInv, InOrder, Ordered, Agree, Named, OfSession
  <2> QED
    BY <2>3, <2>4, <2>5 DEF IInv
<1> QED
  BY <1>1, <1>2

LEMMA EmptyQueue ==
  ASSUME NEW last
  PROVE  /\ <<>> \in Seq(Messages) /\ Len(<<>>) = 0 /\ DOMAIN <<>> = {}
         /\ InOrder(<<>>, {}, {}, last)
<1> DEFINE q == <<>>
<1>1. q \in Seq(Messages) /\ Len(q) = 0 /\ DOMAIN q = {}
  BY EmptySeq, LenProperties
<1> HIDE DEF q
<1>2. Named(q, "joined") = {} /\ Named(q, "lost") = {}
  BY <1>1 DEF Named
<1>3. InOrder(q, {}, {}, last)
  BY <1>1, <1>2 DEF InOrder, Ordered, Agree
<1> QED
  BY <1>1, <1>3 DEF q

\* A process that has just started or a connection that has ended.
LEMMA NumbersAtRest ==
  /\ 0 \in 0 .. MaxInitAttempts + 1 /\ 0 \in 0 .. MaxId
  /\ 0 <= MaxInitAttempts /\ 0 <= MaxInbox /\ 0 <= MaxInbox + 1 /\ 0 <= MaxInbox + 2
BY BoundAssumption

LEMMA DisconnectKeeps ==
  ASSUME IInv, Disconnect
  PROVE  IInv'
<1> USE DEF Disconnect
<1>1. /\ inbox' \in Seq(Messages) /\ Len(inbox') = 0 /\ DOMAIN inbox' = {}
      /\ InOrder(inbox', live', ongoing', lastId')
  BY EmptyQueue
<1>2. sessionId' \in 0 .. MaxId /\ lastId' \in 0 .. MaxId
  BY NumbersAtRest DEF IInv, TypeOK
<1>3. TypeOK'
  BY <1>1, <1>2, NumbersAtRest DEF IInv, TypeOK, Stages
<1>4. StageInv' /\ AnnouncedAfterReply'
  BY <1>1, NumbersAtRest DEF IInv, StageInv, AnnouncedAfterReply
<1>5. QueueInv'
  BY <1>1 DEF QueueInv, InOrder, Ordered, Agree, Named, OfSession
<1> QED
  BY <1>3, <1>4, <1>5 DEF IInv

\* What the arrival of a message leaves of what the stages know of the queue.
LEMMA ArrivalStages ==
  ASSUME IInv, NEW m \in Messages, m.type \in {"accept", "joined"} => portBound,
         inbox' = Append(inbox, m)
  PROVE  /\ inbox' \in Seq(Messages) /\ Len(inbox) \in Nat /\ Len(inbox') = Len(inbox) + 1
         /\ \A i \in DOMAIN inbox' : inbox'[i].type \in {"accept", "joined"} => portBound
<1>1. /\ Append(inbox, m) \in Seq(Messages) /\ Len(inbox) \in Nat
      /\ Len(Append(inbox, m)) = Len(inbox) + 1
      /\ \A i \in DOMAIN Append(inbox, m) :
           Append(inbox, m)[i] = m \/ \E j \in DOMAIN inbox : Append(inbox, m)[i] = inbox[j]
  BY WaitQueue DEF IInv
<1> QED
  BY <1>1 DEF IInv, StageInv

LEMMA BindReplyKeeps ==
  ASSUME IInv, BindReply
  PROVE  IInv'
<1> DEFINE m == Simple("bindReply")
<1> USE DEF BindReply, loop, init, about, sessions
<1>1. m \in Messages /\ m.type = "bindReply" /\ ~OfSession(m)
  BY SimpleMessage
<1> HIDE DEF m
<1>2. inbox' = Append(inbox, m)
  BY DEF m
<1>3. /\ inbox' \in Seq(Messages) /\ Len(inbox) \in Nat /\ Len(inbox') = Len(inbox) + 1
      /\ \A i \in DOMAIN inbox' : inbox'[i].type \in {"accept", "joined"} => portBound
  BY <1>1, <1>2, ArrivalStages
<1>4. bound /\ ~portBound /\ Len(inbox) <= MaxInbox /\ nxt \notin {"SERVICES", "PORT"} /\ pc # "connect"
  BY DEF IInv, StageInv
<1>5. TypeOK'
  <2>1. Len(inbox') <= MaxInbox + 2
    BY <1>3, <1>4, BoundAssumption
  <2> HIDE DEF BindReply
  <2>2. /\ bindAsked' = FALSE /\ portBound' \in BOOLEAN
        /\ UNCHANGED <<pc, reboot, cur, nxt, initAttempts, doAnnounce, aboutPort, announced, changed, bindCall,
                       answered, bound, ongoing, sessionId, live, lastId, missed>>
    BY DEF BindReply
  <2> QED
    BY <1>3, <2>1, <2>2 DEF IInv, TypeOK
<1>6. StageInv' /\ AnnouncedAfterReply'
  BY <1>3, <1>4, BoundAssumption DEF IInv, StageInv, AnnouncedAfterReply
<1>7. QueueInv'
  <2>1. InOrder(Append(inbox, m), live, ongoing, lastId)
    BY <1>1, AddOther DEF IInv, TypeOK, QueueInv
  <2>2. InOrder(inbox', live', ongoing', lastId')
    BY <1>2, <2>1
  <2>3. sessionId' \notin missed'
    BY DEF IInv, QueueInv
  <2> QED
    BY <2>2, <2>3 DEF QueueInv, InOrder, Ordered, Agree, Named, OfSession
<1> QED
  BY <1>5, <1>6, <1>7 DEF IInv

\* The other messages come only while there is room for them.
LEMMA DeliverStages ==
  ASSUME IInv, NEW m \in Messages, m.type \in {"accept", "joined"} => portBound, Deliver(m),
         pc # "connect", UNCHANGED <<loop, init, about, bind, sessions>>
  PROVE  /\ inbox' \in Seq(Messages) /\ Len(inbox') <= MaxInbox + 2
         /\ StageInv' /\ AnnouncedAfterReply'
<1>1. /\ inbox' \in Seq(Messages) /\ Len(inbox) \in Nat /\ Len(inbox') = Len(inbox) + 1
      /\ \A i \in DOMAIN inbox' : inbox'[i].type \in {"accept", "joined"} => portBound
  BY ArrivalStages DEF Deliver
<1>2. Len(inbox') <= MaxInbox
  BY <1>1, BoundAssumption DEF Deliver
<1>3. Len(inbox') <= MaxInbox + 1 /\ Len(inbox') <= MaxInbox + 2
  BY <1>1, <1>2, BoundAssumption
<1>4. StageInv' /\ AnnouncedAfterReply'
  BY <1>1, <1>2, <1>3
     DEF IInv, StageInv, AnnouncedAfterReply, loop, init, about, bind, sessions
<1> QED
  BY <1>1, <1>3, <1>4

LEMMA JoinKeeps ==
  ASSUME IInv, JoinSession
  PROVE  IInv'
<1> DEFINE m == Session("accept", lastId + 1)
<1> USE DEF JoinSession
<1>1. /\ lastId \in Nat /\ lastId + 1 \in Ids /\ lastId' = lastId + 1
      /\ inbox \in Seq(Messages) /\ InOrder(inbox, live, ongoing, lastId)
      /\ portBound /\ pc # "connect"
  BY BoundAssumption DEF IInv, TypeOK, QueueInv, StageInv, Ids
<1>2. m \in Messages /\ m.type = "accept"
  BY <1>1, SessionMessage
<1>3. Deliver(m) /\ UNCHANGED <<loop, init, about, bind, sessions, live, missed>>
  BY <1>1
<1>4. InOrder(Append(inbox, m), live, ongoing, lastId + 1)
  BY <1>1, AddAccept
<1> HIDE DEF m, JoinSession
<1>5. /\ inbox' \in Seq(Messages) /\ Len(inbox') <= MaxInbox + 2
      /\ StageInv' /\ AnnouncedAfterReply'
  BY <1>1, <1>2, <1>3, DeliverStages
<1>6. TypeOK'
  <2>1. lastId' \in 0 .. MaxId
    BY <1>1, BoundAssumption DEF Ids
  <2> QED
    BY <1>3, <1>5, <2>1 DEF IInv, TypeOK, loop, init, about, bind, sessions
<1>7. QueueInv'
  <2>1. inbox' = Append(inbox, m)
    BY <1>3 DEF Deliver
  <2>2. InOrder(inbox', live', ongoing', lastId')
    BY <1>1, <1>3, <1>4, <2>1 DEF sessions
  <2>3. sessionId' \notin missed'
    BY <1>1, <1>3 DEF IInv, QueueInv, sessions
  <2> QED
    BY <2>2, <2>3 DEF QueueInv, InOrder, Ordered, Agree, Named, OfSession
<1> QED
  BY <1>5, <1>6, <1>7 DEF IInv

LEMMA LeaveKeeps ==
  ASSUME IInv, NEW id \in live, LeaveSession(id)
  PROVE  IInv'
<1> DEFINE m == Session("lost", id)
<1> USE DEF LeaveSession
<1>1. /\ id \in Ids /\ live' = live \ {id} /\ missed' = missed \ {id}
      /\ inbox \in Seq(Messages) /\ InOrder(inbox, live, ongoing, lastId)
      /\ pc # "connect"
  BY DEF IInv, TypeOK, QueueInv, StageInv
<1>2. m \in Messages /\ m.type = "lost"
  BY <1>1, SessionMessage
<1>3. Deliver(m) /\ UNCHANGED <<loop, init, about, bind, sessions, lastId>>
  OBVIOUS
<1>4. InOrder(Append(inbox, m), live \ {id}, ongoing, lastId)
  BY <1>1, AddLost
<1> HIDE DEF m, LeaveSession
<1>5. /\ inbox' \in Seq(Messages) /\ Len(inbox') <= MaxInbox + 2
      /\ StageInv' /\ AnnouncedAfterReply'
  BY <1>1, <1>2, <1>3, DeliverStages
<1>6. TypeOK'
  BY <1>1, <1>3, <1>5 DEF IInv, TypeOK, loop, init, about, bind, sessions
<1>7. QueueInv'
  <2>1. inbox' = Append(inbox, m)
    BY <1>3 DEF Deliver
  <2>2. InOrder(inbox', live', ongoing', lastId')
    BY <1>1, <1>3, <1>4, <2>1 DEF sessions
  <2>3. sessionId' \notin missed'
    BY <1>1, <1>3 DEF IInv, QueueInv, sessions
  <2> QED
    BY <2>2, <2>3 DEF QueueInv, InOrder, Ordered, Agree, Named, OfSession
<1> QED
  BY <1>5, <1>6, <1>7 DEF IInv

LEMMA CallKeeps ==
  ASSUME IInv, NEW type \in {"update", "restart", "other"}, Call(type)
  PROVE  IInv'
<1> DEFINE m == Simple(type)
<1>1. m \in Messages /\ ~OfSession(m) /\ m.type \notin {"accept", "joined"}
  BY SimpleMessage DEF OfSession
<1>2. Deliver(m) /\ pc # "connect" /\ UNCHANGED <<loop, init, about, bind, sessions, live, lastId, missed>>
  BY DEF Call
<1> HIDE DEF m
<1>3. /\ inbox' \in Seq(Messages) /\ Len(inbox') <= MaxInbox + 2
      /\ StageInv' /\ AnnouncedAfterReply'
  BY <1>1, <1>2, DeliverStages
<1>4. TypeOK'
  BY <1>2, <1>3 DEF IInv, TypeOK, loop, init, about, bind, sessions
<1>5. QueueInv'
  <2>1. inbox' = Append(inbox, m)
    BY <1>2 DEF Deliver
  <2>2. InOrder(Append(inbox, m), live, ongoing, lastId)
    BY <1>1, AddOther DEF IInv, TypeOK, QueueInv
  <2> QED
    BY <1>2, <2>1, <2>2 DEF IInv, QueueInv, InOrder, Ordered, Agree, Named, OfSession, sessions
<1> QED
  BY <1>3, <1>4, <1>5 DEF IInv

-----------------------------------------------------------------------------
(* The theorems *)

LEMMA InitIInv == Init => IInv
<1> SUFFICES ASSUME Init PROVE IInv
  OBVIOUS
<1>1. /\ inbox \in Seq(Messages) /\ Len(inbox) = 0 /\ DOMAIN inbox = {}
      /\ InOrder(inbox, live, ongoing, lastId)
  BY EmptyQueue DEF Init
<1>2. TypeOK
  BY <1>1, NumbersAtRest DEF Init, TypeOK, Stages
<1>3. StageInv /\ AnnouncedAfterReply
  BY <1>1, NumbersAtRest DEF Init, StageInv, AnnouncedAfterReply
<1>4. QueueInv
  BY <1>1 DEF Init, QueueInv
<1> QED
  BY <1>2, <1>3, <1>4 DEF IInv

LEMMA NextIInv == IInv /\ [Next]_vars => IInv'
<1> SUFFICES ASSUME IInv, [Next]_vars PROVE IInv'
  OBVIOUS
<1>1. CASE RoutingNodeConnect
  BY <1>1, ConnectKeeps
<1>2. CASE ConnectedHandler
  BY <1>2, HandlerKeeps
<1>3. CASE HandleMessage
  <2>1. CASE \/ HandleBindReply \/ HandleRestart
             \/ \E result \in SendResults : HandleUpdate(result) \/ HandleOther(result)
    BY <2>1, PlainMessageKeeps
  <2>2. CASE HandleSessionJoined \/ HandleSessionLost
    BY <2>2, JoinedOrLostKeeps
  <2>3. ASSUME NEW result \in SendResults, NEW present \in BOOLEAN, HandleAcceptSession(result, present)
        PROVE  IInv'
    BY <2>3, AcceptKeeps
  <2> QED
    BY <1>3, <2>1, <2>2, <2>3 DEF HandleMessage
<1>4. CASE TimedOutBindCall \/ DoWork \/ LinkFails
  BY <1>4, SilenceKeeps
<1>5. CASE Disconnect
  BY <1>5, DisconnectKeeps
<1>6. CASE Environment
  <2>1. CASE BindReply
    BY <2>1, BindReplyKeeps
  <2>2. CASE JoinSession
    BY <2>2, JoinKeeps
  <2>3. ASSUME NEW id \in live, LeaveSession(id) PROVE IInv'
    BY <2>3, LeaveKeeps
  <2>4. ASSUME NEW type \in {"update", "restart", "other"}, Call(type) PROVE IInv'
    BY <2>4, CallKeeps
  <2> QED
    BY <1>6, <2>1, <2>2, <2>3, <2>4 DEF Environment
<1>7. CASE UNCHANGED vars
  <2> USE <1>7 DEF vars, loop, init, about, bind, sessions, router
  <2>1. TypeOK'
    BY DEF IInv, TypeOK
  <2>2. StageInv' /\ AnnouncedAfterReply'
    BY DEF IInv, StageInv, AnnouncedAfterReply
  <2>3. QueueInv'
    BY QueueKept
  <2> QED
    BY <2>1, <2>2, <2>3 DEF IInv
<1> QED
  BY <1>1, <1>2, <1>3, <1>4, <1>5, <1>6, <1>7 DEF Next, Turn

\* The initialization's stages, the queue from the routing node, the session table
\* and the open sessions stay in step through every failure and reconnection.
THEOREM Invariant == Spec => []IInv
<1>1. Init => IInv
  BY InitIInv
<1>2. IInv /\ [Next]_vars => IInv'
  BY NextIInv
<1> QED
  BY <1>1, <1>2, PTL DEF Spec

\* Every variable of the loop keeps its type, and the queue its bound.
THEOREM TypeOKHolds == Spec => []TypeOK
<1>1. IInv => TypeOK
  BY DEF IInv
<1> QED
  BY <1>1, Invariant, PTL

\* Once what waits has been read the session table holds exactly the open sessions,
\* and the client that asked last for a session misses no status signal.
THEOREM SessionsAgreeHolds == Spec => []SessionsAgree
<1>1. IInv => SessionsAgree
  BY DEF IInv, QueueInv, InOrder, Agree, Named, SessionsAgree, Waiting
<1> QED
  BY <1>1, Invariant, PTL

\* About announces only after the bind call of this connection has been answered or
\* has timed out, whatever failed before.
THEOREM AnnouncedAfterReplyHolds == Spec => []AnnouncedAfterReply
<1>1. IInv => AnnouncedAfterReply
  BY DEF IInv
<1> QED
  BY <1>1, Invariant, PTL
=============================================================================

---------------------------- MODULE MethodCalls ----------------------------
(***************************************************************************)
(* Method calls that wait for their replies: the fixed pool of reply       *)
(* contexts (aj_introspect.c), the messages that fill and free it          *)
(* (aj_msg.c), and the sessions joined through it (aj_bus.c).              *)
(*                                                                         *)
(* Calls are numbered in the order they are made; what became of each is   *)
(* history.  A call carries the time it may wait, counted in seconds, and  *)
(* serial numbers run from 1 to LastSerial and round again.  Memory for a  *)
(* session record is taken to be there (SessionAlloc).                     *)
(***************************************************************************)
EXTENDS Integers, FiniteSets, Sequences

CONSTANTS
  NumContexts,  \* AJ_NUM_REPLY_CONTEXTS
  MaxCalls,     \* bound: calls ever made
  LastSerial,   \* the last serial number, 2^32 - 1 in the code
  FirstSerials, \* where bus->serial may stand when a connection is taken up
  Timeouts,     \* how long calls may wait
  SessionIds    \* the session ids the routing node gives out

ASSUME MethodCallsAssumption ==
  /\ NumContexts \in Nat \ {0} /\ MaxCalls \in Nat
  /\ LastSerial \in Nat /\ LastSerial > MaxCalls
  /\ FirstSerials \subseteq 1 .. LastSerial
  /\ Timeouts \subseteq Nat \ {0} /\ IsFiniteSet(SessionIds) /\ 0 \notin SessionIds

VARIABLES
  connected,
  quiet,     \* external: no message comes for a while
  serial,    \* bus->serial: the number of the next message
  contexts,  \* replyContexts
  sessions,  \* bus->sessions, those of this side's joining: <<joinCallSerial, sessionId>>
  calls,     \* history: the calls made
  told,      \* history: the replies handed to the application, by call
  members    \* history: sessions the application was told it is in

vars == <<connected, quiet, serial, contexts, sessions, calls, told, members>>

\* AJ_METHOD_JOIN_SESSION; any other method; one called with
\* AJ_FLAG_NO_REPLY_EXPECTED.
Methods == {"join", "plain", "oneway"}

\* What became of a call: the pool was full, an argument could not be marshalled,
\* it could not be sent, it went out.  Gone: its connection has ended.
Fates == {"refused", "spoilt", "unsent", "sent", "gone"}

Slots == 1 .. NumContexts
Free  == [serial |-> 0, method |-> "plain", left |-> 0]
InUse == {i \in Slots : contexts[i].serial # 0}

\* FindReplyContext: the first one, so that 0 finds the first free one.
Finds(s) == {i \in Slots : contexts[i].serial = s /\ \A j \in 1 .. i - 1 : contexts[j].serial # s}

\* Mutant of SerialAfter: 0 is not skipped.
SerialAfterZero(s) == IF s = LastSerial THEN 0 ELSE s + 1

\* MarshalMsg: 0 is never a serial number.
SerialAfter(s) == IF s = LastSerial THEN 1 ELSE s + 1

Made        == Len(calls)
SerialOf(c) == calls[c].serial

Init ==
  /\ connected = FALSE /\ quiet = TRUE /\ serial \in FirstSerials
  /\ contexts = [i \in Slots |-> Free]
  /\ sessions = {} /\ calls = <<>> /\ told = <<>> /\ members = {}

-----------------------------------------------------------------------------

\* AJ_FindBusAndConnect clears the attachment; messages have been sent since
\* (SendHello, SetSignalRules), or many more.
Connect ==
  /\ ~connected
  /\ connected' = TRUE
  /\ serial' \in FirstSerials
  /\ UNCHANGED <<quiet, contexts, sessions, calls, told, members>>

\* Mutant of Disconnect: the contexts survive.
DisconnectKeepsContexts ==
  /\ connected
  /\ connected' = FALSE
  /\ calls' = [c \in DOMAIN calls |-> [calls[c] EXCEPT !.fate = "gone"]]
  /\ sessions' = {} /\ members' = {}
  /\ UNCHANGED <<quiet, serial, contexts, told>>

\* AJ_Disconnect: AJ_ReleaseReplyContexts, AJ_BusRemoveAllSessions.
Disconnect ==
  /\ connected
  /\ connected' = FALSE
  /\ contexts' = [i \in Slots |-> Free]
  /\ calls' = [c \in DOMAIN calls |-> [calls[c] EXCEPT !.fate = "gone"]]
  /\ sessions' = {} /\ members' = {}
  /\ UNCHANGED <<quiet, serial, told>>

\* What has been marshalled has taken a serial number, whatever happens next.
Marshalled(method, fate) ==
  /\ connected /\ Made < MaxCalls
  /\ serial' = SerialAfter(serial)
  /\ calls' = Append(calls, [serial |-> serial, method |-> method, fate |-> fate])
  /\ told' = Append(told, <<>>)
  /\ UNCHANGED <<connected, quiet, members>>

\* AJ_AllocReplyContext
Alloc(method, timeout) ==
  \E i \in Finds(0) :
    contexts' = [contexts EXCEPT ![i] = [serial |-> serial, method |-> method, left |-> timeout]]

CallOneWay == Marshalled("oneway", "sent") /\ UNCHANGED <<contexts, sessions>>

CallRefused(method) ==
  /\ Marshalled(method, "refused")
  /\ Finds(0) = {}
  /\ UNCHANGED <<contexts, sessions>>

\* AJ_MarshalArg releases the context when an argument cannot be marshalled.
CallSpoilt(method) ==
  /\ Marshalled(method, "spoilt")
  /\ Finds(0) # {}
  /\ UNCHANGED <<contexts, sessions>>

\* AJ_DeliverMsg fails, or there are more arguments than the signature has, and
\* the context stays: it waits for a reply to a call that was never sent.
CallUnsent(method, timeout) ==
  /\ Marshalled(method, "unsent")
  /\ Alloc(method, timeout)
  /\ UNCHANGED sessions

\* AJ_BusAddPendingSession, once the call has been sent.
CallSent(method, timeout) ==
  /\ Marshalled(method, "sent")
  /\ Alloc(method, timeout)
  /\ sessions' = IF method = "join" THEN sessions \cup {<<serial, 0>>} ELSE sessions

Call ==
  \/ CallOneWay
  \/ \E method \in Methods \ {"oneway"} :
       \/ CallRefused(method) \/ CallSpoilt(method)
       \/ \E timeout \in Timeouts : CallUnsent(method, timeout) \/ CallSent(method, timeout)

-----------------------------------------------------------------------------

\* The application gets a reply: its serial is that of a call, and its message id
\* that of the method in the context.
Hand(s, method) ==
  told' = [c \in DOMAIN told |->
             IF SerialOf(c) = s /\ calls[c].fate # "gone" THEN Append(told[c], method) ELSE told[c]]

\* Mutant of Pending: any join that is pending.
PendingAny(s) == {e \in sessions : e[2] = 0}

Pending(s) == {e \in sessions : e = <<s, 0>>}

\* AJ_BusHandleJoinSessionReply.  A reply that is not an error may still refuse,
\* with id 0: its result code is not looked at.
HandleJoinReply(s, id, error) ==
  IF error THEN sessions' = sessions \ Pending(s) /\ UNCHANGED members
  ELSE /\ sessions' = (sessions \ Pending(s)) \cup {<<s, id>> : e \in Pending(s)}
       /\ members' = members \cup ({id} \ {0})

FreeContext(i) == contexts' = [contexts EXCEPT ![i] = Free]

\* Mutant of Reply: the context is kept for further replies.
ReplyKeepsContext(s, id, error) ==
  /\ connected /\ s # 0
  /\ \E i \in Finds(s) :
       /\ UNCHANGED contexts
       /\ Hand(s, contexts[i].method)
       /\ IF contexts[i].method = "join" THEN HandleJoinReply(s, id, error)
          ELSE UNCHANGED <<sessions, members>>
  /\ UNCHANGED <<connected, quiet, serial, calls>>

\* AJ_IdentifyMessage finds the context by the reply's serial, frees it and names
\* the reply; ProcessBusMessages.
Reply(s, id, error) ==
  /\ connected /\ s # 0
  /\ \E i \in Finds(s) :
       /\ FreeContext(i)
       /\ Hand(s, contexts[i].method)
       /\ IF contexts[i].method = "join" THEN HandleJoinReply(s, id, error)
          ELSE UNCHANGED <<sessions, members>>
  /\ UNCHANGED <<connected, quiet, serial, calls>>

\* A reply with another signature, in clear to a secure call or from another
\* sender: the context is freed all the same, and the reply discarded.
ReplyDiscarded(s) ==
  /\ connected /\ s # 0
  /\ \E i \in Finds(s) : FreeContext(i)
  /\ UNCHANGED <<connected, quiet, serial, sessions, calls, told, members>>

\* Replies to calls that went out on this connection: one, late, repeated or none.
\* One that finds no context is discarded.
ReceiveReply ==
  \E c \in DOMAIN calls :
    /\ calls[c].fate = "sent"
    /\ \/ \E id \in (SessionIds \cup {0}) \ members, error \in BOOLEAN : Reply(SerialOf(c), id, error)
       \/ ReplyDiscarded(SerialOf(c))

\* SESSION_LOST: AJ_BusRemoveOngoingSession.
SessionLost ==
  /\ connected
  /\ \E id \in members :
       /\ sessions' = {e \in sessions : e[2] # id}
       /\ members' = members \ {id}
  /\ UNCHANGED <<connected, quiet, serial, contexts, calls, told>>

\* A second passes with messages of other kinds arriving.
Second ==
  /\ connected /\ \E i \in InUse : contexts[i].left > 0
  /\ contexts' = [i \in Slots |->
       IF contexts[i].left > 0 THEN [contexts[i] EXCEPT !.left = @ - 1] ELSE contexts[i]]
  /\ UNCHANGED <<connected, quiet, serial, sessions, calls, told, members>>

\* Mutant of TimedOut: only the first context is looked at.
TimedOutFirst(i) == i = 1 /\ contexts[i].serial # 0 /\ contexts[i].left = 0

TimedOut(i) ==
  /\ contexts[i].serial # 0 /\ contexts[i].left = 0
  /\ \A j \in 1 .. i - 1 : contexts[j].serial = 0 \/ contexts[j].left > 0

\* AJ_UnmarshalMsg received nothing at all in its time: AJ_TimedOutMethodCall
\* makes up an error reply for the first call that has waited too long.  It does not
\* pass through ProcessBusMessages: a join that timed out stays pending.
TimeOut ==
  /\ connected /\ quiet
  /\ \E i \in Slots : TimedOut(i) /\ FreeContext(i) /\ Hand(contexts[i].serial, contexts[i].method)
  /\ UNCHANGED <<connected, quiet, serial, sessions, calls, members>>

\* Messages keep coming, or stop coming.
Traffic ==
  /\ connected
  /\ quiet' = ~quiet
  /\ UNCHANGED <<connected, serial, contexts, sessions, calls, told, members>>

Next ==
  \/ Connect \/ Disconnect \/ Call \/ ReceiveReply \/ SessionLost \/ Second \/ TimeOut \/ Traffic

Spec == Init /\ [][Next]_vars

\* Seconds pass, and the application keeps asking for messages.
LoopSpec == Spec /\ WF_vars(Second) /\ SF_vars(TimeOut)

\* And however busy the bus has been, it falls silent again.
FairSpec == LoopSpec /\ WF_vars(~quiet /\ Traffic)

-----------------------------------------------------------------------------
(* Properties *)

TypeOK ==
  /\ connected \in BOOLEAN /\ quiet \in BOOLEAN /\ serial \in 1 .. LastSerial
  /\ contexts \in [Slots -> [serial : 0 .. LastSerial, method : Methods, left : Nat]]
  /\ sessions \subseteq (1 .. LastSerial) \X (SessionIds \cup {0})
  /\ calls \in Seq([serial : 1 .. LastSerial, method : Methods, fate : Fates])
  /\ told \in Seq(Seq(Methods)) /\ Len(told) = Len(calls)
  /\ members \subseteq SessionIds

\* The pool and the calls agree: each context in use belongs to one call of this
\* connection, of which the application has been told nothing yet.
PoolAgrees ==
  \A i \in InUse :
    /\ \A j \in InUse : contexts[j].serial = contexts[i].serial => i = j
    /\ \E c \in DOMAIN calls :
         /\ calls[c].serial = contexts[i].serial /\ calls[c].method = contexts[i].method
         /\ calls[c].fate \in {"sent", "unsent"} /\ told[c] = <<>>

\* However late or often replies come and whichever contexts have been used again,
\* the application is told of a call at most once, and as a call of its method.
ToldOnce == \A c \in DOMAIN told : told[c] \in {<<>>, <<calls[c].method>>}

\* A join that waits for its reply has its session on record, for the reply to
\* complete, and the sessions on record with an id are those the application has
\* been told it is in.
JoinsOnRecord ==
  /\ \A i \in InUse :
       contexts[i].method = "join" =>
         \A c \in DOMAIN calls :
           (SerialOf(c) = contexts[i].serial /\ calls[c].fate = "sent")
             => <<contexts[i].serial, 0>> \in sessions
  /\ {e[2] : e \in sessions} \ {0} = members

\* On a bus that is silent again and again every context is freed, by a reply, by
\* the time the call may wait or with the connection: the pool does not run dry.
ContextsFreed == \A i \in Slots : contexts[i].serial # 0 ~> contexts[i].serial = 0

\* "Time in milliseconds to allow for a reply to the message before reporting a
\* timeout error message" (aj_msg.h:405): the same however busy the bus is.
TimeoutsReported == ContextsFreed
=============================================================================

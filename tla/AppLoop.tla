------------------------------ MODULE AppLoop ------------------------------
(***************************************************************************)
(* The application's message loop (AJ_Main of test/ACServer), its staged   *)
(* initialization and disconnection (test/common/AppHandlers.c), and what  *)
(* of the bus attachment they drive: the session table, the bind call and  *)
(* its reply context, and the About announcement.                          *)
(*                                                                         *)
(* One turn of the loop is two steps: AJApp_ConnectedHandler (pc           *)
(* "handler"), then AJ_UnmarshalMsg with the handling of what it returns   *)
(* (pc "unmarshal"); a failed turn goes through "disconnect" to "connect". *)
(* The routing node and the clients are external.  inbox is what the node  *)
(* has sent and the loop has not yet read, in order.                       *)
(***************************************************************************)
EXTENDS Naturals, Sequences

CONSTANTS
  MaxInitAttempts,  \* AJAPP_MAX_INIT_ATTEMPTS, 3 in the code
  SendResults,      \* how a send may end: subset of {"OK", "RESOURCES", "WRITE"}
  MaxId,            \* bound: sessions ever asked for
  MaxInbox          \* bound: messages waiting to be read

ASSUME SendAssumption == "OK" \in SendResults /\ SendResults \subseteq {"OK", "RESOURCES", "WRITE"}
ASSUME BoundAssumption == MaxInitAttempts \in Nat /\ MaxId \in Nat /\ MaxInbox \in Nat

VARIABLES
  pc, reboot,            \* where the loop is; rebootRequired
  cur, nxt,              \* current- and nextServicesInitializationState
  initAttempts,
  doAnnounce, aboutPort, \* About: due; bus->aboutPort set
  bindCall,              \* the reply context of the bind call is in use
  bound, ongoing,        \* bus->sessions: the bound port's entry, the session ids
  sessionId,             \* the global the device's signals are sent to
  inbox, portBound, bindAsked, live, lastId, announced,  \* external: routing node
  answered, changed, missed                              \* history

loop     == <<pc, reboot>>
init     == <<cur, nxt, initAttempts>>
about    == <<doAnnounce, aboutPort, announced, changed>>
bind     == <<bindCall, bindAsked, portBound, answered>>
sessions == <<bound, ongoing, sessionId>>
router   == <<inbox, live, lastId, missed>>
vars     == <<loop, init, about, bind, sessions, router>>

Ids      == 1 .. MaxId
Stages   == {"SERVICES", "PORT", "ABOUT", "ANNOUNCE"}
Messages == [type : {"bindReply", "update", "restart", "other"}]
              \cup [type : {"accept", "joined", "lost"}, id : Ids]
Simple(t)      == [type |-> t]
Session(t, id) == [type |-> t, id |-> id]

\* Statics of a process that has just started, and a cleared bus attachment.
Init ==
  /\ pc = "connect" /\ reboot = FALSE
  /\ cur = "SERVICES" /\ nxt = "SERVICES" /\ initAttempts = 0
  /\ doAnnounce = TRUE /\ aboutPort = FALSE
  /\ bindCall = FALSE /\ bound = FALSE /\ ongoing = {} /\ sessionId = 0
  /\ inbox = <<>> /\ portBound = FALSE /\ bindAsked = FALSE /\ live = {} /\ lastId = 0
  /\ announced = FALSE /\ answered = FALSE /\ changed = TRUE /\ missed = {}

-----------------------------------------------------------------------------
(* Connecting.  RoutingNodeConnect returns only once connected;            *)
(* AJ_FindBusAndConnect has cleared the bus attachment.                    *)

RoutingNodeConnect ==
  /\ pc = "connect"
  /\ pc' = "handler"
  /\ aboutPort' = FALSE /\ bound' = FALSE /\ ongoing' = {}
  /\ UNCHANGED <<reboot, init, doAnnounce, announced, changed, bind, sessionId, router>>

-----------------------------------------------------------------------------
(* AJApp_ConnectedHandler *)

\* Mutant of Fail: the attempts are not limited.
FailForever(result) ==
  /\ initAttempts' = IF result = "RESOURCES" THEN initAttempts + 1 ELSE initAttempts
  /\ pc' = IF result = "WRITE" THEN "disconnect" ELSE pc

\* ErrorExit: too many failures for want of resources, or a write error, end
\* the connection.
Fail(result) ==
  LET attempts == IF result = "RESOURCES" THEN initAttempts + 1 ELSE initAttempts
  IN  /\ initAttempts' = attempts
      /\ pc' = IF result = "WRITE" \/ attempts > MaxInitAttempts THEN "disconnect" ELSE pc

InitServices ==
  /\ pc = "handler" /\ cur = nxt /\ cur = "SERVICES"
  /\ cur' = "PORT" /\ nxt' = "PORT"
  /\ pc' = "unmarshal"
  /\ UNCHANGED <<reboot, initAttempts, about, bind, sessions, router>>

\* Mutant of BindPort: About is started without waiting for the reply.
BindPortNoWait(result) ==
  /\ pc = "handler" /\ cur = nxt /\ cur = "PORT"
  /\ IF result = "OK"
     THEN /\ cur' = "ABOUT" /\ nxt' = "ABOUT" /\ bound' = TRUE
          /\ bindCall' = TRUE /\ bindAsked' = TRUE
          /\ pc' = "unmarshal"
          /\ UNCHANGED initAttempts
     ELSE /\ Fail(result)
          /\ UNCHANGED <<cur, nxt, bound, bindCall, bindAsked>>
  /\ UNCHANGED <<reboot, about, portBound, answered, ongoing, sessionId, router>>

\* AJ_BusBindSessionPort enters the port in the session table once the call is sent.
BindPort(result) ==
  /\ pc = "handler" /\ cur = nxt /\ cur = "PORT"
  /\ IF result = "OK"
     THEN /\ nxt' = "ABOUT" /\ bound' = TRUE
          /\ bindCall' = TRUE /\ bindAsked' = TRUE
          /\ pc' = "unmarshal"
          /\ UNCHANGED initAttempts
     ELSE /\ Fail(result)
          /\ UNCHANGED <<nxt, bound, bindCall, bindAsked>>
  /\ UNCHANGED <<reboot, cur, about, portBound, answered, ongoing, sessionId, router>>

\* The bind call is out and its reply not yet handled.
AwaitBindReply ==
  /\ pc = "handler" /\ cur # nxt
  /\ pc' = "unmarshal"
  /\ UNCHANGED <<reboot, init, about, bind, sessions, router>>

\* AJ_AboutAnnounce clears the condition before it sends.
AboutAnnounce(result) ==
  /\ doAnnounce' = FALSE
  /\ announced' = (announced \/ result = "OK")
  /\ changed' = (changed /\ result # "OK")

InitAbout(result) ==
  /\ pc = "handler" /\ cur = nxt /\ cur = "ABOUT"
  /\ aboutPort' = TRUE
  /\ AboutAnnounce(result)
  /\ IF result = "OK"
     THEN cur' = "ANNOUNCE" /\ nxt' = "ANNOUNCE" /\ pc' = "unmarshal" /\ UNCHANGED initAttempts
     ELSE Fail(result) /\ UNCHANGED <<cur, nxt>>
  /\ UNCHANGED <<reboot, bind, sessions, router>>

CheckAnnounce(result) ==
  /\ pc = "handler" /\ cur = nxt /\ cur = "ANNOUNCE" /\ doAnnounce
  /\ AboutAnnounce(result)
  /\ IF result = "OK" THEN pc' = "unmarshal" /\ UNCHANGED initAttempts ELSE Fail(result)
  /\ UNCHANGED <<reboot, cur, nxt, aboutPort, bind, sessions, router>>

NothingToAnnounce ==
  /\ pc = "handler" /\ cur = nxt /\ cur = "ANNOUNCE" /\ ~doAnnounce
  /\ pc' = "unmarshal"
  /\ UNCHANGED <<reboot, init, about, bind, sessions, router>>

ConnectedHandler ==
  \/ InitServices \/ AwaitBindReply \/ NothingToAnnounce
  \/ \E result \in SendResults : BindPort(result) \/ InitAbout(result) \/ CheckAnnounce(result)

-----------------------------------------------------------------------------
(* A message.  While the bind reply is awaited every message but an accept *)
(* call is consumed unanswered; the session table is kept all the same, by *)
(* ProcessBusMessages.  The announcement at the end of                     *)
(* AJ_BusHandleBusMessage never finds one due: see NothingDue.             *)

Receive(type) ==
  /\ pc = "unmarshal" /\ inbox # <<>> /\ Head(inbox).type = type

\* Mutant of Advance: an error reply leaves the stage as it is.
AdvanceOnSuccess == IF portBound THEN nxt ELSE cur

\* Any reply to the bind call ends the wait, an error or a refusal too.
Advance == nxt

\* A reply nobody waits for is not recognized, and discarded.
HandleBindReply ==
  /\ Receive("bindReply")
  /\ cur' = IF bindCall THEN Advance ELSE cur
  /\ bindCall' = FALSE /\ answered' = TRUE
  /\ inbox' = Tail(inbox) /\ pc' = "handler"
  /\ UNCHANGED <<reboot, nxt, initAttempts, about, bindAsked, portBound, sessions,
                 live, lastId, missed>>

\* The joiner's id overwrites the global.  present: the joiner has not gone
\* meanwhile, and the node opens the session.
HandleAcceptSession(result, present) ==
  /\ Receive("accept")
  /\ LET id == Head(inbox).id
         opens == result = "OK" /\ present
     IN  /\ sessionId' = id
         /\ live' = IF opens THEN live \cup {id} ELSE live
         /\ inbox' = IF opens THEN Append(Tail(inbox), Session("joined", id)) ELSE Tail(inbox)
  /\ pc' = IF result = "WRITE" THEN "disconnect" ELSE "handler"
  /\ UNCHANGED <<reboot, init, about, bind, bound, ongoing, lastId, missed>>

\* Mutant of HandleSessionJoined: one entry is kept for the port, as for a multipoint one.
HandleSessionJoinedOnce ==
  /\ Receive("joined")
  /\ ongoing' = IF bound /\ ongoing = {} THEN ongoing \cup {Head(inbox).id} ELSE ongoing
  /\ inbox' = Tail(inbox) /\ pc' = "handler"
  /\ UNCHANGED <<reboot, init, about, bind, bound, sessionId, live, lastId, missed>>

HandleSessionJoined ==
  /\ Receive("joined")
  /\ ongoing' = IF bound THEN ongoing \cup {Head(inbox).id} ELSE ongoing
  /\ inbox' = Tail(inbox) /\ pc' = "handler"
  /\ UNCHANGED <<reboot, init, about, bind, bound, sessionId, live, lastId, missed>>

\* Mutant of HandleSessionLost: only the session signals go to is looked for.
HandleSessionLostNewest ==
  /\ Receive("lost")
  /\ ongoing' = ongoing \ ({Head(inbox).id} \cap {sessionId})
  /\ inbox' = Tail(inbox) /\ pc' = "handler"
  /\ UNCHANGED <<reboot, init, about, bind, bound, sessionId, live, lastId, missed>>

\* The global is kept, whichever session was lost.
HandleSessionLost ==
  /\ Receive("lost")
  /\ ongoing' = ongoing \ {Head(inbox).id}
  /\ inbox' = Tail(inbox) /\ pc' = "handler"
  /\ UNCHANGED <<reboot, init, about, bind, bound, sessionId, live, lastId, missed>>

\* Mutant of HandleUpdate: the new values are saved, no announcement is asked for.
HandleUpdateQuietly(result) ==
  /\ Receive("update")
  /\ doAnnounce' = doAnnounce
  /\ changed' = (changed \/ cur = "ANNOUNCE")
  /\ inbox' = Tail(inbox)
  /\ pc' = IF result = "WRITE" /\ cur = "ANNOUNCE" THEN "disconnect" ELSE "handler"
  /\ UNCHANGED <<reboot, init, aboutPort, announced, bind, sessions, live, lastId, missed>>

\* A configuration update, carried out only once initialized, and announced even
\* if its own reply cannot be sent.
HandleUpdate(result) ==
  /\ Receive("update")
  /\ doAnnounce' = (doAnnounce \/ cur = "ANNOUNCE")
  /\ changed' = (changed \/ cur = "ANNOUNCE")
  /\ inbox' = Tail(inbox)
  /\ pc' = IF result = "WRITE" /\ cur = "ANNOUNCE" THEN "disconnect" ELSE "handler"
  /\ UNCHANGED <<reboot, init, aboutPort, announced, bind, sessions, live, lastId, missed>>

\* Config's Restart and FactoryReset return AJ_ERR_RESTART_APP.
HandleRestart ==
  /\ Receive("restart")
  /\ inbox' = Tail(inbox)
  /\ IF cur = "ANNOUNCE"
     THEN pc' = "disconnect" /\ reboot' = TRUE /\ doAnnounce' = TRUE
     ELSE pc' = "handler" /\ UNCHANGED <<reboot, doAnnounce>>
  /\ UNCHANGED <<init, aboutPort, announced, changed, bind, sessions, live, lastId, missed>>

\* Any other call; its reply may fail to be sent.
HandleOther(result) ==
  /\ Receive("other")
  /\ inbox' = Tail(inbox)
  /\ pc' = IF result = "WRITE" /\ cur = "ANNOUNCE" THEN "disconnect" ELSE "handler"
  /\ UNCHANGED <<reboot, init, about, bind, sessions, live, lastId, missed>>

HandleMessage ==
  \/ HandleBindReply \/ HandleSessionJoined \/ HandleSessionLost
  \/ HandleRestart
  \/ \E result \in SendResults :
       \/ HandleUpdate(result) \/ HandleOther(result)
       \/ \E present \in BOOLEAN : HandleAcceptSession(result, present)

-----------------------------------------------------------------------------
(* A silent second *)

\* The bind call has timed out: AJ_UnmarshalMsg makes up an error reply to it.
TimedOutBindCall ==
  /\ pc = "unmarshal" /\ inbox = <<>> /\ bindCall
  /\ cur' = Advance
  /\ bindCall' = FALSE /\ answered' = TRUE
  /\ pc' = "handler"
  /\ UNCHANGED <<reboot, nxt, initAttempts, about, bindAsked, portBound, sessions, router>>

\* The clients a signal to the global session id reaches: AJ_MarshalSignal takes
\* its destination from the session table.
Reached == {sessionId} \cap ongoing \cap live

\* AJApp_DoWork: the pass may have a status to send.
DoWork ==
  /\ pc = "unmarshal" /\ inbox = <<>>
  /\ \E sent \in BOOLEAN : missed' = IF sent THEN live \ Reached ELSE missed
  /\ pc' = "handler"
  /\ UNCHANGED <<reboot, init, about, bind, sessions, inbox, live, lastId>>

\* AJ_UnmarshalMsg could not read, or AJ_BusLinkStateProc gave the link up.
LinkFails ==
  /\ pc = "unmarshal" /\ inbox = <<>>
  /\ pc' = "disconnect"
  /\ UNCHANGED <<reboot, init, about, bind, sessions, router>>

-----------------------------------------------------------------------------

\* AJApp_DisconnectHandler, then AJ_Disconnect, after which the node has
\* forgotten us; then AJ_Reboot, if asked for, which starts the process anew or,
\* as on Linux, does nothing.
Disconnect ==
  /\ pc = "disconnect"
  /\ pc' = "connect" /\ reboot' = FALSE
  /\ cur' = "SERVICES" /\ nxt' = "SERVICES" /\ initAttempts' = 0
  /\ doAnnounce' = TRUE /\ changed' = TRUE /\ announced' = FALSE
  /\ bindCall' = FALSE /\ bindAsked' = FALSE /\ portBound' = FALSE /\ answered' = FALSE
  /\ bound' = FALSE /\ ongoing' = {}
  /\ sessionId' \in IF reboot THEN {0, sessionId} ELSE {sessionId}
  /\ inbox' = <<>> /\ live' = {} /\ missed' = {}
  /\ UNCHANGED <<aboutPort, lastId>>

-----------------------------------------------------------------------------
(* The routing node and the clients *)

Deliver(m) == Len(inbox) < MaxInbox /\ inbox' = Append(inbox, m)

BindReply ==
  /\ bindAsked
  /\ bindAsked' = FALSE
  /\ portBound' \in BOOLEAN
  /\ inbox' = Append(inbox, Simple("bindReply"))
  /\ UNCHANGED <<loop, init, about, bindCall, answered, sessions, live, lastId, missed>>

JoinSession ==
  /\ portBound /\ lastId < MaxId
  /\ lastId' = lastId + 1
  /\ Deliver(Session("accept", lastId'))
  /\ UNCHANGED <<loop, init, about, bind, sessions, live, missed>>

LeaveSession(id) ==
  /\ id \in live
  /\ live' = live \ {id} /\ missed' = missed \ {id}
  /\ Deliver(Session("lost", id))
  /\ UNCHANGED <<loop, init, about, bind, sessions, lastId>>

Call(type) ==
  /\ pc \in {"handler", "unmarshal"}
  /\ Deliver(Simple(type))
  /\ UNCHANGED <<loop, init, about, bind, sessions, live, lastId, missed>>

Environment ==
  \/ BindReply \/ JoinSession
  \/ \E id \in live : LeaveSession(id)
  \/ \E type \in {"update", "restart", "other"} : Call(type)

-----------------------------------------------------------------------------

Turn == ConnectedHandler \/ HandleMessage \/ TimedOutBindCall \/ DoWork

Next == RoutingNodeConnect \/ Turn \/ LinkFails \/ Disconnect \/ Environment

Spec == Init /\ [][Next]_vars

\* The loop keeps turning and connecting, whatever it finds; the node answers.
FairSpec ==
  /\ Spec
  /\ WF_vars(RoutingNodeConnect) /\ WF_vars(Turn) /\ WF_vars(Disconnect)
  /\ WF_vars(BindReply)

-----------------------------------------------------------------------------
(* Properties *)

TypeOK ==
  /\ pc \in {"connect", "handler", "unmarshal", "disconnect"} /\ reboot \in BOOLEAN
  /\ cur \in Stages /\ nxt \in Stages /\ initAttempts \in 0 .. MaxInitAttempts + 1
  /\ {doAnnounce, aboutPort, bindCall, bound, portBound, bindAsked, announced, answered,
      changed} \subseteq BOOLEAN
  /\ ongoing \subseteq Ids /\ live \subseteq Ids /\ missed \subseteq live
  /\ sessionId \in 0 .. MaxId /\ lastId \in 0 .. MaxId
  /\ inbox \in Seq(Messages) /\ Len(inbox) <= MaxInbox + 2

Waiting(type) == {inbox[i].id : i \in {j \in DOMAIN inbox : inbox[j].type = type}}

\* The session table, once what is waiting has been read, holds exactly the
\* sessions the routing node has open: ProcessBusMessages keeps it in every
\* stage, and a disconnection empties it.  So the client whose session was asked
\* for last is told, as long as it is open, of every status signal sent.
SessionsAgree ==
  /\ live = (ongoing \cup Waiting("joined")) \ Waiting("lost")
  /\ sessionId \notin missed

\* About announces only when the bind call of this very connection has been
\* answered or has timed out, and with the port set.
AnnouncedAfterReply == announced => answered /\ aboutPort /\ cur \in {"ABOUT", "ANNOUNCE"}

\* Whatever fails, a connection comes to be announced or is given up: no reply,
\* error or timeout leaves the initialization stuck.
\* A later change of what About tells is announced, too, as long as the connection
\* lasts and no send of it has run out of resources: a failed announcement is not
\* repeated.
Announces ==
  /\ (pc # "connect") ~> (announced \/ pc = "connect")
  /\ (changed /\ pc # "connect") ~> (~changed \/ pc = "connect" \/ initAttempts > 0)
=============================================================================

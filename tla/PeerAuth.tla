------------------------------ MODULE PeerAuth ------------------------------
(***************************************************************************)
(* How two peers of the bus authenticate one another and agree on a        *)
(* session key (aj_peer.c, with the parts of aj_authentication.c and       *)
(* aj_guid.c its outcome depends on).  Every node runs the same code: it   *)
(* has ONE handshake context, used as client when its application asks for *)
(* a peer and as server when a peer calls it.  A handler is an operator    *)
(* from the state of its node to the state after it, whose `out' lists the *)
(* messages it sends, the way its C function changes the statics and       *)
(* delivers calls; the actions give one message to one handler.            *)
(*                                                                         *)
(* Key material is a set of tokens: a private key or a nonce is one token  *)
(* nobody holds yet, a master secret the two keys, a session key these and *)
(* two nonces, so that keys are equal exactly when everything they were    *)
(* computed from is.  The version is CONVERSATION_V4.  Running out of      *)
(* memory, of reply contexts or of NVRAM, malformed messages, EC-SPEKE and *)
(* what policies allow afterwards are left out.                            *)
(***************************************************************************)
EXTENDS Integers, Sequences, SequencesExt, FiniteSets, FiniteSetsExt

CONSTANTS
  Node, None,
  Plans,      \* the ways the nodes may be set up, see PlanType
  MaxToken,   \* bound: key tokens in use at a time
  MaxFaults,  \* bound: calls timing out, nodes leaving, secrets expiring, asking again
  StartsOver  \* whether applications disconnect and ask again when told the peer is busy

VARIABLES
  node,   \* the state of each node
  wire,   \* external: messages under way, in order, by sender and receiver
  lost,   \* external: the calls of each node that will never be answered
  plan,   \* how the nodes are set up
  faults  \* bounded number of faults

vars == <<node, wire, lost, plan, faults>>

NULLSuite == 1
PSK       == 2
ECDSA     == 4

Kinds == {"ExchangeGUIDs", "ExchangeSuites", "KeyExchange", "KeyAuthentication",
          "GenSessionKey", "ExchangeGroupKeys", "SendManifests", "SendMemberships"}
Encrypted == {"ExchangeGroupKeys", "SendManifests", "SendMemberships"}

\* Who asks for whom; the suites each node enables; its password, or whom it
\* takes certificates from; its membership certificates; the master secret an
\* earlier handshake left it with, {} for none; the suites whose secrets are
\* given an expiration; whether the status AJ_PeerHandleSendManifestsReply
\* returns unassigned for an error reads AJ_OK.
PlanType == [links : SUBSET (Node \X Node), suites : [Node -> SUBSET {NULLSuite, PSK, ECDSA}],
             cred : [Node -> Node], certs : [Node -> Nat], kept : [Node -> SUBSET (1 .. MaxToken)],
             saved : SUBSET {NULLSuite, PSK, ECDSA}, unset : BOOLEAN]

ASSUME PeerAuthAssumption ==
  /\ None \notin Node /\ Plans \subseteq PlanType
  /\ MaxToken \in Nat /\ MaxFaults \in Nat /\ StartsOver \in BOOLEAN

\* peerContext and authContext after AJ_ClearAuthContext.  `gone': the GUID
\* peerGuid points at was zeroed; `old': AJ_MAX_AUTH_TIME is over; `bus',
\* `version': these are set; `hash': the conversation, <<>> while its hash is
\* not initialised; `left': certificates still to send (slot and code).
Cleared == [peer |-> None, gone |-> FALSE, name |-> None, state |-> "NONE", asked |-> FALSE,
            old |-> FALSE, nonce |-> {}, role |-> "none", bus |-> FALSE, version |-> FALSE,
            suite |-> 0, secret |-> {}, own |-> {}, saves |-> FALSE, hash |-> <<>>, left |-> 0]

NothingStored == [secret |-> {}, ecdsa |-> FALSE]

----------------------------------------------------------------------------
(* Tokens in use, messages. *)

Tokens(msg) ==
  CASE msg.kind = "left" \/ msg.type = "error" -> {}
    [] msg.kind = "KeyExchange" -> msg.body.pub
    [] msg.kind = "KeyAuthentication" -> msg.body.secret
    [] msg.kind = "GenSessionKey" -> msg.body.nonce \union msg.body.key
    [] OTHER -> msg.key

Used == UNION {UNION {s.ctx.nonce, s.ctx.secret, s.ctx.own} \union
               UNION {s.stored[m].secret \union s.key[m] : m \in Node} : s \in {node[n] : n \in Node}}
        \union UNION {UNION {Tokens(wire[c][i]) : i \in 1 .. Len(wire[c])} : c \in Node \X Node}

\* AJ_GenerateECCKeyPair, AJ_RandHex.
Fresh == {Min(1 .. MaxToken \ Used)}

Enabled(s, suite) == suite \in plan.suites[s.me]

\* `key' is the session key a message is encrypted with, {} when it is in clear;
\* `late': its caller no longer waits for the answer.
Send(s, to, type, kind, body, key, late) ==
  [s EXCEPT !.out = Append(@, [to |-> to, type |-> type, kind |-> kind,
                               body |-> body, key |-> key, late |-> late])]

MethodCall(s, to, kind, body) ==
  Send(s, to, "call", kind, body, IF kind \in Encrypted THEN s.key[to] ELSE {}, FALSE)
Reply(s, to, call, body) ==
  Send(s, to, "reply", call.kind, body, IF call.key = {} THEN {} ELSE s.key[to], call.late)
ErrorMsg(s, to, call, error) ==
  Send(s, to, "error", call.kind, error, IF call.key = {} THEN {} ELSE s.key[to], call.late)

\* AJ_ConversationHash_Initialize and HashGuids, unless done before.
StartHash(s) == [s EXCEPT !.ctx.hash = IF @ = <<>> THEN <<"GUIDs">> ELSE @]

\* AJ_ConversationHash_Update_Message.  A cleared context has no version and is
\* left alone; otherwise the hash is written to, even while there is none.
Hash(s, type, kind) ==
  IF ~s.ctx.version THEN s
  ELSE [s EXCEPT !.ctx.hash = Append(@, <<type, kind>>), !.wild = @ \/ s.ctx.hash = <<>>]

\* ComputeVerifier and ComputePSKVerifier; for ECDSA the issuer takes the
\* password's place.
Verifier(s) == [digest |-> s.ctx.hash, secret |-> s.ctx.secret,
                cred |-> IF s.ctx.suite = NULLSuite THEN None ELSE plan.cred[s.me]]

\* AJ_ERR_RESOURCES returned to the application that asked: the peer is busy.
Busy(s) == [s EXCEPT !.told = IF @ = "asked" THEN "busy" ELSE @]

----------------------------------------------------------------------------
(* The end of a handshake. *)

KeyExchange(s) ==
  LET t == [s EXCEPT !.ctx.own = Fresh] IN
  Hash(MethodCall(t, t.ctx.name, "KeyExchange", [suite |-> t.ctx.suite, pub |-> Fresh]),
       "call", "KeyExchange")

SaveMasterSecret(s, m) ==
  [s EXCEPT !.stored[m] = [secret |-> s.ctx.secret, ecdsa |-> @.ecdsa \/ s.ctx.suite = ECDSA]]

\* Mutant of HandshakeComplete: a failure is not answered with the NULL suite.
HandshakeCompleteNoFallback(s, ok) ==
  LET m == s.ctx.peer
      t == IF ok /\ s.ctx.saves THEN SaveMasterSecret(s, m) ELSE s IN
  [t EXCEPT !.told = IF s.ctx.asked THEN IF ok THEN "ok" ELSE "failed" ELSE @,
            !.agreed = IF ok THEN [peer |-> m, key |-> s.key[m]] ELSE @, !.ctx = Cleared]

\* A failed handshake is tried again with the NULL suite where that is enabled;
\* a cleared context has no bus to ask.
HandshakeComplete(s, ok) ==
  LET retry == ~ok /\ s.ctx.suite # NULLSuite
      m == s.ctx.peer
      t == IF ok /\ s.ctx.saves THEN SaveMasterSecret(s, m) ELSE s IN
  CASE retry /\ ~s.ctx.bus -> [s EXCEPT !.wild = TRUE]
    [] retry /\ s.ctx.bus /\ Enabled(s, NULLSuite) ->
         IF s.ctx.role = "client" THEN KeyExchange([s EXCEPT !.ctx.suite = NULLSuite]) ELSE s
    [] OTHER ->
         [t EXCEPT !.told = IF s.ctx.asked THEN IF ok THEN "ok" ELSE "failed" ELSE @,
                   !.agreed = IF ok THEN [peer |-> m, key |-> s.key[m]] ELSE @, !.ctx = Cleared]

\* Mutant of TimedOut: a handshake with a peer that has left is taken for alive.
TimedOutByAgeOnly(s) == s.ctx.old

TimedOut(s) == s.ctx.gone \/ s.ctx.old

\* HandshakeTimeout, when it finds one.
HandshakeTimeout(s) ==
  HandshakeComplete(IF s.ctx.gone THEN [s EXCEPT !.ctx.peer = None, !.ctx.gone = FALSE] ELSE s, FALSE)

\* HandshakeValid for a message from m: AJ_OK, or why not, and what it does
\* to a handshake that has timed out.
HandshakeValid(s, m) ==
  CASE s.ctx.peer = None -> "security"
    [] s.ctx.peer # None /\ TimedOut(s) -> "timeout"
    [] s.ctx.peer # None /\ ~TimedOut(s) /\ (m \notin s.known \/ s.ctx.peer # m) -> "resources"
    [] OTHER -> "ok"
AfterValid(s, m) == IF HandshakeValid(s, m) = "timeout" THEN HandshakeTimeout(s) ELSE s

\* A call that is no part of the handshake is refused; a reply that is none is
\* dropped, and only AJ_ERR_RESOURCES is something the application acts on.
Refused(s, m, call) == ErrorMsg(AfterValid(s, m), m, call, "Resources")
Dropped(s, m) == IF HandshakeValid(s, m) = "resources" THEN Busy(s) ELSE AfterValid(s, m)

----------------------------------------------------------------------------
(* ExchangeGUIDs. *)

InProgress(s) == s.ctx.peer # None /\ ~TimedOut(s)
Stopped(s) == IF s.ctx.peer = None THEN s ELSE HandshakeTimeout(s)

\* LoadMasterSecret and LoadECDSAContext.
LoadSecrets(s, m) ==
  IF s.stored[m].secret = {} THEN s
  ELSE [s EXCEPT !.ctx.secret = s.stored[m].secret, !.ctx.state = "SUCCESS",
                 !.ctx.suite = IF s.stored[m].ecdsa THEN ECDSA ELSE @]

\* AJ_PeerAuthenticate.
PeerAuthenticate(s, m) ==
  IF InProgress(s) THEN [s EXCEPT !.told = "busy"]
  ELSE MethodCall([Stopped(s) EXCEPT !.ctx = [Cleared EXCEPT !.name = m, !.role = "client", !.bus = TRUE,
                                                                     !.version = TRUE, !.asked = TRUE],
                                     !.sentManifests = FALSE, !.told = "asked"],
                  m, "ExchangeGUIDs", None)

HandleExchangeGUIDs(s, m, call) ==
  IF InProgress(s) THEN ErrorMsg(s, m, call, "Resources")
  ELSE Reply(LoadSecrets([Stopped(s) EXCEPT !.ctx = [Cleared EXCEPT !.role = "server", !.bus = TRUE,
                                                                     !.version = TRUE, !.peer = m],
                                            !.sentManifests = FALSE, !.known = @ \union {m}], m),
             m, call, None)

ExchangeSuites(s, m) ==
  LET t == [s EXCEPT !.ctx.role = "client"] IN
  IF plan.suites[s.me] = {} THEN HandshakeComplete(t, FALSE)
  ELSE Hash(MethodCall(StartHash(t), m, "ExchangeSuites", plan.suites[s.me]), "call", "ExchangeSuites")

\* Mutant of GenSessionKey: the conversation hash is only started by ExchangeSuites.
GenSessionKeyNoHash(s, m) ==
  Hash(MethodCall([s EXCEPT !.ctx.nonce = Fresh], m, "GenSessionKey",
                  [nonce |-> Fresh, key |-> {}]), "call", "GenSessionKey")

GenSessionKey(s, m) ==
  Hash(MethodCall(StartHash([s EXCEPT !.ctx.nonce = Fresh]), m, "GenSessionKey",
                  [nonce |-> Fresh, key |-> {}]), "call", "GenSessionKey")

ExchangeGUIDsReply(s, m, msg) ==
  IF msg.type = "error"
  THEN IF msg.body = "Resources" THEN Busy(s) ELSE HandshakeComplete(s, FALSE)
  ELSE IF InProgress(s) THEN Busy(s)
  ELSE LET t == LoadSecrets([Stopped(s) EXCEPT !.ctx.peer = m, !.ctx.version = TRUE, !.known = @ \union {m}], m) IN
       IF s.stored[m].secret # {} THEN GenSessionKey(t, m) ELSE ExchangeSuites(t, m)

----------------------------------------------------------------------------
(* ExchangeSuites, KeyExchange, KeyAuthentication. *)

HandleExchangeSuites(s, m, call) ==
  IF HandshakeValid(s, m) # "ok" THEN Refused(s, m, call)
  ELSE Hash(Reply([Hash(StartHash(s), "call", "ExchangeSuites") EXCEPT !.ctx.role = "server"],
                  m, call, call.body \intersect plan.suites[s.me]), "reply", "ExchangeSuites")

ExchangeSuitesReply(s, m, msg) ==
  IF HandshakeValid(s, m) # "ok" THEN Dropped(s, m)
  ELSE LET t == Hash(s, msg.type, "ExchangeSuites") IN
       IF msg.type = "error" THEN HandshakeComplete(t, FALSE)
       ELSE LET common == msg.body \intersect plan.suites[s.me]
                u == [t EXCEPT !.ctx.suite = IF common = {} THEN 0 ELSE Max(common)] IN
            IF common = {} THEN HandshakeComplete(u, FALSE) ELSE KeyExchange(u)

\* An error is hashed after HandshakeComplete, into what that leaves.
Fails(s, m, call) ==
  Hash(ErrorMsg(HandshakeComplete(s, FALSE), m, call, "SecurityViolation"), "error", call.kind)

HandleKeyExchange(s, m, call) ==
  LET t == [Hash(s, "call", "KeyExchange") EXCEPT !.ctx.suite = call.body.suite] IN
  IF HandshakeValid(s, m) # "ok" THEN Refused(s, m, call)
  ELSE IF ~Enabled(s, call.body.suite) THEN Fails(t, m, call)
  ELSE Hash(Reply([t EXCEPT !.ctx.secret = call.body.pub \union Fresh, !.ctx.state = "EXCHANGED"],
                  m, call, [suite |-> call.body.suite, pub |-> Fresh]), "reply", "KeyExchange")

KeyAuthentication(s, m) ==
  Hash(MethodCall(s, m, "KeyAuthentication", Verifier(s)), "call", "KeyAuthentication")

\* The key exchange's errors, unlike the others', are not hashed.
KeyExchangeReply(s, m, msg) ==
  IF msg.type = "error"
  THEN IF msg.body = "Resources" THEN Busy(s) ELSE HandshakeComplete(s, FALSE)
  ELSE IF HandshakeValid(s, m) # "ok" THEN Dropped(s, m)
  ELSE LET t == Hash(s, "reply", "KeyExchange") IN
       IF msg.body.suite # s.ctx.suite THEN HandshakeComplete(t, FALSE)
       ELSE KeyAuthentication([t EXCEPT !.ctx.secret = s.ctx.own \union msg.body.pub,
                                        !.ctx.state = "EXCHANGED"], m)

\* AJ_KeyAuthenticationMarshal also asks how long the secret is to be kept.
Authenticated(s) == [s EXCEPT !.ctx.state = "SUCCESS", !.ctx.saves = s.ctx.suite \in plan.saved]

HandleKeyAuthentication(s, m, call) ==
  LET t == Hash(s, "call", "KeyAuthentication") IN
  IF HandshakeValid(s, m) # "ok" THEN Refused(s, m, call)
  ELSE IF s.ctx.state # "EXCHANGED" \/ call.body # Verifier(s) THEN Fails(t, m, call)
  ELSE Hash(Authenticated(Reply(t, m, call, Verifier(t))), "reply", "KeyAuthentication")

KeyAuthenticationReply(s, m, msg) ==
  LET t == Hash(s, msg.type, "KeyAuthentication") IN
  IF HandshakeValid(s, m) # "ok" THEN Dropped(s, m)
  ELSE IF msg.type = "error"
  THEN IF msg.body = "Resources" THEN Busy(t) ELSE HandshakeComplete(t, FALSE)
  ELSE IF s.ctx.state # "EXCHANGED" \/ msg.body # Verifier(s) THEN HandshakeComplete(t, FALSE)
  ELSE GenSessionKey(Authenticated(t), m)

----------------------------------------------------------------------------
(* GenSessionKey and the encrypted calls. *)

HandleGenSessionKey(s, m, call) ==
  LET t   == Hash(StartHash(s), "call", "GenSessionKey")
      key == UNION {s.ctx.secret, call.body.nonce, Fresh} IN
  IF HandshakeValid(s, m) # "ok" THEN Refused(s, m, call)
  ELSE IF s.ctx.state # "SUCCESS"
  THEN Hash(ErrorMsg(t, m, call, "Rejected"), "error", "GenSessionKey")
  ELSE Hash(Reply([t EXCEPT !.ctx.nonce = Fresh, !.key[m] = key], m, call,
                  [nonce |-> Fresh, key |-> key]), "reply", "GenSessionKey")

\* The reply's verifier stands for the server's key: they agree or not together.
GenSessionKeyReply(s, m, msg) ==
  LET t   == Hash(s, msg.type, "GenSessionKey")
      key == UNION {s.ctx.secret, s.ctx.nonce, msg.body.nonce} IN
  IF HandshakeValid(s, m) # "ok" THEN Dropped(s, m)
  ELSE IF msg.type = "error"
  THEN CASE msg.body = "Resources" -> Busy(t)
         [] msg.body = "Rejected"  -> ExchangeSuites(t, m)
         [] OTHER -> HandshakeComplete(t, FALSE)
  ELSE LET u == [t EXCEPT !.key[m] = key] IN
       IF msg.body.key # key THEN HandshakeComplete(u, FALSE)
       ELSE MethodCall(u, m, "ExchangeGroupKeys", None)

\* With certificates to exchange the server does not complete yet.
HandleExchangeGroupKeys(s, m, call) ==
  IF HandshakeValid(s, m) # "ok" THEN AfterValid(s, m)
  ELSE LET t == Reply(s, m, call, None)
           u == IF s.ctx.suite = ECDSA THEN t ELSE HandshakeComplete(t, TRUE) IN
       [u EXCEPT !.ctx.left = plan.certs[s.me]]

\* AJ_PeerSendManifests.
SendManifests(s, m) ==
  IF s.sentManifests THEN s
  ELSE [MethodCall(s, m, "SendManifests", None) EXCEPT !.sentManifests = TRUE]

\* Mutant of ExchangeGroupKeysReply: with certificates, too, the client completes
\* at once.
ExchangeGroupKeysReplyEnds(s, m, msg) ==
  IF HandshakeValid(s, m) # "ok" THEN Dropped(s, m) ELSE HandshakeComplete(s, msg.type # "error")

ExchangeGroupKeysReply(s, m, msg) ==
  IF HandshakeValid(s, m) # "ok" THEN Dropped(s, m)
  ELSE IF msg.type = "error" THEN HandshakeComplete(s, FALSE)
  ELSE IF s.ctx.suite # ECDSA THEN HandshakeComplete(s, TRUE)
  ELSE SendManifests([s EXCEPT !.ctx.left = plan.certs[s.me]], m)

HandleSendManifests(s, m, call) == [Reply(s, m, call, None) EXCEPT !.sentManifests = TRUE]

\* MarshalMembership: the code that goes with the next certificate.
Code(s) == CASE s.ctx.left = 0 -> "none" [] s.ctx.left = 1 -> "last" [] OTHER -> "more"
OneSent(s) == [s EXCEPT !.ctx.left = IF @ = 0 THEN 0 ELSE @ - 1]

SendMemberships(s, m) == OneSent(MethodCall(s, m, "SendMemberships", Code(s)))

\* The status that an error returns was never assigned.
SendManifestsReply(s, m, msg) ==
  IF msg.type = "error"
  THEN IF plan.unset THEN SendMemberships([s EXCEPT !.sentManifests = TRUE], m) ELSE HandshakeComplete(s, FALSE)
  ELSE IF HandshakeValid(s, m) # "ok" THEN Dropped(s, m)
  ELSE SendMemberships([s EXCEPT !.ctx.left = plan.certs[s.me], !.sentManifests = TRUE], m)

\* Nothing more to send or to receive.
Through(s, code) == s.ctx.left = 0 /\ code # "more"

HandleSendMemberships(s, m, call) ==
  IF HandshakeValid(s, m) # "ok" THEN Refused(s, m, call)
  ELSE LET t == OneSent(Reply(s, m, call, Code(s))) IN
       IF Through(t, call.body) THEN HandshakeComplete(SendManifests(t, m), TRUE) ELSE t

SendMembershipsReply(s, m, msg) ==
  IF msg.type = "error" THEN HandshakeComplete(s, FALSE)
  ELSE IF HandshakeValid(s, m) # "ok" THEN Dropped(s, m)
  ELSE IF Through(s, msg.body) THEN HandshakeComplete(s, TRUE) ELSE SendMemberships(s, m)

----------------------------------------------------------------------------
(* AJ_BusHandleBusMessage, and the messages under way. *)

HandleCall(s, m, call) ==
  CASE call.kind = "ExchangeGUIDs"     -> HandleExchangeGUIDs(s, m, call)
    [] call.kind = "ExchangeSuites"    -> HandleExchangeSuites(s, m, call)
    [] call.kind = "KeyExchange"       -> HandleKeyExchange(s, m, call)
    [] call.kind = "KeyAuthentication" -> HandleKeyAuthentication(s, m, call)
    [] call.kind = "GenSessionKey"     -> HandleGenSessionKey(s, m, call)
    [] call.kind = "ExchangeGroupKeys" -> HandleExchangeGroupKeys(s, m, call)
    [] call.kind = "SendManifests"     -> HandleSendManifests(s, m, call)
    [] call.kind = "SendMemberships"   -> HandleSendMemberships(s, m, call)

HandleReply(s, m, msg) ==
  CASE msg.kind = "ExchangeGUIDs"     -> ExchangeGUIDsReply(s, m, msg)
    [] msg.kind = "ExchangeSuites"    -> ExchangeSuitesReply(s, m, msg)
    [] msg.kind = "KeyExchange"       -> KeyExchangeReply(s, m, msg)
    [] msg.kind = "KeyAuthentication" -> KeyAuthenticationReply(s, m, msg)
    [] msg.kind = "GenSessionKey"     -> GenSessionKeyReply(s, m, msg)
    [] msg.kind = "ExchangeGroupKeys" -> ExchangeGroupKeysReply(s, m, msg)
    [] msg.kind = "SendManifests"     -> SendManifestsReply(s, m, msg)
    [] msg.kind = "SendMemberships"   -> SendMembershipsReply(s, m, msg)

\* External: the routing node keeps the order of messages, and drops those to a
\* node that has left until its peer has been told.
Left    == [type |-> "left", kind |-> "left", late |-> TRUE]
HasLeft(w, n, m) == \E i \in 1 .. Len(w[m, n]) : w[m, n][i] = Left

\* An encrypted call to a name that is not in the name map (the node's own, with
\* which an error made up for a timeout comes) is not sent, but awaited.
Undelivered(w, n, msg) ==
  HasLeft(w, n, msg.to) \/ (msg.type = "call" /\ msg.kind \in Encrypted /\ msg.to \notin node[n].known)
Post(w, n, out) ==
  FoldLeft(LAMBDA u, msg : IF Undelivered(u, n, msg) THEN u ELSE [u EXCEPT ![n, msg.to] = Append(@, msg)],
           w, out)
Live(seq, type) == {seq[i].kind : i \in {j \in 1 .. Len(seq) : seq[j].type \in type /\ ~seq[j].late}}
Late(seq, type) == [i \in 1 .. Len(seq) |-> IF seq[i].type \in type THEN [seq[i] EXCEPT !.late = TRUE] ELSE seq[i]]
Answers == {"reply", "error"}

\* The calls that n waits for in m, answered or not.
Awaited(n, m) == Live(wire[n, m], {"call"}) \union Live(wire[m, n], Answers)

\* Node n goes to state s; w is what is under way without what s.out adds,
\* gone the calls that will not be answered.  A handler that goes through a
\* missing hash or bus ends its process on the spot or goes on to send.
Goes(n, next, w, gone) == \E s \in {next} :
  /\ node' = [node EXCEPT ![n] = [s EXCEPT !.out = <<>>]]
  /\ wire' = Post(w, n, s.out) \/ (s.wild /\ wire' = w)
  /\ lost' = [i \in Node |-> gone[i] \union
               IF i = n THEN {<<s.out[k].to, s.out[k].kind>> :
                              k \in {j \in 1 .. Len(s.out) : s.out[j].type = "call" /\ Undelivered(w, n, s.out[j])}}
               ELSE {}]
  /\ UNCHANGED plan

Arrives(n, m) == wire[m, n] # <<>> /\ ~node[n].wild /\ UNCHANGED faults
Arrived(n, m) == Head(wire[m, n])
Rest(n, m)    == [wire EXCEPT ![m, n] = Tail(@)]

\* DecryptMessage.
Decrypts(n, m, msg) == msg.key = {} \/ (m \in node[n].known /\ node[n].key[m] = msg.key)

----------------------------------------------------------------------------
(* Actions. *)

\* The application asks for m to be authenticated.
Authenticate(n, m) ==
  /\ <<n, m>> \in plan.links /\ node[n].told = "no" /\ ~node[n].wild
  /\ Goes(n, PeerAuthenticate(node[n], m), wire, lost)
  /\ UNCHANGED faults

\* A call is handled; AJ_UnmarshalMsg answers one it has no key for, and ignores
\* one encrypted with another key.  A handler that fails may send no reply.
ReceiveCall(n, m) ==
  /\ Arrives(n, m) /\ Arrived(n, m).type = "call"
  /\ LET call == Arrived(n, m)
         s == CASE Decrypts(n, m, call) -> HandleCall(node[n], m, call)
                [] m \notin node[n].known /\ call.key # {} ->
                     Send(node[n], m, "error", call.kind, "SecurityViolation", {}, call.late)
                [] OTHER -> node[n]
         silent == \A i \in 1 .. Len(s.out) : s.out[i].type = "call" IN
     Goes(n, s, Rest(n, m),
          [lost EXCEPT ![m] = IF silent /\ ~call.late THEN @ \union {<<n, call.kind>>} ELSE @])

\* A reply is handled when its call is awaited and it can be decrypted.
ReceiveReply(n, m) ==
  /\ Arrives(n, m) /\ Arrived(n, m).type \in Answers
  /\ LET msg == Arrived(n, m) IN
     IF ~msg.late /\ Decrypts(n, m, msg)
     THEN Goes(n, HandleReply(node[n], m, msg), Rest(n, m), lost)
     ELSE Goes(n, node[n], Rest(n, m),
               [lost EXCEPT ![n] = IF msg.late THEN @ ELSE @ \union {<<m, msg.kind>>}])

\* AJ_GUID_HandleNameOwnerChanged: a name that left is forgotten, its GUID zeroed.
PeerLost(n, m) ==
  /\ Arrives(n, m) /\ Arrived(n, m) = Left
  /\ Goes(n, [node[n] EXCEPT !.known = @ \ {m}, !.key[m] = {}, !.ctx.gone = @ \/ node[n].ctx.peer = m],
          Rest(n, m), lost)

Receive(n, m) == ReceiveCall(n, m) \/ ReceiveReply(n, m) \/ PeerLost(n, m)

\* The error AJ_UnmarshalMsg makes of a call that timed out: it comes from the
\* node's own name, which is not among the names it maps.
TimedOutCall(kind) == [type |-> "error", kind |-> kind, body |-> "Timeout", key |-> {}, late |-> FALSE]

\* A call that cannot be answered any more times out.
TimesOut(n) ==
  /\ ~node[n].wild
  /\ \E c \in lost[n] : Goes(n, HandleReply(node[n], n, TimedOutCall(c[2])), wire, [lost EXCEPT ![n] = @ \ {c}])
  /\ UNCHANGED faults

Fault == faults < MaxFaults /\ faults' = faults + 1

\* A call times out though it, or its answer, is still under way.
AnswerTooLate(n) ==
  /\ Fault /\ ~node[n].wild
  /\ \E m \in Node \ {n} : \E kind \in Awaited(n, m) :
       Goes(n, HandleReply(node[n], n, TimedOutCall(kind)),
            [wire EXCEPT ![n, m] = Late(@, {"call"}), ![m, n] = Late(@, Answers)], lost)

\* AJ_MAX_AUTH_TIME passes over a handshake in which nothing happens.
TimePasses(n) ==
  /\ node[n].ctx.peer # None /\ ~node[n].ctx.old /\ ~node[n].wild
  /\ lost[n] = {} /\ \A c \in Node \X Node : wire[c] = <<>>
  /\ node' = [node EXCEPT ![n].ctx.old = TRUE]
  /\ UNCHANGED <<wire, lost, plan, faults>>

\* AJ_Disconnect: contexts, names and reply contexts go, stored secrets stay.
Disconnect(n) ==
  /\ node' = [node EXCEPT ![n] = [@ EXCEPT !.ctx = Cleared, !.known = {}, !.key = [m \in Node |-> {}],
                                            !.sentManifests = FALSE, !.told = "no", !.agreed = None]]
  /\ wire' = [c \in Node \X Node |->
               CASE c[1] = n /\ c[2] # n -> Append(Late(wire[c], {"call"}), Left)
                 [] c[2] = n -> <<>>
                 [] OTHER -> wire[c]]
  /\ lost' = [m \in Node |-> IF m = n THEN {}
                             ELSE lost[m] \union {<<n, kind>> : kind \in Live(wire[m, n], {"call"})}]
  /\ UNCHANGED plan

\* The application is told that the peer is busy, disconnects and starts over
\* (test/clientlite.c).
StartOver(n) ==
  /\ StartsOver /\ node[n].told = "busy" /\ ~node[n].wild
  /\ Disconnect(n) /\ UNCHANGED faults

\* Told of a failure it disconnects and ends; it may be run again.
RunAgain(n) ==
  /\ StartsOver /\ node[n].told = "failed" /\ ~node[n].wild
  /\ Disconnect(n) /\ UNCHANGED faults

\* A node leaves the bus and comes back.
Leave(n) ==
  /\ Fault /\ ~node[n].wild
  /\ Disconnect(n)

\* A stored secret passes its expiration; LoadMasterSecret finds it of no use.
Expire(n) ==
  /\ Fault
  /\ \E m \in Node : /\ node[n].stored[m].secret # {}
                     /\ node' = [node EXCEPT ![n].stored[m] = NothingStored]
  /\ UNCHANGED <<wire, lost, plan>>

\* An application asks again for a peer it has authenticated.
AskAgain(n) ==
  /\ Fault /\ node[n].told = "ok" /\ ~node[n].wild
  /\ node' = [node EXCEPT ![n].told = "no"]
  /\ UNCHANGED <<wire, lost, plan>>

Init ==
  /\ plan \in Plans
  /\ node = [n \in Node |->
       [me |-> n, ctx |-> Cleared, known |-> {}, sentManifests |-> FALSE,
        stored |-> [m \in Node |-> IF m = n THEN NothingStored
                                   ELSE [secret |-> plan.kept[n], ecdsa |-> plan.kept[n] # {} /\ ECDSA \in plan.suites[n]]],
        key |-> [m \in Node |-> {}], told |-> "no", agreed |-> None, wild |-> FALSE, out |-> <<>>]]
  /\ wire = [c \in Node \X Node |-> <<>>]
  /\ lost = [n \in Node |-> {}]
  /\ faults = 0

Next == \E n \in Node :
  \/ \E m \in Node \ {n} : Authenticate(n, m) \/ Receive(n, m)
  \/ TimesOut(n) \/ AnswerTooLate(n) \/ TimePasses(n)
  \/ StartOver(n) \/ RunAgain(n) \/ Leave(n) \/ Expire(n) \/ AskAgain(n)

Fairness == \A n \in Node :
  /\ WF_vars(TimesOut(n)) /\ WF_vars(StartOver(n))
  /\ \A m \in Node \ {n} : WF_vars(Authenticate(n, m)) /\ WF_vars(Receive(n, m))

Spec == Init /\ [][Next]_vars /\ Fairness

----------------------------------------------------------------------------
(* Properties. *)

\* The nodes and what is under way are what the code's types allow.
TypeOK ==
  /\ plan \in Plans /\ faults \in 0 .. MaxFaults /\ Used \subseteq 1 .. MaxToken
  /\ \A n \in Node :
       LET s == node[n] IN
       /\ s.told \in {"no", "asked", "busy", "failed", "ok"} /\ s.out = <<>> /\ s.known \subseteq Node \ {n}
       /\ s.ctx.peer \in {None} \union (Node \ {n}) /\ s.ctx.state \in {"NONE", "EXCHANGED", "SUCCESS"}
       /\ s.ctx.role \in {"none", "client", "server"} /\ s.ctx.suite \in {0, NULLSuite, PSK, ECDSA}
       /\ lost[n] \subseteq Node \X Kinds

\* What aj_peer.c:484 says: by the time a handler hashes a message the
\* conversation hash is there, and so is the bus of the handshake it ends.
HashInitialized == \A n \in Node : ~node[n].wild

\* The one way to it: a call of the node's own times out while its context has
\* no peer.  Where one node asks, it is its ExchangeGUIDs; where both do, any
\* call made before a handshake that the other asked for has come and gone in
\* the same context.  After it the peer that a KeyExchange still reaches goes
\* the same way.  In every other order of messages, timeouts and peers that
\* leave, no handler goes through a hash or a bus that is not there.
Alone == Cardinality(plan.links) = 1
Unanswered(n) ==
  /\ node[n].ctx.peer = None
  /\ \E m \in Node, kind \in Kinds :
       /\ \/ <<m, kind>> \in lost[n] \ lost'[n]
          \/ kind \in Awaited(n, m) /\ faults' > faults
       /\ Alone => kind = "ExchangeGUIDs"
WildOnlyUnanswered ==
  [][\A n \in Node : node'[n].wild /\ ~node[n].wild =>
       Unanswered(n) \/ \E m \in Node \ {n} : node[m].wild]_vars

\* A handshake that completes leaves both nodes with the same session key, and
\* the client is told only after the server has completed it too, unless the
\* other node has left meanwhile.
Completes(n) == node'[n].agreed # node[n].agreed /\ node'[n].agreed # None
AgreeTogether ==
  \A n \in Node : Completes(n) =>
    LET m == node'[n].agreed.peer
        k == node'[n].agreed.key IN
    /\ k # {}
    /\ \/ HasLeft(wire', n, m)
       \/ /\ node'[m].key[n] = k
          /\ node[n].ctx.role = "client" => node'[m].agreed = [peer |-> n, key |-> k]
KeysAgree == [][AgreeTogether]_vars

\* A client that asks for its peer, with nobody asking for it, and starts over
\* when told that the peer is busy, is told in the end whether it is
\* authenticated: that it is when nothing went wrong (Compatible says when two
\* nodes can succeed), unless its own ExchangeGUIDs left it wild (Unanswered).
Compatible == \/ \A n \in Node : NULLSuite \in plan.suites[n]
              \/ \A n, m \in Node : plan.cred[n] = plan.cred[m] /\ plan.kept[n] = plan.kept[m]
AnsweredInTheEnd ==
  \A n \in Node : Alone /\ node[n].told = "asked" ~>
    \/ node[n].told = "ok"
    \/ node[n].told = "failed" /\ (faults > 0 \/ ~Compatible)
    \/ node[n].wild

\* What aj_bus.h:546 says of AJ_BusAuthPeerCallback: called when an
\* authentication completes or fails.  To be told that the peer is busy is as good.
CalledBack ==
  \A n \in Node : node[n].told = "asked" ~> node[n].told # "asked" \/ node[n].wild
=============================================================================

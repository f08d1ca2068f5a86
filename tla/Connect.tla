------------------------------ MODULE Connect ------------------------------
(***************************************************************************)
(* Finding a routing node and connecting to it (aj_disco.c, aj_connect.c), *)
(* composed with the watch over the link once there is one (LinkWatch):    *)
(* AJ_FindBusAndConnect as a discovery that collects answers and a series  *)
(* of attempts at the nodes that answered, repeated until one succeeds.    *)
(*                                                                         *)
(* An answer is a node, its protocol version and its priority.  What a     *)
(* node does when it is tried is its nature, fixed but unknown to us; a    *)
(* node may be reached over TCP, over UDP (ARDP), or both.  Of the clock   *)
(* there is left that discovery and the attempts may end at any time.      *)
(***************************************************************************)
EXTENDS LinkWatch, Sequences, SequencesExt

CONSTANTS
  Nodes,          \* the routing nodes
  Transports,     \* what each listens on: a set of "tcp" and "udp"
  Answers,        \* what they may answer: [node, pv, priority]
  Natures,        \* what they may do when tried
  ListSize,       \* AJ_ROUTING_NODE_RESPONSELIST_SIZE, 3
  BlacklistSize   \* AJ_ROUTING_NODE_BLACKLIST_SIZE, 16

ASSUME ConnectAssumption ==
  /\ Transports \in [Nodes -> SUBSET {"tcp", "udp"}]
  /\ Answers \subseteq [node : Nodes, pv : Nat, priority : Nat]
  /\ Natures \subseteq [Nodes -> {"accepts", "fails", "refuses", "hangs"}]
  /\ ListSize \in Nat \ {0} /\ BlacklistSize \in Nat \ {0, 1}

VARIABLES
  phase,      \* how far AJ_FindBusAndConnect has got; "idle" when it has returned
  list,       \* RNResponseList
  attempts,   \* RNAttemptsList: the indexes tried
  chosen,     \* service: the answer being tried
  blacklist,  \* RNBlacklistIP and RNBlacklistPort
  oldest,     \* RNBlacklistIndex
  nature,     \* external: what each node does
  refusals    \* history: the addresses last recorded, as many as are kept

finding  == <<list, attempts, chosen>>
ring     == <<blacklist, oldest, refusals>>
connVars == <<vars, phase, finding, ring, nature>>

Nowhere == <<>>

InitConnect ==
  /\ Init
  /\ phase = "idle" /\ list = <<>> /\ attempts = {} /\ chosen = Nowhere
  /\ blacklist = [i \in 0 .. BlacklistSize - 1 |-> Nowhere] /\ oldest = 0
  /\ nature \in Natures
  /\ refusals = <<>>

-----------------------------------------------------------------------------
(* The response list *)

\* "highest protocol version and the lowest service priority"
Outranks(a, b) == a.pv > b.pv \/ (a.pv = b.pv /\ a.priority < b.priority)

Listed(node) == {i \in DOMAIN list : list[i].node = node}

\* Mutant of Blacklisted: the blacklist is not looked at.
BlacklistedNever(node) == FALSE

\* AJ_IsRoutingNodeBlacklisted compares the TCP address only.
Blacklisted(node) == \E i \in DOMAIN blacklist : blacklist[i] = <<node, "tcp">>

\* Mutant of Candidate: the best slot.
CandidateBest ==
  LET pass[i \in 1 .. ListSize] ==
        IF i = 1 THEN 1
        ELSE IF Outranks(list[i], list[pass[i - 1]]) THEN i ELSE pass[i - 1]
  IN pass[ListSize]

\* The slot to be replaced in a full list, found in one pass.
Candidate ==
  LET pass[i \in 1 .. ListSize] ==
        IF i = 1 THEN 1
        ELSE IF Outranks(list[pass[i - 1]], list[i]) THEN i ELSE pass[i - 1]
  IN pass[ListSize]

UpdateListed(answer) ==
  \E i \in Listed(answer.node) :
    list' = IF list[i].pv <= answer.pv THEN [list EXCEPT ![i] = answer] ELSE list

AddListed(answer) ==
  /\ Listed(answer.node) = {}
  /\ IF Len(list) < ListSize THEN list' = Append(list, answer)
     ELSE list' = IF Outranks(answer, list[Candidate]) THEN [list EXCEPT ![Candidate] = answer] ELSE list

\* Mutant of Select: the first that has not been tried.
SelectFirst == {i \in DOMAIN list \ attempts : \A j \in DOMAIN list \ attempts : i <= j}

\* AJ_SelectRoutingNodeFromResponseList: the indexes it may return, in one pass
\* over the list.  Of two of the same rank either may be picked, unless the
\* priority is 0: then the random number, modulo 1, never exceeds the first sum.
Select ==
  LET from(s, i) ==
        IF i \in attempts THEN {s}
        ELSE IF s \in attempts \/ Outranks(list[i], list[s]) THEN {i}
        ELSE IF Outranks(list[s], list[i]) \/ list[i].priority = 0 THEN {s} ELSE {s, i}
      pass[i \in DOMAIN list] == IF i = 1 THEN {1} ELSE UNION {from(s, i) : s \in pass[i - 1]}
  IN IF list = <<>> THEN {} ELSE pass[Len(list)] \ attempts

-----------------------------------------------------------------------------
(* AJ_FindBusAndConnect *)

\* AJSVC_RoutingNodeConnect and its like call it until it succeeds.
StartDiscovery ==
  /\ phase = "idle" /\ ~connected
  /\ phase' = "discovering"
  /\ UNCHANGED <<vars, finding, ring, nature>>

\* An IS-AT or mDNS answer within the listen interval.
TakeAnswerOf(node) ==
  /\ phase = "discovering" /\ ~Blacklisted(node)
  /\ \E answer \in Answers : answer.node = node /\ (UpdateListed(answer) \/ AddListed(answer))
  /\ UNCHANGED <<vars, phase, attempts, chosen, ring, nature>>

TakeAnswer == \E node \in Nodes : TakeAnswerOf(node)

\* ExitConnect: AJ_InitRoutingNodeResponselist, and AJ_Disconnect when it failed.
Exit == phase' = "idle" /\ list' = <<>> /\ attempts' = {} /\ chosen' = Nowhere

TrySelected ==
  \E i \in Select :
    /\ phase' = "trying" /\ chosen' = list[i] /\ attempts' = attempts \cup {i}
    /\ UNCHANGED list

\* The selection period has passed and somebody has answered; or the discovery
\* timeout has; or a socket failed.
EndDiscovery ==
  /\ phase = "discovering"
  /\ TrySelected \/ (Select = {} /\ Exit)
  /\ UNCHANGED <<vars, ring, nature>>

\* RNBlacklistIP with the addresses in place of the oldest records.
Replaced(addresses) ==
  [i \in DOMAIN blacklist |->
     LET age == (i - oldest) % BlacklistSize
     IN IF age < Len(addresses) THEN addresses[age + 1] ELSE blacklist[i]]

Recorded(addresses) ==
  LET log == refusals \o addresses
  IN IF Len(log) <= BlacklistSize THEN log ELSE SubSeq(log, Len(log) - BlacklistSize + 1, Len(log))

\* Mutant of AddToBlacklist: the index is not advanced.
AddToBlacklistStays(addresses) ==
  blacklist' = Replaced(addresses) /\ UNCHANGED oldest /\ refusals' = Recorded(addresses)

\* AddRoutingNodeToBlacklist
AddToBlacklist(addresses) ==
  /\ blacklist' = Replaced(addresses)
  /\ oldest' = (oldest + Len(addresses)) % BlacklistSize
  /\ refusals' = Recorded(addresses)

Over(transport) == phase = "trying" /\ transport \in Transports[chosen.node]
Does(behaviour) == phase = "trying" /\ nature[chosen.node] = behaviour

\* AJ_Net_Connect prefers UDP, where AJ_ARDP_UDP_Connect authenticates too.
OverUdp == Over("udp") /\ Does("accepts")
OverTcp == Over("tcp") /\ ~OverUdp

\* A node that refuses does so over UDP first, which AJ_ARDP_UDP_Connect records.
UdpRefusals == IF Over("udp") /\ Does("refuses") THEN <<<<chosen.node, "udp">>>> ELSE <<>>

\* SetSignalRules succeeds, or has nothing to do.  ARDP needs no probes.
Connect ==
  /\ Does("accepts")
  /\ RoutingNodeConnect /\ isProbeRequired' = OverTcp
  /\ Exit
  /\ UNCHANGED <<ring, nature>>

\* AJ_Net_Connect or SetSignalRules fails: no other node is tried.
AttemptFails ==
  /\ Does("fails") \/ (phase = "trying" /\ ~Over("tcp") /\ ~Does("accepts"))
  /\ Exit
  /\ AddToBlacklist(UdpRefusals)
  /\ UNCHANGED <<vars, nature>>

\* The next node is selected, while time is left.
TryNext == TrySelected \/ Exit

\* AJ_ERR_ACCESS_ROUTING_NODE or AJ_ERR_OLD_VERSION.
Refused ==
  /\ OverTcp /\ Does("refuses")
  /\ TryNext
  /\ AddToBlacklist(UdpRefusals \o <<<<chosen.node, "tcp">>>>)
  /\ UNCHANGED <<vars, nature>>

\* AJ_Authenticate fails otherwise.
Hangs ==
  /\ OverTcp /\ Does("hangs")
  /\ TryNext
  /\ UNCHANGED <<vars, ring, nature>>

-----------------------------------------------------------------------------

Try == Connect \/ AttemptFails \/ Refused \/ Hangs

\* The message loop runs only while no connection is being made.  The seconds
\* that making one takes are counted before it: the watcher cannot tell.
Watching == phase = "idle" /\ UNCHANGED <<phase, finding, ring, nature>>

WatchLink == Watching /\ (SilentSecond \/ GiveUp)
Watch     == WatchLink \/ (Watching /\ (HandleMessage \/ OtherSecond \/ Disconnect \/ NodeDies))

NextConnect == StartDiscovery \/ TakeAnswer \/ EndDiscovery \/ Try \/ Watch

SpecConnect == InitConnect /\ [][NextConnect]_connVars

\* The loop connects again and again, its calls return, and a node that keeps
\* answering is heard in the end.
FairSpecConnect ==
  /\ SpecConnect
  /\ WF_connVars(StartDiscovery) /\ WF_connVars(EndDiscovery) /\ WF_connVars(Try)
  /\ WF_connVars(WatchLink)
  /\ \A node \in Nodes : SF_connVars(TakeAnswerOf(node))

-----------------------------------------------------------------------------
(* Properties *)

TypeOKConnect ==
  /\ TypeOK
  /\ phase \in {"idle", "discovering", "trying"}
  /\ list \in BoundedSeq(Answers, ListSize) /\ attempts \subseteq DOMAIN list
  /\ chosen \in Answers \cup {Nowhere} /\ (phase = "trying" <=> chosen # Nowhere)
  /\ phase # "idle" => ~connected
  /\ \A i \in DOMAIN blacklist : blacklist[i] \in {Nowhere} \cup (Nodes \X {"tcp", "udp"})
  /\ oldest \in DOMAIN blacklist

\* The answers of the highest protocol versions, and of those the ones of the
\* lowest priority values, come first.  The node that is tried is the best of the
\* list that has not been tried yet; and the answer that makes room for a new one
\* is the worst: none that stays, the new one included, ranks below it.  A node
\* that has refused over TCP is not tried, in this or a later call, while its
\* refusal is one of the last BlacklistSize ("skip blacklisted addresses!",
\* aj_disco.c:1124).
BestFirst ==
  [][/\ chosen' \notin {chosen, Nowhere} =>
          /\ \A i \in DOMAIN list \ attempts : ~Outranks(list[i], chosen')
          /\ <<chosen'.node, "tcp">> \notin ToSet(refusals')
     /\ phase' = "discovering" =>
          \A i \in DOMAIN list : list[i].node # list'[i].node =>
            \A j \in DOMAIN list' : ~Outranks(list[i], list'[j])]_connVars

Accepts(node) == nature[node] = "accepts"

\* Every node can be connected to, or turns us down in a way that is remembered.
Fit ==
  /\ \E node \in Nodes : Accepts(node)
  /\ \A node \in Nodes : Accepts(node) \/ (nature[node] = "refuses" /\ "tcp" \in Transports[node])

\* Then, whichever nodes outrank those that accept, one is connected to in the
\* end, and again after every loss of the link.
ConnectsInTheEnd == Fit /\ ~connected ~> connected
=============================================================================

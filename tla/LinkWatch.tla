----------------------------- MODULE LinkWatch -----------------------------
(***************************************************************************)
(* The watch over the link to the routing node (aj_link_timeout.c), as the *)
(* message loop drives it: AJ_BusLinkStateProc runs when AJ_UnmarshalMsg   *)
(* has found nothing to read for one second, AJ_NotifyLinkActive when a    *)
(* message has been handled.                                               *)
(*                                                                         *)
(* Time is counted in those seconds.  A timer is its age, and ages beyond  *)
(* the threshold they are compared with are one age.                       *)
(***************************************************************************)
EXTENDS Integers

CONSTANTS
  BusLinkTimeout,  \* busLinkTimeout, 60 s in the application
  PingTimeout,     \* AJ_BUS_LINK_PING_TIMEOUT, 5 s
  MaxPings         \* AJ_MAX_LINK_PING_PACKETS, 3

ASSUME TimeoutAssumption ==
  /\ BusLinkTimeout \in Nat \ {0} /\ PingTimeout \in Nat \ {0} /\ MaxPings \in Nat \ {0}

VARIABLES
  linkTimer, pingTimer,  \* busLinkWatcher: Off, or the timer's age
  numOfPingTimedOut,
  connected, isProbeRequired,
  nodeAlive,             \* external: the routing node still answers
  silence,               \* history: seconds since a message was handled or the link made
  probes,                \* history: requests since then
  inherited              \* history: the timers have run since before this connection

watcher == <<linkTimer, pingTimer, numOfPingTimedOut>>
vars    == <<watcher, connected, isProbeRequired, nodeAlive, silence, probes, inherited>>

\* linkTimerInited or pingTimerInited is FALSE.
Off == -1

Capped(n, cap) == IF n < cap THEN n ELSE cap
Older(timer, cap) == IF timer = Off THEN Off ELSE Capped(timer + 1, cap)

\* The longest time the watcher lets pass, capping the history.
Patience == BusLinkTimeout + MaxPings * PingTimeout

Init ==
  /\ linkTimer = Off /\ pingTimer = Off /\ numOfPingTimedOut = 0
  /\ connected = FALSE /\ isProbeRequired = FALSE /\ nodeAlive = FALSE
  /\ silence = 0 /\ probes = 0 /\ inherited = FALSE

\* What the timers and the history show a second later.
LinkAge == Older(linkTimer, BusLinkTimeout)
PingAge == Older(pingTimer, PingTimeout)
SilenceGrows == silence' = Capped(silence + 1, Patience)

\* memset(&busLinkWatcher, 0, ...)
Cleared ==
  /\ linkTimer' = Off /\ pingTimer' = Off /\ numOfPingTimedOut' = 0
  /\ silence' = 0 /\ probes' = 0 /\ inherited' = FALSE

-----------------------------------------------------------------------------
(* AJ_BusLinkStateProc, after a second of silence *)

LinkSilent   == isProbeRequired /\ LinkAge = BusLinkTimeout
PingTimedOut == LinkSilent /\ PingAge = PingTimeout

TooEarly ==
  /\ ~isProbeRequired \/ LinkAge \notin {Off, BusLinkTimeout}
     \/ (LinkSilent /\ PingAge \notin {Off, PingTimeout})
  /\ linkTimer' = LinkAge /\ pingTimer' = PingAge
  /\ UNCHANGED <<numOfPingTimedOut, probes>>

StartLinkTimer ==
  /\ isProbeRequired /\ LinkAge = Off
  /\ linkTimer' = 0 /\ pingTimer' = PingAge
  /\ UNCHANGED <<numOfPingTimedOut, probes>>

\* Whether the request could be sent makes no difference.
FirstProbe ==
  /\ LinkSilent /\ PingAge = Off
  /\ linkTimer' = LinkAge /\ pingTimer' = 0
  /\ probes' = probes + 1
  /\ UNCHANGED numOfPingTimedOut

\* Mutant of NextProbe: one request too many.
NextProbeLate ==
  /\ PingTimedOut /\ numOfPingTimedOut < MaxPings
  /\ numOfPingTimedOut' = numOfPingTimedOut + 1
  /\ linkTimer' = LinkAge /\ pingTimer' = 0
  /\ probes' = probes + 1

\* Mutant of NextProbe: the ping timer is not restarted.
NextProbeKeepsTimer ==
  /\ PingTimedOut /\ numOfPingTimedOut + 1 < MaxPings
  /\ numOfPingTimedOut' = numOfPingTimedOut + 1
  /\ linkTimer' = LinkAge /\ pingTimer' = PingAge
  /\ probes' = probes + 1

NextProbe ==
  /\ PingTimedOut /\ numOfPingTimedOut + 1 < MaxPings
  /\ numOfPingTimedOut' = numOfPingTimedOut + 1
  /\ linkTimer' = LinkAge /\ pingTimer' = 0
  /\ probes' = probes + 1

\* Mutant of GiveUp: one timeout more is waited for.
GiveUpLater ==
  /\ connected
  /\ PingTimedOut /\ numOfPingTimedOut >= MaxPings
  /\ Cleared
  /\ connected' = FALSE
  /\ UNCHANGED <<isProbeRequired, nodeAlive>>

\* AJ_ERR_LINK_TIMEOUT, on which the loop disconnects.
GiveUp ==
  /\ connected
  /\ PingTimedOut /\ numOfPingTimedOut + 1 >= MaxPings
  /\ Cleared
  /\ connected' = FALSE
  /\ UNCHANGED <<isProbeRequired, nodeAlive>>

SilentSecond ==
  /\ connected
  /\ TooEarly \/ StartLinkTimer \/ FirstProbe \/ NextProbe
  /\ SilenceGrows
  /\ UNCHANGED <<connected, isProbeRequired, nodeAlive, inherited>>

-----------------------------------------------------------------------------

\* A message has been handled: AJ_NotifyLinkActive.
HandleMessage ==
  /\ connected /\ nodeAlive
  /\ Cleared
  /\ UNCHANGED <<connected, isProbeRequired, nodeAlive>>

\* A second in which the loop does not come to watch the link: it sleeps,
\* handles, or connects.
OtherSecond ==
  /\ linkTimer' = LinkAge /\ pingTimer' = PingAge
  /\ SilenceGrows
  /\ UNCHANGED <<numOfPingTimedOut, connected, isProbeRequired, nodeAlive, probes, inherited>>

\* The connection ends for another reason: a read or write error, a restart.
\* The watcher is left as it is.
Disconnect ==
  /\ connected
  /\ connected' = FALSE
  /\ UNCHANGED <<watcher, isProbeRequired, nodeAlive, silence, probes, inherited>>

\* AJSVC_RoutingNodeConnect sets the timeout, not the watcher; over ARDP no
\* probes are required.  The routing node has just answered.
RoutingNodeConnect ==
  /\ ~connected
  /\ connected' = TRUE /\ isProbeRequired' \in BOOLEAN /\ nodeAlive' = TRUE
  /\ silence' = 0 /\ probes' = 0 /\ inherited' = (linkTimer # Off)
  /\ UNCHANGED watcher

NodeDies ==
  /\ nodeAlive
  /\ nodeAlive' = FALSE
  /\ UNCHANGED <<watcher, connected, isProbeRequired, silence, probes, inherited>>

Next ==
  \/ SilentSecond \/ GiveUp \/ HandleMessage \/ OtherSecond
  \/ Disconnect \/ RoutingNodeConnect \/ NodeDies

Spec == Init /\ [][Next]_vars

\* A connected loop with nothing to read comes to watch the link again and again.
FairSpec == Spec /\ WF_vars(SilentSecond \/ GiveUp)

-----------------------------------------------------------------------------
(* Properties *)

TypeOK ==
  /\ linkTimer \in Off .. BusLinkTimeout
  /\ pingTimer \in Off .. PingTimeout
  /\ numOfPingTimedOut \in 0 .. MaxPings - 1
  /\ connected \in BOOLEAN /\ isProbeRequired \in BOOLEAN /\ nodeAlive \in BOOLEAN
  /\ silence \in 0 .. Patience /\ probes \in Nat /\ inherited \in BOOLEAN

\* "If there are no link activities during that period, at most 3 probe packets
\* are sent [...]  If none of the probe packets are acknowledged"
\* (aj_link_timeout.h:31): the link is given up only after nothing has been
\* received over it for the bus link timeout and the timeouts of all the probes.
GivenUpAfterSilence == [][GiveUp => silence + 1 >= Patience]_vars

\* What the code keeps of it: unless the timers ran already when the connection
\* was made and no message has been handled since, the link is given up only
\* after that time, and after all the probes have been sent over it, whatever
\* disconnections and sleeps came before.
GivenUpAfterProbes ==
  [][GiveUp /\ ~inherited => silence + 1 >= Patience /\ probes = MaxPings]_vars

\* "at most 3 probe packets are sent" (aj_link_timeout.h:31) before the link is
\* active again or lost.
ProbesBounded == probes <= MaxPings

\* A routing node that no longer answers is given up.
DeadLinkGivenUp == (connected /\ isProbeRequired /\ ~nodeAlive) ~> ~connected
=============================================================================

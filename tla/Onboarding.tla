----------------------------- MODULE Onboarding -----------------------------
(***************************************************************************)
(* Onboarding: how the device gets onto a Wi-Fi network and stays on it    *)
(* (OnboardingManager.c, OnboardingService.c), with the control of the     *)
(* radio (wsl/aj_wifi_ctrl.c) and the parts of the message loop that       *)
(* establish the network and give it up (ServicesHandlers.c).              *)
(*                                                                         *)
(* Everything runs in the message loop, and pc says where it is.  The      *)
(* radio's driver, the networks, the routing node and the client that      *)
(* configures the device are external.  Power may fail at any step; each   *)
(* write to NVRAM is a step, and takes place before anything else does.    *)
(* A network and its passphrase are one value, scan results are left out,  *)
(* and the radio is reset when it goes idle, as the default settings say.  *)
(***************************************************************************)
EXTENDS Integers, Sequences

CONSTANTS
  Creds,       \* the credentials a client may configure
  None,        \* the empty ones
  Blank,       \* what is read from an entry that was made and not filled: bytes of 0xFF
  AuthTypes,   \* the authentication types a client may ask for
  Accepts,     \* <<credentials, protocol>>: what the networks accept
  Fallbacks,   \* the values g_obSoftAPFallback may have
  MaxRetries,  \* AJOBS_MAX_RETRIES, 2
  MaxFaults    \* bound: power failures, and failures of the radio, DHCP and discovery

\* AJOBS_AuthType: the wildcards are negative.
OPEN == 0
WEP == 1
WPA_TKIP == 2
WPA_CCMP == 3
WPA2_TKIP == 4
WPA2_CCMP == 5
WPS == 6
ANY == -1
WPA_AUTO == -2
WPA2_AUTO == -3
Protocols == OPEN .. WPS

ASSUME OnboardingAssumption ==
  /\ None \notin Creds /\ Blank \notin Creds /\ None # Blank /\ Accepts \subseteq Creds \X Protocols
  /\ AuthTypes \subseteq WPA2_AUTO .. WPS
  /\ Fallbacks \subseteq BOOLEAN /\ MaxRetries \in Nat /\ MaxFaults \in Nat

VARIABLES
  pc,        \* where the loop is: see Places
  info,      \* g_obInfo
  code,      \* g_obLastError.code
  state,     \* g_obState
  attempt,   \* the locals of DoConnectWifi
  nv,        \* the two entries in NVRAM
  writes,    \* the entries still to be written before the loop goes on
  wifi,      \* AJ_WSL_connectState
  address,   \* whether DHCP has given an address
  up,        \* external: whether the networks are up
  fallback,  \* g_obSoftAPFallback
  faults     \* the faults so far

settings == <<info, code, state>>
radio    == <<wifi, address>>
store    == <<nv, writes>>
world    == <<up, fallback>>
vars     == <<pc, settings, attempt, store, radio, world, faults>>

Places == {"establish", "idle", "softAP", "apBlocked", "apWait", "try", "find", "bus", "leave", "reboot"}
\* VALIDATING lasts as long as a call of AJ_ConnectWiFi: nobody can see it.
States == {"NOT_CONFIGURED", "NOT_VALIDATED", "VALIDATED", "ERROR", "RETRY"}
Codes  == {"VALIDATED", "UNREACHABLE", "UNSUPPORTED", "UNAUTHORIZED", "MESSAGE", Blank}

DefaultInfo == [cred |-> None, auth |-> ANY, pending |-> TRUE]
\* An SSID longer than any network's, the type -1, and not validated.
BlankInfo   == [cred |-> Blank, auth |-> ANY, pending |-> TRUE]
Idle == "IDLE"

Fault   == faults < MaxFaults /\ faults' = faults + 1
NoFault == UNCHANGED faults
Ready   == writes = <<>>

-----------------------------------------------------------------------------
(* The settings and NVRAM *)

\* An entry is a sequence: empty when there is none.
Erased   == [info |-> <<>>, code |-> <<>>]
Unfilled == [info |-> <<BlankInfo>>, code |-> <<Blank>>]

InfoIn(entries) == IF entries.info = <<>> THEN DefaultInfo ELSE entries.info[1]
CodeIn(entries) == IF entries.code = <<>> THEN "VALIDATED" ELSE entries.code[1]

\* AJOBS_Start, after the static initializers.
Started(entries) ==
  /\ info' = InfoIn(entries) /\ code' = CodeIn(entries)
  /\ state' = IF info'.cred = None THEN "NOT_CONFIGURED"
              ELSE IF code' \in {"UNSUPPORTED", "UNAUTHORIZED", Blank} THEN "ERROR" ELSE "NOT_VALIDATED"
  /\ pc' = "establish" /\ wifi' = Idle /\ address' = FALSE
  /\ writes' = <<>>
  /\ UNCHANGED <<attempt, world>>

Init ==
  /\ nv = Erased /\ writes = <<>>
  /\ info = DefaultInfo /\ code = "VALIDATED" /\ state = "NOT_CONFIGURED"
  /\ attempt = [auth |-> OPEN, until |-> OPEN, retries |-> 0, first |-> FALSE, prevCode |-> "VALIDATED"]
  /\ pc = "establish" /\ wifi = Idle /\ address = FALSE
  /\ up \in BOOLEAN /\ fallback \in Fallbacks /\ faults = 0

\* OnboardingWriteInfo, OnboardingWriteLastErrorCode.
Write ==
  /\ ~Ready
  /\ nv' = IF Head(writes) = "info" THEN [nv EXCEPT !.info = <<info>>] ELSE [nv EXCEPT !.code = <<code>>]
  /\ writes' = Tail(writes)
  /\ UNCHANGED <<pc, settings, attempt, radio, world>> /\ NoFault

\* What the power failure leaves, as EntryStore's Crash: opening an entry for
\* writing deletes it and makes it anew, to be filled; and while the whole is
\* stored, everything may be lost.
Left ==
  {nv} \cup
    IF Ready THEN {}
    ELSE {Erased} \cup {[nv EXCEPT ![Head(writes)] = torn[Head(writes)]] : torn \in {Erased, Unfilled}}

Crash == Fault /\ nv' \in Left /\ Started(nv')

\* AJOBS_UpdateInfo: nothing is written when nothing has changed.
Updated(cred, auth) == cred # info.cred \/ auth # info.auth

\* Mutant of InfoWrites: a new authentication type alone is not saved.
InfoWritesCredOnly(cred, auth) == IF cred # info.cred THEN <<"info">> ELSE <<>>

InfoWrites(cred, auth) == IF Updated(cred, auth) THEN <<"info">> ELSE <<>>

UpdateInfo(cred, auth) ==
  /\ info' = IF Updated(cred, auth) THEN [cred |-> cred, auth |-> auth, pending |-> TRUE] ELSE info
  /\ state' = IF Updated(cred, auth) THEN "NOT_VALIDATED" ELSE state
  /\ UNCHANGED code
  /\ writes' = InfoWrites(cred, auth)

\* AJOBS_ClearInfo, called with the last error c: the error is cleared first.
ClearWrites(c) == (IF c = "VALIDATED" THEN <<>> ELSE <<"code">>) \o InfoWrites(None, OPEN)

ClearInfo(c) ==
  /\ code' = "VALIDATED" /\ state' = "NOT_CONFIGURED"
  /\ info' = IF Updated(None, OPEN) THEN [cred |-> None, auth |-> OPEN, pending |-> TRUE] ELSE info
  /\ writes' = ClearWrites(c)

-----------------------------------------------------------------------------
(* AJOBS_EstablishWiFi *)

\* AJOBS_IsWiFiConnected
IsWiFiConnected == wifi \in {"CONNECT_OK", "STATION_OK"}

Establish ==
  /\ pc = "establish" /\ Ready
  /\ pc' = IF IsWiFiConnected THEN "find" ELSE "idle"
  /\ UNCHANGED <<settings, attempt, store, radio, world>> /\ NoFault

\* Mutant of SoftAPNeeded: the setting counts for a device without credentials, too.
SoftAPNeededFallback == state \in {"NOT_CONFIGURED", "ERROR", "RETRY"} /\ fallback

\* Mutant of SoftAPNeeded: the setting is not looked at.
SoftAPNeededAlways == state \in {"NOT_CONFIGURED", "ERROR", "RETRY"}

SoftAPNeeded == state = "NOT_CONFIGURED" \/ (state \in {"ERROR", "RETRY"} /\ fallback)

\* The protocols a wildcard stands for: the first to be tried and the last.
First == IF info.auth >= 0 THEN info.auth
         ELSE IF info.cred = None THEN OPEN
         ELSE IF info.auth = WPA_AUTO THEN WPA_CCMP ELSE WPA2_CCMP
Until == IF info.cred = None THEN OPEN
         ELSE IF info.auth = WPA_AUTO THEN WPA_TKIP ELSE IF info.auth = WPA2_AUTO THEN WPA2_TKIP ELSE OPEN

\* DoConnectWifi up to its loop.
StartAttempt ==
  /\ pc' = "try"
  /\ attempt' = [auth |-> First, until |-> Until, retries |-> 0,
                 first |-> state = "NOT_VALIDATED", prevCode |-> code]

\* AJOBS_ControllerAPI_GotoIdleWiFi, which resets the radio, and the scan.
GotoIdle ==
  /\ pc = "idle" /\ Ready
  /\ wifi' = Idle /\ address' = FALSE
  /\ \/ /\ Fault /\ pc' = "establish" /\ UNCHANGED attempt
     \/ /\ SoftAPNeeded /\ pc' = "softAP" /\ UNCHANGED attempt /\ NoFault
     \/ ~SoftAPNeeded /\ StartAttempt /\ NoFault
  /\ UNCHANGED <<settings, store, world>>

\* AJ_EnableSoftAPHelper.  The driver's call returns only when a station has
\* joined (aj_wsl_net.c:410).
EnableSoftAP ==
  /\ pc = "softAP" /\ Ready
  /\ \/ NoFault /\ pc' = "apBlocked" /\ wifi' = "SOFT_AP_UP"
     \/ Fault /\ pc' = "establish" /\ UNCHANGED wifi
  /\ UNCHANGED <<settings, attempt, store, address, world>>

\* The loop of AJ_EnableSoftAP: its time is up, and the station has left again.
SoftAPTimeout ==
  /\ wifi # "STATION_OK"
  /\ state' = IF state = "RETRY" THEN "VALIDATED" ELSE state
  /\ pc' = IF state = "RETRY" THEN "idle" ELSE "establish"

WaitForStation ==
  /\ pc = "apWait" /\ Ready
  /\ \/ wifi = "STATION_OK" /\ pc' = "find" /\ UNCHANGED state
     \/ SoftAPTimeout
  /\ UNCHANGED <<info, code, attempt, store, radio, world>> /\ NoFault

-----------------------------------------------------------------------------
(* DoConnectWifi *)

Accepted == up /\ <<info.cred, attempt.auth>> \in Accepts

\* What the status of AJ_ConnectWiFi makes of the last error and of the state.
\* The driver never reports SECURITY: a wrong passphrase is a failed connection.
LastError ==
  [CONNECT  |-> <<"UNREACHABLE", "RETRY">>,
   SECURITY |-> <<"UNAUTHORIZED", "ERROR">>,
   DRIVER   |-> <<"MESSAGE", "ERROR">>,
   DHCP     |-> <<"MESSAGE", "RETRY">>,
   FAILURE  |-> <<"MESSAGE", "ERROR">>]

\* AJ_ConnectWiFi on a network that does not take us: not found, refused, or,
\* with WEP, joined but without an address.  Of a blank SSID the radio hears
\* nothing.
Refusals ==
  IF info.cred = Blank THEN {<<"FAILURE", Idle>>}
  ELSE {<<"CONNECT", "CONNECT_FAILED">>, <<"FAILURE", "CONNECTING">>}
         \cup IF up /\ attempt.auth = WEP THEN {<<"FAILURE", "CONNECT_OK">>} ELSE {}

\* On a network that does, the radio or DHCP may fail.
Failures == {<<"DRIVER", Idle>>, <<"DHCP", "CONNECT_OK">>, <<"FAILURE", "CONNECT_OK">>}

CodeWrites(c) == IF c # attempt.prevCode THEN <<"code">> ELSE <<>>

\* Mutant of SaveSuccess: credentials whose type was right are not saved.
SaveSuccessChanged ==
  IF info.auth # attempt.auth
    THEN /\ info' = [info EXCEPT !.auth = attempt.auth, !.pending = FALSE]
         /\ writes' = <<"info">> \o CodeWrites("VALIDATED")
    ELSE info' = [info EXCEPT !.pending = FALSE] /\ writes' = CodeWrites("VALIDATED")

SaveSuccess ==
  IF info.auth # attempt.auth \/ info.pending
    THEN /\ info' = [info EXCEPT !.auth = attempt.auth, !.pending = FALSE]
         /\ writes' = <<"info">> \o CodeWrites("VALIDATED")
    ELSE UNCHANGED info /\ writes' = CodeWrites("VALIDATED")

Connected ==
  /\ Accepted
  /\ code' = "VALIDATED" /\ state' = "VALIDATED"
  /\ SaveSuccess
  /\ wifi' = "CONNECT_OK" /\ address' = TRUE
  /\ pc' = "find" /\ UNCHANGED attempt

\* Any error on first validation is terminal.
StateAfter(status) == IF attempt.first THEN "ERROR" ELSE LastError[status][2]

TryAgain(status) ==
  /\ code' = LastError[status][1] /\ state' = StateAfter(status)
  /\ UNCHANGED <<pc, info, writes>>
  /\ attempt' =
       IF attempt.retries < MaxRetries THEN [attempt EXCEPT !.retries = @ + 1]
       ELSE [attempt EXCEPT !.auth = @ - 1, !.retries = 0]

\* Mutant of Exhausted: one type too many.
ExhaustedLate == attempt.retries >= MaxRetries /\ (info.auth >= 0 \/ attempt.auth < attempt.until)

Exhausted == attempt.retries >= MaxRetries /\ (info.auth >= 0 \/ attempt.auth <= attempt.until)

\* Mutant of GivesUp: unvalidated credentials are kept.
GivesUpKeeps(c, s) ==
  /\ code' = c /\ state' = s /\ pc' = "idle"
  /\ UNCHANGED info /\ writes' = CodeWrites(c)

\* Unvalidated credentials are deleted, and EstablishWiFi returns; otherwise it
\* goes round again.  Leaving DoConnectWifi the error code is saved.
GivesUp(c, s) ==
  IF info.pending
    THEN /\ code' = "VALIDATED" /\ state' = "NOT_CONFIGURED" /\ pc' = "establish"
         /\ info' = IF Updated(None, OPEN) THEN [cred |-> None, auth |-> OPEN, pending |-> TRUE] ELSE info
         /\ writes' = ClearWrites(c) \o CodeWrites("VALIDATED")
    ELSE /\ code' = c /\ state' = s /\ pc' = "idle"
         /\ UNCHANGED info /\ writes' = CodeWrites(c)

Fails(status) ==
  \/ ~Exhausted /\ TryAgain(status)
  \/ /\ Exhausted /\ UNCHANGED attempt
     /\ IF info.auth < 0 THEN GivesUp("UNSUPPORTED", "ERROR")
        ELSE GivesUp(LastError[status][1], StateAfter(status))

\* One turn of the loop of DoConnectWifi.
ConnectWiFi ==
  /\ pc = "try" /\ Ready
  /\ \/ Connected /\ NoFault
     \/ \E result \in Refusals :
          ~Accepted /\ Fails(result[1]) /\ wifi' = result[2] /\ address' = FALSE /\ NoFault
     \/ \E result \in Failures :
          Accepted /\ Fails(result[1]) /\ wifi' = result[2] /\ address' = FALSE /\ Fault
  /\ UNCHANGED <<nv, world>>

-----------------------------------------------------------------------------
(* The message loop *)

Online    == wifi = "CONNECT_OK" /\ address /\ up
Reachable == Online \/ wifi = "STATION_OK"

\* Mutant of SwitchToRetry: the network is kept.
SwitchToRetryStays == state' = "RETRY" /\ UNCHANGED radio

\* AJOBS_SwitchToRetry
SwitchToRetry == state' = "RETRY" /\ wifi' = Idle /\ address' = FALSE

\* AJSVC_RoutingNodeConnect after AJOBS_EstablishWiFi: AJ_ERR_TIMEOUT or
\* AJ_ERR_DHCP gives up the network, any other error does not.
FindBusAndConnect ==
  /\ pc = "find" /\ Ready
  /\ \/ Reachable /\ pc' = "bus" /\ UNCHANGED <<state, radio>> /\ NoFault
     \/ /\ pc' = "establish" /\ SwitchToRetry
        /\ IF Reachable THEN Fault ELSE NoFault
     \/ Reachable /\ pc' = "establish" /\ UNCHANGED <<state, radio>> /\ Fault
  /\ UNCHANGED <<info, code, attempt, store, world>>

\* AJOBS_ConfigureWiFiHandler
ConfigureWiFi(cred, auth) ==
  /\ pc = "bus" /\ Ready
  /\ UpdateInfo(cred, auth)
  /\ UNCHANGED <<pc, attempt, nv, radio, world>> /\ NoFault

\* AJOBS_ConnectWiFiHandler
ConnectWiFiHandler ==
  /\ pc = "bus" /\ Ready /\ info.cred # None
  /\ pc' = "leave"
  /\ UNCHANGED <<settings, attempt, store, radio, world>> /\ NoFault

\* AJOBS_OffboardWiFiHandler, and FactoryReset, which restarts the application.
Offboard(next) ==
  /\ pc = "bus" /\ Ready
  /\ ClearInfo(code) /\ pc' = next
  /\ UNCHANGED <<attempt, nv, radio, world>> /\ NoFault

\* AJ_ERR_READ: the bus is left, Wi-Fi is not.
LinkLost ==
  /\ pc = "bus" /\ Ready
  /\ pc' = "establish"
  /\ UNCHANGED <<settings, attempt, store, radio, world>> /\ NoFault

\* AJSVC_RoutingNodeDisconnect after a forced disconnect.
RoutingNodeDisconnect ==
  /\ pc = "leave" /\ Ready
  /\ wifi' = Idle /\ address' = FALSE /\ pc' = "establish"
  /\ UNCHANGED <<settings, attempt, store, world>> /\ NoFault

Reboot == pc = "reboot" /\ Ready /\ Started(nv) /\ UNCHANGED nv /\ NoFault

-----------------------------------------------------------------------------
(* External: the networks, the stations, the client *)

NetworkChanges == up' = ~up /\ UNCHANGED <<pc, settings, attempt, store, radio, fallback, faults>>

\* WiFiCallback(0)
NetworkLost ==
  /\ wifi = "CONNECT_OK" /\ ~up
  /\ wifi' = Idle /\ address' = FALSE
  /\ UNCHANGED <<pc, settings, attempt, store, world, faults>>

\* SoftAPCallback(1), and the driver's call ends.
StationJoins ==
  /\ wifi = "SOFT_AP_UP"
  /\ wifi' = "STATION_OK" /\ pc' = IF pc = "apBlocked" THEN "apWait" ELSE pc
  /\ UNCHANGED <<settings, attempt, store, address, world, faults>>

\* SoftAPCallback(0)
StationLeaves ==
  /\ wifi = "STATION_OK"
  /\ wifi' = "SOFT_AP_UP"
  /\ UNCHANGED <<pc, settings, attempt, store, address, world, faults>>

Client ==
  \/ \E cred \in Creds, auth \in AuthTypes : ConfigureWiFi(cred, auth)
  \/ ConnectWiFiHandler
  \/ \E next \in {"leave", "reboot"} : Offboard(next)

-----------------------------------------------------------------------------

Loop ==
  \/ Write
  \/ Establish \/ GotoIdle \/ EnableSoftAP \/ WaitForStation \/ ConnectWiFi
  \/ FindBusAndConnect \/ RoutingNodeDisconnect \/ Reboot

Next ==
  \/ Loop \/ Client \/ LinkLost \/ Crash
  \/ NetworkChanges \/ NetworkLost \/ StationJoins \/ StationLeaves

Spec == Init /\ [][Next]_vars

\* The loop goes on; the watch over the link notices that it is gone.
FairSpec == Spec /\ WF_vars(Loop) /\ WF_vars(~Reachable /\ LinkLost)

-----------------------------------------------------------------------------
(* Properties *)

Infos == [cred : Creds \cup {None, Blank}, auth : WPA2_AUTO .. WPS, pending : BOOLEAN]

TypeOK ==
  /\ pc \in Places /\ info \in Infos /\ code \in Codes /\ state \in States
  /\ attempt \in [auth : Protocols, until : Protocols, retries : 0 .. MaxRetries,
                  first : BOOLEAN, prevCode : Codes]
  /\ nv \in [info : Seq(Infos), code : Seq(Codes)]
  /\ writes \in Seq({"info", "code"}) /\ Len(writes) <= 3
  /\ wifi \in {Idle, "CONNECTING", "CONNECT_OK", "CONNECT_FAILED", "SOFT_AP_UP", "STATION_OK"}
  /\ address \in BOOLEAN /\ (address => wifi = "CONNECT_OK")
  /\ up \in BOOLEAN /\ fallback \in BOOLEAN

\* What a client reads tells whether there are credentials that a client gave.
StateTruthful == pc = "bus" => (state = "NOT_CONFIGURED" <=> info.cred \notin Creds)

\* Whatever failed and whenever the power did, what is saved is what the device
\* goes by, and credentials counted as validated, here or after a restart, are
\* ones a network has taken, with the protocol it took.  A client is told right
\* whether there are any, unless the device falls back to its own network: what
\* an entry that was not filled holds never passes for credentials.
CredentialsAgree ==
  /\ ~fallback => StateTruthful
  /\ Ready => info = InfoIn(nv)
  /\ Ready /\ pc # "try" => code = CodeIn(nv)
  /\ \A i \in {info, InfoIn(nv)} : i.pending \/ <<i.cred, i.auth>> \in Accepts

Resolved == ~info.pending \/ info.cred = None

\* Credentials that a client asks to connect with are tried: they come to be
\* validated, or are deleted ("Failed to validate, so delete these
\* credentials", OnboardingManager.c:783).  A device without credentials that a
\* client gave, be they none or what an unfilled entry holds, comes to offer its
\* own network, where it can be given some, also when no routing node was found
\* there before.
CredentialsTried ==
  /\ ~fallback /\ pc = "leave" /\ ~Resolved ~> Resolved
  /\ info.cred \notin Creds ~> (info.cred \in Creds \/ wifi \in {"SOFT_AP_UP", "STATION_OK"})

\* A device with validated credentials whose network is up and stays up is on
\* that network and on the bus again and again, whatever went wrong before,
\* power failures included: the loop never settles anywhere else.
ComesBack == <>[](up /\ ~info.pending) => []<>(pc = "bus" /\ Online)
Rejoins   == ~fallback => ComesBack
=============================================================================

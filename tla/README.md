# Verification of the Dehumidifier simulator and its AllJoyn thin client

The repository is an AllJoyn thin-client stack (`core/ajtcl`), the AllJoyn base
services (`services/base_tcl/src`) and one application built on them, a
simulated dehumidifier (`services/base_tcl/test/ACServer` with
`test/common`). The program is single threaded: one loop connects to a routing
node, unmarshals one message at a time, runs its handler to the end and, when
the bus has been silent for a second, runs a pass of periodic work. What is hard
about it is not threads but order: messages, passes, timeouts, failed sends,
lost links and reconnections interleave, nearly all state is file-static and
most of it survives a reconnection.

Paths below are relative to `src/`.

## 1. Inventory

| part | code | state | operations | what is hard |
|---|---|---|---|---|
| Device and control panel | `services/base_tcl/test/ACServer` | power, fan speed, timer, five 0/1 sensors, the clean monitor, four update flags | `PowerON`, `PowerOFF`, `Reset`; property get and set; the signalling pass `Controlee_DoWork` | sends that fail, commands between two passes, values cut to the setter's type |
| Message loop | `ACServer/ACServerSample.c`, `test/common/AppHandlers.c`, `services/base_tcl/src/common/ServicesHandlers.c` | the two initialization stages, attempts, `rebootRequired`, the global session id | connect, one stage per turn, one message per turn, idle pass, disconnect, reboot | late, refused and lost replies, several clients, restart in the middle of a stage |
| Sessions and bus calls | `core/ajtcl/src/aj_bus.c` | session table by port | bind, accept, joined, lost, other bus methods | the table is updated in every stage, the global session id is not |
| About | `core/ajtcl/src/aj_about.c` | announce condition, port, object list | announce, about data, icons | the condition is cleared before the send |
| Link watch | `core/ajtcl/src/aj_link_timeout.c` | two timers, a count of unanswered probes | `AJ_BusLinkStateProc`, `AJ_NotifyLinkActive` | the watcher outlives the connection |
| ARDP transport | `core/ajtcl/src/aj_ardp.c` | connection state, send and receive buffers, windows, timers | connect, receive, send, disconnect, timers | loss, repetition, reordering, expiry, wrap of sequence numbers, backpressure |
| Message layer | `core/ajtcl/src/aj_msg.c` | the buffers, the message being marshalled | marshal, unmarshal, deliver, close | order of marshalling, the status of each step |
| Method calls awaiting replies | `core/ajtcl/src/aj_introspect.c`, `aj_msg.c`, `aj_bus.c` | fixed pool of reply contexts, serial numbers, sessions being joined | call, identify a reply, release a context, time out | a full pool, a late reply to a context that is in use again, numbers that wrap |
| Connecting to a routing node | `aj_connect.c`, `aj_disco.c`, `aj_helper.c` | discovered nodes, nodes tried, blacklist | discover, select, connect, authenticate | retries, refusals, stale answers, a list that is full |
| Serial link | `aj_serial*.c` | sliding window of 8 sequence numbers | send, acknowledge, resend | not compiled into this application |
| NVRAM, credentials | `src/nvram/aj_nvram.c`, `target/linux/aj_target_nvram.c`, `aj_creds.c`, `aj_keystore.c` | a block of entries, mirrored in a file | create, open, write, delete, compact | crash or want of space between two steps |
| Authentication | `aj_peer.c`, `aj_authentication.c`, `aj_guid.c` | one handshake context, peers, stored secrets | exchange of guids, suites, keys, verification, certificates | both sides at once, a call that times out and is answered after all, secrets that differ |
| Authorisation, cryptography | `aj_authorisation.c`, `aj_security.c`, `crypto/` ... | policies, keys | matching and computation over data | data, not control |
| Property store and Config | `test/common/PropertyStore.c`, `ConfigSample.c`, `services/config/src/ConfigService.c` | runtime values per field and language, one NVRAM entry each | update, reset, reset all, passcode, factory reset | several fields in a request, one of them failing; failed saves |
| Control panel service | `services/base_tcl/src/controlpanel` | widget trees | marshalling of widgets | the device's own panel does not use them |
| Notification | `services/base_tcl/src/notification` | last message of each kind | send, dismiss, cancel | not in this build |
| Onboarding | `services/base_tcl/src/onboarding`, `core/ajtcl/src/wsl/aj_wifi_ctrl.c` | Wi-Fi state, last error, credentials, the radio | establish Wi-Fi, configure, connect, offboard | retries and fallbacks in one loop, power failures between two writes, a network that comes and goes; not in this build |
| Platform | `core/ajtcl/src/target`, `malloc`, `external` | sockets, clock, heap | I/O | environment |

How they interact. Everything is called from the loop in `AJ_Main`.
`AJApp_ConnectedHandler` carries the initialization one stage further,
`AJ_UnmarshalMsg` returns one message or times out; messages go to the services'
processors, then to the application's, then to `AJ_BusHandleBusMessage`.
A handler returns a status, and the loop turns a read, write, link or restart
status into a disconnection. Device methods raise update flags; a pass after a
silent second sends a signal for each to the one global session id, which the
accept handler overwrites. A configuration change raises the announce condition
that a later turn of the loop honours. The transport below sends and receives
inside these calls: over ARDP a handler that sends may wait for room and receive
meanwhile. A method call takes a reply context, and the loop's next messages or
its next silent second give it back. The handshake of two peers is a chain of
such calls; onboarding takes the place of the first step of the loop, for there is
no bus before there is a network.

The properties that make each part correct are stated with its module in
section 3; every hazard, with its line and the properties that would catch it,
is listed in `PROJECT.json`.

## 2. Plan

The order in which the modules were written is the order of importance for this
program: the device and its loop first, then what the loop stands on (link,
transport, storage), then what the thin client does for any application
(connecting, calling, authenticating), then the service whose state machine is the
largest.

| module | models | composed with |
|---|---|---|
| `Dehumidifier`, `DehumidifierProofs` | device, control panel, signalling pass | — |
| `AppLoop`, `AppLoopProofs` | the loop, initialization, sessions, bind call, announcement | — |
| `LinkWatch` | the link watcher | `Connect` |
| `Connect`, `MCConnect`, `ConnectProofs` | discovery, choice of a node, blacklist, connection over UDP and TCP | extends `LinkWatch` |
| `InOrderStream` | abstract: a byte stream read in order | implemented by `ArdpReceive` |
| `ArdpReceive`, `ArdpReceiveProofs` | the transport's receiving half | — |
| `ArdpSend`, `ArdpSendProofs` | its sending half, the connection and its timers | — |
| `MethodCalls`, `MethodCallsProofs` | reply contexts, serial numbers, timeouts, sessions being joined | — |
| `PeerAuth`, `MCPeerAuth` | the handshake between two peers, both running this code | — |
| `PropertyStore`, `StorageProofs` | property store and Config service | — |
| `EntryStore` | abstract: a set of entries with ids | implemented by `Nvram` |
| `Nvram`, `MCNvram`, `StorageProofs` | the block, its compaction, its file | — |
| `Onboarding`, `MCOnboarding`, `OnboardingProofs` | Wi-Fi, credentials, the radio, the loop around them | — |

What could follow, in this order: proofs of the invariants of `PeerAuth`; the serial link
(`aj_serial*.c`), a second transport with a sliding window; the notification
service's producer (`NotificationProducer.c`); a device under `AppLoop`'s sessions,
to state end to end which client is told what.

## 3. The modules

### Dehumidifier

`powerStatus`, `flowValue`, `timerValue`, `led`, `monitor` are the statics of
`ControlPanelProvided.c`, `update` its four flags. `PowerON`, `PowerOFF`,
`Reset` and the setters are the handlers; a written `int32` is cut to the
setter's parameter (`% 256`, `% 65536`). `Controlee_DoWork` is a whole pass:
one power signal, or nothing while the device is off, or the other three signals
and at most one sensor moved at random. `panel` is what a client shows and
`powerBy` remembers whether a method or a property write set the power. The
clients are the audience a signal is sent to; that it is in fact one session
only is in `AppLoop`.

Run `device` (two LEDs, one of them a service LED, one client, a power value
that wraps and one that does not): the types and ranges hold; a device that was
switched off by its method stays dark (`DarkWhenOff`); with no power signal due,
every panel shows what the last method set (`PowerAgree`); a due power signal is
sent at last (`PowerConverges`). Clients do not influence each other, and the
LEDs only by `Reset`, so one client and one LED of each sort are enough. The
fairness is a pass whose message is taken: the loop runs a pass after each silent
second, and a link that refuses every message is taken down.

Run `update_signals_sent`: see section 5.

### AppLoop

`pc` is where `AJ_Main` is: connecting, before `AJApp_ConnectedHandler`, before
`AJ_UnmarshalMsg`, disconnecting. `cur` and `nxt` are the two initialization
stages, `bindCall` the reply context of the bind call, `bound` and `ongoing` the
session table, `sessionId` the application's global. `inbox` is what the routing
node has sent and the loop has not read. A turn handles one message, or finds
the bus silent: then a timed-out call is answered by an error reply, or a pass
runs. Every send may end as `AJ_OK`, `AJ_ERR_RESOURCES` or `AJ_ERR_WRITE`.

Run `loop`: after what is waiting is read, the session table is exactly the set
of open sessions, and the client that asked last misses no signal
(`SessionsAgree`); an announcement is made only on a connection whose
bind call was answered or timed out (`AnnouncedAfterReply`); initialization never
sticks, and a later change is announced unless the connection ends or an
announcement failed for want of resources (`Announces`). Bounds:
three sessions ever asked for (one replaced, one lost, one new), three messages
waiting, two attempts where the code has three. Fairness: the loop is one thread
that always runs, so connecting, a turn and a disconnection happen when they can;
the routing node answers a bind call in the end. Without that answer the call would
time out only in a silent second, which nothing guarantees (the hazard at
`aj_msg.c:1221`).

### LinkWatch, Connect

`linkTimer`, `pingTimer`, `numOfPingTimedOut` are the fields of the static
watcher; a timer counts seconds and stops at its timeout, for beyond it only
"expired" matters. `silence`, `probes` and `inherited` are history: the seconds and
the requests since a message was handled or the link was made, whose hello the
routing node has just answered, and whether the link came upon running timers. A
second passes in `AJ_BusLinkStateProc` (`SilentSecond`, `GiveUp`) or elsewhere
(`OtherSecond`: the loop sleeps or connects).

`Connect` puts `AJ_FindBusAndConnect` in front of it. `list` is the response
list, `attempts` the indexes tried, `blacklist` and `oldest` the ring of refused
addresses; `TakeAnswer` is an answer within the listen interval, `Select` and
`Candidate` the two passes over the list. What a node does when it is tried
(accept, refuse, fail, hang) is its `nature`, fixed and unknown; a node listens
on UDP, TCP or both. A connection over ARDP needs no probes: `isProbeRequired`
is where the two modules meet.

Run `connect` (three nodes, one on TCP, one on both, one on UDP; a list of two
and a blacklist of three; link timeout 1, ping timeout 3, two probes): the node
tried is the best left, none that has refused is tried while its refusal is
remembered, and what makes room in a full list is the worst (`BestFirst`);
a link is given up only after `Patience` seconds of silence and all its probes,
unless it inherited running timers from a connection before it and no message has
been handled since (`GivenUpAfterProbes`); a link whose routing node is dead
is given up (`DeadLinkGivenUp`), and as long as every node either accepts or
turns us down in a way that is remembered (`Fit`) one that accepts is reached,
again after each loss (`ConnectsInTheEnd`). Three nodes for two places make the
list overflow, and refusals over both transports fill the blacklist and wrap it.
With running timers the promise of `aj_link_timeout.h:31` is broken:
`ConnectInherited.cfg`, see section 5.
Fairness: the application calls again until it succeeds, its calls end, a
connected loop comes to watch its link, and a node that answers again and again
is heard (strong fairness, for the list may be full of others in between).

### ArdpReceive, ArdpSend, InOrderStream

`ArdpReceive` is the receiving half. `conn` holds `rcv` (buffers, `CUR`, `LCS`,
the delayed-acknowledgement timer) and the read position; an action is one turn
of the loop in `AJ_ARDP_Recv`: at most one datagram, `CheckTimers`, validation,
the state machine, and up to `len` units to the caller. The peer keeps its
window, retransmits, and may let messages expire. Sequence numbers are modulo
`SeqModulus`; `SEQ32_LT` is the same comparison of halves. `network`, chosen at
the start, is what may happen to datagrams; delay and repetition always may.

Run `ardp_receive` (two buffers, sequence numbers 14, 15, 0, 1 ... modulo 16, messages of
two units read by up to three at a time): over a network that neither loses nor reorders,
the receiver implements `InOrderStream` (`InOrder`), holds exactly what has arrived and was
not read (`HeldUntilRead`, with the assertion of `AddRcvBuffer`), and everything is read in
the end (`AllRead`); over one that loses, reorders and lets messages expire, too, its
acknowledgements are still ones the peer accepts (`AckAcceptable`). The modulus is a
multiple of the number of buffers and the SYN's data takes no more units than there are
buffers; section 5 says what happens otherwise. Two buffers, two datagrams and six segments
(four over the faulty network) are enough for a full window, a wrap of the buffers and of
the numbers, and a repeated datagram on each side of it. Fairness: the caller reads on, the
peer sends and takes acknowledgements.

`ArdpSend` is the connection from `AJ_ARDP_Connect`, with the handshake, the
sending half, its timers (which may expire whenever armed), backpressure and the
two ways to disconnect. A caller whose send failed may disconnect or go on with
another message, as this program does: `Controlee_DoWork` drops `AJ_ERR_WRITE`,
`AJApp_DoWork` returns nothing and the loop continues (`ACServerSample.c:246`).
`resumed` and `overtaken` are history: that a message was begun after a send that
failed, that an acknowledgement overtook another.

Run `ardp_send` (two buffers, messages of one and three units, segments of two, two
tries of a segment, failed sends): each segment sent and not acknowledged has a buffer of
its own, in flight, with its timer running, whatever fails and whoever goes on; until
somebody has gone on, no other buffer is in flight, none in flight is filled again and a
message handed over whole is sent whole (`WindowAgrees`). Until an acknowledgement is
overtaken nothing is sent the peer has no room for (`WithinWindowInOrder`). What is in
flight is acknowledged or the caller is told, also a sender that waits for room (`Drains`).
The run has acknowledgements in order and one of them under way, which keeps the graph
small enough for `Drains`; `ArdpSendReordered.cfg` checks the invariants with two that
overtake each other and one try more (1.6 million states), and section 4 says that they
are proved for any. What no longer holds after a caller has gone on or an acknowledgement
has been overtaken is shown by `ArdpSendResumed.cfg` and `ArdpSendStale.cfg`, see section 5.
Fairness: the caller listens and goes on sending; strong fairness for the network and the
peer, which lose or delay again and again but not for ever. The run stops at a last segment,
therefore no deadlock check.

### MethodCalls

`contexts` is `replyContexts`, a slot's `left` the seconds it may still wait;
`serial` is `bus->serial`, which skips 0 when it wraps; `sessions` are the
records made by a join. `calls`, `told` and `members` are history: the calls
made and their fates, the replies handed to the application, the sessions it
was told of. A call takes a context, marshals and sends, and each of these may
fail; a reply finds its context by the serial number of the call, or none.

Run `method_calls` (two contexts, three calls, serial numbers 1 to 5 starting
at 1 or 4, so that they wrap): a context in use belongs to one call of this
connection of which the application was told nothing (`PoolAgrees`); a call is
answered at most once, and as what it was (`ToldOnce`); a join that waits has
its record and the sessions on record are those the application is in
(`JoinsOnRecord`); every context comes free (`ContextsFreed`). Two contexts make a
full pool and a reuse; the third call is the one that reuses. Fairness: seconds
pass, the application asks for messages, and the bus falls silent again and again. The
last is needed, see section 5. Calls are bounded, therefore no deadlock check.

### PeerAuth

Both nodes run the same code with one handshake context each (`ctx`, after
`peerContext` and `authContext`). A handler is an operator from a node's state to
the next, which collects in `out` what it sends. Keys, nonces and secrets are
sets of tokens: two are equal exactly when what they were computed from is. `hash`
is the conversation, empty while its hash is not there; writing to it then, or to
a bus that is not there, sets `wild`, which stands for the undefined behaviour.
`told` is what the callback told the application. A node gone wild may go on or end
there, before it sends what its handler has collected. Any call may time out, be
answered too late, or be refused; one whose encryption fails, because the name of
its peer is not mapped, is not sent but waited for all the same.

Run `peer_auth` (eleven set-ups. One node asks: passwords shared, with NULL to fall back
on and with nothing kept or secrets that differ, or with PSK alone; passwords that
are not shared, with and without NULL; certificates, with nothing kept or a common
secret, the status `AJ_PeerHandleSendManifestsReply` leaves unassigned reading
`AJ_OK` or not. Both ask, with and without NULL. Two faults: a call timing out,
also while its answer is on its way, a node leaving, a secret expiring, the
application asking again): a handshake that completes leaves both with one key, and the
client is told after the server knows (`KeysAgree`); a handler goes through a hash
or a bus that is not there in one way only, when a call of its own times out over
a context that has no peer, its ExchangeGUIDs if one node asks, and the peer
that a KeyExchange then reaches (`WildOnlyUnanswered`). That this happens at all is shown
by `PeerAuthHash.cfg`, see section 5. In the set-ups in which one node asks, the client is
told in the end, and told of a failure only after a fault or when the nodes cannot succeed
(`AnsweredInTheEnd`), or is wild. Two faults are enough for a failed attempt and a failure
on the way of its repetition. Fairness: messages and timeouts are handled, applications
ask, and one that is told that the peer is busy starts over, as `test/clientlite.c:510`
does; one that is told of a failure ends there (`:517`), and that it is run again is
possible but not promised. `AJ_MAX_AUTH_TIME` passes only over a handshake in which nothing
is under way. Two nodes that ask each other keep each other busy, and one may forget its
request (`PeerAuthTold.cfg`, section 5); they are excluded from the liveness.

### PropertyStore

`ram` is `propertyStoreRuntimeValues`, `nv` the NVRAM entry of each field, for
the four writable fields of a build with one language. Every handler of the
Config service is an action with the save or reload it ends in; a request is a
function from keys to values, so a key is in it once. An entry that exists can be
written again and a new one may find no room: that is what `EntryStore` promises,
and `PropertyStore_WriteConfig` returns `AJ_OK` either way. A crash may cut a
save off between any two entries, or inside one, which leaves it missing or full
of 0xFF bytes (`Blank`).

Run `property_store` (four texts: the language, a name, one that is too long, the generated
name): memory and NVRAM agree on every field that has an entry (`RamIsSaved`); a device is
never left without a name or with an unsupported language, unless an entry was torn
(`Announceable`); when no announcement is due and the last attempt at one did not fail, it
still tells what is saved (`ToldAgrees`). An attempt clears the condition first and may then
fail, because a torn default language is not found, or the message finds no room or is not
sent; `failed` remembers that it did. After that nothing makes the clients' values current
until the next change or connection: `PropertyStoreStale.cfg`, see section 5. More texts
or languages would repeat these four in their roles. No liveness is claimed, so no fairness.

### EntryStore, Nvram

`mem` is the block, a row of words of two halves, header or contents alike;
`isCompact` the static flag. `Write` is open, write and close of an entry, with
the deletion of the old one, the search for room and the compaction inside.
`AJ_FindNVEntry` is the walk (`Reached`). A compaction is written by position: word
`i` of the moved entries is the one that has `i` words up to it (`PlaceOf`, `WordAt`),
and room is counted as the set of words taken (`Taken`). The file always holds the block as of
the last low-level write, so a crash inside a call restarts from one of the
blocks stored in it, or from an empty file.

Run `nvram` (eight words, three ids, contents of one to three words that look
like headers and like free space): the block implements `EntryStore`
(`KeepsEntries`): an entry is written whole, no other's deletion or compaction
touches it, and a write fails only when the others leave no room; a walk stops
where the next entry will be made, no id is there twice, and a block that is said
to be compact has no deleted entry (`LayoutOK`, with the types in `BlockOK`). Eight words hold
one to four entries, with and without room for the next, before and after
compaction. A process may end inside a write or while the file is empty. It does not
end between two moves of a compaction, though each of them stores the file
(`aj_target_nvram.c:130`, `:70`): of what is left then nothing is promised, see
section 5. `fopen` and `fwrite` are taken to be the only points of a crash in
`_AJ_StoreNVToFile`: the block is one buffer of the C library.

### Onboarding

`info`, `code` and `state` are `g_obInfo`, `g_obLastError.code` and `g_obState`;
`attempt` the locals of `DoConnectWifi`; `nv` the two entries and `writes` those
still to be written before the loop goes on, one at a time, so that power may
fail between two. `wifi` and `address` are the radio's. `pc` is where the loop
is: going idle, bringing up the device's own network (`softAP`, blocked in the
driver in `apBlocked`), trying a protocol, looking for a routing node, on the
bus. A wildcard type is walked down protocol by protocol, each with its retries.

Run `onboarding` (right credentials and wrong ones; ANY, WPA2_AUTO and WPA_CCMP, where the
network takes WPA_CCMP only: reached explicitly, reached through the wildcard, and missed;
WPS, which it does not take either; two retries, two faults; fallback off and on): what is
saved is what the device goes by, credentials that count as validated were taken by a
network, and a client is told right whether there are any (`CredentialsAgree`); credentials
to be tried are tried and resolved, and a device without any offers its network
(`CredentialsTried`); a device with validated credentials and a network that stays up is on
the bus again and again (`Rejoins`). The last two, and what a client is told, hold with
fallback off (section 5). A fault is a failure of the radio, DHCP or discovery where it
would have succeeded, or of the power. One that falls into a write leaves what `EntryStore`
says: the entry as it was, missing, or made and not filled, or no entry at all. An entry of
0xFF reads as credentials `Blank` that no client gave, with type ANY and pending, and as a
last error for which `AJOBS_Start` has no case. Its passcode has no terminator, so
`DoConnectWifi` then reads and writes past its buffers (`OnboardingManager.c:661-672`),
which is undefined: the model lets it go on, to a radio that hears nothing of the kind and
the credentials' deletion, or end (`Crash`), and leaves out a device that ends at every
start. The driver's calls conclude; the one that connects in fact waits without limit for
the radio's answer (`aj_wsl_net.c:436`), which is taken to come. Fairness: the loop goes on,
and a link that is gone is noticed (`LinkWatch`). The defaults are assumed: the radio is
reset when it goes idle, and NVRAM has room. Fallback is set once, at the start
(`AJOBS_SetSoftAPFallback`).

## 4. What is proved

The proofs hold for every value of the constants, under the assumptions named with them in
the modules (`LedAssumption`, `MonitorAssumption`, `InputAssumption`; `TimeoutAssumption`;
`MethodCallsAssumption`; `OnboardingAssumption`; `TextAssumption`, `FaultAssumption`;
`NvramAssumption`; `ArdpReceiveAssumption`, `ArdpSendAssumption`; those of `AppLoop` and
`Connect`). Each follows the same line: an inductive invariant, a lemma that `Init`
establishes it, one lemma for each action or group of actions that keeps it, and the
property as a consequence. The invariants were checked with TLC before they were proved.
Where a theorem needs more than the assumptions, it says so in its statement.

* `DehumidifierProofs`: `DarkWhenOffHolds`, `PowerAgreeHolds`, `TypeOKHolds`. Each property
  is inductive once `TypeOK` holds (`TypeInvariant`), because a pass senses only while the
  power is on and the power flag is cleared only in the step that tells every client. One
  lemma says that the views a power signal leaves are views.
* `AppLoopProofs`: `SessionsAgreeHolds`, `AnnouncedAfterReplyHolds`, `TypeOKHolds`.
  `SessionsAgree` is not inductive: it says what the table will be once the queue is read.
  The invariant adds that the queue tells the life of each session in order, asked for,
  joined and lost at most once (`Ordered`), and that table and queue together give the open
  sessions (`Agree`); and for each initialization stage which calls and messages can be
  under way (`StageInv`), which is also why `announced` implies an answer to this
  connection's bind call.
* `ConnectProofs`: first `ProbesBoundedHolds` and `GivenUpAfterProbesHolds`, of `LinkWatch`.
  The inductive invariant adds to the types that, on a link that did not inherit running
  timers, the silence is at least as long as what the timers and the count of probes
  together say (`TimersWithinSilence`) and the probes sent are one more than those counted,
  on any link at most that many (`ProbesCounted`). Of a link with inherited timers no more
  than `ProbesBoundedHolds` is claimed. Then `ConnectImplementsLinkWatch`: every step of the
  composition is a step of the watcher or leaves it alone, so `ConnectGivenUpAfterProbes`
  follows. `BestFirstHolds` and `TypeOKConnectHolds` rest on `IConnect`: the list has each
  node once and none of its addresses not yet tried was refused over TCP (`ListInv`), and
  the places of the ring before `oldest` are the last refusals, newest first (`RingInv`),
  which is why `AJ_IsRoutingNodeBlacklisted` and the history of refusals agree also after
  the ring has wrapped. The two passes over the list are recursive functions; what they
  return is shown position by position.
* `MethodCallsProofs`: `PoolAgreesHolds`, `ToldOnceHolds`, `JoinsOnRecordHolds`,
  `TypeOKHolds`. The invariant adds that the serial numbers of the calls of this connection
  count up to the next one, around the end (`Numbered`), so that with more serial numbers
  than calls they tell the calls apart; and that nothing outlives its connection (`Closed`).
  `LastSerial > MaxCalls` is the assumption: no more calls than serial numbers, 2^32 - 1 in
  the code.
* `OnboardingProofs`: `CredentialsAgreeHolds` and `TypeOKHolds`. The invariant adds that
  what differs from NVRAM is queued to be written, and that during an attempt `prevCode` is
  the saved code (`Saved`); that credentials, in memory and saved, are pending or accepted,
  those of an entry that power left unfilled pending, and that without credentials only the
  open type is tried (`Validated`); and, with fallback off, that a device without
  credentials is in a state that says otherwise only between `SwitchToRetry` and the end of
  the vain attempt that follows it (`Truthful`), which no client sees.
* `StorageProofs`, of `PropertyStore`: `RamIsSavedHolds`, `AnnounceableHolds`,
  `ToldAgreesHolds`, `TypeOKHolds`. The invariant adds that the entries hold a nonempty name
  and a language that is supported, empty or torn, and that memory has a torn language only
  while its entry is torn. Save, reload and start-up each keep it (`SaveKeeps`,
  `LoadAllKeeps`, `BootKeeps`), and each handler is one of these on values that
  `UpdatedSound` and `ClearedSound` show to be sound.
* `StorageProofs`, of `Nvram`: `LayoutOKHolds` and `KeepsEntriesHolds`, for every size, ids
  and contents, under `NvramAssumption`. Both ask for `"compacting" \notin NvramFaults`: a
  process that ends between two moves of a compaction, each of which the code stores, does
  break them (section 5). The invariant `NvramInv` says that the headers a walk finds and
  their capacities tile the block up to its free words (`Tiled`), with different ids among
  those not deleted (`Unique`), and that a block said to be compact has no others (`Laid`).
  `LayoutOK` alone would do for the next entry but not for a compaction, which must know
  that between the headers there is nothing else. The steps: `Walked` shows that a walk over
  a tiled block reads its headers and stops behind them; `DeleteKeeps` and `CreateKeeps`
  that taking an entry's id away, or putting one behind the others, leaves a tiled block and
  the other entries; `CompactKeeps` that moving the words of the live entries to their
  places does (`PlaceTogether`: an entry's words stay together; `PlaceOrder`: in order), and
  `UsedIs` that the words taken are as many as the entries of `EntryStore` ask for, so that
  `Room` is the test of the abstract write. `Leaves` puts them together for each call and
  each point at which a process may end: a block laid out as before, whose entries
  (`StoredIn`) changed as one step of `EntryStore` allows (`Becomes`). In one module with
  the proofs of `PropertyStore`, with which they have no step in common.

* `ArdpSendProofs`: `TypeOKHolds`, `WindowAgreesHolds`, `WithinWindowInOrderHolds`, for any
  faults and for callers that go on after a failed send. The invariant adds what the peer
  has been sent and may have acknowledged (`PeerInv`); which buffers hold the segments of
  the window, that they lie in a row around the ring, and that only the next may be marked
  besides, once the caller has been told of a failure (`Sent`, `Told`, `Window`); until
  somebody has gone on, that the tail of a message is queued behind it (`Whole`) and every
  assertion has held (`Held`); and, until an acknowledgement is overtaken, that the last
  consumed segment known here is one the peer has reported and reports only grow
  (`Consumed`, `PeerWindow`). `WindowAgrees` and `WithinWindowInOrder` themselves name what
  ends with the first message begun after a failure and with the first acknowledgement
  overtaken: section 5 shows that it does end.
* `ArdpReceiveProofs`: `TypeOKHolds` and `AckAcceptableHolds`, over any network, and
  `HeldUntilReadHolds` and `InOrderHolds`, over one that neither loses nor reorders.
  `TypeOKHolds` asks for `Fits`, `SynUnits <= SegUnits`: a SYN's data is bounded by the same
  packet size as any other's. The others ask for `Short`, that the peer's segments take no
  more than half of the sequence numbers: a later segment would be taken for an earlier one,
  in the code as in the model, 2^31 segments on. `Compare` shows that the comparison of
  halves is the order of the segments then, wherever the numbers wrap. For
  `AckAcceptableHolds` the invariant `Numbered` says that `CUR`, what is held and what is
  counted as consumed are segments received up to the last, that every datagram under way
  carries the number of a segment sent and an `ACKNXT` not beyond it, and that this is so
  also for the acknowledgement under way. The invariant of the other two, `Steady`, says for
  some `cur` and `r` (`Opened`) that the segments before the `r`-th have been given to the
  caller, in order and unit by unit, that those from `r` to `cur` are in their buffers, and
  nothing else is, and that the later ones are under way behind those before them (`Holds`,
  `Ordered`); and what the peer knows of that, so that the window it keeps leaves room
  (`Told`, `Room`). `UpdateReadBufferHolds` and `HandleHolds` show that a read and a segment
  keep it; `ContentIs` works out the stream of `InOrderStream`, of which `Steady` makes what
  was read a prefix. Two more hypotheses say when a segment's buffer is its own: `Follow`,
  that the numbers do not wrap or the number of buffers divides their range (5 does not
  divide 2^32, so for the code it is that they do not wrap), and `SynUnits <= SegMax`;
  without either both properties fail, as section 5 says.

Recursive functions over positions (`UpdateReadBuffer`, `AJ_SelectRoutingNodeFromResponseList`)
are within reach, because a set of numbers has a least element (`LeastOf`, from
the library's facts on well-founded relations), so what holds of 0 and passes
from each number to the next holds of all (`Reaches`). The walk over the block goes
on from an entry by its capacity; that it has a value at all is shown with the sets of
places closed under such steps (`FromWalks`).

Only model-checked:

* `PeerAuth` (`KeysAgree`, `WildOnlyUnanswered`, and, with one fault in
  `PeerAuthTold.cfg`, `TypeOK`), on two nodes and the
  set-ups of `MCPeerAuth`. The first two are about two nodes: with three a client may
  come to call nobody (section 5). A kept secret that one side counts as ECDSA and
  the other does not breaks `KeysAgree`; and `Fresh` is unspecified when the tokens
  run out. What holds of two nodes has not been proved: it needs an invariant over
  both contexts and everything under way between them.
* All liveness, which the proof system does not reach, as it does not reach `ENABLED`.

## 5. Where the code and its documentation disagree

Runs with a counterexample:

* `update_signals_sent` (`TakenPassSendsAll`): the fan speed, timer and reset signals are
  never sent (`ControlPanelComponents.c:444`, missing `break`s), and their flags stay
  raised.
* `ardp_receive_gap` (`AckedInSequence`): after one lost datagram the next is taken, and its
  acknowledgement covers the lost one (`aj_ardp.c:898`).

More configurations with a counterexample are kept beside the runs:

* `ConnectInherited.cfg` (`MCConnect`, `GivenUpAfterSilence`): the watcher's timers survive
  a disconnection (`aj_link_timeout.c:46`), and the hello exchange of a new connection does
  not clear them. The connection is given up earlier than `aj_link_timeout.h:31` says, in
  the worst case in its first silent second and with no probe sent over it.
* `ArdpSendResumed.cfg` (`ArdpSend`, `AssertionsHold`): a send that fails leaves its buffer
  marked as in flight (`aj_ardp.c:1084`), and a caller that goes on with another message, as
  this program's does, fills it, against the assertions at `:1012` and `:1063`.
* `ArdpSendStale.cfg` (`ArdpSend`, `WithinPeerWindow`): an overtaken acknowledgement
  moves the peer's window back, an unsigned difference wraps, and a segment
  leaves that the peer has no buffer for (`aj_ardp.c:867`; the comment at `:1028`
  says that this is what the test is for). A caller that goes on after a failed send does not
  break the window by itself: `WithinWindowInOrderHolds` is proved for it, too.
* `PeerAuthHash.cfg` (`MCPeerAuth`, `HashInitialized`): an ExchangeGUIDs that is not
  answered sends a client with the NULL suite on to KeyExchange (`aj_peer.c:201`), which is
  hashed before there is a conversation hash (the comment at `:484` has it initialized in a
  subsequent call, which this passes by).
* `PeerAuthTold.cfg` (`MCPeerAuth`, `CalledBack`): a node that waits for the answer to its
  own ExchangeGUIDs takes a peer's, which clears the context with the callback in it
  (`aj_peer.c:522`). Its own authentication then ends, and nobody is called, against
  `aj_bus.h:546`.
* `PropertyStoreStale.cfg` (`PropertyStore`, `ChangesTold`): an announcement that fails is
  not made again, for the condition was cleared before the attempt (`aj_about.c:228`;
  "after", says `aj_about.h:193`): the clients keep the old values.
* `PropertyStoreDiscard.cfg` (`PropertyStore`, `PartialUpdatesDiscarded`): a refused
  request leaves its accepted half in memory on a device that has nothing saved
  (`ConfigService.c:317`).
* `MethodCallsBusy.cfg` (`MethodCalls`, `TimeoutsReported`): on a bus that is never
  silent for as long as the application waits for a message, no timeout is ever
  reported (`aj_msg.c:1221`, against `aj_msg.h:405`).
* `OnboardingFallback.cfg` (`MCOnboarding`, `StateTruthful` and `ComesBack`): with
  fallback on, a device without credentials that finds no routing node reads
  RETRY, not NOT_CONFIGURED (`OnboardingManager.h:257`); and a device with validated
  credentials may stay in its own network for ever, because the driver's call
  returns only when a station joins (`aj_wsl_net.c:410`), so that the timeout of
  `aj_wifi_ctrl.c:433` never runs.

The models show more, with other constants or a property of a line:

* `ArdpReceive` with a modulus that the number of buffers does not divide
  (`SeqModulus` 16, `SegMax` 3, ISS 12, one unit to a segment) breaks
  `HeldUntilRead` at the assertion: 5 buffers do not divide 2^32 either, so at the
  wrap two segments of one window share a buffer.
* `ArdpReceive` with expiry on a network that is reliable otherwise:
  `FlushExpiredRcvMessages` clears what was received and not read. A SYN
  whose data needs more reads than there are buffers counts as consumed while
  it is unread, and is overwritten.
* In a full window one firing of the data timer can spend the whole retry count,
  which is kept per segment but counted for all.
* `Connect` without `Fit`: a best node that cannot be reached ends the call before
  the next one is tried, on every call (`aj_connect.c:416`); and a refusal over UDP
  is recorded under an address that `AJ_IsRoutingNodeBlacklisted` never looks up.
* `AppLoop`: only the client that asked last is told; `missed = {}` fails with two
  clients. A refused bind call is announced like an accepted one.
* `Dehumidifier`: a power command taken back before the next pass is never
  signalled.
* `PeerAuth` where both ask: a call of a node's own that times out after a handshake that
  the other asked for has come and gone finds a cleared context, and `HandshakeComplete` asks
  its bus, which is NULL, for the suites (`aj_peer.c:198`, `aj_authentication.c:1171`).
* `PeerAuth`: `AJ_PeerHandleSendManifestsReply` returns for an error a status it has never
  assigned (`aj_peer.c:1819`); where that reads `AJ_OK`, the client sends its memberships to
  the sender of the error. A stored secret that the other side does not share is never
  deleted without NULL (`aj_peer.c:238`), so every later attempt fails, too.
* `PeerAuth` with three nodes: a client waits for the answer to its ExchangeGUIDs while
  the ExchangeGUIDs of a third node takes over its context, and with it clears
  `peerName`; that node leaves, the answer arrives, and the client goes on to send
  KeyExchange to `peerContext.peerName` (`aj_peer.c:948`), which is not there. Two nodes
  do not get there, because the one that takes over is the one that answers.
* `PropertyStore` with `Untorn =>` removed from `Announceable`: an entry that was
  created and not filled makes the default language unsupported, and no
  announcement can be made until it is reset or written again.
* `Nvram` with `NvramFaults = {"crash", "compacting"}` breaks `LayoutOK`: a process that
  ends between two moves of a compaction leaves an entry in both places, or its
  tail where a walk reads a header.
* `Onboarding`, read while modelling: the branch for a failure to get an address
  is missed, because DHCP's timeout is `AJ_ERR_TIMEOUT`; the driver never raises
  the status that becomes UNAUTHORIZED, so a wrong passphrase is UNREACHABLE; after
  a failed validation `AJOBS_ClearInfo` erases the last error before a client could
  read it; configuring the same credentials again in ERROR leaves ERROR;
  `OnboardingReadSoftAPFallback` has no caller.

## 6. What is not modelled

Per part, `PROJECT.json` gives the reason. By lines, most of the repository is data:
marshalling and parsing of messages, cryptography, certificates and policies,
widgets, drivers and their headers, tests and samples. There a state machine
would restate arithmetic or a grammar; the control in them that a property could
be about is modelled where it is used (which messages are encrypted, which secrets
agree, which sends fail). Known hazards of that kind that no module reaches: the
resending of unacknowledged packets on the serial link (`aj_serial_tx.c:307`), the
notification id that wraps to 0 (`NotificationProducer.c:638`), a connection that
is freed while the pointer to it stays set (`aj_ardp.c:1137`).

Across the models: allocation succeeds;
millisecond timers do not wrap; roundtrip times, time-to-live and their arithmetic
are replaced by timers that may expire whenever armed; a message is a member of a
small set, not bytes. The routing node, the clients, the networks and
the peer's half of ARDP are external and modelled from how this code uses them.
`AJ_Reboot` does nothing on Linux and starts the process anew elsewhere: `AppLoop`
has both. The values of `DeviceId` and `AppId` share one buffer and are made
of the GUID at each start; they are not fields of `PropertyStore`. `PeerAuth` has
one version of the protocol (CONVERSATION_V4) and not EC-SPEKE; `Onboarding` not the
scan results.

## 7. Running

    tlc -config Dehumidifier.cfg Dehumidifier.tla     # one of the .cfg files
    tlc -config Onboarding.cfg MCOnboarding.tla       # those with an MC module
    tlapm StorageProofs.tla

`PROJECT.json` lists the runs with their modules, for every property a mutated
definition that breaks it, and the source lines of every definition.

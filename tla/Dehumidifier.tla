---------------------------- MODULE Dehumidifier ----------------------------
(***************************************************************************)
(* The simulated dehumidifier and its remote control panel:                *)
(* test/ACServer/ControlPanelProvided.c (the file-static device state and  *)
(* its setters), ControlPanelComponents.c (properties and signals) and     *)
(* ControlPanelSample.c (the pass that turns raised update flags into      *)
(* signals).  One thread runs all of it: a handler or a pass is a step.    *)
(*                                                                         *)
(* The clients are external.  A client's panel is what it was last told,   *)
(* by a property read or by a signal.                                      *)
(***************************************************************************)
EXTENDS Integers

CONSTANTS
  Clients,      \* remote control panels
  Leds,         \* the 0/1 sensors
  ServiceLeds,  \* those a Reset clears: cleanMetalGrid and replaceFilter
  MaxMonitor,   \* top of the clean monitor's scale, 3 in the code
  PowerInputs,  \* values clients write to the powerStatus property
  FlowInputs,   \* values clients write to fanSpeedValue
  TimerInputs   \* values clients write to timerValue

ASSUME LedAssumption == ServiceLeds \subseteq Leds
ASSUME MonitorAssumption == MaxMonitor \in Nat
ASSUME InputAssumption ==
  PowerInputs \subseteq Int /\ FlowInputs \subseteq Int /\ TimerInputs \subseteq Int

VARIABLES
  powerStatus, flowValue, timerValue,  \* uint8_t, uint16_t, uint16_t
  led,          \* the five sensorXxxValue of range 0..1
  monitor,      \* sensorCleanMonitorValue
  update,       \* powerStatusUpdate, flowValueUpdate, timerValueUpdate, resetUpdate
  powerBy,      \* history: what wrote powerStatus last
  panel         \* external: what each client shows

controls == <<powerStatus, flowValue, timerValue, powerBy>>
sensors  == <<led, monitor>>
vars     == <<controls, sensors, update, panel>>

Flags    == {"power", "flow", "timer", "reset"}
Uint8    == {n \in Nat : n < 256}
Uint16   == {n \in Nat : n < 65536}
NoLed    == [l \in Leds |-> 0]
Shown    == [power |-> powerStatus, flow |-> flowValue, timer |-> timerValue,
             monitor |-> monitor, led |-> led]
View     == [power : Uint8, flow : Uint16, timer : Uint16,
             monitor : -1 .. MaxMonitor, led : [Leds -> {0, 1}]]

Init ==
  /\ powerStatus = 0 /\ flowValue = 0 /\ timerValue = 0
  /\ led = NoLed /\ monitor = -1
  /\ update = [f \in Flags |-> 0]
  /\ powerBy = "method"
  /\ panel = [c \in Clients |-> Shown]

-----------------------------------------------------------------------------
(* Methods *)

PowerON ==
  /\ powerStatus' = 1
  /\ powerBy' = "method"
  /\ update' = [update EXCEPT !["power"] = 1]
  /\ UNCHANGED <<flowValue, timerValue, sensors, panel>>

\* Mutant of PowerOFF: the sensors are left as they are.
PowerOFFKeepsSensors ==
  /\ powerStatus' = 0 /\ flowValue' = 4 /\ timerValue' = 2
  /\ powerBy' = "method"
  /\ update' = [update EXCEPT !["power"] = 1]
  /\ UNCHANGED <<sensors, panel>>

\* The defaults of a device that is off are not those it starts with.
PowerOFF ==
  /\ powerStatus' = 0 /\ flowValue' = 4 /\ timerValue' = 2
  /\ powerBy' = "method"
  /\ led' = NoLed /\ monitor' = -1
  /\ update' = [update EXCEPT !["power"] = 1]
  /\ UNCHANGED panel

Reset ==
  /\ led' = [l \in Leds |-> IF l \in ServiceLeds THEN 0 ELSE led[l]]
  /\ update' = [update EXCEPT !["reset"] = 1]
  /\ UNCHANGED <<controls, monitor, panel>>

-----------------------------------------------------------------------------
(* Properties.  The int32 a client writes is cut to the setter's parameter; *)
(* when it cannot be read the setter runs all the same, on an uninitialized *)
(* local: the inputs stand for either.                                      *)

SetPowerStatus(v) ==
  /\ powerStatus' = v % 256
  /\ powerBy' = "property"
  /\ UNCHANGED <<flowValue, timerValue, sensors, update, panel>>

SetFanSpeedValue(v) ==
  /\ flowValue' = v % 65536
  /\ update' = [update EXCEPT !["flow"] = 1]
  /\ UNCHANGED <<powerStatus, timerValue, powerBy, sensors, panel>>

\* Mutant of SetTimerValue: the value is stored uncut.
SetTimerValueUncut(v) ==
  /\ timerValue' = v
  /\ update' = [update EXCEPT !["timer"] = 1]
  /\ UNCHANGED <<powerStatus, flowValue, powerBy, sensors, panel>>

SetTimerValue(v) ==
  /\ timerValue' = v % 65536
  /\ update' = [update EXCEPT !["timer"] = 1]
  /\ UNCHANGED <<powerStatus, flowValue, powerBy, sensors, panel>>

GetPropertyValue(c) ==
  /\ \E f \in DOMAIN Shown : panel' = [panel EXCEPT ![c][f] = Shown[f]]
  /\ UNCHANGED <<controls, sensors, update>>

-----------------------------------------------------------------------------
(* Signals *)

\* VMarshalArgs starts from AJ_ERR_UNEXPECTED and only an argument changes that.
MarshalArgsOK(args) == args # <<>>

\* Mutant of LastArgs: the power signal lacks its break, too.
LastArgsPowerRunsOn(signal) ==
  IF signal \in {"power", "flow", "timer", "reset"} THEN <<>> ELSE <<"i">>

\* The arguments of the last AJ_MarshalArgs call of a signal, whose status is
\* the one kept: flow and timer have no break and run on into reset.
LastArgs(signal) == IF signal \in {"flow", "timer", "reset"} THEN <<>> ELSE <<"i">>

\* AJ_OK from SendSignalPropertyValueChanged, if the transport takes the message.
Sent(signal, taken) == MarshalArgsOK(LastArgs(signal)) /\ taken

\* Mutant of SendUpdate: the flag is cleared whatever the status.
SendUpdateOnce(flag, taken) == 0

\* The flag is cleared only when the signal was sent.
SendUpdate(flag, taken) == IF Sent(flag, taken) THEN 0 ELSE update[flag]

\* What each client shows once it hears the power signal: a panel darkens what
\* the device cleared when it went off.
HeardPower ==
  [c \in Clients |->
     IF powerStatus = 0
     THEN [panel[c] EXCEPT !.power = 0, !.led = NoLed, !.monitor = -1]
     ELSE [panel[c] EXCEPT !.power = powerStatus]]

\* The clients of the audience hear a signal if it is sent.
Tell(audience, sent, heard) ==
  panel' = [c \in Clients |-> IF sent /\ c \in audience THEN heard[c] ELSE panel[c]]

SendPowerStatusUpdate(audience, taken) ==
  /\ update["power"] = 1
  /\ update' = [update EXCEPT !["power"] = SendUpdate("power", taken)]
  /\ Tell(audience, Sent("power", taken), HeardPower)
  /\ UNCHANGED <<controls, sensors>>

Idle ==
  /\ update["power"] = 0
  /\ powerStatus = 0
  /\ UNCHANGED vars

\* One sensor moves at most, and its signal is tried once.
SenseNothing ==
  UNCHANGED <<sensors, panel>>

SenseLed(audience, taken) ==
  \E l \in Leds :
    /\ led' = [led EXCEPT ![l] = 1 - @]
    /\ Tell(audience, Sent("led", taken),
            [c \in Clients |-> [panel[c] EXCEPT !.led[l] = led'[l]]])
    /\ UNCHANGED monitor

SenseMonitor(audience, taken) ==
  \E step \in {-1, 1} :
    /\ monitor + step \in -1 .. MaxMonitor
    /\ monitor' = monitor + step
    /\ Tell(audience, Sent("monitor", taken),
            [c \in Clients |-> [panel[c] EXCEPT !.monitor = monitor']])
    /\ UNCHANGED led

\* The three flags before the sensors, in the order of the code.  None of their
\* signals reaches the transport, so at most one message of a pass does.
SendUpdates(audience, taken) ==
  /\ update["power"] = 0
  /\ powerStatus # 0
  /\ update' = [f \in Flags |->
                  IF f = "power" THEN 0 ELSE SendUpdate(f, taken)]
  /\ \/ SenseNothing
     \/ SenseLed(audience, taken)
     \/ SenseMonitor(audience, taken)
  /\ UNCHANGED controls

\* A pass over the update flags; taken is the transport's answer.
Controlee_DoWork(audience, taken) ==
  \/ SendPowerStatusUpdate(audience, taken)
  \/ Idle
  \/ SendUpdates(audience, taken)

-----------------------------------------------------------------------------
HandleMessage ==
  \/ PowerON
  \/ PowerOFF
  \/ Reset
  \/ \E v \in PowerInputs : SetPowerStatus(v)
  \/ \E v \in FlowInputs : SetFanSpeedValue(v)
  \/ \E v \in TimerInputs : SetTimerValue(v)
  \/ \E c \in Clients : GetPropertyValue(c)

Next ==
  \/ HandleMessage
  \/ \E taken \in BOOLEAN : Controlee_DoWork(Clients, taken)

Spec == Init /\ [][Next]_vars

\* The loop runs a pass whenever the bus stays silent for a second; a link that
\* refuses every message is taken down by the loop, so one is taken eventually.
FairSpec == Spec /\ WF_vars(Controlee_DoWork(Clients, TRUE))
-----------------------------------------------------------------------------
\* The device state stays in the ranges of its C types and of its scales.
TypeOK ==
  /\ powerStatus \in Uint8 /\ flowValue \in Uint16 /\ timerValue \in Uint16
  /\ led \in [Leds -> {0, 1}]
  /\ monitor \in -1 .. MaxMonitor
  /\ update \in [Flags -> {0, 1}]
  /\ powerBy \in {"method", "property"}
  /\ panel \in [Clients -> View]

\* A device switched off by its method shows no LED and no pollution level,
\* whatever commands and passes come after: no pass senses anything until it is
\* on again (ControlPanelProvided.c PowerOFF, the early return of Controlee_DoWork).
DarkWhenOff ==
  powerStatus = 0 /\ powerBy = "method" => led = NoLed /\ monitor = -1

\* Once no power signal is due, every client shows the power status the last
\* method set: a signal that failed stays due, and no command in between, no
\* pass and no read loses it (sendPowerStatusUpdate clears its flag on AJ_OK).
PowerAgree ==
  update["power"] = 0 /\ powerBy = "method" =>
    \A c \in Clients : panel[c].power = powerStatus

\* A power signal that is due is sent at last, however often sends fail and the
\* device is switched again, and then every client shows the status of that time.
PowerConverges ==
  update["power"] = 1 ~>
    update["power"] = 0 /\ \A c \in Clients : panel[c].power = powerStatus

\* ControlPanelSample.c:101 says of the update signals that each is sent only
\* once: a pass over a device that is on, whose messages the transport takes,
\* leaves none of them due.
TakenPassSendsAll ==
  [][SendUpdates(Clients, TRUE) => update' = [f \in Flags |-> 0]]_vars

=============================================================================

------------------------- MODULE DehumidifierProofs -------------------------
(***************************************************************************)
(* Safety of the dehumidifier and its panels, for any clients, any sensors *)
(* and any values the clients write.                                       *)
(***************************************************************************)
EXTENDS Dehumidifier, TLAPS

\* What the panels show on a power signal are views again, of that status.
LEMMA HeardPowerView ==
  ASSUME TypeOK
  PROVE  /\ HeardPower \in [Clients -> View]
         /\ \A c \in Clients : HeardPower[c].power = powerStatus
<1>1. NoLed \in [Leds -> {0, 1}] /\ -1 \in -1 .. MaxMonitor /\ 0 \in Uint8
  BY MonitorAssumption DEF NoLed, Uint8
<1>2. CASE powerStatus = 0
  BY <1>1, <1>2 DEF HeardPower, View, TypeOK
<1>3. CASE powerStatus # 0
  BY <1>3 DEF HeardPower, View, TypeOK
<1> QED BY <1>2, <1>3

\* The device's values keep their types and its update countdown stays within
\* its bound, whatever methods and property writes set.
THEOREM TypeOKHolds == Spec => []TypeOK
<1>1. Init => TypeOK
  BY MonitorAssumption
  DEF Init, TypeOK, Uint8, Uint16, NoLed, Flags, View, Shown
<1>2. TypeOK /\ [Next]_vars => TypeOK'
  <2> SUFFICES ASSUME TypeOK, [Next]_vars PROVE TypeOK'
    OBVIOUS
  <2> USE DEF TypeOK
  <2>1. CASE PowerON
    BY <2>1 DEF PowerON, sensors, Uint8, Flags
  <2>2. CASE PowerOFF
    <3>1. /\ powerStatus' \in Uint8 /\ flowValue' \in Uint16 /\ timerValue' \in Uint16
          /\ monitor' \in -1 .. MaxMonitor
      BY <2>2, MonitorAssumption DEF PowerOFF, Uint8, Uint16
    <3>2. led' \in [Leds -> {0, 1}] /\ update' \in [Flags -> {0, 1}]
      BY <2>2 DEF PowerOFF, NoLed, Flags
    <3>3. powerBy' \in {"method", "property"} /\ panel' = panel
      BY <2>2 DEF PowerOFF
    <3> QED BY <3>1, <3>2, <3>3
  <2>3. CASE Reset
    BY <2>3 DEF Reset, controls, Flags
  <2>4. ASSUME NEW v \in PowerInputs, SetPowerStatus(v) PROVE TypeOK'
    BY <2>4, InputAssumption DEF SetPowerStatus, sensors, Uint8
  <2>5. ASSUME NEW v \in FlowInputs, SetFanSpeedValue(v) PROVE TypeOK'
    <3>1. flowValue' \in Uint16
      BY <2>5, InputAssumption DEF SetFanSpeedValue, Uint16
    <3>2. update' \in [Flags -> {0, 1}]
      BY <2>5 DEF SetFanSpeedValue, Flags
    <3>3. UNCHANGED <<powerStatus, timerValue, powerBy, led, monitor, panel>>
      BY <2>5 DEF SetFanSpeedValue, sensors
    <3> QED BY <3>1, <3>2, <3>3
  <2>6. ASSUME NEW v \in TimerInputs, SetTimerValue(v) PROVE TypeOK'
    <3>1. timerValue' \in Uint16
      BY <2>6, InputAssumption DEF SetTimerValue, Uint16
    <3>2. update' \in [Flags -> {0, 1}]
      BY <2>6 DEF SetTimerValue, Flags
    <3>3. UNCHANGED <<powerStatus, flowValue, powerBy, led, monitor, panel>>
      BY <2>6 DEF SetTimerValue, sensors
    <3> QED BY <3>1, <3>2, <3>3
  <2>7. ASSUME NEW c \in Clients, GetPropertyValue(c) PROVE TypeOK'
    <3>1. PICK f \in DOMAIN Shown : panel' = [panel EXCEPT ![c][f] = Shown[f]]
      BY <2>7 DEF GetPropertyValue
    <3>2. Shown \in View
      BY DEF Shown, View
    <3>3. panel' \in [Clients -> View]
      <4>1. panel[c] \in View
        OBVIOUS
      <4>2. [panel[c] EXCEPT ![f] = Shown[f]] \in View
        BY <3>1, <3>2, <4>1 DEF View, Shown
      <4> QED BY <3>1, <4>2
    <3> QED BY <2>7, <3>3 DEF GetPropertyValue, controls, sensors
  <2>8. ASSUME NEW taken \in BOOLEAN, Controlee_DoWork(Clients, taken) PROVE TypeOK'
    <3>1. CASE SendPowerStatusUpdate(Clients, taken)
      <4>1. HeardPower \in [Clients -> View]
        BY HeardPowerView
      <4> QED BY <3>1, <4>1
        DEF SendPowerStatusUpdate, Tell, SendUpdate, Flags, controls, sensors
    <3>2. CASE Idle
      BY <3>2 DEF Idle, vars, controls, sensors
    <3>3. CASE SendUpdates(Clients, taken)
      <4>1. update' \in [Flags -> {0, 1}]
        BY <3>3 DEF SendUpdates, SendUpdate
      <4>2. /\ led' \in [Leds -> {0, 1}]
            /\ monitor' \in -1 .. MaxMonitor
            /\ panel' \in [Clients -> View]
        <5>1. CASE SenseNothing
          BY <5>1 DEF SenseNothing, sensors
        <5>2. CASE SenseLed(Clients, taken)
          <6>1. PICK l \in Leds :
                  /\ led' = [led EXCEPT ![l] = 1 - @]
                  /\ Tell(Clients, Sent("led", taken),
                          [c \in Clients |-> [panel[c] EXCEPT !.led[l] = led'[l]]])
                  /\ UNCHANGED monitor
            BY <5>2 DEF SenseLed
          <6>2. led' \in [Leds -> {0, 1}]
            BY <6>1
          <6>3. \A c \in Clients : [panel[c] EXCEPT !.led[l] = led'[l]] \in View
            BY <6>2 DEF View
          <6> QED BY <6>1, <6>2, <6>3 DEF Tell
        <5>3. CASE SenseMonitor(Clients, taken)
          <6>1. /\ monitor' \in -1 .. MaxMonitor
                /\ Tell(Clients, Sent("monitor", taken),
                        [c \in Clients |-> [panel[c] EXCEPT !.monitor = monitor']])
                /\ UNCHANGED led
            BY <5>3 DEF SenseMonitor
          <6>2. \A c \in Clients : [panel[c] EXCEPT !.monitor = monitor'] \in View
            BY <6>1 DEF View
          <6> QED BY <6>1, <6>2 DEF Tell
        <5> QED BY <3>3, <5>1, <5>2, <5>3 DEF SendUpdates
      <4> QED BY <3>3, <4>1, <4>2 DEF SendUpdates, controls
    <3> QED BY <2>8, <3>1, <3>2, <3>3 DEF Controlee_DoWork
  <2>9. CASE UNCHANGED vars
    BY <2>9 DEF vars, controls, sensors
  <2> QED BY <2>1, <2>2, <2>3, <2>4, <2>5, <2>6, <2>7, <2>8, <2>9
    DEF Next, HandleMessage
<1> QED BY <1>1, <1>2, PTL DEF Spec

-----------------------------------------------------------------------------
\* A device switched off by its method stays dark (DarkWhenOff), for any
\* sensors and any commands.  No strengthening but the types is needed: what
\* lights a sensor is a pass over a device that is on.
THEOREM DarkWhenOffHolds == Spec => []DarkWhenOff
<1>1. Init => DarkWhenOff
  BY DEF Init, DarkWhenOff
<1>2. TypeOK /\ DarkWhenOff /\ [Next]_vars => DarkWhenOff'
  <2> SUFFICES ASSUME TypeOK, DarkWhenOff, [Next]_vars PROVE DarkWhenOff'
    OBVIOUS
  <2> USE DEF DarkWhenOff
  <2>1. CASE PowerON
    BY <2>1 DEF PowerON
  <2>2. CASE PowerOFF
    BY <2>2 DEF PowerOFF, NoLed
  <2>3. CASE Reset
    <3>1. led = NoLed => led' = NoLed
      BY <2>3 DEF Reset, NoLed
    <3> QED BY <2>3, <3>1 DEF Reset, controls, NoLed
  <2>4. ASSUME NEW v \in PowerInputs, SetPowerStatus(v) PROVE DarkWhenOff'
    BY <2>4 DEF SetPowerStatus
  <2>5. ASSUME NEW v \in FlowInputs, SetFanSpeedValue(v) PROVE DarkWhenOff'
    BY <2>5 DEF SetFanSpeedValue, sensors, NoLed
  <2>6. ASSUME NEW v \in TimerInputs, SetTimerValue(v) PROVE DarkWhenOff'
    BY <2>6 DEF SetTimerValue, sensors, NoLed
  <2>7. ASSUME NEW c \in Clients, GetPropertyValue(c) PROVE DarkWhenOff'
    BY <2>7 DEF GetPropertyValue, controls, sensors, NoLed
  <2>8. ASSUME NEW taken \in BOOLEAN, Controlee_DoWork(Clients, taken)
        PROVE DarkWhenOff'
    BY <2>8 DEF Controlee_DoWork, SendPowerStatusUpdate, Idle, SendUpdates,
                vars, controls, sensors, NoLed
  <2>9. CASE UNCHANGED vars
    BY <2>9 DEF vars, controls, sensors, NoLed
  <2> QED BY <2>1, <2>2, <2>3, <2>4, <2>5, <2>6, <2>7, <2>8, <2>9
    DEF Next, HandleMessage
<1> QED BY <1>1, <1>2, TypeOKHolds, PTL DEF Spec

\* Once no power signal is due, every client shows the power status the last
\* method set (PowerAgree), whatever sends failed and whatever was read.
THEOREM PowerAgreeHolds == Spec => []PowerAgree
<1>1. Init => PowerAgree
  <2> SUFFICES ASSUME Init, NEW c \in Clients PROVE panel[c].power = powerStatus
    BY DEF PowerAgree
  <2>1. panel[c] = Shown
    BY DEF Init
  <2> QED BY <2>1 DEF Shown
<1>2. TypeOK /\ PowerAgree /\ [Next]_vars => PowerAgree'
  <2> SUFFICES ASSUME TypeOK, PowerAgree, [Next]_vars PROVE PowerAgree'
    OBVIOUS
  <2> USE DEF PowerAgree, TypeOK
  <2>1. CASE PowerON
    BY <2>1 DEF PowerON, Flags
  <2>2. CASE PowerOFF
    BY <2>2 DEF PowerOFF, Flags
  <2>3. CASE Reset
    BY <2>3 DEF Reset, controls, Flags
  <2>4. ASSUME NEW v \in PowerInputs, SetPowerStatus(v) PROVE PowerAgree'
    BY <2>4 DEF SetPowerStatus
  <2>5. ASSUME NEW v \in FlowInputs, SetFanSpeedValue(v) PROVE PowerAgree'
    BY <2>5 DEF SetFanSpeedValue, Flags
  <2>6. ASSUME NEW v \in TimerInputs, SetTimerValue(v) PROVE PowerAgree'
    BY <2>6 DEF SetTimerValue, Flags
  <2>7. ASSUME NEW c \in Clients, GetPropertyValue(c) PROVE PowerAgree'
    <3>1. PICK f \in DOMAIN Shown : panel' = [panel EXCEPT ![c][f] = Shown[f]]
      BY <2>7 DEF GetPropertyValue
    <3>2. panel'[c].power \in {panel[c].power, powerStatus}
      <4>1. panel[c] \in View
        OBVIOUS
      <4> QED BY <3>1, <4>1 DEF View, Shown
    <3>3. \A d \in Clients \ {c} : panel'[d] = panel[d]
      BY <3>1
    <3> QED BY <2>7, <3>2, <3>3 DEF GetPropertyValue, controls
  <2>8. ASSUME NEW taken \in BOOLEAN, Controlee_DoWork(Clients, taken)
        PROVE PowerAgree'
    <3>1. CASE SendPowerStatusUpdate(Clients, taken)
      <4>1. \A c \in Clients : HeardPower[c].power = powerStatus
        BY HeardPowerView
      <4>2. update'["power"] = 0 => Sent("power", taken)
        BY <3>1 DEF SendPowerStatusUpdate, SendUpdate, Flags
      <4> QED BY <3>1, <4>1, <4>2 DEF SendPowerStatusUpdate, Tell, controls
    <3>2. CASE Idle
      BY <3>2 DEF Idle, vars, controls
    <3>3. CASE SendUpdates(Clients, taken)
      <4>1. \A c \in Clients : panel'[c].power = panel[c].power
        <5>1. CASE SenseNothing
          BY <5>1 DEF SenseNothing
        <5>2. CASE SenseLed(Clients, taken)
          BY <5>2 DEF SenseLed, Tell, View
        <5>3. CASE SenseMonitor(Clients, taken)
          BY <5>3 DEF SenseMonitor, Tell, View
        <5> QED BY <3>3, <5>1, <5>2, <5>3 DEF SendUpdates
      <4> QED BY <3>3, <4>1 DEF SendUpdates, controls
    <3> QED BY <2>8, <3>1, <3>2, <3>3 DEF Controlee_DoWork
  <2>9. CASE UNCHANGED vars
    BY <2>9 DEF vars, controls
  <2> QED BY <2>1, <2>2, <2>3, <2>4, <2>5, <2>6, <2>7, <2>8, <2>9
    DEF Next, HandleMessage
<1> QED BY <1>1, <1>2, TypeOKHolds, PTL DEF Spec

=============================================================================

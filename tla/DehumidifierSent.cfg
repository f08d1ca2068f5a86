SPECIFICATION Spec
CONSTANTS
  Clients = {c1}
  Leds = {grid}
  ServiceLeds = {grid}
  MaxMonitor = 0
  PowerInputs = {0, 257}
  FlowInputs = {1}
  TimerInputs = {}
  c1 = c1
  grid = grid
PROPERTIES
  TakenPassSendsAll

SPECIFICATION FairSpec
CONSTANTS
  Clients = {c1}
  Leds = {odor, grid}
  ServiceLeds = {grid}
  MaxMonitor = 1
  PowerInputs = {0, 257}
  FlowInputs = {1}
  TimerInputs = {65537}
  c1 = c1
  odor = odor
  grid = grid
INVARIANTS
  TypeOK
  DarkWhenOff
  PowerAgree
PROPERTY PowerConverges

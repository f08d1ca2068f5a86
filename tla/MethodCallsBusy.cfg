CONSTANTS
  NumContexts = 2
  MaxCalls = 2
  LastSerial = 5
  FirstSerials = {1}
  Timeouts = {1}
  SessionIds = {21}
SPECIFICATION LoopSpec
PROPERTY TimeoutsReported
CHECK_DEADLOCK FALSE

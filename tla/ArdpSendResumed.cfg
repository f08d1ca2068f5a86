SPECIFICATION Spec
CONSTANTS
  SegMax = 2
  MaxDlen = 2
  MsgLens = {1, 3}
  ConnectRetries = 1
  MinDataRetries = 1
  Keepalives = 1
  Patience = 2
  MaxSegment = 3
  MaxAcks = 1
  Faults = {"send"}
INVARIANT AssertionsHold
CHECK_DEADLOCK FALSE

SPECIFICATION Spec
CONSTANTS
  SegMax = 2
  MaxDlen = 2
  MsgLens = {1, 3}
  ConnectRetries = 2
  MinDataRetries = 1
  Keepalives = 1
  Patience = 2
  MaxSegment = 3
  MaxAcks = 2
  Faults = {"send", "reorder"}
INVARIANTS TypeOK WindowAgrees WithinWindowInOrder
CHECK_DEADLOCK FALSE

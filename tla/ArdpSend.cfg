SPECIFICATION FairSpec
CONSTANTS
  SegMax = 2
  MaxDlen = 2
  MsgLens = {1, 3}
  ConnectRetries = 1
  MinDataRetries = 0
  Keepalives = 1
  Patience = 2
  MaxSegment = 3
  MaxAcks = 1
  Faults = {"send"}
INVARIANTS TypeOK WindowAgrees WithinWindowInOrder
PROPERTY Drains
CHECK_DEADLOCK FALSE

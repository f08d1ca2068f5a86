SPECIFICATION Spec
CONSTANTS
  SegMax = 2
  MaxDlen = 1
  MsgLens = {1, 2}
  ConnectRetries = 1
  MinDataRetries = 1
  Keepalives = 1
  Patience = 2
  MaxSegment = 6
  MaxAcks = 2
  Faults = {"reorder"}
INVARIANT WithinPeerWindow
CHECK_DEADLOCK FALSE

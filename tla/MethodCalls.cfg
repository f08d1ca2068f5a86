CONSTANTS
  NumContexts = 2
  MaxCalls = 3
  LastSerial = 5
  FirstSerials = {1, 4}
  Timeouts = {1, 2}
  SessionIds = {21, 22}
SPECIFICATION FairSpec
INVARIANTS TypeOK PoolAgrees ToldOnce JoinsOnRecord
PROPERTY ContextsFreed
CHECK_DEADLOCK FALSE

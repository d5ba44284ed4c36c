SPECIFICATION Safety
CONSTANTS
  Msgs = {m1}
  Ids = {m1}
  MsgId <- OwnIds
  MaxRequests = 1
INVARIANT CachedQueueAlive
CHECK_DEADLOCK FALSE

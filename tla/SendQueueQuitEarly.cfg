SPECIFICATION Safety
CONSTANTS
  Msgs = {m1}
  Ids = {m1}
  MsgId <- OwnIds
  MaxRequests = 1
INVARIANT QuitsAfterStart
CHECK_DEADLOCK FALSE

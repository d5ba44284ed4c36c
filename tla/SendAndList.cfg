SPECIFICATION SendAndListSpec
CONSTANTS
  Msgs = {m1, m2}
  Ids = {m1, m2}
  MsgId <- OwnIds
  MaxRequests = 1
  MaxDate = 2
  Latest = 1
  MaxChanges = 2
  MaxModels = 2
SYMMETRY MsgSymmetry
INVARIANT RunOpWhileSending
INVARIANT SendingIsReal
INVARIANT NoQuitWhileSending
INVARIANT NoMessageHidden
INVARIANT RowsMatchSearch
INVARIANT ListFollowsFolder
CHECK_DEADLOCK FALSE

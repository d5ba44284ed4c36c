SPECIFICATION ShutdownSpec
CONSTANTS
  Ops = {o1, o2}
  Windows = {w1}
  NoSource = NoSource
  UserTypes <- MCUserTypes
  Outcomes <- MCFailure
  LocalAccounts = 1
  MaxExitIdles = 2
  Remote = {a1, a2}
INVARIANT OfflineHeals
INVARIANT ShutdownWaitsForAccounts
PROPERTY QuitsInTheEnd
CHECK_DEADLOCK FALSE

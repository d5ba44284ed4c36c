SPECIFICATION ShutdownSafety
CONSTANTS
  Ops = {o1, o2}
  Windows = {w1}
  NoSource = NoSource
  UserTypes <- MCUserTypes
  Outcomes <- MCOutcomes
  LocalAccounts = 1
  MaxExitIdles = 2
  Remote = {a1}
INVARIANT QuitsOnce
CHECK_DEADLOCK FALSE

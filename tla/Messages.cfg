SPECIFICATION MessagesSpec
CONSTANTS
  MaxEditors = 2
  MaxMessages = 3
  MaxTexts = 2
  MaxFaults = 1
  Tasks = {t1}
  Mails = {m1, m2}
  MaxParts = 2
  MaxErrors = 2
  Headers = {h1, h2}
  NoHeader = NoHeader
  MaxViewers = 2
  MaxFetches = 2
  Parts = {1, 2}
  Saves = {s1}
  Opens = {d1}
  Actions = {x1}
  Ops = {o1, o2, o3}
  UserTypes <- MCUserTypes
  Outcomes <- MCOutcomes
INVARIANT LeavesOnce
INVARIANT EmptyReportDue
INVARIANT ReportFitsLastFile
INVARIANT SavedIsKept
INVARIANT TextIsHandedOver
INVARIANT DraftIsLive
INVARIANT OneCopy
INVARIANT HeardInOrder
INVARIANT SuccessIsTrue
INVARIANT BeingSentIsSpared
INVARIANT RowIsShown
INVARIANT RegistryIsFreed
CHECK_DEADLOCK FALSE

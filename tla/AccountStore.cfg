SPECIFICATION BothSpec
CONSTANTS
  Names = {n1, n2}
  NoName = NoName
  Specifics = {s1}
  MaxMade = 4
  MaxFaults = 1
  Updates = {u1, u2}
  root = root
  inbox = inbox
  sub = sub
  other = other
  m1 = m1
  m2 = m2
  m3 = m3
  Root = root
  Folders = {inbox, sub, other}
  Parent <- MCParent
  Inbox = inbox
  UpdateAll = TRUE
  Home <- MCHome
  Msgs = {m1}
  Small = {m1}
  RetrieveLimit = 0
  MaxPosition = 0
SYMMETRY BothSymmetry
INVARIANT AccountsLoad
INVARIANT HasAccountsIsTrue
INVARIANT NoOrphanServers
INVARIANT OutboxMatchesAccounts
INVARIANT QueueHasAccount
INVARIANT NoStrayMail
INVARIANT SpecificsWithRemote
INVARIANT HelperHasCaller
INVARIANT BusyOnlyWhileUpdating
INVARIANT SuccessIsComplete
PROPERTY AccountsAreAtomic
CONSTRAINT FewAtOnce
CHECK_DEADLOCK FALSE

SPECIFICATION LiveSpec
CONSTANTS
  Updates = {u1}
  root = root
  inbox = inbox
  sub = sub
  other = other
  m1 = m1
  m2 = m2
  m3 = m3
  Root = root
  Folders = {inbox, sub, other}
  Parent <- MCParent
  Inbox = inbox
  UpdateAll = TRUE
  Home <- MCHome
  Msgs = {m1, m2, m3}
  Small = {m1, m2, m3}
  RetrieveLimit = 2
  MaxPosition = 1
  SendMsgs = {m1}
  MaxRequests = 1
  Tasks = {t1}
  Mails = {n1, n2}
  MaxParts = 2
  MaxErrors = 1
  Ops = {o1, o2}
  Toolkit = "hildon2"
  Jobs = {j1}
  Remote = {a1, a2}
  Pop = {a2}
  Local = Local
  DeviceOnly = DeviceOnly
  b1 = b1
  b2 = b2
  b3 = b3
  b4 = b4
  b5 = b5
  local = local
  plugin = plugin
  multi = multi
  StoreAccounts <- MCStoreAccounts
  LocalAccount = local
  Multi = {multi}
  Provider = {plugin}
  TnyFolders = {b1, b2, b3, b4, b5}
  Under <- InEach
  FolderStores = {b4}
  Inboxes = {b2, b3, b5}
  MaxTries = 2
  NoFolder = NoFolder
INVARIANT TellsWhatItSaw
INVARIANT AnswersAreComplete
PROPERTY ReportsWhenEmpty
PROPERTY PerformersRun
PROPERTY UpdatesEnd
PROPERTY SendingEnds
PROPERTY RequestsAnswered
PROPERTY TasksEnd
CHECK_DEADLOCK FALSE

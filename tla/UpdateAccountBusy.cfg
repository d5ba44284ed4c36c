SPECIFICATION Safety
CONSTANTS
  Updates = {u1, u2}
  root = root
  inbox = inbox
  sub = sub
  other = other
  m1 = m1
  m2 = m2
  m3 = m3
  Root = root
  Folders = {inbox, sub, other}
  Parent <- MCParent
  Inbox = inbox
  UpdateAll = TRUE
  Home <- MCHome
  Msgs = {m1}
  Small = {m1}
  RetrieveLimit = 0
  MaxPosition = 1
INVARIANT BusyWhileUpdating
CHECK_DEADLOCK FALSE

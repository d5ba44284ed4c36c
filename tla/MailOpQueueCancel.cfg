SPECIFICATION Safety
CONSTANTS
  Ops = {o1, o2}
  UserTypes <- MCUserTypes
  Outcomes <- MCOutcomes
PROPERTY CanceledStaysCanceled
CHECK_DEADLOCK FALSE

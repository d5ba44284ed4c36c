SPECIFICATION AttachSpec
CONSTANTS
  Parts = {1, 2}
  Saves = {s1}
  Opens = {d1}
  Actions = {x1}
INVARIANT TransferModeIsTrue
CHECK_DEADLOCK FALSE

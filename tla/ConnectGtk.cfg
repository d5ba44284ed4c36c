SPECIFICATION ConnectSpec
CONSTANTS
  Toolkit = "gtk"
  Jobs = {j1, j2}
  Remote = {a1, a2}
  Pop = {a2}
  Local = Local
  DeviceOnly = DeviceOnly
PROPERTY PerformersRun
CHECK_DEADLOCK FALSE

SPECIFICATION Spec
CONSTANTS
  BatchLimit = 2
  TailLimit = 2
  AppendFaults = {"torn"}
  MaxLogs = 3
  MaxCrashes = 0
INVARIANT LoggedIsReadable
CHECK_DEADLOCK FALSE

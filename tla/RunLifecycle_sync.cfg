SPECIFICATION Spec
CONSTANTS
  Explicit = {"exact"}
  None = None
  MaxMetrics = 1
  MaxOthers = 1
  Parsed <- ReadValues
  Served <- ServedMetrics
INVARIANT SyncIsComplete
CHECK_DEADLOCK FALSE

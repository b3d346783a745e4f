SPECIFICATION Spec
CONSTANTS
  Explicit = {"exact", "long"}
  None = None
  MaxMetrics = 2
  MaxOthers = 1
  Parsed <- ReadValues
  Served <- ServedMetrics
INVARIANTS FinishedIsComplete ReclaimedIsStored RequestsAreCovered LostFinishIsRecognised LifecycleInv
PROPERTY FinishedRunIsFixed
CHECK_DEADLOCK FALSE

SPECIFICATION FairSpec
CONSTANTS
  BatchLimit = 2
  TailLimit = 2
  AppendFaults = {"torn", "unreported"}
  MaxLogs = 4
  MaxCrashes = 2
INVARIANTS StoredIsPrefix AckedIsStored NothingRefused CanReopen CrashesLoseNothing DeliveryInv
PROPERTIES CopiesReliably EveryPointArrives
CHECK_DEADLOCK FALSE

SPECIFICATION Spec
CONSTANTS
  Requests <- ThreeAndRival
  NoTask = NoTask
  Tasks = {t1}
  Readers = {}
  MinInputs = 2
  MaxInputs = 2
  RetirementBatch = 2
  PageLimit = 2
  HistoryLimit = 2
  Failures = {"write", "catalog", "commit", "verify", "remove", "shutdown"}
  Stuck = {}
  MaxCrashes = 1
INVARIANT ActiveHaveFiles
PROPERTY ImplementsRunLog

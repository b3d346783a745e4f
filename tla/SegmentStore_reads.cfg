SPECIFICATION Spec
CONSTANTS
  Requests <- ThreeBatches
  NoTask = NoTask
  Tasks = {t1, t2}
  Readers = {q1}
  MinInputs = 2
  MaxInputs = 2
  RetirementBatch = 2
  PageLimit = 1
  HistoryLimit = 2
  Failures = {"catalog", "commit", "shutdown"}
  Stuck = {}
  MaxCrashes = 0
INVARIANTS FilesAreOwned ReadersFindFiles ReadsAreExact
SYMMETRY TaskSymmetry

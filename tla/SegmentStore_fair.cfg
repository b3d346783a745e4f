SPECIFICATION FairSpec
CONSTANTS
  Requests <- TwoBatches
  NoTask = NoTask
  Tasks = {t1, t2}
  Readers = {q1}
  MinInputs = 2
  MaxInputs = 2
  RetirementBatch = 2
  PageLimit = 1
  HistoryLimit = 2
  Failures = {}
  Stuck <- FirstIsStuck
  MaxCrashes = 1
PROPERTIES RetiredAreRemoved EveryRequestEnds

SPECIFICATION Spec
CONSTANTS
  Histories <- MCHistories
  Files = 3
  Artifacts = 2
  BatchSize = 2
  ByteLimit = 2
  SplitLimit = 2
  MediaWindow = 2
  MediaWorkers = 2
  PersistInterval = 2
  FileChunk = 2
  ArtifactWindow = 2
  NoState = NoState
  MaxFaults = 1
  MaxRevision = 1
INVARIANT FailuresAreResumable

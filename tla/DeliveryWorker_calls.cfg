SPECIFICATION FairSpec
CONSTANTS
  NumStreams = 3
  CheckOrder <- ThreeStreams
  Loggers = {l1, l2}
  Owners = {"run", "sync"}
  MaxPending = 1
INVARIANTS OwnsWhileActive FinishedIsDelivered
PROPERTIES NoStreamStarves OwnershipEnds StopEnds
CHECK_DEADLOCK FALSE

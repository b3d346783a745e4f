SPECIFICATION Spec
CONSTANTS
  NumStreams = 2
  CheckOrder <- TwoStreams
  Loggers = {l1}
  Owners = {"run"}
  MaxPending = 1
INVARIANT StopDelivers
CHECK_DEADLOCK FALSE

SPECIFICATION FairExecSpec
CONSTANTS
  Command = {c1, c2}
  MaxQueueDepth = 2
CHECK_DEADLOCK FALSE
PROPERTIES
  StopReturns

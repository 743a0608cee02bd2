SPECIFICATION FairSpec
CONSTANTS
  c1 = c1
  c2 = c2
  c3 = c3
  home = home
  valve = valve
  Command <- MCCommand
  TaskIdOf <- MCTaskIdOf
  SeqOf <- MCSeqOf
  MaxQueueDepth = 1
  TaskTimeout = 0
CHECK_DEADLOCK FALSE
INVARIANTS
  ResponseEchoesItsSeq

SPECIFICATION FairSpec
CONSTANTS
  Rails <- MCRails
  AllOff = "PWR_ALL_OFF"
  PeerCmd <- MCPeerCmd
  Io = "io"
  Worker = "worker"
  Outcomes = {"done", "lost", "failed"}
  LongTime = 4
  MaxCalls = 4
  MaxRestarts = 1
CHECK_DEADLOCK FALSE
INVARIANTS
  TypeOK
  AllOffResultIsTrue
  AllOffTriesEveryRail
PROPERTIES
  MinOnTimeRespected
  RisingEdgesSpaced
  EstopReturns

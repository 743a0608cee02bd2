SPECIFICATION FairSpec
CONSTANTS
  Rails <- MCRails
  AllOff = "PWR_ALL_OFF"
  PeerCmd <- MCPeerCmd
  Io = "io"
  Worker = "worker"
  Outcomes = {"done"}
  LongTime = 4
  MaxCalls = 3
  MaxRestarts = 0
CHECK_DEADLOCK FALSE
INVARIANTS
  EstopCutsPower

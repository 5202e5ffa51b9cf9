CONSTANTS
  Mss          = 4
  SackRoom     = 0
  RcvBuf       = 48
  Overhead     = 1
  SackOk       = TRUE
  Retries2     = 3
  SynRetries   = 2
  MaxSacks     = 3
  Total        <- MCTotal
  TotalActive  = 4
  TotalPassive = 0
  WriteSizes   = {1}
  ReadSizes    = {4}
  Readers      = {"passive"}
  Hasty        = {"active"}
  Corkers      = {}
  Closers      = {}
  Shutters     = {}
  Keepers      = {}
  Patient      = FALSE
  Retries1     = 1
  NetCap       = 8
  MaxLoss      = 1
  MaxDup       = 1
  MaxReorder   = 1
  MaxEarly     = 0
  MaxKeep      = 0
SPECIFICATION Spec
\* a connection that is closed, or whose users want nothing, stops
CHECK_DEADLOCK FALSE
INVARIANTS
  CountsRight
  SackedIsHeld
PROPERTIES
  NoShrink

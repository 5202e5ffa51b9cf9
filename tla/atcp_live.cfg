CONSTANTS
  Mss          = 2
  SackRoom     = 0
  RcvBuf       = 8
  Overhead     = 0
  SackOk       = FALSE
  Retries2     = 3
  SynRetries   = 2
  MaxSacks     = 3
  Total        <- MCTotal
  TotalActive  = 2
  TotalPassive = 0
  WriteSizes   = {1}
  ReadSizes    = {2}
  Readers      = {"active", "passive"}
  Hasty        = {}
  Corkers      = {}
  Closers      = {"active", "passive"}
  Shutters     = {"active"}
  Keepers      = {"passive"}
  Patient      = TRUE
  Retries1     = 1
  NetCap       = 3
  MaxLoss      = 1
  MaxDup       = 0
  MaxReorder   = 0
  MaxEarly     = 0
  MaxKeep      = 1
SPECIFICATION FairSpec
\* a connection that is closed, or whose users want nothing, stops
CHECK_DEADLOCK FALSE
PROPERTIES
  Delivered
  ClosedIsGone

CONSTANTS
  Mss          = 2
  SackRoom     = 0
  RcvBuf       = 12
  Overhead     = 1
  SackOk       = FALSE
  Retries2     = 3
  SynRetries   = 2
  MaxSacks     = 3
  Total        <- MCTotal
  TotalActive  = 3
  TotalPassive = 0
  WriteSizes   = {1, 2}
  ReadSizes    = {2}
  Readers      = {"passive"}
  Hasty        = {}
  Corkers      = {"active"}
  Closers      = {"active"}
  Shutters     = {}
  Keepers      = {}
  Patient      = FALSE
  Retries1     = 1
  NetCap       = 1
  MaxLoss      = 1
  MaxDup       = 0
  MaxReorder   = 0
  MaxEarly     = 1
  MaxKeep      = 0
SPECIFICATION Spec
\* a connection that is closed, or whose users want nothing, stops
CHECK_DEADLOCK FALSE
INVARIANTS
  StreamIntegrity
  AckedIsReceived
  WriteQueueWhole
  InFlightTimed

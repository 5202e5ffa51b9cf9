CONSTANTS
  MSS           = 1
  SegRoom       = 1
  RcvBuf        = 4
  MaxWindow     = 4
  InitCwnd      = 1
  WinMod        = 64
  MaxShift      = 3
  DupAckRexmit  = 3
  Patient       = TRUE
  Eager         = {"passive"}
  Junk          <- MCZeroed
  WriteSizes    <- MCWriteSizes
  ReadSizes     = {1, 4}
  MaxWrite      <- MCMaxWrite
  WritesActive  = {1, 3}
  WritesPassive = {1}
  TotalActive   = 3
  TotalPassive  = 0
  NetCap        = 9
  MaxLoss       = 1
  MaxDup        = 0
  MaxReorder    = 0
  MaxAlarms     = 3
  MaxNoMemory   = 0
SPECIFICATION FairSpec
\* a connection that is closed, or whose users want nothing, stops
CHECK_DEADLOCK FALSE
INVARIANTS
  AckedIsReceived
  FinAfterData
  InFlightIsTimed
PROPERTIES
  Delivered

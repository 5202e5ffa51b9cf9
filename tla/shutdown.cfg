CONSTANTS
  MSS           = 1
  SegRoom       = 1
  RcvBuf        = 8
  MaxWindow     = 8
  InitCwnd      = 2
  WinMod        = 64
  MaxShift      = 3
  DupAckRexmit  = 3
  Patient       = FALSE
  Eager         = {"active"}
  Junk          <- MCZeroed
  WriteSizes    <- MCWriteSizes
  ReadSizes     = {4}
  MaxWrite      <- MCMaxWrite
  WritesActive  = {1, 2}
  WritesPassive = {1}
  TotalActive   = 2
  TotalPassive  = 1
  NetCap        = 6
  MaxLoss       = 0
  MaxDup        = 0
  MaxReorder    = 0
  MaxAlarms     = 0
  MaxNoMemory   = 0
SPECIFICATION FairSpec
\* a connection that is closed, or whose users want nothing, stops
CHECK_DEADLOCK FALSE
INVARIANTS
  FinAckedIsReceived
PROPERTIES
  BothCloseEnds

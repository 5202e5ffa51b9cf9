CONSTANTS
  MSS           = 2
  SegRoom       = 2
  RcvBuf        = 8
  MaxWindow     = 8
  InitCwnd      = 2
  WinMod        = 64
  MaxShift      = 3
  DupAckRexmit  = 3
  Patient       = FALSE
  Eager         = {}
  Junk          <- MCZeroed
  WriteSizes    <- MCWriteSizes
  ReadSizes     = {4}
  MaxWrite      <- MCMaxWrite
  WritesActive  = {1, 2}
  WritesPassive = {1}
  TotalActive   = 4
  TotalPassive  = 0
  NetCap        = 6
  MaxLoss       = 0
  MaxDup        = 0
  MaxReorder    = 0
  MaxAlarms     = 1
  MaxNoMemory   = 0
SPECIFICATION Spec
\* a connection that is closed, or whose users want nothing, stops
CHECK_DEADLOCK FALSE
INVARIANTS
  SequenceConsumed

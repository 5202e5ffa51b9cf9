CONSTANTS
  MSS           = 1
  SegRoom       = 1
  RcvBuf        = 8
  MaxWindow     = 8
  InitCwnd      = 8
  WinMod        = 64
  MaxShift      = 3
  DupAckRexmit  = 1
  Patient       = FALSE
  Eager         = {"passive"}
  Junk          <- MCZeroed
  WriteSizes    <- MCWriteSizes
  ReadSizes     = {4}
  MaxWrite      <- MCMaxWrite
  WritesActive  = {2}
  WritesPassive = {1}
  TotalActive   = 2
  TotalPassive  = 0
  NetCap        = 6
  MaxLoss       = 0
  MaxDup        = 0
  MaxReorder    = 1
  MaxAlarms     = 1
  MaxNoMemory   = 1
SPECIFICATION Spec
\* a connection that is closed, or whose users want nothing, stops
CHECK_DEADLOCK FALSE
INVARIANTS
  SequenceConsumed
  StreamIntegrity

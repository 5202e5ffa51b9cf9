CONSTANTS
  MSS           = 2
  SegRoom       = 2
  RcvBuf        = 8
  MaxWindow     = 12
  InitCwnd      = 12
  WinMod        = 64
  MaxShift      = 3
  DupAckRexmit  = 3
  Patient       = FALSE
  Eager         = {}
  Junk          <- MCZeroed
  WriteSizes    <- MCWriteSizes
  ReadSizes     = {3}
  MaxWrite      <- MCMaxWrite
  WritesActive  = {7, 2}
  WritesPassive = {1}
  TotalActive   = 9
  TotalPassive  = 0
  NetCap        = 6
  MaxLoss       = 0
  MaxDup        = 1
  MaxReorder    = 0
  MaxAlarms     = 0
  MaxNoMemory   = 0
SPECIFICATION Spec
\* a connection that is closed, or whose users want nothing, stops
CHECK_DEADLOCK FALSE
INVARIANTS
  SendWithinWindow
  PromisedRoom
  PromiseKept

CONSTANTS
  MSS          = 1
  SegRoom      = 1
  RcvBuf       = 3
  MaxWindow    = 3
  InitCwnd     = 2
  WinMod       = 8
  MaxShift     = 2
  DupAckRexmit = 2
  Segments     <- MCSegments
  Junk         <- MCJunk
  WriteSizes   = {1, 2}
  ReadSizes    = {1}
  MaxWrite     = 2
  MaxDupAcks   = 2
  MaxQueue     = 2
SPECIFICATION Spec
\* a connection that is closed, or whose users want nothing, stops
CHECK_DEADLOCK FALSE
INVARIANTS
  TypeOK
  SendOrder
  TimeWaitEnds
  FinIsLast
  EveryTurnCounts

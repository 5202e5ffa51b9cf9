CONSTANTS
  Peers         = {p, q}
  SynMax        = 1
  AcceptMax     = 0
  Retries1      = 1
  SynTimeout    = 1
  SynTimeoutMax = 2
  Slots         = 4
  SynackPeriod  = 1
  TwkillPeriod  = 2
  MaxSyns       = 2
  MaxFaults     = 1
  MaxListens    = 1
  MaxUnder      = 1
  MaxBacklog    = 1
SPECIFICATION Spec
\* a host without a connection and with no one who asks for one stops
CHECK_DEADLOCK FALSE
SYMMETRY PeerSymmetry
INVARIANTS
  BacklogsCounted
  RequestTimed
  TimeWaitEnds
  RegisterIsHashed
PROPERTIES
  TimeWaitLasts

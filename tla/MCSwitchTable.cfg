CONSTANTS
  Mac <- Addresses
  Port = {p, q}
  Capacity = 2
  FirstThreshold = 1
  Thresholds <- Settings
  NoEntry = NoEntry
  MaxTime = 6
SYMMETRY PortSymmetry
SPECIFICATION Spec
INVARIANT TypeOK
INVARIANT CapacityRespected
INVARIANT OneTickChain
INVARIANT LearnedFollowsStation
INVARIANT ForgottenInTime

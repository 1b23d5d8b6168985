CONSTANTS
  a = a  b = b  c = c  p = p  q = q  r = r
  sa = sa  sb = sb  sc = sc  sp = sp  f = f  g = g  h = h
  Node = {a, b, c, p, q, r}
  Segment = {sa, sb, sc}
  FdSegment = {sa, sb, sc}
  Access <- StarAccess
  Route <- StarRoute
  Delay <- StarDelay
  Frame = {f, g, h}
  Duration <- Graded
  KindOf <- AllFrames
  IfgBits = 1
  AttemptLimit = 2
  DefaultConfig <- Usual
  Configs <- JustUsual
  DefaultBitTime = 1
  BitTimes = {1}
  BitTime <- Uniform
  SlotBits <- SixBits
  Delays <- Unchanging
  HashOrders <- AnyOne
  NoFrame = NoFrame
  Bridge = Bridge
  Port = {p, q, r}
  PortNo <- ThreePorts
  DecodeTime = 1
  Pulled = {sa}
  MaxRelayed = 9
  Offers <- TwoSenders
  PastAllowed = FALSE
  MaxEdits = 0
  MaxTime = 40
SPECIFICATION RelaySpec
INVARIANT OneClaimPerPort
CHECK_DEADLOCK FALSE

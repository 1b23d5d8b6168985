CONSTANTS
  a = a  b = b  c = c  p = p  q = q  r = r
  sa = sa  sb = sb  sc = sc  sp = sp  f = f  g = g  h = h
  Node = {a, b, c, p, q}
  Segment = {sa, sb, sc, sp}
  FdSegment = {sc}
  Access <- HubAccess
  Route <- HubRoute
  Delay <- HubDelay
  Frame = {f, g, h}
  Duration <- Graded
  KindOf <- AllFrames
  IfgBits = 2
  AttemptLimit = 1
  DefaultConfig <- Usual
  Configs <- JustUsual
  DefaultBitTime = 1
  BitTimes = {1}
  BitTime <- Uniform
  SlotBits <- SixBits
  Delays <- Unchanging
  HashOrders <- AnyOne
  NoFrame = NoFrame
  Bridge = Bridge
  Port = {p, q}
  PortNo <- TwoPorts
  DecodeTime = 1
  Pulled = {sa}
  MaxRelayed = 9
  Offers <- EachItsOwn
  PastAllowed = FALSE
  MaxEdits = 2
  MaxTime = 40
SPECIFICATION RelaySpec
INVARIANT RelayTypeOK
INVARIANT ForwardedOnce
INVARIANT SentInOrder
INVARIANT PortsServed
INVARIANT CollisionAnswered
PROPERTY ImplementsScheduler
PROPERTY PortsAreQueues
CHECK_DEADLOCK FALSE

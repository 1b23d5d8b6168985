CONSTANTS
  a = a  b = b  c = c  x = x  y = y  sa = sa  sb = sb  sc = sc  xy = xy
  f = f  g = g  h = h
  Node = {a, b, c}
  Segment = {sa, sb, sc}
  FdSegment = {}
  Access <- HubAccess
  Route <- HubRoute
  Delay <- HubDelayFar
  Frame = {f, g, h}
  Duration <- Graded
  KindOf <- AllFrames
  IfgBits = 2
  AttemptLimit = 2
  DefaultConfig <- Usual
  Configs <- JustUsual
  DefaultBitTime = 1
  BitTimes = {1}
  BitTime <- Uniform
  SlotBits <- SixBits
  Delays <- Unchanging
  HashOrders <- BothWays
  NoFrame = NoFrame
  Offers <- HubOffers
  PastAllowed = FALSE
  MaxEdits = 0
  MaxTime = 26
SPECIFICATION Spec
INVARIANT CarrierMatchesWire
INVARIANT CollisionAnswered
INVARIANT DeliveredUndisturbed
CHECK_DEADLOCK FALSE

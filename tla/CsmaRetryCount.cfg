CONSTANTS
  a = a  b = b  c = c  x = x  y = y  sa = sa  sb = sb  sc = sc  xy = xy
  f = f  g = g  h = h
  Node = {a, b}
  Segment = {sa}
  FdSegment = {}
  Access <- LinkAccess
  Route <- LinkRoute
  Delay <- LinkDelay
  Frame = {f, g}
  Duration <- Long
  KindOf <- AllFrames
  IfgBits = 1
  AttemptLimit = 2
  DefaultConfig <- Usual
  Configs <- JustUsual
  DefaultBitTime = 1
  BitTimes = {1}
  BitTime <- Uniform
  SlotBits <- SixBits
  Delays <- Unchanging
  HashOrders <- AnyOne
  NoFrame = NoFrame
  Offers <- OwnOffers
  PastAllowed = FALSE
  MaxEdits = 0
  MaxTime = 40
SPECIFICATION Spec
INVARIANT AttemptCountsTries
CHECK_DEADLOCK FALSE

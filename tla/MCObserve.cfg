CONSTANTS
  a = a  b = b  c = c  x = x  y = y  sa = sa  sb = sb  sc = sc  xy = xy
  f = f  g = g  h = h
  Node = {a, b, x, y}
  Segment = {sa, xy}
  FdSegment = {xy}
  Access <- MixedAccess
  Route <- MixedRoute
  Delay <- MixedDelay
  Frame = {f, g, h}
  Duration <- Graded
  KindOf <- OneJam
  IfgBits = 1
  AttemptLimit = 1
  DefaultConfig <- Usual
  Configs <- JustUsual
  DefaultBitTime = 1
  BitTimes = {1}
  BitTime <- Uniform
  SlotBits <- SixBits
  Delays <- Unchanging
  HashOrders <- AnyOne
  NoFrame = NoFrame
  Offers <- MixedOffers
  PastAllowed = FALSE
  MaxEdits = 1
  MaxTime = 20
SPECIFICATION ObserveSpec
INVARIANT TypeOK
INVARIANT KeysAhead
INVARIANT FullDuplexNeverCollides
INVARIANT SenseAgreesWithEngine
INVARIANT ReceivedOrReportedLost
PROPERTY PastAnswersStand
CHECK_DEADLOCK FALSE

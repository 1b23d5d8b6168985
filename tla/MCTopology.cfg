CONSTANTS
  Models <- SmallModels
  Cables <- AnyCable
  Delays = {1, 3}
  Rates = {4, 5}
  PicosPerSecond = 12
  MaxQuantity = 31
  DeltaH = 5
  LastNode = 2
  MaxNodes = 3
  MaxSegments = 3
  MaxBuilt = 2
SPECIFICATION Spec
INVARIANT TypeOK
INVARIANT PortsAndCablesAgree
INVARIANT CollisionDomainsAreTrees
INVARIANT EditAgreesWithBuild
INVARIANT DomainsShareIds
INVARIANT SerializersUnique
INVARIANT ReachIsTreePath
INVARIANT EgressReachesDomain
INVARIANT AttachmentsLive
INVARIANT OpaqueCopiesKeepLength
CONSTRAINT OneUnusual
CHECK_DEADLOCK FALSE

SPECIFICATION FairSignallingSpec
CONSTANTS
  u1 = u1
  v1 = v1
  pu = pu
  pv = pv
  h1 = h1
  Trackers = {u1, v1}
  PeerId <- MCPeerId
  InfoHash <- MCInfoHash
  Offers = 1
  MaxSockets = 5
  MaxLosses = 2
  None = None
INVARIANTS
  OffersCrossNot
  SocketsBounded
PROPERTIES
  AnnouncesSettle
  AnswersArrive
CHECK_DEADLOCK FALSE

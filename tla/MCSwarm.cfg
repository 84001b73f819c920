SPECIFICATION FairSpec
CONSTANTS
  o1 = o1
  i1 = i1
  a1 = a1
  a2 = a2
  a3 = a3
  x = x
  y = y
  id1 = id1
  NoPeer = NoPeer
  Offers = {o1}
  Inbound = {i1}
  Adds = {a1, a2, a3}
  AddrOf <- TwoAddresses
  Ids = {id1}
  Trackers <- Announced
  MaxConns = 1
  MaxQueuedPeers = 2
  OffersPerAnnounce = 1
INVARIANTS
  SlotsAreUsed
  LiveIsTracked
  DestroyIsFinal
PROPERTIES
  QueueMoves
CHECK_DEADLOCK FALSE

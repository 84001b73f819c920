SPECIFICATION Spec
CONSTANTS
  Null = Null
  Conns = {c1, c2}
  HttpIds = {web}
  InfoHashes = {h1, h2, h3}
  MaxTorrents = 2
  MaxPeersPerTorrent = 2
  MaxListed = 2
SYMMETRY Symmetry
INVARIANTS CacheSound SwarmsBounded ClosedLeaves
PROPERTIES LeavesForCause
CHECK_DEADLOCK FALSE

SPECIFICATION FairSpec
CONSTANTS
  here = here there = there Null = Null
  Ends = {here, there}
  Other <- Opposite
  NumPieces = 2
  Versions = {1, 2}
  Info = 1
  Foreign = {there}
  MaxTimeouts = 2
INVARIANTS CompleteIsGenuine MissingIsRequested
PROPERTIES GetsMetadata WireFallsSilent
CHECK_DEADLOCK FALSE

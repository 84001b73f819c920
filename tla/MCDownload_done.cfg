SPECIFICATION FairSpec
CONSTANTS
  NumPieces = 2
  PieceLength = 2
  LastLength = 1
  Rescans = {}
  Wires = {w1, w2}
  BlocksPerPiece = 1
  Slots = 1
  Faults = {}
  Storage = {"none"}
INVARIANT WaitsForWhatItMisses
PROPERTY EventuallyDone
CHECK_DEADLOCK FALSE

SPECIFICATION Spec
CONSTANTS
  NumPieces = 2
  PieceLength = 2
  LastLength = 1
  Receivers = {w1, w2}
  Rescans = {"rescan"}
INVARIANT DoneMeansComplete
SYMMETRY Symmetry

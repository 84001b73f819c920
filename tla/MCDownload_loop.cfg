SPECIFICATION Spec
CONSTANTS
  NumPieces = 2
  PieceLength = 2
  LastLength = 1
  Rescans = {"rescan"}
  Wires = {w1}
  BlocksPerPiece = 2
  Slots = 1
  Faults = {"choke", "close", "corrupt", "write"}
  Storage = {"none"}
INVARIANTS
  AnswersAreCollected
  WireIsBusy
PROPERTY AccountingRefined
CHECK_DEADLOCK FALSE

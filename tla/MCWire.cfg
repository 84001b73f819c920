SPECIFICATION FairSpec
CONSTANTS
  Blocks = {1}
  MaxPending = 1
  QueueBound = 1
  Uses <- LeechAndSeed
INVARIANTS
  NoProtocolError
  ViewsConverge
  RequestsAccounted
PROPERTY RequestsSettle
CHECK_DEADLOCK FALSE

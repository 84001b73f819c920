SPECIFICATION StreamSpec
CONSTANTS
  all = all none = none left = left right = right Null = Null
  Requests = {all, none}
  Pages = {left, right}
  Serves <- Registered
  FirstByte <- FirstOf
  LastByte <- LastOf
  BlockSize = 2
INVARIANT BodyIsWholeRange
CHECK_DEADLOCK FALSE

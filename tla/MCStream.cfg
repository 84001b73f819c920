SPECIFICATION FairStreamSpec
CONSTANTS
  all = all none = none left = left right = right Null = Null
  Requests = {all, none}
  Pages = {left, right}
  Serves <- Registered
  FirstByte <- FirstOf
  LastByte <- LastOf
  BlockSize = 2
INVARIANTS BodyIsPrefix Backpressure
PROPERTIES FetchIsAnswered BodyEnds CancelReleasesPage
CHECK_DEADLOCK FALSE

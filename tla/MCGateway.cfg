SPECIFICATION FairSpec
CONSTANTS
  Pages = {p1}
  MaxUpdates = 5
  Malformed <- SecondOne
  Handlers = 2
  ChannelCap = 2
  MaxFaults = 2
INVARIANTS
  TypeOK
  PageFollows
PROPERTIES
  PagesMoveForward
  LastUpdateShown
CHECK_DEADLOCK FALSE

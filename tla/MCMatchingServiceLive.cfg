SPECIFICATION FairSpec
CONSTANTS
  MaxOrderQuantity = 2
  MaxNotionalValue = 5
  MaxPriceDeviation = 1
  Half = 32
  Orders <- MCFew
  Unreadable <- NoPoison
  Capacity = 2
  MinPrice = 1
  MaxPrice = 3
  IndexModulus = 16
  QueueCap = 1
  OutboxCap = 1
  MaxTopic = 3
  MaxStream = 0
  MaxFaults = 1
  MaxStarts = 1
PROPERTIES
  PipelineMoves
  LoopsStop
CHECK_DEADLOCK FALSE

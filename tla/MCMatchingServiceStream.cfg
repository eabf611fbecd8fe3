SPECIFICATION Spec
CONSTANTS
  MaxOrderQuantity = 2
  MaxNotionalValue = 5
  MaxPriceDeviation = 1
  Half = 32
  Orders <- MCFew
  Unreadable <- NoPoison
  Capacity = 2
  MinPrice = 1
  MaxPrice = 3
  IndexModulus = 16
  QueueCap = 1
  OutboxCap = 1
  MaxTopic = 1
  MaxStream = 2
  MaxFaults = 0
  MaxStarts = 0
INVARIANTS
  StreamedAreEnqueued
CHECK_DEADLOCK FALSE

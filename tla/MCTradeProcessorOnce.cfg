SPECIFICATION Spec
CONSTANTS
  MaxTrades = 3
  Poison <- NoPoison
  TradeCap = 1
  RedisCap = 1
  BatchSize = 2
  MaxRetries = 2
  MaxDbFaults = 2
  MaxRedisFaults = 1
  MaxStarts = 0
INVARIANTS
  SavedOnce
CHECK_DEADLOCK FALSE

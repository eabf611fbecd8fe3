SPECIFICATION FairSpec
CONSTANTS
  MaxTrades = 4
  Poison <- NoPoison
  TradeCap = 1
  RedisCap = 2
  BatchSize = 2
  MaxRetries = 1
  MaxDbFaults = 0
  MaxRedisFaults = 1
  MaxStarts = 1
PROPERTIES
  TickerMovesForward
  LastTradeShown
CHECK_DEADLOCK FALSE

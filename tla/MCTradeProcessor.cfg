SPECIFICATION FairSpec
CONSTANTS
  MaxTrades = 3
  Poison <- LastPoison
  TradeCap = 1
  RedisCap = 1
  BatchSize = 2
  MaxRetries = 2
  MaxDbFaults = 2
  MaxRedisFaults = 1
  MaxStarts = 1
INVARIANTS
  TypeOK
  CommittedIsSaved
  NoGapInTable
  DuplicatesExplained
PROPERTIES
  AllCommitted
CHECK_DEADLOCK FALSE

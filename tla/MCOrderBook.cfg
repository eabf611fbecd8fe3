SPECIFICATION FairSpec
CONSTANTS
  PoolSize = 3
  MinPrice = 1
  MaxPrice = 3
  IndexModulus = 16
  Prices <- MCPrices
  Quantities <- MCAnyQuantities
  MaxOrders = 4
INVARIANTS
  TypeOK
  ListsAreSound
  TrackersExact
  Uncrossed
  RefusedWhole
  BookAgreesWithTape
PROPERTIES
  EveryCallReturns
  ImplementsPriority

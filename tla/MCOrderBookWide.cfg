SPECIFICATION Spec
CONSTANTS
  PoolSize = 2
  MinPrice = 1
  MaxPrice = 3
  IndexModulus = 16
  Prices <- MCWidePrices
  Quantities <- MCQuantities
  MaxOrders = 2
INVARIANTS
  OutOfRangeRejected

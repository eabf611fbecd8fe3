SPECIFICATION FairSpec
CONSTANTS
  Width = 64
  Shift1 = 13
  Shift2 = 7
  Shift3 = 17
  DefaultSeed <- MCDefaultSeed
  MaxOrderQuantity = 10000
  MaxNotionalValue = 10000000
  MaxPriceDeviation = 50
  Half = 536870912
  Seeds <- MCSeeds
  MinPrice = 90
  MaxPrice = 110
  BatchCount = 2
  OutboxCap = 2
  MaxOrders = 4
  MaxFaults = 1
  MaxStarts = 1
INVARIANTS
  TypeOK
  GeneratorNeverStuck
  SentAsDrawn
  OrdersAdmitted
PROPERTIES
  EndsWhenTold
CHECK_DEADLOCK FALSE

\* gunicorn with two workers on one database file
CONSTANTS
  w1 = w1
  w2 = w2
  Null = Null
  Workers = {w1, w2}
  Carts <- SmallCarts
  Stocks = {5, Null}
  PutStatus = {"delivered"}
  MaxMaterial = 1
  MaxOrder = 1
  MaxReceipts = 1
  MaxStock = 5
SPECIFICATION FairSpec
INVARIANTS TypeOK WriteLockHeld VerifiedItemsExist DeliveredWasReceived
PROPERTIES EveryRequestEnds

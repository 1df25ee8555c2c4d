\* two workers: a quantity received is lost
CONSTANTS
  w1 = w1
  w2 = w2
  Null = Null
  Workers = {w1, w2}
  Carts <- OneCart
  Stocks = {5}
  PutStatus <- NoStatus
  MaxMaterial = 1
  MaxOrder = 2
  MaxReceipts = 1
  MaxStock = 5
SPECIFICATION Spec
INVARIANT ReceiptsAreKept

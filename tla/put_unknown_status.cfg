\* one worker: PUT of a status value is answered with an error and kept
CONSTANTS
  w1 = w1
  Null = Null
  Workers = {w1}
  Carts <- OneCart
  Stocks = {5}
  PutStatus = {"delivered"}
  MaxMaterial = 1
  MaxOrder = 1
  MaxReceipts = 1
  MaxStock = 5
SPECIFICATION FairSpec
PROPERTY ErrorsChangeNothing

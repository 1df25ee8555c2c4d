\* python main.py: one worker; PUT opens orders again, statuses and stocks may be NULL
CONSTANTS
  w1 = w1
  Null = Null
  Workers = {w1}
  Carts <- MCCarts
  Stocks = {0, Null}
  PutStatus = {"PENDING", "DELIVERED", Null}
  MaxMaterial = 2
  MaxOrder = 2
  MaxReceipts = 2
  MaxStock = 2
SPECIFICATION Spec
INVARIANTS ReceivedOnce StockIsLedger NoDanglingItem
PROPERTIES OnlyTheResponseFailsLate ImplementsAPI

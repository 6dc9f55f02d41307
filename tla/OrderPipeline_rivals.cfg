\* Three orders for four units and one for none, three in stock, two inventory workers.
SPECIFICATION Spec
CONSTANTS
  o1 = o1
  o2 = o2
  o3 = o3
  o4 = o4
  chair = chair
  Orders <- RivalOrders
  Skus <- RivalSkus
  SkuOf <- RivalSkuOf
  QtyOf <- RivalQtyOf
  InitialStock <- RivalStock
  Workers = {w1, w2}
  Absent = Absent
SYMMETRY Interchangeable
INVARIANTS
  StockConserved
  StatusMatchesReservation
  RefusalJustified
  ResultHasOrder
PROPERTIES
  HandlesAtomically
CHECK_DEADLOCK FALSE

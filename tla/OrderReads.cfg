\* A SKU with one unit, a SKU without a row, a request for nothing: every order is decided and shown so.
SPECIFICATION ReadsSpec
CONSTANTS
  o1 = o1
  o2 = o2
  o3 = o3
  chair = chair
  ghost = ghost
  Orders <- MixedOrders
  Skus <- MixedSkus
  SkuOf <- MixedSkuOf
  QtyOf <- MixedQtyOf
  InitialStock <- MixedStock
  Workers = {w1}
  Absent = Absent
PROPERTIES
  ReadsNeverGoBack
  CreatedIsDecided
  LedgerRefined
CHECK_DEADLOCK FALSE

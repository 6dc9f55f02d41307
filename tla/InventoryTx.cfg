\* Three replicas, two rival orders, an unknown SKU, two failed transactions.
SPECIFICATION Spec
CONSTANTS
  o1 = o1
  o2 = o2
  o3 = o3
  chair = chair
  ghost = ghost
  Orders <- TxOrders
  Skus <- TxSkus
  SkuOf <- TxSkuOf
  QtyOf <- TxQtyOf
  InitialStock <- TxStock
  Workers = {w1, w2, w3}
  Flaggable = {o1}
  MaxRollbacks = 2
  Absent = Absent
INVARIANTS
  LocksExclusive
PROPERTIES
  AtomicInEffect

\* Three users for at most two units, two clients and two items, a SKU on each key of the claims.
SPECIFICATION Spec
CONSTANTS
  Users = {u1, u2, u3}
  InitialStocks <- SmallStocks
  NoKey = NoKey
  SkuKeys = {"stock", "users"}
  MaxRefreshes = 1
  Clients = {c1, c2}
  Items = {i1, i2}
  MaxIncrements = 3
  DefaultTop = 2
  HalfRange = 2
SYMMETRY Interchangeable
INVARIANTS
  TypeOK
  UnitsAccounted
  AnswerTellsHolding
  ScoreExplained
  EndlessExplained
  TopIsRight

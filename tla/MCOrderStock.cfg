SPECIFICATION Spec
CONSTANTS
  Orders = {o1, o2}
  Handlers = {h1, h2}
  Currencies = {"GHC", "PI"}
  MaxStock = 1
  Shown = {"active"}
  None = None
SYMMETRY Symmetry
INVARIANTS
  ClaimIsHeld
  PaidOrdersKeepTheirStock
  CancelledIsUnspent
PROPERTIES
  PromiseKept
  StockIsConserved

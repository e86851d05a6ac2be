SPECIFICATION RecoverySpec
CONSTANTS
  Orders = {o1}
  Handlers = {h1, h2}
  Currencies = {"GHC"}
  MaxStock = 1
  Shown = {"active", "sold_out"}
  None = None
PROPERTIES
  SpendIsRecovered

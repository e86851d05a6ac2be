SPECIFICATION Spec
CONSTANTS
  Intents = {i1}
  Payments = {p1}
  Handlers = {h1}
  None = None
  CrossNetwork = FALSE
  WrongAmounts = FALSE
INVARIANTS
  FailedMeansUnpaid

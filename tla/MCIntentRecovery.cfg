SPECIFICATION RecoverySpec
CONSTANTS
  Intents = {i1}
  Payments = {p1}
  Handlers = {h1,h2}
  None = None
  CrossNetwork = TRUE
  WrongAmounts = TRUE
INVARIANTS
  CompletedMeansPaid
  ApprovedIsRecognised
  BenefitsArePaid
PROPERTIES
  PromiseKept
  PaidIsRecorded

SPECIFICATION FairSpec
CONSTANTS
  o1 = o1
  Obligations = {o1}
  Beneficiaries = {b1}
  Requests = {r1, r2}
  Sessions = {s1}
  Amount <- Kobo
  DailyLimit = 1
  None = None
INVARIANTS
  OneTransferAtATime
  DailyTotalCountsOnce
PROPERTIES
  MoneyGoesWhereItShould
  PromiseKept
  EveryTransferConcludes
CHECK_DEADLOCK FALSE

SPECIFICATION RecoverySpec
CONSTANTS
  Requests = {q1}
  Executions = {x1, x2}
  Payments = {p1, p2}
  Gross = 2
  Earned = 2
  MinPayout = 1
  MaxPayout = 4
  Foreign = Foreign
  None = None
  Overruns = TRUE
INVARIANTS
  LedgerAgreesWithPi
  TransfersAreBound
  StatusAgreesWithLedger
  FundsAddUp
  OneTransferUnlessOverrun
  OneWalletUserUnlessOverrun
PROPERTIES
  PromiseKept
  EveryPayoutFinishes

SPECIFICATION Spec
CONSTANTS
  s1 = s1  s2 = s2  k1 = k1  k2 = k2  w1 = w1  w2 = w2
  Users <- Three
  Sessions = {s1, s2}
  Refs = {k1, k2}
  Withdrawals = {w1, w2}
  Amounts = {1, 2}
  Claim = 4
  Reserve = 2
  Share = 1
  DailySend = 3
  DailyReceive = 3
  None = None
  Calls <- SomeCalls
SYMMETRY Symmetry
INVARIANTS ReservationsCovered LimitsKept AcceptedMeansMoved NoCircularWait NeverMinted
PROPERTIES AnswersAreFinal PromiseKept
CHECK_DEADLOCK FALSE

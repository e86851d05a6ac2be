SPECIFICATION Spec
CONSTANTS
  i1 = i1  i2 = i2  k1 = k1
  Intents = {i1}
  Refs = {}
  Handlers = {h1}
  Tier <- Tiers
  Term <- Terms
  Grace = 1
  MaxTime = 3
  None = None
PROPERTIES
  StatusAnswers

SPECIFICATION FairSpec
CONSTANTS
  i1 = i1  i2 = i2  k1 = k1
  Intents = {i1, i2}
  Refs = {k1}
  Handlers = {h1, h2}
  Tier <- Tiers
  Term <- Terms
  Grace = 1
  MaxTime = 2
  None = None
INVARIANTS
  GrantedTermsAddUp
  OneTermPerIntent
  TermsArePaidFor
PROPERTIES
  CompletedIsGranted

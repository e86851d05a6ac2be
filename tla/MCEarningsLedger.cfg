SPECIFICATION Spec
CONSTANTS
  Users = {u1}
  Sessions = {s1, s2}
  Refs = {r1, r2, r3, r4}
  Payouts = {p1, p2}
  Sources = {src1}
  Amounts = {1, 2, 3}
  MinPayout = 1
  MaxPayout = 2
  None = None
SYMMETRY Symmetry
INVARIANTS
  NothingOverdrawn
PROPERTIES
  PromiseKept

SPECIFICATION Spec
CONSTANTS
  Orders = {o1}
  Requests = {r1, r2}
  Handlers = {h1, h2}
  Payments = {p1, p2}
  Net = 2
  None = None
SYMMETRY Symmetry
INVARIANTS
  TypeOK
  SellerPaidOnce
  BooksAgree
CHECK_DEADLOCK FALSE

SPECIFICATION Spec
CONSTANTS
  Contracts = {c1, c2}
  Orders = {o1, o2}
  Payments = {p1, p2}
  Experts = {e1, e2}
  Admin = admin
  None = none
  Tier = 1
  Parts = 2
  MaxDate = 2
  MaxBookings = 2
SYMMETRY Symmetry
CHECK_DEADLOCK FALSE
INVARIANTS
  InstalmentsInOrder
  OnePaymentOneOrder
PROPERTIES
  SettledStays
  GrantedOnce

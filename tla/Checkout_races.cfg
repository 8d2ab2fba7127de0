SPECIFICATION Spec
CONSTANTS
  A = A
  B = B
  K = K
  L = L
  t1 = t1
  t2 = t2
  s1 = s1
  s2 = s2
  free = free
  None = None
  Users = {u1}
  Courses = {A, K}
  Children <- MCChildren
  TxIds = {t1, t2}
  Slots = {s1, s2}
  Coupons = {free}
  CouponFor <- MCCouponFor
  Prices <- MCPrices
  Amounts <- MCAmounts
  TotalPrice <- MCTotalPrice
  EditableCourses = {}
  Managed <- MCManaged
  FaultKinds = {}
  MaxCarts = 2
  MaxOrders = 2
  MaxFaults = 0
  MaxTries = 3
SYMMETRY SymTxSlots
INVARIANTS
  TypeOK
  PaidIsJustified
  PaymentSettlesOrder
  PaidGrantsAccess
  OneOrderPerCartItem
PROPERTIES
  ImplementsLedger

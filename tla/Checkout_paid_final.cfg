SPECIFICATION Spec
CONSTANTS
  A = A
  B = B
  K = K
  L = L
  t1 = t1
  t2 = t2
  s1 = s1
  s2 = s2
  free = free
  None = None
  Users = {u1}
  Courses = {A}
  Children <- MCChildren
  TxIds = {t1}
  Slots = {s1, s2}
  Coupons = {}
  CouponFor <- MCCouponFor
  Prices <- MCPrices
  Amounts <- MCAmounts
  TotalPrice <- MCTotalPrice
  EditableCourses = {}
  Managed <- NoManaged
  FaultKinds = {}
  MaxCarts = 1
  MaxOrders = 1
  MaxFaults = 0
  MaxTries = 3
PROPERTIES
  PaidIsFinal

SPECIFICATION RedeliverySpec
CONSTANTS
  A = A
  B = B
  K = K
  L = L
  t1 = t1
  t2 = t2
  s1 = s1
  s2 = s2
  free = free
  None = None
  Users = {u1}
  Courses = {A, K}
  Children <- MCChildren
  TxIds = {t1}
  Slots = {s1, s2}
  Coupons = {free}
  CouponFor <- MCCouponFor
  Prices <- MCAmounts
  Amounts <- MCAmounts
  TotalPrice <- MCTotalPrice
  EditableCourses = {A}
  Managed <- NoManaged
  FaultKinds = {"request", "queueAdd", "queueRemove", "job"}
  MaxCarts = 1
  MaxOrders = 1
  MaxFaults = 2
  MaxTries = 3
INVARIANTS
  NotifiedIsSettled
PROPERTIES
  JobEndsOrder
  ExactTransferSettles

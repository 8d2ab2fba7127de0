SPECIFICATION Spec
CONSTANTS
  None = None
  Slots = {s1, s2}
  Browsers = {b1}
  Roles = {customer, teacher}
  Lifetime = 2
  MaxTokens = 3
  MaxTime = 3
  MaxChanges = 1
  MaxFaults = 1
SYMMETRY SymAll
INVARIANTS
  TypeOK
  OneRowPerSession
  LogoutIsFinal
  ActsInRole
  CookieFollows

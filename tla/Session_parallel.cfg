SPECIFICATION Spec
CONSTANTS
  None = None
  Slots = {s1, s2}
  Browsers = {b1}
  Roles = {customer}
  Lifetime = 2
  MaxTokens = 3
  MaxTime = 3
  MaxChanges = 0
  MaxFaults = 0
SYMMETRY SymAll
PROPERTIES
  GoodSessionAdmitted

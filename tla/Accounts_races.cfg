SPECIFICATION CustomerSpec
CONSTANTS
  a = a
  t = t
  e = e
  s1 = s1
  s2 = s2
  c1 = c1
  None = None
  Slots = {s1, s2}
  Emails = {a, t, e}
  Customers = {e}
  Codes = {c1}
  Names = {"custom"}
  Grants <- MCGrants
  Statuses <- MCStatuses
  Seeded <- MCSeeded
  MaxUsers = 5
  MaxRoles = 4
  MaxEdits = 2
  MaxFaults = 1
INVARIANTS
  TypeOK
  AdminRoleStays
PROPERTIES
  EachSendAdmitsOnce
  OnlyAdminsMakeAdmins
  NonAdminsSpareAdmins
  CustomersGetAccounts

SPECIFICATION FairSpec
CONSTANTS
  a = a
  t = t
  u1 = u1
  u2 = u2
  s1 = s1
  s2 = s2
  None = None
  Slots = {s1, s2}
  Users = {u1, u2}
  Staff = {a, t}
  Admins = {a}
  Terms <- MCTerms
  Discounts <- MCDiscounts
  RosterBodies <- MCRosterBodies
  ComboBodies <- MCComboBodies
  SeededCourses <- MCSeededCourses
  MaxCourses = 4
  MaxEnrolments = 2
  MaxCoupons = 1
  MaxEdits = 3
INVARIANTS
  TypeOK
  NestedInFull
  ListedIsEditable
  BoughtIsReachable
  PreviewIsCharged
PROPERTIES
  SyncSparesTheUnseen
  SyncGivesTheRoster
  OwnersEditTheirs
  EditsEnd

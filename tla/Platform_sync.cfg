SPECIFICATION FairSpec
CONSTANTS
  s1 = s1
  s2 = s2
  old = old
  kept = kept
  new = new
  None = None
  Slots = {s1, s2}
  Routes = {old, kept, new}
  Available = {kept, new}
  Modules <- MCModules
  ModuleOf <- MCModuleOf
  TeacherModule = {"MEDIA", "ROLES"}
  StudentModule = {"MEDIA"}
  Names = {"custom"}
  SeededPermissions <- MCSeeded
  PermissionBodies <- MCPermissionBodies
  RoleBodies <- MCRoleBodies
  MaxPermissions = 5
  MaxRoles = 4
  Budgets <- MCBudgets
  MaxKeys = 2
  MaxVersions = 3
  Whole = {1, 3}
  MaxLessons = 2
INVARIANTS
  TypeOK
  SyncEndsExact
  AwaitedProbesLand
  RangesAreRight
PROPERTIES
  SyncKeepsServing
  ImplementsProbeQueue

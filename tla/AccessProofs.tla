---------------------------- MODULE AccessProofs ----------------------------
(***************************************************************************)
(* Proofs about permissions, roles and create-permissions, for any routes,    *)
(* roles, requests of administrators and kills of the script.                  *)
(***************************************************************************)
EXTENDS Platform, FiniteSetTheorems, TLAPS

-----------------------------------------------------------------------------
(* The inductive invariant *)

\* Ids of the sequence have not been used, so that new rows take no other's place.
IdsFresh == \A p \in PermissionIds : p >= nextPermission => permission[p] = None

NamesUnique == \A q, r \in RoleIds :
  RoleExists(q) /\ RoleExists(r) /\ role[q].name = role[r].name => q = r

\* What the script has brought about so far, as long as it is alone.
RoleSound(n) ==
  /\ script.grant[n] = GrantsFor(n)
  /\ script.found[n] # 0 => RoleExists(script.found[n]) /\ role[script.found[n]].name = n
  /\ n \notin script.left => \A r \in RolesNamed(n) : role[r].grants = GrantsFor(n)

ScriptSound ==
  undisturbed =>
    /\ ScriptAt("delete") => script.drop = Obsolete /\ script.add = Available \ LiveRoutes
    /\ ScriptAt("add") => LiveRoutes \subseteq Available
                          /\ script.add = Available \ LiveRoutes
    /\ ScriptAt("reread") => LiveRoutes = Available
    /\ ScriptAt("roles") => LiveRoutes = Available /\ \A n \in BaseNames : RoleSound(n)

\* Roles are looked up last.
NoneFoundYet ==
  ~ ScriptAt("roles") => \A n \in BaseNames : script.found[n] = 0

AccessInv == AccessTyped /\ IdsFresh /\ NamesUnique /\ NoneFoundYet /\ ScriptSound

-----------------------------------------------------------------------------
(* Budgets and types *)

LEMMA Spends ==
  ASSUME AccessTyped, NEW what \in {"admin", "media", "sync", "fault"}, Spend(what)
  PROVE  left' \in BudgetRow
  BY DEF AccessTyped, Spend, BudgetRow

LEMMA OffTyped == Off \in ScriptRow
  BY AccessAssumption DEF Off, ScriptRow, ScriptPcs

LEMMA Rows == \A r \in RoleRow : r # None
  BY AccessAssumption

LEMMA PermissionRows == \A p \in PermissionRow : p # None
  BY AccessAssumption

\* Other components spend from the budget and leave everything here alone.
LEMMA AccessFrame ==
  ASSUME AccessInv, UNCHANGED <<permission, nextPermission, role, nextRole, script, undisturbed>>,
         change' \in [Slots -> ChangeRow], left' \in BudgetRow
  PROVE  AccessInv'
<1>1. /\ LivePermissions' = LivePermissions /\ LiveRoutes' = LiveRoutes
      /\ Obsolete' = Obsolete
  BY DEF LivePermissions, LiveRoutes, Obsolete, RouteOf
<1>2. /\ \A n : GrantsFor(n)' = GrantsFor(n)
      /\ \A n : RolesNamed(n)' = RolesNamed(n)
      /\ \A r : RoleExists(r)' <=> RoleExists(r)
  BY <1>1 DEF GrantsFor, RolesNamed, RoleExists
<1>3. AccessTyped'  BY <1>1 DEF AccessInv, AccessTyped
<1>4. IdsFresh' /\ NamesUnique'  BY <1>2 DEF AccessInv, IdsFresh, NamesUnique
<1>5. ScriptSound'
  BY <1>1, <1>2 DEF AccessInv, ScriptSound, ScriptAt, RoleSound
<1>6. NoneFoundYet'  BY DEF AccessInv, NoneFoundYet, ScriptAt
<1> QED  BY <1>3, <1>4, <1>5, <1>6 DEF AccessInv

LEMMA ScriptIdles ==
  ASSUME AccessInv, UNCHANGED script
  PROVE  NoneFoundYet'
  BY DEF AccessInv, NoneFoundYet, ScriptAt

LEMMA ScriptRestarts ==
  ASSUME AccessInv, script' = Off \/ script' = [Off EXCEPT !.pc = "read"],
         UNCHANGED <<permission, nextPermission, role, nextRole, change, undisturbed>>,
         left' \in BudgetRow
  PROVE  AccessInv'
<1>1. script' \in ScriptRow /\ script'.pc \in {"off", "read"}
  BY OffTyped DEF ScriptRow, ScriptPcs, Off
<1>2. LivePermissions' = LivePermissions  BY DEF LivePermissions
<1>3. AccessTyped'  BY <1>1, <1>2 DEF AccessInv, AccessTyped
<1>4. \A r : RoleExists(r)' <=> RoleExists(r)  BY DEF RoleExists
<1>5. IdsFresh' /\ NamesUnique'  BY <1>4 DEF AccessInv, IdsFresh, NamesUnique
<1>6. ScriptSound'  BY <1>1 DEF ScriptSound, ScriptAt
<1>7. script'.found = [n \in BaseNames |-> 0]  BY DEF Off
<1>8. NoneFoundYet'  BY <1>7 DEF NoneFoundYet
<1> QED  BY <1>3, <1>5, <1>6, <1>8 DEF AccessInv

-----------------------------------------------------------------------------
(* Administrators *)

LEMMA CreatePermissionKeeps ==
  ASSUME AccessInv, NEW row \in PermissionRow, CreatePermission(row)
  PROVE  AccessInv'
<1>1. left' \in BudgetRow  BY Spends DEF CreatePermission, AccessInv
<1>2. LivePermissions' = LivePermissions \cup {nextPermission}
  BY PermissionRows DEF CreatePermission, AccessInv, AccessTyped, LivePermissions
<1>3. nextPermission' \in 1..(MaxPermissions + 1)
  BY AccessAssumption DEF CreatePermission, AccessInv, AccessTyped, PermissionIds
<1>4. permission' \in [PermissionIds -> PermissionRow \cup {None}]
  BY DEF CreatePermission, AccessInv, AccessTyped
<1>5. AccessTyped'
  BY <1>1, <1>2, <1>3, <1>4 DEF CreatePermission, AccessInv, AccessTyped
<1>6. IdsFresh'
  BY AccessAssumption DEF CreatePermission, AccessInv, AccessTyped, IdsFresh, PermissionIds
<1>7. NamesUnique'
  BY DEF CreatePermission, AccessInv, NamesUnique, RoleExists
<1>8. ScriptSound'  BY DEF CreatePermission, ScriptSound
<1> QED  BY <1>5, <1>6, <1>7, <1>8, ScriptIdles DEF AccessInv, CreatePermission

LEMMA UpdatePermissionKeeps ==
  ASSUME AccessInv, NEW row \in PermissionRow, NEW p \in PermissionIds,
         UpdatePermission(p, row)
  PROVE  AccessInv'
<1>1. left' \in BudgetRow  BY Spends DEF UpdatePermission, AccessInv
<1>2. LivePermissions' = LivePermissions
  BY PermissionRows DEF UpdatePermission, AccessInv, AccessTyped, LivePermissions
<1>4. permission' \in [PermissionIds -> PermissionRow \cup {None}]
  BY DEF UpdatePermission, AccessInv, AccessTyped
<1>5. AccessTyped'
  BY <1>1, <1>2, <1>4 DEF UpdatePermission, AccessInv, AccessTyped
<1>6. IdsFresh'
  BY DEF UpdatePermission, AccessInv, AccessTyped, IdsFresh, LivePermissions
<1>7. NamesUnique'
  BY DEF UpdatePermission, AccessInv, NamesUnique, RoleExists
<1>8. ScriptSound'  BY DEF UpdatePermission, ScriptSound
<1> QED  BY <1>5, <1>6, <1>7, <1>8, ScriptIdles DEF AccessInv, UpdatePermission

\* Erasing rows keeps the tables consistent, and touches no role's name.
LEMMA Erases ==
  ASSUME AccessInv, NEW ps \in SUBSET PermissionIds, Erase(ps),
         UNCHANGED <<nextPermission, nextRole>>
  PROVE  /\ permission' \in [PermissionIds -> PermissionRow \cup {None}]
         /\ role' \in [RoleIds -> RoleRow \cup {None}]
         /\ LivePermissions' = LivePermissions \ ps
         /\ \A r \in RoleIds : /\ role'[r] # None <=> role[r] # None
                               /\ role[r] # None => /\ role'[r].name = role[r].name
                                                    /\ role'[r].active = role[r].active
                                                    /\ role'[r].grants = role[r].grants \ ps
                                                    /\ role'[r].grants \subseteq LivePermissions'
         /\ IdsFresh' /\ NamesUnique'
<1>1. /\ permission' \in [PermissionIds -> PermissionRow \cup {None}]
      /\ \A p \in PermissionIds : permission'[p] = IF p \in ps THEN None ELSE permission[p]
  BY DEF Erase, AccessInv, AccessTyped
<1>2. LivePermissions' = LivePermissions \ ps
  BY <1>1 DEF LivePermissions
<1>3. ASSUME NEW r \in RoleIds
      PROVE  /\ role'[r] \in RoleRow \cup {None}
             /\ role'[r] # None <=> role[r] # None
             /\ role[r] # None => /\ role'[r].name = role[r].name
                                  /\ role'[r].active = role[r].active
                                  /\ role'[r].grants = role[r].grants \ ps
  <2>1. CASE role[r] = None  BY <2>1 DEF Erase
  <2>2. CASE role[r] # None
    <3>1. role[r] \in RoleRow  BY <2>2 DEF AccessInv, AccessTyped
    <3>2. role'[r] = [role[r] EXCEPT !.grants = @ \ ps]  BY <2>2 DEF Erase
    <3>3. role'[r] \in RoleRow  BY <3>1, <3>2 DEF RoleRow
    <3> QED  BY <2>2, <3>1, <3>2, <3>3, Rows DEF RoleRow
  <2> QED  BY <2>1, <2>2
<1>4. role' \in [RoleIds -> RoleRow \cup {None}]  BY <1>3 DEF Erase
<1>5. \A r \in RoleIds : role[r] # None => role'[r].grants \subseteq LivePermissions'
  BY <1>2, <1>3 DEF AccessInv, AccessTyped
<1>6. IdsFresh'  BY <1>1 DEF AccessInv, IdsFresh
<1>7. NamesUnique'  BY <1>3 DEF AccessInv, NamesUnique, RoleExists
<1> QED  BY <1>1, <1>2, <1>3, <1>4, <1>5, <1>6, <1>7

LEMMA DeletePermissionKeeps ==
  ASSUME AccessInv, NEW p \in PermissionIds, DeletePermission(p)
  PROVE  AccessInv'
<1>1. left' \in BudgetRow  BY Spends DEF DeletePermission, AccessInv
<1>2. Erase({p}) /\ UNCHANGED <<nextPermission, nextRole>> /\ {p} \in SUBSET PermissionIds
  BY DEF DeletePermission
<1>3. AccessTyped'
  BY <1>1, <1>2, Erases DEF DeletePermission, AccessInv, AccessTyped
<1>4. ScriptSound'  BY DEF DeletePermission, ScriptSound
<1> QED  BY <1>2, <1>3, <1>4, Erases, ScriptIdles DEF AccessInv, DeletePermission

\* A role that is written, with a name nobody else has.
LEMMA RoleWritten ==
  ASSUME AccessInv, NEW r \in RoleIds, NEW row \in RoleRow, NameFree(row.name, r) \/ NameFree(row.name, 0),
         row.grants \subseteq LivePermissions, role' = [role EXCEPT ![r] = row],
         UNCHANGED permission
  PROVE  /\ role' \in [RoleIds -> RoleRow \cup {None}]
         /\ \A x \in RoleIds : role'[x] # None => role'[x].grants \subseteq LivePermissions'
         /\ NamesUnique'
<1>1. LivePermissions' = LivePermissions  BY DEF LivePermissions
<1>2. \A x \in RoleIds : role'[x] = IF x = r THEN row ELSE role[x]
  BY DEF AccessInv, AccessTyped
<1>3. role' \in [RoleIds -> RoleRow \cup {None}]  BY DEF AccessInv, AccessTyped
<1>4. \A x \in RoleIds : role'[x] # None => role'[x].grants \subseteq LivePermissions'
  BY <1>1, <1>2 DEF AccessInv, AccessTyped
<1>5. \A x \in RoleIds : RoleExists(x) /\ role[x].name = row.name => x = r
  BY AccessAssumption DEF NameFree, RolesNamed, RoleExists, RoleIds
<1>6. NamesUnique'
  BY <1>2, <1>5 DEF AccessInv, NamesUnique, RoleExists
<1> QED  BY <1>3, <1>4, <1>6

LEMMA CreateRoleKeeps ==
  ASSUME AccessInv, NEW body \in RoleRow, CreateRole(body)
  PROVE  AccessInv'
<1>1. left' \in BudgetRow  BY Spends DEF CreateRole, AccessInv
<1>2. nextRole' \in 1..(MaxRoles + 1)
  BY AccessAssumption DEF CreateRole, AccessInv, AccessTyped, RoleIds
<1>3. /\ role' \in [RoleIds -> RoleRow \cup {None}]
      /\ \A x \in RoleIds : role'[x] # None => role'[x].grants \subseteq LivePermissions'
      /\ NamesUnique'
  BY RoleWritten DEF CreateRole
<1>4. AccessTyped'
  BY <1>1, <1>2, <1>3 DEF CreateRole, AccessInv, AccessTyped
<1>5. IdsFresh'  BY DEF CreateRole, AccessInv, IdsFresh
<1>6. ScriptSound'  BY DEF CreateRole, ScriptSound
<1> QED  BY <1>3, <1>4, <1>5, <1>6, ScriptIdles DEF AccessInv, CreateRole

LEMMA RoleOpened ==
  ASSUME AccessInv, NEW s \in Slots, NEW r \in RoleIds, UpdateRole(s, r) \/ DeleteRole(s, r)
  PROVE  AccessInv'
<1>1. left' \in BudgetRow  BY Spends DEF UpdateRole, DeleteRole, AccessInv
<1>2. [pc |-> "roleWrite", role |-> r] \in ChangeRow /\ [pc |-> "roleDelete", role |-> r] \in ChangeRow
  BY AccessAssumption DEF ChangeRow, RoleIds
<1>3. change' \in [Slots -> ChangeRow]
  BY <1>2 DEF UpdateRole, DeleteRole, AccessInv, AccessTyped
<1> QED  BY <1>1, <1>3, AccessFrame DEF UpdateRole, DeleteRole

LEMMA IdleChanges ==
  ASSUME AccessInv, NEW s \in Slots, change' = [change EXCEPT ![s] = IdleChange]
  PROVE  change' \in [Slots -> ChangeRow]
<1>1. IdleChange \in ChangeRow  BY AccessAssumption DEF IdleChange, ChangeRow
<1> QED  BY <1>1 DEF AccessInv, AccessTyped

LEMMA WriteRoleKeeps ==
  ASSUME AccessInv, NEW s \in Slots, NEW body \in RoleRow, WriteRole(s, body)
  PROVE  AccessInv'
<1> DEFINE r == change[s].role
<1> DEFINE row == [body EXCEPT !.grants = @ \cap LivePermissions]
<1>1. change' \in [Slots -> ChangeRow]  BY IdleChanges DEF WriteRole
<1>2. left' \in BudgetRow  BY DEF WriteRole, AccessInv, AccessTyped
<1>3. CASE UNCHANGED <<role, undisturbed>>
  BY <1>1, <1>2, <1>3, AccessFrame DEF WriteRole
<1>4. CASE /\ RoleExists(r) /\ NameFree(body.name, r)
           /\ role' = [role EXCEPT ![r] = row] /\ undisturbed' = FALSE
  <2>1. r \in RoleIds  BY <1>4 DEF RoleExists
  <2>2. row \in RoleRow /\ row.name = body.name /\ row.grants \subseteq LivePermissions
    BY DEF RoleRow
  <2>3. UNCHANGED <<permission, nextPermission, nextRole, script>>  BY DEF WriteRole
  <2>4. /\ role' \in [RoleIds -> RoleRow \cup {None}]
        /\ \A x \in RoleIds : role'[x] # None => role'[x].grants \subseteq LivePermissions'
        /\ NamesUnique'
    BY <1>4, <2>1, <2>2, <2>3, RoleWritten
  <2>5. AccessTyped'
    BY <1>1, <1>2, <1>4, <2>3, <2>4 DEF AccessInv, AccessTyped
  <2>6. IdsFresh'  BY <2>3 DEF AccessInv, IdsFresh
  <2>7. ScriptSound'  BY <1>4 DEF ScriptSound
  <2> QED  BY <2>2, <2>3, <2>4, <2>5, <2>6, <2>7, ScriptIdles DEF AccessInv
<1> QED  BY <1>3, <1>4 DEF WriteRole

LEMMA EraseRoleKeeps ==
  ASSUME AccessInv, NEW s \in Slots, EraseRole(s)
  PROVE  AccessInv'
<1> DEFINE r == change[s].role
<1>1. change' \in [Slots -> ChangeRow]  BY IdleChanges DEF EraseRole
<1>2. left' \in BudgetRow  BY DEF EraseRole, AccessInv, AccessTyped
<1>3. CASE UNCHANGED <<role, undisturbed>>
  BY <1>1, <1>2, <1>3, AccessFrame DEF EraseRole
<1>4. CASE role' = [role EXCEPT ![r] = None] /\ undisturbed' = FALSE
  <2>1. /\ role' \in [RoleIds -> RoleRow \cup {None}]
        /\ \A x \in RoleIds : role'[x] # None => role[x] # None /\ role'[x] = role[x]
    BY <1>4 DEF AccessInv, AccessTyped
  <2>2. UNCHANGED <<permission, nextPermission, nextRole, script>>  BY DEF EraseRole
  <2>3. LivePermissions' = LivePermissions  BY <2>2 DEF LivePermissions
  <2>4. AccessTyped'
    BY <1>1, <1>2, <1>4, <2>1, <2>2, <2>3 DEF AccessInv, AccessTyped
  <2>5. IdsFresh'  BY <2>2 DEF AccessInv, IdsFresh
  <2>6. NamesUnique'  BY <2>1 DEF AccessInv, NamesUnique, RoleExists
  <2>7. ScriptSound'  BY <1>4 DEF ScriptSound
  <2> QED  BY <2>2, <2>3, <2>4, <2>5, <2>6, <2>7, ScriptIdles DEF AccessInv
<1> QED  BY <1>3, <1>4 DEF EraseRole

-----------------------------------------------------------------------------
(* create-permissions *)

\* The script moves on and changes no tables.
LEMMA ScriptMoves ==
  ASSUME AccessInv, script' \in ScriptRow, NoneFoundYet', ScriptSound',
         UNCHANGED <<permission, nextPermission, role, nextRole, change, left>>,
         undisturbed' \in BOOLEAN
  PROVE  AccessInv'
<1>1. LivePermissions' = LivePermissions  BY DEF LivePermissions
<1>2. AccessTyped'  BY <1>1 DEF AccessInv, AccessTyped
<1>3. \A r : RoleExists(r)' <=> RoleExists(r)  BY DEF RoleExists
<1>4. IdsFresh' /\ NamesUnique'  BY <1>3 DEF AccessInv, IdsFresh, NamesUnique
<1> QED  BY <1>2, <1>4 DEF AccessInv

LEMMA ReadPermissionsKeeps ==
  ASSUME AccessInv, ReadPermissions
  PROVE  AccessInv'
<1>1. /\ Obsolete \subseteq PermissionIds /\ Available \ LiveRoutes \subseteq Available
      /\ Obsolete' = Obsolete /\ LiveRoutes' = LiveRoutes
  BY DEF Obsolete, LivePermissions, LiveRoutes, RouteOf, ReadPermissions
<1>2. /\ script' = [script EXCEPT !.pc = "delete", !.drop = Obsolete,
                                  !.add = Available \ LiveRoutes]
      /\ script \in ScriptRow
  BY DEF ReadPermissions, AccessInv, AccessTyped
<1>3. /\ script' \in ScriptRow /\ script'.pc = "delete"
      /\ script'.drop = Obsolete /\ script'.add = Available \ LiveRoutes
      /\ script'.found = script.found
  BY <1>1, <1>2 DEF ScriptRow, ScriptPcs
<1>4. NoneFoundYet'
  BY <1>3 DEF ReadPermissions, AccessInv, NoneFoundYet, ScriptAt
<1>5. ScriptSound'  BY <1>1, <1>3 DEF ScriptSound, ScriptAt
<1> QED  BY <1>3, <1>4, <1>5, ScriptMoves DEF ReadPermissions

LEMMA DeleteObsoleteKeeps ==
  ASSUME AccessInv, DeleteObsolete
  PROVE  AccessInv'
<1>1. /\ script \in ScriptRow /\ script' = [script EXCEPT !.pc = "add"]
      /\ script.drop \in SUBSET PermissionIds /\ Erase(script.drop) /\ script.pc = "delete"
      /\ UNCHANGED <<nextPermission, nextRole, change, undisturbed, left>>
  BY DEF DeleteObsolete, ScriptFrame, ScriptAt, AccessInv, AccessTyped, ScriptRow
<1>2. /\ script' \in ScriptRow /\ script'.pc = "add" /\ script'.add = script.add
      /\ script'.found = script.found
  BY <1>1 DEF ScriptRow, ScriptPcs
<1>3. AccessTyped' /\ IdsFresh' /\ NamesUnique'
  BY <1>1, <1>2, Erases DEF AccessInv, AccessTyped
<1>4. ASSUME undisturbed
      PROVE  LiveRoutes' \subseteq Available /\ script.add = Available \ LiveRoutes'
  <2>1. script.drop = Obsolete /\ script.add = Available \ LiveRoutes
    BY <1>1, <1>4 DEF AccessInv, ScriptSound, ScriptAt
  <2>2. LivePermissions' = LivePermissions \ Obsolete
    BY <1>1, <2>1, Erases
  <2>3. \A p \in LivePermissions' : RouteOf(p)' = RouteOf(p)
    BY <1>1, <2>1, <2>2 DEF Erase, RouteOf, LivePermissions
  <2>4. LiveRoutes' = {t \in LiveRoutes : t \in Available}
    BY <2>2, <2>3 DEF LiveRoutes, Obsolete
  <2> QED  BY <2>1, <2>4
<1>5. ScriptSound'  BY <1>1, <1>2, <1>4 DEF ScriptSound, ScriptAt
<1>6. NoneFoundYet'  BY <1>1, <1>2 DEF AccessInv, NoneFoundYet, ScriptAt
<1> QED  BY <1>3, <1>5, <1>6 DEF AccessInv

LEMMA MissingCounts ==
  ASSUME AccessTyped
  PROVE  Cardinality(Missing) \in Nat
<1>1. Missing \in SUBSET Available
  BY DEF AccessTyped, ScriptRow, Missing
<1> QED  BY <1>1, AccessAssumption, FS_Subset, FS_CardinalityType

\* Where createMany puts its rows: after all there are.
LEMMA MissingAdded ==
  ASSUME AccessInv, AddMissing
  PROVE  /\ permission' \in [PermissionIds -> PermissionRow \cup {None}]
         /\ nextPermission' \in 1..(MaxPermissions + 1) /\ IdsFresh'
         /\ \A p \in LivePermissions : permission'[p] = permission[p]
         /\ LivePermissions \subseteq LivePermissions'
         /\ LiveRoutes' = LiveRoutes \cup Missing
<1> DEFINE m == Cardinality(Missing)
<1>1. m \in Nat  BY MissingCounts DEF AccessInv
<1>2. PICK id \in [Missing -> nextPermission..(nextPermission + m - 1)] :
        /\ \A t, u \in Missing : t # u => id[t] # id[u]
        /\ permission' = [p \in PermissionIds |->
             IF \E t \in Missing : id[t] = p
             THEN LET t == CHOOSE t \in Missing : id[t] = p
                  IN [route |-> t, module |-> ModuleOf[t]]
             ELSE permission[p]]
  BY DEF AddMissing
<1> DEFINE Of(p) == CHOOSE t \in Missing : id[t] = p
<1>3. /\ nextPermission \in 1..(MaxPermissions + 1) /\ nextPermission' = nextPermission + m
      /\ nextPermission + m <= MaxPermissions + 1
  BY DEF AddMissing, AccessInv, AccessTyped
<1>4. nextPermission' \in 1..(MaxPermissions + 1)
  BY <1>1, <1>3, AccessAssumption
<1>5. \A t \in Missing : /\ id[t] \in PermissionIds /\ id[t] >= nextPermission
                         /\ id[t] < nextPermission' /\ id[t] \notin LivePermissions
  <2>1. \A t \in Missing : id[t] \in nextPermission..(nextPermission + m - 1)
    BY <1>2
  <2>2. \A t \in Missing : /\ id[t] \in PermissionIds /\ id[t] >= nextPermission
                           /\ id[t] < nextPermission'
    BY <2>1, <1>1, <1>3, AccessAssumption DEF PermissionIds
  <2> QED  BY <2>2 DEF AccessInv, IdsFresh, LivePermissions
<1>6. \A t \in Missing : Of(id[t]) = t  BY <1>2
<1>7. \A t \in Missing : t \in Routes /\ ModuleOf[t] \in Modules
  BY AccessAssumption DEF Missing, AccessInv, AccessTyped, ScriptRow
<1>8. \A t \in Missing : /\ permission'[id[t]] = [route |-> t, module |-> ModuleOf[t]]
                         /\ permission'[id[t]] \in PermissionRow
  BY <1>2, <1>5, <1>6, <1>7 DEF PermissionRow
<1>9. \A p \in PermissionIds : (\A t \in Missing : id[t] # p) => permission'[p] = permission[p]
  BY <1>2
<1>10. permission' \in [PermissionIds -> PermissionRow \cup {None}]
  <2>1. \A p \in PermissionIds : permission'[p] \in PermissionRow \cup {None}
    BY <1>8, <1>9 DEF AccessInv, AccessTyped
  <2> QED  BY <2>1, <1>2
<1>11. IdsFresh'
  BY <1>1, <1>3, <1>5, <1>9 DEF AccessInv, IdsFresh, PermissionIds
<1>12. \A p \in LivePermissions : permission'[p] = permission[p]
  BY <1>5, <1>9 DEF LivePermissions
<1>13. \A p \in PermissionIds :
         p \in LivePermissions' <=> p \in LivePermissions \/ \E t \in Missing : id[t] = p
  BY <1>5, <1>8, <1>9, <1>12, PermissionRows DEF LivePermissions
<1>14. LivePermissions \subseteq PermissionIds /\ LivePermissions' \subseteq PermissionIds
  BY DEF LivePermissions
<1>15. /\ LiveRoutes = {permission[p].route : p \in LivePermissions}
       /\ LiveRoutes' = {permission'[p].route : p \in LivePermissions'}
  BY DEF LiveRoutes, RouteOf
<1>16. LiveRoutes' = LiveRoutes \cup Missing
  <2>1. \A t \in Missing : id[t] \in LivePermissions' /\ permission'[id[t]].route = t
    <3>1. \A t \in Missing : id[t] \in LivePermissions'  BY <1>5, <1>13
    <3>2. ASSUME NEW t \in Missing  PROVE permission'[id[t]].route = t
      <4> DEFINE row == [route |-> t, module |-> ModuleOf[t]]
      <4>1. permission'[id[t]] = row  BY <1>8
      <4>2. row.route = t  OBVIOUS
      <4> HIDE DEF row
      <4> QED  BY <4>1, <4>2
    <3> QED  BY <3>1, <3>2
  <2>2. \A p \in LivePermissions : p \in LivePermissions' /\ permission'[p].route = permission[p].route
    BY <1>12, <1>13, <1>14
  <2>3. \A p \in LivePermissions' : p \in LivePermissions \/ \E t \in Missing : id[t] = p
    BY <1>13, <1>14
  <2> QED  BY <1>15, <2>1, <2>2, <2>3
<1> QED  BY <1>4, <1>10, <1>11, <1>12, <1>13, <1>14, <1>16

LEMMA AddMissingKeeps ==
  ASSUME AccessInv, AddMissing
  PROVE  AccessInv'
<1>1. /\ script \in ScriptRow /\ script' = [script EXCEPT !.pc = "reread"] /\ script.pc = "add"
      /\ UNCHANGED <<role, nextRole, change, undisturbed, left>>
  BY DEF AddMissing, ScriptFrame, ScriptAt, AccessInv, AccessTyped
<1>2. script' \in ScriptRow /\ script'.pc = "reread" /\ script'.found = script.found
  BY <1>1 DEF ScriptRow, ScriptPcs
<1>3. AccessTyped'  BY <1>1, <1>2, MissingAdded DEF AccessInv, AccessTyped
<1>4. NamesUnique'  BY <1>1 DEF AccessInv, NamesUnique, RoleExists
<1>5. undisturbed => LiveRoutes' = Available
  BY <1>1, MissingAdded DEF AccessInv, ScriptSound, ScriptAt, Missing
<1>6. ScriptSound'  BY <1>1, <1>2, <1>5 DEF ScriptSound, ScriptAt
<1>7. NoneFoundYet'  BY <1>1, <1>2 DEF AccessInv, NoneFoundYet, ScriptAt
<1> QED  BY <1>3, <1>4, <1>6, <1>7, MissingAdded DEF AccessInv

LEMMA GrantsAreLive == \A n : GrantsFor(n) \subseteq LivePermissions
  BY DEF GrantsFor

LEMMA RereadKeeps ==
  ASSUME AccessInv, Reread
  PROVE  AccessInv'
<1>1. /\ script \in ScriptRow /\ script.pc = "reread"
      /\ script' = [script EXCEPT !.pc = "roles", !.left = BaseNames,
                                  !.grant = [n \in BaseNames |-> GrantsFor(n)]]
      /\ UNCHANGED <<permission, nextPermission, role, nextRole, change, undisturbed, left>>
  BY DEF Reread, ScriptFrame, ScriptAt, AccessInv, AccessTyped
<1>2. [n \in BaseNames |-> GrantsFor(n)] \in [BaseNames -> SUBSET PermissionIds]
  BY GrantsAreLive DEF LivePermissions
<1>3. /\ script' \in ScriptRow /\ script'.pc = "roles" /\ script'.left = BaseNames
      /\ script'.grant = [n \in BaseNames |-> GrantsFor(n)] /\ script'.found = script.found
  BY <1>1, <1>2 DEF ScriptRow, ScriptPcs
<1>4. \A n \in BaseNames : script'.found[n] = 0
  BY <1>1, <1>3 DEF AccessInv, NoneFoundYet, ScriptAt
<1>5. \A n \in BaseNames : script'.grant[n] = GrantsFor(n)
  BY <1>3
<1>6. \A n : GrantsFor(n)' = GrantsFor(n)
  BY <1>1 DEF GrantsFor, LivePermissions
<1>7. LiveRoutes' = LiveRoutes  BY <1>1 DEF LiveRoutes, LivePermissions, RouteOf
<1>8. ScriptSound'
  BY <1>1, <1>3, <1>4, <1>5, <1>6, <1>7 DEF AccessInv, ScriptSound, ScriptAt, RoleSound
<1>9. NoneFoundYet'  BY <1>4 DEF NoneFoundYet
<1>10. undisturbed' \in BOOLEAN  BY <1>1 DEF AccessInv, AccessTyped
<1> QED  BY <1>1, <1>3, <1>8, <1>9, <1>10, ScriptMoves

\* The roles that a step of the script leaves as they are.
LEMMA FindRoleKeeps ==
  ASSUME AccessInv, NEW n \in BaseNames, FindRole(n)
  PROVE  AccessInv'
<1>1. /\ script \in ScriptRow /\ script.pc = "roles"
      /\ UNCHANGED <<permission, nextPermission, role, nextRole, change, undisturbed, left>>
  BY DEF FindRole, ScriptFrame, ScriptAt, AccessInv, AccessTyped
<1>2. CASE script' = Off
  BY <1>1, <1>2, ScriptRestarts DEF AccessInv, AccessTyped
<1>3. ASSUME NEW r \in RolesNamed(n), script' = [script EXCEPT !.found[n] = r]
      PROVE  AccessInv'
  <2>1. r \in RoleIds /\ role[r] # None /\ role[r].name = n /\ r \in 0..MaxRoles
    BY <1>3, AccessAssumption DEF RolesNamed, RoleIds
  <2>2. /\ script' \in ScriptRow /\ script'.pc = "roles" /\ script'.left = script.left
        /\ script'.grant = script.grant
        /\ \A x \in BaseNames : script'.found[x] = IF x = n THEN r ELSE script.found[x]
    BY <1>1, <1>3, <2>1 DEF ScriptRow
  <2>3. /\ \A x : GrantsFor(x)' = GrantsFor(x)
        /\ \A x : RolesNamed(x)' = RolesNamed(x)
        /\ \A x : RoleExists(x)' <=> RoleExists(x)
        /\ LiveRoutes' = LiveRoutes
    BY <1>1 DEF GrantsFor, LivePermissions, RolesNamed, RoleExists, LiveRoutes, RouteOf
  <2>4. ASSUME undisturbed
        PROVE  LiveRoutes' = Available /\ \A x \in BaseNames : RoleSound(x)'
    <3>1. LiveRoutes = Available /\ \A x \in BaseNames : RoleSound(x)
      BY <1>1, <2>4 DEF AccessInv, ScriptSound, ScriptAt
    <3>2. \A x \in BaseNames : RoleSound(x)'
      BY <1>1, <2>1, <2>2, <2>3, <3>1 DEF RoleSound, RoleExists
    <3> QED  BY <2>3, <3>1, <3>2
  <2>5. ScriptSound'
    BY <1>1, <2>2, <2>4 DEF ScriptSound, ScriptAt
  <2>6. NoneFoundYet'  BY <2>2 DEF NoneFoundYet, ScriptAt
  <2>7. undisturbed' \in BOOLEAN  BY <1>1 DEF AccessInv, AccessTyped
  <2> QED  BY <1>1, <2>2, <2>5, <2>6, <2>7, ScriptMoves
<1> QED  BY <1>2, <1>3 DEF FindRole

\* The role that is written is the only one of its name.
LEMMA RoleSet ==
  ASSUME AccessInv, NEW r \in RoleIds, role[r] # None, NEW g \in SUBSET LivePermissions,
         role' = [role EXCEPT ![r].grants = g], UNCHANGED permission
  PROVE  /\ role' \in [RoleIds -> RoleRow \cup {None}]
         /\ \A x \in RoleIds : role'[x] # None => role'[x].grants \subseteq LivePermissions'
         /\ \A x \in RoleIds : /\ role'[x] # None <=> role[x] # None
                               /\ x # r => role'[x] = role[x]
                               /\ role[x] # None => /\ role'[x].name = role[x].name
                                                    /\ role'[x].active = role[x].active
         /\ role'[r].grants = g
         /\ NamesUnique'
<1>1. role[r] \in RoleRow /\ LivePermissions \subseteq PermissionIds
  BY DEF AccessInv, AccessTyped, LivePermissions
<1>2. /\ role'[r] = [role[r] EXCEPT !.grants = g]
      /\ \A x \in RoleIds : x # r => role'[x] = role[x]
  BY DEF AccessInv, AccessTyped
<1>3. /\ role'[r] \in RoleRow /\ role'[r].name = role[r].name
      /\ role'[r].active = role[r].active /\ role'[r].grants = g
  BY <1>1, <1>2 DEF RoleRow
<1>4. role' \in [RoleIds -> RoleRow \cup {None}]
  BY <1>2, <1>3 DEF AccessInv, AccessTyped
<1>5. LivePermissions' = LivePermissions  BY DEF LivePermissions
<1>6. \A x \in RoleIds : role'[x] # None => role'[x].grants \subseteq LivePermissions'
  BY <1>2, <1>3, <1>5 DEF AccessInv, AccessTyped
<1>7. \A x \in RoleIds : /\ role'[x] # None <=> role[x] # None
                         /\ x # r => role'[x] = role[x]
                         /\ role[x] # None => /\ role'[x].name = role[x].name
                                              /\ role'[x].active = role[x].active
  BY <1>2, <1>3, Rows
<1>8. NamesUnique'  BY <1>7 DEF AccessInv, NamesUnique, RoleExists
<1> QED  BY <1>3, <1>4, <1>6, <1>7, <1>8

LEMMA SetRoleKeeps ==
  ASSUME AccessInv, NEW n \in BaseNames, SetRole(n)
  PROVE  AccessInv'
<1> DEFINE r == script.found[n]
<1> DEFINE g == script.grant[n] \cap LivePermissions
<1>1. /\ script \in ScriptRow /\ script.pc = "roles" /\ n \in script.left
      /\ UNCHANGED <<permission, nextPermission, nextRole, change, undisturbed, left>>
      /\ r # 0
  BY DEF SetRole, ScriptFrame, ScriptAt, AccessInv, AccessTyped
<1>2. CASE script' = Off /\ UNCHANGED role
  BY <1>1, <1>2, ScriptRestarts DEF AccessInv, AccessTyped
<1>3. CASE /\ RoleExists(r) /\ role' = [role EXCEPT ![r].grants = g]
           /\ script' = [script EXCEPT !.left = @ \ {n}]
  <2>1. r \in RoleIds /\ role[r] # None /\ g \in SUBSET LivePermissions
    BY <1>3 DEF RoleExists
  <2>2. /\ role' \in [RoleIds -> RoleRow \cup {None}]
        /\ \A x \in RoleIds : role'[x] # None => role'[x].grants \subseteq LivePermissions'
        /\ \A x \in RoleIds : /\ role'[x] # None <=> role[x] # None
                              /\ x # r => role'[x] = role[x]
                              /\ role[x] # None => role'[x].name = role[x].name
        /\ role'[r].grants = g
        /\ NamesUnique'
    BY <1>1, <1>3, <2>1, RoleSet
  <2>3. /\ script' \in ScriptRow /\ script'.pc = "roles" /\ script'.left = script.left \ {n}
        /\ script'.grant = script.grant /\ script'.found = script.found
    BY <1>1, <1>3 DEF ScriptRow
  <2>4. AccessTyped'  BY <1>1, <2>2, <2>3 DEF AccessInv, AccessTyped
  <2>5. /\ \A x : GrantsFor(x)' = GrantsFor(x)
        /\ LiveRoutes' = LiveRoutes
    BY <1>1 DEF GrantsFor, LivePermissions, LiveRoutes, RouteOf
  <2>6. \A x : RolesNamed(x)' = RolesNamed(x)
    BY <2>2 DEF RolesNamed
  <2>7. ASSUME undisturbed
        PROVE  LiveRoutes' = Available /\ \A x \in BaseNames : RoleSound(x)'
    <3>1. LiveRoutes = Available /\ \A x \in BaseNames : RoleSound(x)
      BY <1>1, <2>7 DEF AccessInv, ScriptSound, ScriptAt
    <3>2. g = GrantsFor(n)  BY <3>1, GrantsAreLive DEF RoleSound
    <3>3. role[r].name = n  BY <1>1, <3>1 DEF RoleSound
    <3>4. ASSUME NEW x \in BaseNames
          PROVE  script.found[x] # 0 =>
                   RoleExists(script.found[x])' /\ role'[script.found[x]].name = x
      BY <2>2, <2>3, <3>1 DEF RoleExists, RoleSound
    <3>5. ASSUME NEW x \in BaseNames, x \notin script'.left, NEW q \in RolesNamed(x)
          PROVE  role'[q].grants = GrantsFor(x)
      <4>1. q \in RoleIds /\ RoleExists(q) /\ role[q].name = x
        BY <3>5 DEF RolesNamed, RoleExists
      <4>2. CASE x = n
        <5>1. q = r  BY <1>3, <2>1, <3>3, <4>1, <4>2 DEF AccessInv, NamesUnique
        <5> QED  BY <2>2, <3>2, <4>2, <5>1
      <4>3. CASE x # n
        <5>1. x \notin script.left  BY <2>3, <3>5, <4>3
        <5>2. q # r  BY <3>3, <4>1, <4>3
        <5> QED  BY <2>2, <3>1, <3>5, <4>1, <5>1, <5>2 DEF RoleSound
      <4> QED  BY <4>2, <4>3
    <3>6. \A x \in BaseNames : RoleSound(x)'
      BY <2>3, <2>5, <2>6, <3>1, <3>4, <3>5 DEF RoleSound
    <3> QED  BY <2>5, <3>1, <3>6
  <2>8. ScriptSound'  BY <1>1, <2>3, <2>7 DEF ScriptSound, ScriptAt
  <2>9. NoneFoundYet'  BY <2>3 DEF NoneFoundYet, ScriptAt
  <2>10. IdsFresh'  BY <1>1 DEF AccessInv, IdsFresh
  <2> QED  BY <2>2, <2>4, <2>8, <2>9, <2>10 DEF AccessInv
<1> QED  BY <1>2, <1>3 DEF SetRole

LEMMA ScriptEnds ==
  ASSUME AccessInv, ExitScript \/ KillScript \/ StartScript
  PROVE  AccessInv'
<1>1. left' \in BudgetRow
  BY Spends DEF ExitScript, ScriptFrame, KillScript, StartScript, AccessInv, AccessTyped
<1> QED
  BY <1>1, ScriptRestarts DEF ExitScript, ScriptFrame, KillScript, StartScript

-----------------------------------------------------------------------------
(* The invariant *)

LEMMA SeededIds ==
  /\ DOMAIN SeededPermissions = 1..Cardinality(DOMAIN SeededPermissions)
  /\ Cardinality(DOMAIN SeededPermissions) \in 0..MaxPermissions
<1> DEFINE D == DOMAIN SeededPermissions
<1>1. MaxPermissions \in Nat /\ D \in SUBSET (1..MaxPermissions)
  BY AccessAssumption DEF PermissionIds
<1>2. IsFiniteSet(1..MaxPermissions) /\ Cardinality(1..MaxPermissions) = MaxPermissions
  BY <1>1, FS_Interval
<1>3. IsFiniteSet(D) /\ Cardinality(D) <= MaxPermissions
  BY <1>1, <1>2, FS_Subset
<1>4. Cardinality(D) \in Nat  BY <1>3, FS_CardinalityType
<1>5. D = 1..Cardinality(D)  BY AccessAssumption
<1> QED  BY <1>1, <1>3, <1>4, <1>5

LEMMA SeededRoles ==
  ASSUME NEW r \in {1, 2, 3}
  PROVE  /\ BaseName(r) \in RoleNames
         /\ SeededGrants(BaseName(r)) \subseteq PermissionIds
         /\ [name |-> BaseName(r), active |-> TRUE, grants |-> SeededGrants(BaseName(r))] \in RoleRow
<1>1. BaseName(r) \in RoleNames
  BY DEF BaseName, AdminRole, StudentRole, TeacherRole, RoleNames, BaseNames
<1>2. SeededGrants(BaseName(r)) \subseteq PermissionIds
  BY AccessAssumption DEF SeededGrants
<1> QED  BY <1>1, <1>2 DEF RoleRow

LEMMA BaseNamesDiffer ==
  \A q, r \in {1, 2, 3} : BaseName(q) = BaseName(r) => q = r
  BY DEF BaseName, AdminRole, StudentRole, TeacherRole

LEMMA AccessInitially ==
  ASSUME AccessInit
  PROVE  AccessInv
<1> DEFINE n == Cardinality(DOMAIN SeededPermissions)
<1> DEFINE row(r) == [name |-> BaseName(r), active |-> TRUE,
                      grants |-> SeededGrants(BaseName(r))]
<1>1. /\ n \in 0..MaxPermissions /\ DOMAIN SeededPermissions = 1..n
      /\ MaxPermissions \in Nat /\ MaxRoles \in Nat /\ MaxRoles >= 3
  BY SeededIds, AccessAssumption
<1>2. /\ permission \in [PermissionIds -> PermissionRow \cup {None}]
      /\ \A p \in PermissionIds : p \in 1..n <=> permission[p] # None
  BY <1>1, AccessAssumption, PermissionRows DEF AccessInit, PermissionIds
<1>3. nextPermission = n + 1 /\ nextPermission \in 1..(MaxPermissions + 1)
  BY <1>1 DEF AccessInit
<1>4. IdsFresh
  BY <1>1, <1>2, <1>3 DEF IdsFresh, PermissionIds
<1>5. \A r \in RoleIds : /\ r > 3 => role[r] = None
                         /\ r <= 3 => role[r] = row(r) /\ r \in {1, 2, 3}
  BY <1>1 DEF AccessInit, RoleIds
<1>6. role \in [RoleIds -> RoleRow \cup {None}]
  <2>1. \A r \in {1, 2, 3} : row(r) \in RoleRow  BY SeededRoles
  <2> HIDE DEF row
  <2>2. ASSUME NEW r \in RoleIds  PROVE role[r] \in RoleRow \cup {None}
    <3>1. CASE r > 3  BY <1>5, <3>1
    <3>2. CASE r <= 3  BY <1>5, <2>1, <3>2
    <3> QED  BY <1>1, <3>1, <3>2 DEF RoleIds
  <2> QED  BY <2>2 DEF AccessInit
<1>7. \A r \in RoleIds : role[r] # None => role[r].grants \subseteq LivePermissions
  <2>1. \A name : SeededGrants(name) \subseteq LivePermissions
    BY <1>1, <1>2, AccessAssumption DEF SeededGrants, LivePermissions
  <2>2. \A r \in {1, 2, 3} : row(r).grants \subseteq LivePermissions
    BY <2>1
  <2> HIDE DEF row
  <2>3. ASSUME NEW r \in RoleIds, role[r] # None
        PROVE  role[r].grants \subseteq LivePermissions
    <3>1. ~ r > 3  BY <1>5, <2>3
    <3>2. r <= 3  BY <1>1, <3>1 DEF RoleIds
    <3> QED  BY <1>5, <2>2, <3>2
  <2> QED  BY <2>3
<1>8. NamesUnique
  <2>1. ASSUME NEW r \in RoleIds, RoleExists(r)
        PROVE  r \in {1, 2, 3} /\ role[r].name = BaseName(r)
    <3>1. ~ r > 3  BY <1>5, <2>1 DEF RoleExists
    <3>2. r <= 3  BY <1>1, <3>1 DEF RoleIds
    <3>3. role[r] = row(r) /\ r \in {1, 2, 3}  BY <1>5, <3>2
    <3> QED  BY <3>3
  <2> QED  BY <2>1, BaseNamesDiffer DEF NamesUnique
<1>9. nextRole \in 1..(MaxRoles + 1)  BY <1>1 DEF AccessInit
<1>10. change \in [Slots -> ChangeRow]
  BY <1>1 DEF AccessInit, IdleChange, ChangeRow
<1>11. script \in ScriptRow /\ script.pc = "off" /\ script.found = [x \in BaseNames |-> 0]
  BY OffTyped DEF AccessInit, Off
<1>12. undisturbed \in BOOLEAN /\ left \in BudgetRow
  BY AccessAssumption DEF AccessInit
<1>13. AccessTyped
  BY <1>2, <1>3, <1>6, <1>7, <1>9, <1>10, <1>11, <1>12 DEF AccessTyped
<1>14. NoneFoundYet /\ ScriptSound
  BY <1>11 DEF NoneFoundYet, ScriptSound, ScriptAt
<1> QED  BY <1>4, <1>8, <1>13, <1>14 DEF AccessInv

LEMMA StartAccessKeeps ==
  ASSUME AccessInv, StartAccess
  PROVE  AccessInv'
<1>1. PermissionBodies \subseteq PermissionRow /\ RoleBodies \subseteq RoleRow
  BY AccessAssumption
<1>2. CASE StartScript  BY <1>2, ScriptEnds
<1>3. CASE \E row \in PermissionBodies : CreatePermission(row)
  BY <1>1, <1>3, CreatePermissionKeeps
<1>4. CASE \E row \in PermissionBodies, p \in PermissionIds : UpdatePermission(p, row)
  BY <1>1, <1>4, UpdatePermissionKeeps
<1>5. CASE \E p \in PermissionIds : DeletePermission(p)
  BY <1>5, DeletePermissionKeeps
<1>6. CASE \E body \in RoleBodies : CreateRole(body)
  BY <1>1, <1>6, CreateRoleKeeps
<1>7. CASE \E r \in RoleIds, s \in Slots : UpdateRole(s, r) \/ DeleteRole(s, r)
  BY <1>7, RoleOpened
<1> QED  BY <1>2, <1>3, <1>4, <1>5, <1>6, <1>7 DEF StartAccess

LEMMA ContinueScriptKeeps ==
  ASSUME AccessInv, ContinueScript
  PROVE  AccessInv'
  BY ReadPermissionsKeeps, DeleteObsoleteKeeps, AddMissingKeeps, RereadKeeps, FindRoleKeeps,
     SetRoleKeeps, ScriptEnds DEF ContinueScript

LEMMA ContinueAccessKeeps ==
  ASSUME AccessInv, NEW s \in Slots, ContinueAccess(s)
  PROVE  AccessInv'
<1>1. RoleBodies \subseteq RoleRow  BY AccessAssumption
<1> QED  BY <1>1, EraseRoleKeeps, WriteRoleKeeps DEF ContinueAccess

-----------------------------------------------------------------------------
(* Uploads, lessons and probes *)

\* What videos share with access is the budget, and a restart.
LEMMA LibraryFrame ==
  ASSUME AccessInv,
         \/ StartLibrary
         \/ \E s \in Slots : ContinueLibrary(s)
         \/ \E p \in Processes : Work(p)
  PROVE  AccessInv'
<1> USE DEF MediaFrame, ProbeFrame, accessVars
<1>1. ASSUME Spend("media") \/ Spend("fault") \/ UNCHANGED left
      PROVE  left' \in BudgetRow
  BY <1>1, Spends DEF AccessInv, AccessTyped
<1>2. ASSUME UNCHANGED accessVars, Spend("media") \/ Spend("fault") \/ UNCHANGED left
      PROVE  AccessInv'
  BY <1>1, <1>2, AccessFrame DEF AccessInv, AccessTyped
<1>3. ASSUME NEW s \in Slots, ContinueLibrary(s)  PROVE AccessInv'
  BY <1>2, <1>3 DEF ContinueLibrary, Accept, Reject
<1>4. ASSUME NEW p \in Processes, Work(p)  PROVE AccessInv'
  BY <1>2, <1>4
     DEF Work, TakeJob, Measure, FindLesson, WriteDuration, Complete, AttemptFails
<1>5. CASE Restart
  <2>1. IdleChange \in ChangeRow  BY AccessAssumption DEF IdleChange, ChangeRow
  <2>2. change' \in [Slots -> ChangeRow]  BY <1>5, <2>1 DEF Restart
  <2> QED  BY <1>1, <1>5, <2>2, AccessFrame DEF Restart
<1>6. ASSUME NEW s \in Slots, NEW f \in Files, Receive(s, f)  PROVE AccessInv'
  BY <1>2, <1>6 DEF Receive
<1>7. ASSUME NEW l \in Lessons, NEW k \in Keys, NEW d, UpdateLesson(l, k, d)
      PROVE  AccessInv'
  BY <1>2, <1>7 DEF UpdateLesson
<1>8. ASSUME NEW ext, InitUpload(ext)  PROVE AccessInv'
  BY <1>2, <1>8 DEF InitUpload
<1>9. ASSUME NEW f \in Files, Put(f)  PROVE AccessInv'
  BY <1>2, <1>9 DEF Put
<1>10. ASSUME NEW k \in Keys, UploadSuccess(k)  PROVE AccessInv'
  BY <1>2, <1>10 DEF UploadSuccess
<1>11. ASSUME NEW l \in Lessons, NEW k \in Keys, NEW d, CreateLesson(l, k, d)
       PROVE  AccessInv'
  BY <1>2, <1>11 DEF CreateLesson
<1>12. ASSUME NEW l \in Lessons, DeleteLesson(l)  PROVE AccessInv'
  BY <1>2, <1>12 DEF DeleteLesson
<1>13. ASSUME NEW p \in Processes, Break(p)  PROVE AccessInv'
  BY <1>2, <1>13 DEF Break, AttemptFails
<1>14. ASSUME NEW k \in Keys, Stalled(k)  PROVE AccessInv'
  BY <1>2, <1>14 DEF Stalled
<1>15. CASE StartLibrary
  BY <1>5, <1>6, <1>7, <1>8, <1>9, <1>10, <1>11, <1>12, <1>13, <1>14, <1>15 DEF StartLibrary
<1> QED  BY <1>3, <1>4, <1>15

LEMMA AccessStutters ==
  ASSUME AccessInv, UNCHANGED vars
  PROVE  AccessInv'
  BY AccessFrame DEF vars, accessVars, AccessInv, AccessTyped

LEMMA AccessSteps ==
  ASSUME AccessInv, [Next]_vars
  PROVE  AccessInv'
<1>1. ASSUME OnAccess(StartAccess) \/ OnAccess(ContinueScript) \/ OnAccess(KillScript)
      PROVE  AccessInv'
  BY <1>1, StartAccessKeeps, ContinueScriptKeeps, ScriptEnds DEF OnAccess
<1>2. ASSUME NEW s \in Slots, OnAccess(ContinueAccess(s))  PROVE AccessInv'
  BY <1>2, ContinueAccessKeeps DEF OnAccess
<1>3. ASSUME \/ StartLibrary
             \/ \E s \in Slots : ContinueLibrary(s)
             \/ \E p \in Processes : Work(p)
      PROVE  AccessInv'
  BY <1>3, LibraryFrame
<1>4. ASSUME UNCHANGED vars  PROVE AccessInv'
  BY <1>4, AccessStutters
<1> QED  BY <1>1, <1>2, <1>3, <1>4 DEF Next, Quiescent

\* The tables of permissions and roles are consistent, and the script's reads are true
\* as long as nobody writes.
THEOREM AccessAlways == Spec => []AccessInv
<1>1. Init => AccessInv  BY AccessInitially DEF Init
<1>2. AccessInv /\ [Next]_vars => AccessInv'  BY AccessSteps
<1> QED  BY <1>1, <1>2, PTL DEF Spec

-----------------------------------------------------------------------------
(* What the script brings about *)

\* A synchronisation that no administrator disturbs ends with exactly the permissions and
\* the roles' grants that the deployed code asks for (create-permissions.ts).
THEOREM SyncIsExact == Spec => []SyncEndsExact
<1>1. AccessInv => SyncEndsExact
  <2> SUFFICES ASSUME AccessInv, Synced, undisturbed
               PROVE  /\ LiveRoutes = Available
                      /\ \A n \in BaseNames, r \in RoleIds : RoleExists(r) /\ role[r].name = n =>
                           role[r].grants = GrantsFor(n)
    BY DEF SyncEndsExact, GrantsFor
  <2>1. LiveRoutes = Available /\ \A n \in BaseNames : RoleSound(n) /\ n \notin script.left
    BY DEF AccessInv, ScriptSound, Synced
  <2> QED  BY <2>1 DEF RoleSound, RolesNamed, RoleExists
<1> QED  BY <1>1, AccessAlways, PTL

\* Which steps move the script; in all others SyncKeepsServing has nothing to say.
LEMMA ScriptStands ==
  ASSUME [Next]_vars, script' # script
  PROVE  \/ OnAccess(StartAccess) /\ StartScript
         \/ OnAccess(ContinueScript) \/ OnAccess(KillScript)
<1> USE DEF MediaFrame, ProbeFrame, accessVars
<1>1. ~ UNCHANGED vars  BY DEF vars
<1>2. \A s \in Slots : ~ ContinueAccess(s)
  BY DEF ContinueAccess, EraseRole, WriteRole
<1>3. \A s \in Slots : ~ ContinueLibrary(s)
  BY DEF ContinueLibrary, Accept, Reject
<1>4. \A p \in Processes : ~ Work(p)
  BY DEF Work, TakeJob, Measure, FindLesson, WriteDuration, Complete, AttemptFails
<1>5. ~ StartLibrary
  BY DEF StartLibrary, Receive, InitUpload, Put, UploadSuccess, DeleteLesson,
         CreateLesson, UpdateLesson, Break, AttemptFails, Stalled, Restart
<1>6. StartAccess => StartScript
  BY DEF StartAccess, StartScript, CreatePermission, UpdatePermission, DeletePermission,
         CreateRole, UpdateRole, DeleteRole
<1> QED  BY <1>1, <1>2, <1>3, <1>4, <1>5, <1>6 DEF Next, Quiescent, OnAccess

\* A step that leaves a role's grants and their rows alone leaves it its routes.
LEMMA StaysAllowed ==
  ASSUME AccessInv, NEW r \in RoleIds, NEW t \in Routes, Allowed(r, t),
         role'[r] # None, role'[r].active = role[r].active,
         NEW p \in role[r].grants, RouteOf(p) = t,
         p \in role'[r].grants, permission'[p] = permission[p]
  PROVE  Allowed(r, t)'
  BY DEF Allowed, RoleExists, RouteOf

Excused(r, t) ==
  \/ t \notin Available
  \/ /\ role[r].name \in BaseNames
     /\ \A p \in role[r].grants :
          RouteOf(p) = t => permission[p].module \notin ModulesFor(role[r].name)

LEMMA TablesStand ==
  ASSUME AccessInv, NEW r \in RoleIds, NEW t \in Routes, Allowed(r, t),
         UNCHANGED <<permission, role>>
  PROVE  Allowed(r, t)'
  BY DEF Allowed, RoleExists, RouteOf

LEMMA DeleteExcused ==
  ASSUME AccessInv, NEW r \in RoleIds, NEW t \in Routes, Allowed(r, t), ~ Allowed(r, t)',
         DeleteObsolete, undisturbed
  PROVE  Excused(r, t)
<1>1. /\ script.drop = Obsolete /\ Erase(script.drop) /\ Obsolete \in SUBSET PermissionIds
      /\ UNCHANGED <<nextPermission, nextRole>>
  BY DEF DeleteObsolete, AccessInv, ScriptSound, ScriptAt, Obsolete, LivePermissions
<1>2. PICK p \in role[r].grants : RouteOf(p) = t  BY DEF Allowed
<1>3. role[r] # None /\ p \in LivePermissions
  BY <1>2 DEF Allowed, RoleExists, AccessInv, AccessTyped
<1>4. CASE p \in Obsolete  BY <1>2, <1>4 DEF Obsolete, Excused
<1>5. CASE p \notin Obsolete
  <2>1. permission'[p] = permission[p]
    BY <1>1, <1>3, <1>5 DEF Erase, LivePermissions
  <2>2. /\ role'[r] # None /\ role'[r].active = role[r].active
        /\ p \in role'[r].grants
    BY <1>1, <1>2, <1>3, <1>5, Erases
  <2> QED  BY <1>2, <2>1, <2>2, StaysAllowed
<1> QED  BY <1>4, <1>5

LEMMA AddExcused ==
  ASSUME AccessInv, NEW r \in RoleIds, NEW t \in Routes, Allowed(r, t), AddMissing
  PROVE  Allowed(r, t)'
<1>1. PICK p \in role[r].grants : RouteOf(p) = t  BY DEF Allowed
<1>2. role[r] # None /\ p \in LivePermissions
  BY <1>1 DEF Allowed, RoleExists, AccessInv, AccessTyped
<1>3. permission'[p] = permission[p] /\ role' = role
  BY <1>2, MissingAdded DEF AddMissing
<1> QED  BY <1>1, <1>2, <1>3, StaysAllowed

LEMMA SetExcused ==
  ASSUME AccessInv, NEW r \in RoleIds, NEW t \in Routes, Allowed(r, t), ~ Allowed(r, t)',
         NEW n \in BaseNames, SetRole(n), undisturbed
  PROVE  Excused(r, t)
<1> DEFINE x == script.found[n]
<1>1. script.pc = "roles" /\ RoleSound(n) /\ x # 0 /\ UNCHANGED permission
  BY DEF SetRole, ScriptAt, ScriptFrame, AccessInv, ScriptSound
<1>2. ~ UNCHANGED role  BY <1>1, TablesStand
<1>3. /\ RoleExists(x) /\ role[x].name = n
      /\ role' = [role EXCEPT ![x].grants = GrantsFor(n)]
  <2>1. script.grant[n] \cap LivePermissions = GrantsFor(n)
    BY <1>1, GrantsAreLive DEF RoleSound
  <2> QED  BY <1>1, <1>2, <2>1 DEF SetRole, RoleSound
<1>4. x \in RoleIds /\ role[x] # None /\ GrantsFor(n) \in SUBSET LivePermissions
  BY <1>3, GrantsAreLive DEF RoleExists
<1>5. /\ role'[x].grants = GrantsFor(n)
      /\ \A y \in RoleIds : /\ role'[y] # None <=> role[y] # None
                            /\ y # x => role'[y] = role[y]
                            /\ role[y] # None => role'[y].active = role[y].active
  BY <1>1, <1>3, <1>4, RoleSet
<1>6. r = x
  <2>1. ASSUME r # x  PROVE role'[r] = role[r]  BY <1>5, <2>1
  <2>2. PICK p \in role[r].grants : RouteOf(p) = t  BY DEF Allowed
  <2>3. role[r] # None  BY DEF Allowed, RoleExists
  <2> QED  BY <1>1, <2>1, <2>2, <2>3, StaysAllowed
<1>7. ASSUME NEW p \in role[r].grants, RouteOf(p) = t,
             permission[p].module \in ModulesFor(n)
      PROVE  FALSE
  <2>1. p \in LivePermissions /\ role[r] # None
    BY <1>7 DEF Allowed, RoleExists, AccessInv, AccessTyped
  <2>2. p \in role'[r].grants
    BY <1>5, <1>6, <1>7, <2>1 DEF GrantsFor
  <2> QED  BY <1>1, <1>5, <1>7, <2>1, <2>2, StaysAllowed
<1> QED  BY <1>3, <1>6, <1>7 DEF Excused

\* While it runs the service goes on: what the script takes away is gone with its route, or
\* was never a base role's to have.
THEOREM ScriptKeepsServing == Spec => SyncKeepsServing
<1>1. AccessInv /\ [Next]_vars =>
        \A r \in RoleIds, t \in Routes :
          script' # script /\ undisturbed /\ Allowed(r, t) /\ ~ Allowed(r, t)'
            => Excused(r, t)
  <2> SUFFICES ASSUME AccessInv, [Next]_vars, NEW r \in RoleIds, NEW t \in Routes,
                      script' # script, undisturbed, Allowed(r, t), ~ Allowed(r, t)'
               PROVE  Excused(r, t)
    OBVIOUS
  <2>1. StartScript \/ ContinueScript \/ KillScript
    BY ScriptStands DEF OnAccess
  <2>2. ~ UNCHANGED <<permission, role>>  BY TablesStand
  <2>3. DeleteObsolete \/ AddMissing \/ \E n \in BaseNames : SetRole(n)
    BY <2>1, <2>2 DEF StartScript, KillScript, ContinueScript, ReadPermissions, Reread,
                      FindRole, ExitScript
  <2> QED  BY <2>3, DeleteExcused, AddExcused, SetExcused
<1>2. AccessInv /\ [Next]_vars =>
        \A r \in RoleIds, t \in Routes :
          /\ script' # script /\ undisturbed
          /\ Allowed(r, t) /\ ~ Allowed(r, t)'
          => \/ t \notin Available
             \/ /\ role[r].name \in BaseNames
                /\ \A p \in role[r].grants :
                     RouteOf(p) = t => permission[p].module \notin ModulesFor(role[r].name)
  BY <1>1 DEF Excused
<1> QED  BY <1>2, AccessAlways, PTL DEF Spec, SyncKeepsServing
=============================================================================

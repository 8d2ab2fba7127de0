-------------------------------- MODULE Access --------------------------------
(***************************************************************************)
(* Who may call which route: the tables of permissions and roles as           *)
(* administrators edit them, what the guard reads there, and the script       *)
(* create-permissions, which brings them in line with the routes of a new     *)
(* deployment while the service runs and may be killed at any await.           *)
(***************************************************************************)
EXTENDS Integers, FiniteSets

CONSTANTS
  Slots,              \* requests in progress at once
  Routes,             \* pairs of a path and a method
  Available,          \* those that the deployed code has
  Modules, ModuleOf,  \* a route's module: the first part of its path
  TeacherModule, StudentModule,  \* the script's two lists of modules
  Names,              \* role names besides the three base ones
  SeededPermissions,  \* the rows there are at first, by id
  PermissionBodies,   \* bound: the routes and modules administrators enter
  RoleBodies,         \* bound: the names, activity and permissions they enter
  None,               \* no row
  MaxPermissions, MaxRoles,  \* bounds: ids
  Budgets             \* bound: how much happens, see `left`

AdminRole == 1
StudentRole == 2
TeacherRole == 3
BaseNames == {"ADMIN", "STUDENT", "TEACHER"}
RoleNames == BaseNames \cup Names
PermissionIds == 1..MaxPermissions
RoleIds == 1..MaxRoles

PermissionRow == [route : Routes, module : Modules]
RoleRow == [name : RoleNames, active : BOOLEAN, grants : SUBSET PermissionIds]

\* Requests of administrators and about videos, runs of the script, faults.
BudgetRow == [admin : Nat, media : Nat, sync : Nat, fault : Nat]

ASSUME AccessAssumption ==
  /\ MaxPermissions \in Nat /\ MaxRoles \in Nat /\ MaxRoles >= 3
  /\ Budgets \subseteq BudgetRow
  /\ Available \subseteq Routes /\ IsFiniteSet(Available) /\ ModuleOf \in [Routes -> Modules]
  /\ TeacherModule \subseteq Modules /\ StudentModule \subseteq Modules
  /\ Names \cap BaseNames = {}
  /\ SeededPermissions \in [1..Cardinality(DOMAIN SeededPermissions) -> PermissionRow]
  /\ DOMAIN SeededPermissions \subseteq PermissionIds
  /\ \A p, q \in DOMAIN SeededPermissions :
       p # q => SeededPermissions[p].route # SeededPermissions[q].route
  /\ PermissionBodies \subseteq PermissionRow /\ RoleBodies \subseteq RoleRow
  /\ None \notin PermissionRow \cup RoleRow

VARIABLES
  permission,      \* Permission rows by id; they are deleted for good
  nextPermission,  \* the next id of the sequence
  role, nextRole,  \* Role rows by id, with the permissions they are related to
  change,          \* requests of administrators on roles, in progress
  script,          \* the process that runs create-permissions
  undisturbed,     \* history: no administrator has acted since that process read
  left             \* how much of its budget the behaviour has left

accessVars == <<permission, nextPermission, role, nextRole, change, script, undisturbed>>

ChangeRow == [pc : {"idle", "roleWrite", "roleDelete"}, role : 0..MaxRoles]
IdleChange == [pc |-> "idle", role |-> 0]

\* What the script has read: the permissions to delete, the routes to add, what each
\* base role is to be related to; `found`, the ids of the roles it has looked up;
\* `left`, the names of those it has yet to write.
ScriptPcs == {"off", "read", "delete", "add", "reread", "roles"}
ScriptRow == [pc : ScriptPcs, drop : SUBSET PermissionIds, add : SUBSET Available,
              grant : [BaseNames -> SUBSET PermissionIds],
              found : [BaseNames -> 0..MaxRoles], left : SUBSET BaseNames]
Off == [pc |-> "off", drop |-> {}, add |-> {}, grant |-> [n \in BaseNames |-> {}],
        found |-> [n \in BaseNames |-> 0], left |-> {}]

Spend(what) == left[what] > 0 /\ left' = [left EXCEPT ![what] = @ - 1]

\* The script's filters on modules; an admin gets everything.
ModulesFor(name) == CASE name = "ADMIN" -> Modules
                      [] name = "TEACHER" -> TeacherModule
                      [] name = "STUDENT" -> StudentModule

SeededGrants(name) ==
  {p \in DOMAIN SeededPermissions : SeededPermissions[p].module \in ModulesFor(name)}
BaseName(r) == CASE r = AdminRole -> "ADMIN" [] r = StudentRole -> "STUDENT"
                 [] r = TeacherRole -> "TEACHER"

\* As an earlier deployment left it.
AccessInit ==
  /\ permission = [p \in PermissionIds |-> IF p \in DOMAIN SeededPermissions
                                           THEN SeededPermissions[p] ELSE None]
  /\ nextPermission = Cardinality(DOMAIN SeededPermissions) + 1
  /\ role = [r \in RoleIds |->
       IF r > 3 THEN None ELSE [name |-> BaseName(r), active |-> TRUE,
                                grants |-> SeededGrants(BaseName(r))]]
  /\ nextRole = 4
  /\ change = [s \in Slots |-> IdleChange]
  /\ script = Off /\ undisturbed = TRUE
  /\ left \in Budgets

-----------------------------------------------------------------------------
LivePermissions == {p \in PermissionIds : permission[p] # None}
RouteOf(p) == permission[p].route
LiveRoutes == {RouteOf(p) : p \in LivePermissions}
RoleExists(r) == r \in RoleIds /\ role[r] # None
RolesNamed(name) == {r \in RoleIds : role[r] # None /\ role[r].name = name}

\* validateUserPermission: one query for the token's role with what it has for the route.
Allowed(r, t) ==
  /\ RoleExists(r) /\ role[r].active
  /\ \E p \in role[r].grants : RouteOf(p) = t

-----------------------------------------------------------------------------
(* Administrators *)

\* The partial unique index on path and method.
RouteFree(t, p) == \A q \in LivePermissions \ {p} : RouteOf(q) # t

CreatePermission(row) ==
  /\ Spend("admin") /\ nextPermission \in PermissionIds /\ RouteFree(row.route, 0)
  /\ permission' = [permission EXCEPT ![nextPermission] = row]
  /\ nextPermission' = nextPermission + 1
  /\ undisturbed' = FALSE
  /\ UNCHANGED <<role, nextRole, change, script>>

UpdatePermission(p, row) ==
  /\ Spend("admin") /\ p \in LivePermissions /\ RouteFree(row.route, p)
  /\ permission' = [permission EXCEPT ![p] = row]
  /\ undisturbed' = FALSE
  /\ UNCHANGED <<nextPermission, role, nextRole, change, script>>

\* Removing rows takes them out of the relation with roles as well.
Erase(ps) ==
  /\ permission' = [p \in PermissionIds |-> IF p \in ps THEN None ELSE permission[p]]
  /\ role' = [r \in RoleIds |-> IF role[r] = None THEN None
                                ELSE [role[r] EXCEPT !.grants = @ \ ps]]

DeletePermission(p) ==
  /\ Spend("admin") /\ p \in LivePermissions /\ Erase({p})
  /\ undisturbed' = FALSE
  /\ UNCHANGED <<nextPermission, nextRole, change, script>>

NameFree(name, r) == \A x \in RolesNamed(name) : x = r

\* role.create: `connect` throws without one of the permissions.
CreateRole(body) ==
  /\ Spend("admin") /\ nextRole \in RoleIds
  /\ NameFree(body.name, 0) /\ body.grants \subseteq LivePermissions
  /\ role' = [role EXCEPT ![nextRole] = body] /\ nextRole' = nextRole + 1
  /\ undisturbed' = FALSE
  /\ UNCHANGED <<permission, nextPermission, change, script>>

\* verifyRole
Renamable(r) == RoleExists(r) /\ role[r].name # "ADMIN"
Removable(r) == RoleExists(r) /\ role[r].name \notin BaseNames

UpdateRole(s, r) ==
  /\ change[s].pc = "idle" /\ Spend("admin") /\ Renamable(r)
  /\ change' = [change EXCEPT ![s] = [pc |-> "roleWrite", role |-> r]]
  /\ UNCHANGED <<permission, nextPermission, role, nextRole, script, undisturbed>>

\* External: whether `set` ignores ids that have no row or throws is Prisma's affair.
WriteRole(s, body) ==
  LET r == change[s].role
      Write == /\ role' = [role EXCEPT ![r] =
                    [body EXCEPT !.grants = @ \cap LivePermissions]]
               /\ undisturbed' = FALSE
      Writable == RoleExists(r) /\ NameFree(body.name, r)
  IN /\ change[s].pc = "roleWrite"
     /\ change' = [change EXCEPT ![s] = IdleChange]
     /\ \/ Writable /\ Write
        \/ /\ ~ Writable \/ ~ body.grants \subseteq LivePermissions
           /\ UNCHANGED <<role, undisturbed>>
     /\ UNCHANGED <<permission, nextPermission, nextRole, script, left>>

DeleteRole(s, r) ==
  /\ change[s].pc = "idle" /\ Spend("admin") /\ Removable(r)
  /\ change' = [change EXCEPT ![s] = [pc |-> "roleDelete", role |-> r]]
  /\ UNCHANGED <<permission, nextPermission, role, nextRole, script, undisturbed>>

\* A role with users cannot be removed; Administration knows which have some.
EraseRole(s) ==
  LET r == change[s].role
  IN /\ change[s].pc = "roleDelete"
     /\ change' = [change EXCEPT ![s] = IdleChange]
     /\ \/ role' = [role EXCEPT ![r] = None] /\ undisturbed' = FALSE
        \/ UNCHANGED <<role, undisturbed>>
     /\ UNCHANGED <<permission, nextPermission, nextRole, script, left>>

-----------------------------------------------------------------------------
(* create-permissions *)

ScriptAt(pc) == script.pc = pc
ScriptFrame == <<change, undisturbed, left>>

StartScript ==
  /\ ScriptAt("off") /\ Spend("sync")
  /\ script' = [Off EXCEPT !.pc = "read"]
  /\ UNCHANGED <<permission, nextPermission, role, nextRole, change, undisturbed>>

ObsoleteAll == LivePermissions  \* mutant: delete everything and add it again
Obsolete == {p \in LivePermissions : RouteOf(p) \notin Available}
ReadPermissions ==
  /\ ScriptAt("read")
  /\ script' = [script EXCEPT !.pc = "delete", !.drop = Obsolete,
                              !.add = Available \ LiveRoutes]
  /\ undisturbed' = TRUE
  /\ UNCHANGED <<permission, nextPermission, role, nextRole, change, left>>

DeleteObsolete ==
  /\ ScriptAt("delete") /\ Erase(script.drop)
  /\ script' = [script EXCEPT !.pc = "add"]
  /\ UNCHANGED <<nextPermission, nextRole, ScriptFrame>>

\* createMany with skipDuplicates, in some order.  Past MaxPermissions (a bound)
\* the script stands still.
Missing == {t \in script.add : t \notin LiveRoutes}
AddMissing ==
  /\ ScriptAt("add") /\ nextPermission + Cardinality(Missing) <= MaxPermissions + 1
  /\ \E id \in [Missing -> nextPermission..(nextPermission + Cardinality(Missing) - 1)] :
       /\ \A t, u \in Missing : t # u => id[t] # id[u]
       /\ permission' = [p \in PermissionIds |->
            IF \E t \in Missing : id[t] = p
            THEN LET t == CHOOSE t \in Missing : id[t] = p
                 IN [route |-> t, module |-> ModuleOf[t]]
            ELSE permission[p]]
  /\ nextPermission' = nextPermission + Cardinality(Missing)
  /\ script' = [script EXCEPT !.pc = "reread"]
  /\ UNCHANGED <<role, nextRole, ScriptFrame>>

GrantsAsFirstRead(name) ==  \* mutant: from the first read
  {p \in LivePermissions : permission[p].module \in ModulesFor(name)
                           /\ RouteOf(p) \notin script.add}
GrantsFor(name) ==
  {p \in LivePermissions : permission[p].module \in ModulesFor(name)}
Reread ==
  /\ ScriptAt("reread")
  /\ script' = [script EXCEPT !.pc = "roles", !.left = BaseNames,
                              !.grant = [n \in BaseNames |-> GrantsFor(n)]]
  /\ UNCHANGED <<permission, nextPermission, role, nextRole, ScriptFrame>>

\* updateRole, three at once: a name that no role has ends the process.
FindRole(n) ==
  /\ ScriptAt("roles") /\ n \in script.left /\ script.found[n] = 0
  /\ \/ \E r \in RolesNamed(n) : script' = [script EXCEPT !.found[n] = r]
     \/ RolesNamed(n) = {} /\ script' = Off
  /\ UNCHANGED <<permission, nextPermission, role, nextRole, ScriptFrame>>

SetRole(n) ==
  LET r == script.found[n]
  IN /\ ScriptAt("roles") /\ n \in script.left /\ r # 0
     /\ \/ /\ RoleExists(r)
           /\ role' = [role EXCEPT ![r].grants = script.grant[n] \cap LivePermissions]
           /\ script' = [script EXCEPT !.left = @ \ {n}]
        \/ /\ ~ RoleExists(r) \/ ~ script.grant[n] \subseteq LivePermissions
           /\ script' = Off /\ UNCHANGED role
     /\ UNCHANGED <<permission, nextPermission, nextRole, ScriptFrame>>

Synced == ScriptAt("roles") /\ script.left = {}
ExitScript ==
  /\ Synced /\ script' = Off
  /\ UNCHANGED <<permission, nextPermission, role, nextRole, ScriptFrame>>

KillScript ==
  /\ ~ ScriptAt("off") /\ Spend("fault") /\ script' = Off
  /\ UNCHANGED <<permission, nextPermission, role, nextRole, change, undisturbed>>

ContinueAccess(s) == EraseRole(s) \/ \E body \in RoleBodies : WriteRole(s, body)
ContinueScript ==
  \/ ReadPermissions \/ DeleteObsolete \/ AddMissing \/ Reread
  \/ \E n \in BaseNames : FindRole(n) \/ SetRole(n)
  \/ ExitScript

StartAccess ==
  \/ StartScript
  \/ \E row \in PermissionBodies :
       CreatePermission(row) \/ \E p \in PermissionIds : UpdatePermission(p, row)
  \/ \E p \in PermissionIds : DeletePermission(p)
  \/ \E body \in RoleBodies : CreateRole(body)
  \/ \E r \in RoleIds, s \in Slots : UpdateRole(s, r) \/ DeleteRole(s, r)
=============================================================================

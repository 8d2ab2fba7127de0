------------------------------- MODULE Accounts -------------------------------
(***************************************************************************)
(* The tables that registration, password reset, profiles and administration *)
(* share: users, roles and one-time codes, the process's cache of base role   *)
(* ids, and the requests in progress.  Registration, Profile and              *)
(* Administration are the handlers; AccountService puts them together.        *)
(***************************************************************************)
EXTENDS Integers, FiniteSets

CONSTANTS
  Slots,      \* requests in progress at once
  Emails,     \* e-mail addresses
  Customers,  \* those whose owners register or reset a password
  Codes,      \* values of a one-time code
  Names,      \* role names besides the three base ones
  Grants, Statuses,  \* the roles and statuses staff enter (active or not)
  Seeded,     \* the users there are at first, by id: [email, role]
  None,       \* no row, nothing cached
  MaxUsers, MaxRoles, MaxEdits, MaxFaults  \* bounds: user and role ids, requests
                                           \* of staff and profiles, faults

\* The seed script creates the three base roles.
AdminRole == 1
StudentRole == 2
TeacherRole == 3
BaseNames == {"ADMIN", "STUDENT", "TEACHER"}

UserIds == 1..MaxUsers
RoleIds == 1..MaxRoles
Types == {"REGISTER", "FORGOT_PASSWORD"}
RoleNames == BaseNames \cup Names

ASSUME AccountsAssumption ==
  /\ MaxUsers \in Nat /\ MaxRoles \in Nat /\ MaxRoles >= 3
  /\ MaxEdits \in Nat /\ MaxFaults \in Nat
  /\ Names \cap BaseNames = {}
  /\ Customers \subseteq Emails /\ Grants \subseteq RoleIds
  /\ Statuses \subseteq BOOLEAN
  /\ None \notin RoleNames /\ None \notin Emails /\ None \notin RoleIds

\* `password` tells the one a reset has set from any other.
UserRow == [email : Emails, role : RoleIds, active : BOOLEAN, live : BOOLEAN,
            password : {"other", "reset"}]
CodeRow == [value : Codes, expired : BOOLEAN]

ASSUME SeedAssumption ==
  /\ Seeded \in [1..Cardinality(DOMAIN Seeded) -> [email : Emails, role : 1..3]]
  /\ DOMAIN Seeded \subseteq UserIds
  /\ \A u, v \in DOMAIN Seeded : u # v => Seeded[u].email # Seeded[v].email
  /\ None \notin UserRow /\ None \notin CodeRow

VARIABLES
  user,      \* User rows by id, deleted ones included
  role,      \* names of the Role rows by id
  nextRole,  \* the next role id
  code,      \* VerificationCode rows by email and type
  cache,     \* the role ids SharedRoleRepository has looked up
  req,       \* requests in progress
  spent,     \* history: whether a code has admitted a request since the last send
  edits,     \* requests of staff and profiles so far, at most MaxEdits
  faults     \* faults so far, at most MaxFaults

vars == <<user, role, nextRole, code, cache, req, spent, edits, faults>>

Pcs == {"idle", "otp", "spend", "student", "account", "find", "reset",
        "userInsert", "userWrite", "userDelete", "roleWrite", "roleDelete", "ownPassword"}

\* `user` and `role` are the rows a request writes to or gives; `seen` is its
\* target's role when it was read; `byAdmin`: the guard found the agent to be ADMIN.
ReqRow == [pc : Pcs, email : Emails \cup {None}, type : Types,
           user : 0..MaxUsers, role : 0..MaxRoles, seen : 0..MaxRoles,
           byAdmin : BOOLEAN]

IdleReq == [pc |-> "idle", email |-> None, type |-> "REGISTER", user |-> 0,
            role |-> 0, seen |-> 0, byAdmin |-> FALSE]

Init ==
  /\ user = [u \in UserIds |->
       IF u \in DOMAIN Seeded
       THEN [email |-> Seeded[u].email, role |-> Seeded[u].role, active |-> TRUE,
             live |-> TRUE, password |-> "other"]
       ELSE None]
  /\ role = [r \in RoleIds |->
       CASE r = AdminRole -> "ADMIN" [] r = StudentRole -> "STUDENT"
         [] r = TeacherRole -> "TEACHER" [] OTHER -> None]
  /\ nextRole = 4
  /\ code = [k \in Customers \X Types |-> None]
  /\ cache = [admin |-> None, student |-> None]
  /\ req = [s \in Slots |-> IdleReq]
  /\ spent = [k \in Customers \X Types |-> TRUE]
  /\ edits = 0 /\ faults = 0

-----------------------------------------------------------------------------
At(s, pc) == req[s].pc = pc
Goto(s, pc) == req' = [req EXCEPT ![s].pc = pc]
Finish(s) == req' = [req EXCEPT ![s] = IdleReq]
Begin(s) == At(s, "idle") /\ edits < MaxEdits /\ edits' = edits + 1

UserExists(u) == u \in UserIds /\ user[u] # None
Live(u) == UserExists(u) /\ user[u].live
RoleExists(r) == r \in RoleIds /\ role[r] # None

\* findUnique of a live user by e-mail, and the partial unique index behind it.
LiveAccount(e) == \E u \in UserIds : Live(u) /\ user[u].email = e
EmailTakenBesides(e, u) == \E v \in UserIds \ {u} : Live(v) /\ user[v].email = e

\* Ids of the sequence; past MaxUsers an insert is dropped (a bound).
FreeUserIds == {u \in UserIds : user[u] = None}
NextUser == CHOOSE u \in FreeUserIds : \A v \in FreeUserIds : u <= v

\* user.create: the role must exist, the e-mail must be free.
Insertable(e, r) == RoleExists(r) /\ ~ LiveAccount(e) /\ FreeUserIds # {}
InsertRow(e, r, active) ==
  user' = [user EXCEPT ![NextUser] =
             [email |-> e, role |-> r, active |-> active, live |-> TRUE,
              password |-> "other"]]

\* getRole: the role that has a base name, if any; asked once, then cached.
RoleNamed(name) == {r \in RoleIds : role[r] = name}
LookUpOrZero(cached, name) ==  \* mutant: no role gives id 0
  IF cached # None THEN {cached}
  ELSE IF RoleNamed(name) = {} THEN {0} ELSE RoleNamed(name)
LookUp(cached, name) == IF cached # None THEN {cached} ELSE RoleNamed(name)
=============================================================================

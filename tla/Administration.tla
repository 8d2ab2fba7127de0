---------------------------- MODULE Administration ----------------------------
(***************************************************************************)
(* Users and roles as administrators and teachers edit them.  The guard has  *)
(* looked up the agent and its role's name when a handler starts.  What no    *)
(* check looks at before the write is chosen there.                           *)
(***************************************************************************)
EXTENDS Accounts

Frame == <<nextRole, code, spent, faults>>

\* The guard asks for the agent's row by id and role, deleted or not.
IsAdmin(agent) == role[user[agent].role] = "ADMIN"

\* verifyRole: only an admin touches the admin role.
MayTouch(byAdmin, r) == byAdmin \/ r \notin LookUp(cache.admin, "ADMIN")
CacheAdmin(byAdmin) ==
  cache' = IF byAdmin \/ cache.admin # None THEN cache
           ELSE [cache EXCEPT !.admin = CHOOSE r \in RoleNamed("ADMIN") : TRUE]

CreateUser(s, agent, e, r) ==
  /\ Begin(s) /\ UserExists(agent) /\ CacheAdmin(IsAdmin(agent))
  /\ IF MayTouch(IsAdmin(agent), r)
     THEN req' = [req EXCEPT ![s].pc = "userInsert", ![s].email = e, ![s].role = r,
                             ![s].byAdmin = IsAdmin(agent)]
     ELSE UNCHANGED req
  /\ UNCHANGED <<user, role, Frame>>

InsertUser(s) ==
  /\ At(s, "userInsert") /\ Finish(s)
  /\ \/ /\ Insertable(req[s].email, req[s].role)
        /\ \E active \in Statuses : InsertRow(req[s].email, req[s].role, active)
     \/ ~ Insertable(req[s].email, req[s].role) /\ UNCHANGED user
  /\ UNCHANGED <<role, cache, edits, Frame>>

\* The target's role and the one it is to get, both against the agent's.
MayUpdateTarget(byAdmin, u, r) == MayTouch(byAdmin, user[u].role)  \* mutant
MayUpdateTo(byAdmin, u, r) == MayTouch(byAdmin, r)                 \* mutant
MayUpdate(byAdmin, u, r) == MayTouch(byAdmin, user[u].role) /\ MayTouch(byAdmin, r)

UpdateUser(s, agent, u, r) ==
  /\ Begin(s) /\ UserExists(agent) /\ agent # u /\ Live(u)
  /\ CacheAdmin(IsAdmin(agent))
  /\ IF MayUpdate(IsAdmin(agent), u, r)
     THEN req' = [req EXCEPT ![s].pc = "userWrite", ![s].user = u, ![s].role = r,
                             ![s].seen = user[u].role, ![s].byAdmin = IsAdmin(agent)]
     ELSE UNCHANGED req
  /\ UNCHANGED <<user, role, Frame>>

WriteUser(s) ==
  LET u == req[s].user
      Writable(e) == Live(u) /\ RoleExists(req[s].role) /\ ~ EmailTakenBesides(e, u)
  IN /\ At(s, "userWrite") /\ Finish(s)
     /\ \E e \in Emails :
          \/ /\ Writable(e)
             /\ \E active \in Statuses, password \in {"other", user[u].password} :
                  user' = [user EXCEPT ![u] =
                    [email |-> e, role |-> req[s].role, active |-> active,
                     live |-> TRUE, password |-> password]]
          \/ ~ Writable(e) /\ UNCHANGED user
     /\ UNCHANGED <<role, cache, edits, Frame>>

DeleteUser(s, agent, u) ==
  /\ Begin(s) /\ UserExists(agent) /\ agent # u /\ Live(u)
  /\ CacheAdmin(IsAdmin(agent))
  /\ IF MayTouch(IsAdmin(agent), user[u].role)
     THEN req' = [req EXCEPT ![s].pc = "userDelete", ![s].user = u,
                             ![s].seen = user[u].role, ![s].byAdmin = IsAdmin(agent)]
     ELSE UNCHANGED req
  /\ UNCHANGED <<user, role, Frame>>

MarkDeleted(s) ==
  LET u == req[s].user
  IN /\ At(s, "userDelete") /\ Finish(s)
     /\ user' = IF Live(u) THEN [user EXCEPT ![u].live = FALSE] ELSE user
     /\ UNCHANGED <<role, cache, edits, Frame>>

-----------------------------------------------------------------------------
\* The unique index on role names; roles are deleted for good.
NameFree(name, r) == \A x \in RoleIds \ {r} : role[x] # name

CreateRole(s, name) ==
  /\ Begin(s)
  /\ IF NameFree(name, 0) /\ nextRole \in RoleIds
     THEN role' = [role EXCEPT ![nextRole] = name] /\ nextRole' = nextRole + 1
     ELSE UNCHANGED <<role, nextRole>>
  /\ UNCHANGED <<user, code, cache, req, spent, faults>>

\* verifyRole of role.service.ts: a rename spares ADMIN, a deletion the three.
RenamableAny(r) == RoleExists(r)  \* mutant: no verifyRole
Renamable(r) == RoleExists(r) /\ role[r] # "ADMIN"
Removable(r) == RoleExists(r) /\ role[r] \notin BaseNames

UpdateRole(s, r) ==
  /\ Begin(s) /\ Renamable(r)
  /\ req' = [req EXCEPT ![s].pc = "roleWrite", ![s].role = r]
  /\ UNCHANGED <<user, role, cache, Frame>>

WriteRole(s, name) ==
  /\ At(s, "roleWrite") /\ Finish(s)
  /\ role' = IF RoleExists(req[s].role) /\ NameFree(name, req[s].role)
             THEN [role EXCEPT ![req[s].role] = name] ELSE role
  /\ UNCHANGED <<user, cache, edits, Frame>>

DeleteRole(s, r) ==
  /\ Begin(s) /\ Removable(r)
  /\ req' = [req EXCEPT ![s].pc = "roleDelete", ![s].role = r]
  /\ UNCHANGED <<user, role, cache, Frame>>

\* The foreign key of users, deleted ones too, keeps a role.
InUse(r) == \E u \in UserIds : UserExists(u) /\ user[u].role = r
EraseRole(s) ==
  LET r == req[s].role
  IN /\ At(s, "roleDelete") /\ Finish(s)
     /\ role' = IF InUse(r) THEN role ELSE [role EXCEPT ![r] = None]
     /\ UNCHANGED <<user, cache, edits, Frame>>

ContinueAdministration(s) ==
  \/ InsertUser(s) \/ WriteUser(s) \/ MarkDeleted(s)
  \/ \E name \in RoleNames : WriteRole(s, name)
  \/ EraseRole(s)

StartAdministration(s) ==
  \/ \E agent \in UserIds :
       \/ \E e \in Emails, r \in Grants : CreateUser(s, agent, e, r)
       \/ \E u \in UserIds, r \in Grants : UpdateUser(s, agent, u, r)
       \/ \E u \in UserIds : DeleteUser(s, agent, u)
  \/ \E name \in RoleNames : CreateRole(s, name)
  \/ \E r \in RoleIds : UpdateRole(s, r) \/ DeleteRole(s, r)
=============================================================================

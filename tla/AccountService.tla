---------------------------- MODULE AccountService ----------------------------
(***************************************************************************)
(* Registration, profiles and administration over the same tables, and       *)
(* restarts of the process, which lose its requests and its cache.            *)
(***************************************************************************)
EXTENDS Registration, Administration, Profile

\* OTP_EXPIRES_IN has passed; a code that is used in time counts as no fault.
Expire(k) ==
  /\ code[k] # None /\ ~ code[k].expired /\ faults < MaxFaults
  /\ code' = [code EXCEPT ![k].expired = TRUE]
  /\ faults' = faults + 1
  /\ UNCHANGED <<user, role, nextRole, cache, req, spent, edits>>

Restart ==
  /\ faults < MaxFaults /\ faults' = faults + 1
  /\ req' = [s \in Slots |-> IdleReq]
  /\ cache' = [admin |-> None, student |-> None]
  /\ UNCHANGED <<user, role, nextRole, code, spent, edits>>

Continue(s) == ContinueRegistration(s) \/ ContinueAdministration(s) \/ StorePassword(s)

Next ==
  \/ \E s \in Slots :
       \/ StartRegistration(s) \/ StartAdministration(s) \/ Continue(s)
       \/ \E u \in UserIds : VerifyPassword(s, u)
  \/ \E k \in Customers \X Types : Expire(k)
  \/ Restart

Spec == Init /\ [][Next]_vars

-----------------------------------------------------------------------------
(* A customer who wants an account: asks for a code when there is no good    *)
(* one, and registers with the one there is, again and again.                *)

RegisterCode(e) == \E c \in Codes : Matches(e, "REGISTER", c)
AskForCode(e) == \E s \in Slots : ~ RegisterCode(e) /\ SendOTP(s, e, "REGISTER")
TryCode(e) == \E s \in Slots, c \in Codes : PresentCode(s, e, "REGISTER", c)

Fairness == \A s \in Slots : WF_vars(Continue(s))
CustomerSpec ==
  /\ Spec /\ Fairness
  /\ \A e \in Customers : SF_vars(AskForCode(e)) /\ SF_vars(TryCode(e))

-----------------------------------------------------------------------------
(* Properties *)

TypeOK ==
  /\ user \in [UserIds -> UserRow \cup {None}]
  /\ role \in [RoleIds -> RoleNames \cup {None}]
  /\ nextRole \in 4..(MaxRoles + 1)
  /\ code \in [Customers \X Types -> CodeRow \cup {None}]
  /\ cache \in [admin : RoleIds \cup {None}, student : RoleIds \cup {None}]
  /\ req \in [Slots -> ReqRow]
  /\ spent \in [Customers \X Types -> BOOLEAN]
  /\ edits \in 0..MaxEdits /\ faults \in 0..MaxFaults

\* The ADMIN role is the seeded one for ever, and the id that the process has
\* cached for it stays right, whatever renames, creations and deletions of
\* roles overlap (role.service.ts verifyRole, shared-role.repo.ts).
AdminRoleStays ==
  /\ \A r \in RoleIds : role[r] = "ADMIN" <=> r = AdminRole
  /\ cache.admin \in {None, AdminRole}

\* Between two admissions by code for one e-mail and purpose, a new code has
\* been sent: requests that have both read one code are not both admitted
\* (auth.service.ts validateOTP).
Admits(s) == At(s, "spend") /\ req'[s].pc \in {"student", "find"}
EachSendAdmitsOnce ==
  [][\A s \in Slots : Admits(s) => ~ spent[<<req[s].email, req[s].type>>]]_vars

\* A request that writes a user row is in the slot that its step frees.
Writes(s, u) == ~ At(s, "idle") /\ At(s, "idle")' /\ user'[u] # user[u]
IsAdminRow(row) == row # None /\ row.role = AdminRole

\* Nobody becomes an admin but by an admin's request (user.service.ts: only an
\* ADMIN may create an admin or give the role).
OnlyAdminsMakeAdmins ==
  [][\A u \in UserIds : ~ IsAdminRow(user[u]) /\ IsAdminRow(user'[u]) =>
       \E s \in Slots : Writes(s, u) /\ req[s].byAdmin]_vars

\* Who is not an admin changes or deletes an admin only if the target has become
\* one since the request looked at it (user.service.ts verifyRole).
NonAdminsSpareAdmins ==
  [][\A s \in Slots, u \in UserIds :
       /\ Writes(s, u) /\ IsAdminRow(user[u]) /\ ~ req[s].byAdmin
       /\ req[s].pc \in {"userWrite", "userDelete"}
       => req[s].seen # AdminRole]_vars

\* As long as the STUDENT role is what it was, a customer who keeps asking for
\* codes and using them has an account in the end, whatever codes are consumed
\* in vain, expire or are overwritten, whoever else registers with the address
\* or is given or stripped of it, and although the process restarts.
CustomersGetAccounts ==
  \A e \in Customers :
    [](role[StudentRole] = "STUDENT") => []<>LiveAccount(e)
=============================================================================

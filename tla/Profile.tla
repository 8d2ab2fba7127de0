------------------------------- MODULE Profile --------------------------------
(***************************************************************************)
(* A user's change of the own password, split at its awaits.  That the old   *)
(* one is asked for is a matter of the first step alone.                      *)
(***************************************************************************)
EXTENDS Accounts

\* Read by id; deleted and blocked users are not found.
Found(u) == Live(u) /\ user[u].active

VerifyPassword(s, u) ==
  /\ Begin(s) /\ Found(u)
  /\ req' = [req EXCEPT ![s].pc = "ownPassword", ![s].user = u]
  /\ UNCHANGED <<user, role, nextRole, code, cache, spent, faults>>

\* The update looks for the user again, and not for the password that was verified.
StorePassword(s) ==
  /\ At(s, "ownPassword") /\ Finish(s)
  /\ user' = IF Found(req[s].user)
             THEN [user EXCEPT ![req[s].user].password = "other"] ELSE user
  /\ UNCHANGED <<role, nextRole, code, cache, spent, edits, faults>>
=============================================================================

----------------------------- MODULE Registration -----------------------------
(***************************************************************************)
(* One-time codes, registration and password reset, split at their awaits.  *)
(* The code that is sent arrives; the session that follows a registration is *)
(* in Session.                                                               *)
(***************************************************************************)
EXTENDS Accounts

Tables == <<user, role, nextRole>>

\* sendOTP: registering needs a free e-mail, a reset a taken one.
AddressedInAll(e, type) ==  \* mutant: deleted accounts count
  (\E u \in UserIds : UserExists(u) /\ user[u].email = e) <=> type = "FORGOT_PASSWORD"
Addressed(e, type) == LiveAccount(e) <=> type = "FORGOT_PASSWORD"

SendOTP(s, e, type) ==
  /\ At(s, "idle") /\ Addressed(e, type)
  /\ req' = [req EXCEPT ![s].pc = "otp", ![s].email = e, ![s].type = type]
  /\ UNCHANGED <<Tables, code, cache, spent, edits, faults>>

\* createOTP is one upsert: a new code takes the old one's place.
CreateOTP(s, c) ==
  LET k == <<req[s].email, req[s].type>>
  IN /\ At(s, "otp") /\ Finish(s)
     /\ code' = [code EXCEPT ![k] = [value |-> c, expired |-> FALSE]]
     /\ spent' = [spent EXCEPT ![k] = FALSE]
     /\ UNCHANGED <<Tables, cache, edits, faults>>

\* validateOTP's read and its checks.
Matches(e, type, c) ==
  code[<<e, type>>] # None /\ code[<<e, type>>] = [value |-> c, expired |-> FALSE]
PresentCode(s, e, type, c) ==
  /\ At(s, "idle") /\ Matches(e, type, c)
  /\ req' = [req EXCEPT ![s].pc = "spend", ![s].email = e, ![s].type = type]
  /\ UNCHANGED <<Tables, code, cache, spent, edits, faults>>

\* deleteOTP, by e-mail and type: without a row it throws.
DeletableOrNot(k) == TRUE  \* mutant: deleteMany
Deletable(k) == code[k] # None
DeleteOTP(s) ==
  LET k == <<req[s].email, req[s].type>>
  IN /\ At(s, "spend")
     /\ IF Deletable(k)
        THEN /\ code' = [code EXCEPT ![k] = None]
             /\ spent' = [spent EXCEPT ![k] = TRUE]
             /\ Goto(s, IF req[s].type = "REGISTER" THEN "student" ELSE "find")
        ELSE Finish(s) /\ UNCHANGED <<code, spent>>
     /\ UNCHANGED <<Tables, cache, edits, faults>>

\* getStudentRoleId
FindStudentRole(s) ==
  /\ At(s, "student")
  /\ \/ \E r \in LookUp(cache.student, "STUDENT") :
          /\ cache' = [cache EXCEPT !.student = r]
          /\ req' = [req EXCEPT ![s].pc = "account", ![s].role = r]
     \/ LookUp(cache.student, "STUDENT") = {} /\ Finish(s) /\ UNCHANGED cache
  /\ UNCHANGED <<Tables, code, spent, edits, faults>>

CreateAccount(s) ==
  /\ At(s, "account") /\ Finish(s)
  /\ IF Insertable(req[s].email, req[s].role)
     THEN InsertRow(req[s].email, req[s].role, TRUE)
     ELSE UNCHANGED user
  /\ UNCHANGED <<role, nextRole, code, cache, spent, edits, faults>>

\* changePassword finds an ACTIVE user by e-mail; the query says nothing of
\* deleted ones, so that any row with the e-mail may be the first.
FindByEmail(s) ==
  LET found == {u \in UserIds : UserExists(u) /\ user[u].active
                                /\ user[u].email = req[s].email}
  IN /\ At(s, "find")
     /\ \/ \E u \in found : req' = [req EXCEPT ![s].pc = "reset", ![s].user = u]
        \/ found = {} /\ Finish(s)
     /\ UNCHANGED <<Tables, code, cache, spent, edits, faults>>

ChangePassword(s) ==
  /\ At(s, "reset") /\ Finish(s)
  /\ user' = IF user[req[s].user].active
             THEN [user EXCEPT ![req[s].user].password = "reset"] ELSE user
  /\ UNCHANGED <<role, nextRole, code, cache, spent, edits, faults>>

ContinueRegistration(s) ==
  \/ \E c \in Codes : CreateOTP(s, c)
  \/ DeleteOTP(s) \/ FindStudentRole(s) \/ CreateAccount(s)
  \/ FindByEmail(s) \/ ChangePassword(s)

StartRegistration(s) ==
  \E e \in Customers, type \in Types :
    SendOTP(s, e, type) \/ \E c \in Codes : PresentCode(s, e, type, c)
=============================================================================

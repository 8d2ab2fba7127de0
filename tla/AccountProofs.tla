---------------------------- MODULE AccountProofs ----------------------------
(***************************************************************************)
(* Proofs of the safety properties of AccountService, for any tables,       *)
(* requests, edits and faults.                                               *)
(***************************************************************************)
EXTENDS AccountService, WellFoundedInduction, TLAPS

-----------------------------------------------------------------------------
(* The inductive invariant *)

\* What a request carries at each await: what its own checks have found out, and
\* none of it can be taken back by others.
Sound(r) ==
  /\ r.pc \in {"otp", "spend", "student", "account"} => r.email \in Customers
  /\ r.pc = "userInsert" => r.email \in Emails
  /\ r.pc \in {"account", "roleWrite", "roleDelete"} => r.role # AdminRole
  /\ r.pc \in {"userInsert", "userWrite"} => r.byAdmin \/ r.role # AdminRole
  /\ r.pc \in {"userWrite", "userDelete"} => r.byAdmin \/ r.seen # AdminRole
  /\ r.pc \in {"reset", "ownPassword"} => UserExists(r.user)

\* Rows of users are never removed.
RowsStay == \A u \in UserIds : user[u] # None => user'[u] # None

\* A code that has admitted a request is gone until the next is sent.
SpentIsGone == \A k \in Customers \X Types : spent[k] => code[k] = None

IInv ==
  /\ TypeOK /\ AdminRoleStays /\ cache.student # AdminRole /\ SpentIsGone
  /\ \A s \in Slots : Sound(req[s])

-----------------------------------------------------------------------------
(* Requests *)

LEMMA SeedRoles == 1 \in RoleIds /\ 2 \in RoleIds /\ 3 \in RoleIds
  BY AccountsAssumption DEF RoleIds

LEMMA CustomersHaveEmails == \A e \in Customers : e \in Emails
  BY AccountsAssumption

LEMMA IdleSound == IdleReq \in ReqRow /\ Sound(IdleReq)
  BY AccountsAssumption DEF IdleReq, ReqRow, Pcs, Types, Sound

LEMMA OneMoves ==
  ASSUME IInv, NEW s \in Slots, NEW r \in ReqRow, Sound(r),
         req' = [req EXCEPT ![s] = r]
  PROVE  /\ req' \in [Slots -> ReqRow]
         /\ \A x \in Slots : Sound(req'[x])
<1>1. /\ req' \in [Slots -> ReqRow]
      /\ \A x \in Slots : req'[x] = IF x = s THEN r ELSE req[x]
  BY DEF IInv, TypeOK
<1> QED  BY <1>1 DEF IInv

LEMMA Finishes ==
  ASSUME IInv, NEW s \in Slots, Finish(s)
  PROVE  /\ req' \in [Slots -> ReqRow]
         /\ \A x \in Slots : Sound(req'[x])
  BY IdleSound, OneMoves DEF Finish

LEMMA Stays ==
  ASSUME IInv, UNCHANGED req
  PROVE  /\ req' \in [Slots -> ReqRow]
         /\ \A x \in Slots : Sound(req'[x])
  BY DEF IInv, TypeOK

\* An action that writes no role and no code preserves what is said of those.
LEMMA TablesStay ==
  ASSUME IInv, UNCHANGED <<role, nextRole, code, spent>>,
         user' \in [UserIds -> UserRow \cup {None}], RowsStay,
         cache' \in [admin : RoleIds \cup {None}, student : RoleIds \cup {None}],
         cache'.admin \in {None, AdminRole}, cache'.student # AdminRole,
         req' \in [Slots -> ReqRow], \A x \in Slots : Sound(req'[x]),
         edits' \in 0..MaxEdits, faults' \in 0..MaxFaults
  PROVE  IInv'
<1>1. \A x \in Slots : Sound(req[x])'
  BY DEF Sound, UserExists, RowsStay
<1> QED  BY <1>1 DEF IInv, TypeOK, AdminRoleStays, SpentIsGone

LEMMA CacheStays ==
  ASSUME IInv, UNCHANGED cache
  PROVE  /\ cache' \in [admin : RoleIds \cup {None}, student : RoleIds \cup {None}]
         /\ cache'.admin \in {None, AdminRole} /\ cache'.student # AdminRole
  BY DEF IInv, TypeOK, AdminRoleStays

\* Only user rows and the request change.
LEMMA OnlyUsers ==
  ASSUME IInv, UNCHANGED <<role, nextRole, code, cache, spent, edits, faults>>,
         user' \in [UserIds -> UserRow \cup {None}], RowsStay,
         req' \in [Slots -> ReqRow], \A x \in Slots : Sound(req'[x])
  PROVE  IInv'
<1>1. edits' \in 0..MaxEdits /\ faults' \in 0..MaxFaults
  BY DEF IInv, TypeOK
<1> QED  BY <1>1, CacheStays, TablesStay

LEMMA InsertTyped ==
  ASSUME IInv, NEW e \in Emails, NEW r \in RoleIds, NEW active \in BOOLEAN,
         InsertRow(e, r, active)
  PROVE  /\ user' \in [UserIds -> UserRow \cup {None}] /\ RowsStay
         /\ \A u \in UserIds : user'[u] # user[u] => user'[u].role = r
<1> DEFINE row == [email |-> e, role |-> r, active |-> active, live |-> TRUE,
                   password |-> "other"]
<1>1. row \in UserRow /\ row.role = r
  BY DEF UserRow
<1>3. row # None
  BY <1>1, SeedAssumption
<1>2. user' = [user EXCEPT ![NextUser] = row]
  BY DEF InsertRow
<1> HIDE DEF row
<1> QED  BY <1>1, <1>2, <1>3 DEF IInv, TypeOK, RowsStay

-----------------------------------------------------------------------------
(* Registration *)

LEMMA SendOTPStep ==
  ASSUME IInv, NEW s \in Slots, NEW e \in Customers, NEW type \in Types,
         SendOTP(s, e, type)
  PROVE  IInv'
<1> DEFINE r == [req[s] EXCEPT !.pc = "otp", !.email = e, !.type = type]
<1>1. r \in ReqRow /\ Sound(r)
  <2>1. req[s] \in ReqRow /\ e \in Emails \cup {None} /\ "otp" \in Pcs
    BY CustomersHaveEmails DEF IInv, TypeOK, Pcs
  <2>2. r \in ReqRow /\ r.pc = "otp" /\ r.email = e
    BY <2>1 DEF ReqRow
  <2> QED  BY <2>2 DEF Sound
<1>2. req' = [req EXCEPT ![s] = r]
  BY DEF SendOTP, IInv, TypeOK, ReqRow
<1> HIDE DEF r
<1>3. req' \in [Slots -> ReqRow] /\ \A x \in Slots : Sound(req'[x])
  BY <1>1, <1>2, OneMoves
<1> QED  BY <1>3, OnlyUsers DEF SendOTP, Tables, IInv, TypeOK, RowsStay

LEMMA PresentCodeStep ==
  ASSUME IInv, NEW s \in Slots, NEW e \in Customers, NEW type \in Types,
         NEW c \in Codes, PresentCode(s, e, type, c)
  PROVE  IInv'
<1> DEFINE r == [req[s] EXCEPT !.pc = "spend", !.email = e, !.type = type]
<1>1. r \in ReqRow /\ Sound(r)
  <2>1. req[s] \in ReqRow /\ e \in Emails \cup {None} /\ "spend" \in Pcs
    BY CustomersHaveEmails DEF IInv, TypeOK, Pcs
  <2>2. r \in ReqRow /\ r.pc = "spend" /\ r.email = e
    BY <2>1 DEF ReqRow
  <2> QED  BY <2>2 DEF Sound
<1>2. req' = [req EXCEPT ![s] = r]
  BY DEF PresentCode, IInv, TypeOK, ReqRow
<1> HIDE DEF r
<1>3. req' \in [Slots -> ReqRow] /\ \A x \in Slots : Sound(req'[x])
  BY <1>1, <1>2, OneMoves
<1> QED  BY <1>3, OnlyUsers DEF PresentCode, Tables, IInv, TypeOK, RowsStay

LEMMA CreateOTPStep ==
  ASSUME IInv, NEW s \in Slots, NEW c \in Codes, CreateOTP(s, c)
  PROVE  IInv'
<1> DEFINE k == <<req[s].email, req[s].type>>
           row == [value |-> c, expired |-> FALSE]
<1>1. k \in Customers \X Types
  BY DEF CreateOTP, At, IInv, TypeOK, ReqRow, Sound
<1>2. row \in CodeRow
  BY DEF CodeRow
<1>3. code' = [code EXCEPT ![k] = row] /\ spent' = [spent EXCEPT ![k] = FALSE]
  BY DEF CreateOTP
<1> HIDE DEF k, row
<1>4. /\ code' \in [Customers \X Types -> CodeRow \cup {None}]
      /\ spent' \in [Customers \X Types -> BOOLEAN] /\ SpentIsGone'
  BY <1>1, <1>2, <1>3 DEF IInv, TypeOK, SpentIsGone
<1>5. req' \in [Slots -> ReqRow] /\ \A x \in Slots : Sound(req'[x])
  BY Finishes DEF CreateOTP
<1>6. UNCHANGED <<user, role, nextRole, cache, edits, faults>>
  BY DEF CreateOTP, Tables
<1>7. \A x \in Slots : Sound(req[x])'
  BY <1>5, <1>6 DEF Sound, UserExists
<1> QED  BY <1>4, <1>5, <1>6, <1>7 DEF IInv, TypeOK, AdminRoleStays

LEMMA GotoMoves ==
  ASSUME IInv, NEW s \in Slots, At(s, "spend"),
         NEW pc \in {"student", "find"}, Goto(s, pc)
  PROVE  /\ req' \in [Slots -> ReqRow]
         /\ \A x \in Slots : Sound(req'[x])
<1> DEFINE r == [req[s] EXCEPT !.pc = pc]
<1>1. r \in ReqRow /\ Sound(r)
  BY DEF IInv, TypeOK, ReqRow, Pcs, Sound, At
<1>2. req' = [req EXCEPT ![s] = r]
  BY DEF Goto, IInv, TypeOK, ReqRow
<1> HIDE DEF r
<1> QED  BY <1>1, <1>2, OneMoves

LEMMA DeleteOTPStep ==
  ASSUME IInv, NEW s \in Slots, DeleteOTP(s)
  PROVE  IInv'
<1> DEFINE k == <<req[s].email, req[s].type>>
<1>1. k \in Customers \X Types
  BY DEF DeleteOTP, At, IInv, TypeOK, ReqRow, Sound
<1>2. UNCHANGED <<user, role, nextRole, cache, edits, faults>>
  BY DEF DeleteOTP, Tables
<1>3. /\ code' \in [Customers \X Types -> CodeRow \cup {None}]
      /\ spent' \in [Customers \X Types -> BOOLEAN] /\ SpentIsGone'
  <2>1. CASE Deletable(k)
    <3>1. code' = [code EXCEPT ![k] = None] /\ spent' = [spent EXCEPT ![k] = TRUE]
      BY <2>1 DEF DeleteOTP
    <3> HIDE DEF k
    <3> QED  BY <1>1, <3>1 DEF IInv, TypeOK, SpentIsGone
  <2>2. CASE ~ Deletable(k)
    BY <2>2 DEF DeleteOTP, IInv, TypeOK, SpentIsGone
  <2> QED  BY <2>1, <2>2
<1>4. req' \in [Slots -> ReqRow] /\ \A x \in Slots : Sound(req'[x])
  <2>1. CASE Deletable(k)
    <3> DEFINE pc == IF req[s].type = "REGISTER" THEN "student" ELSE "find"
    <3>1. At(s, "spend") /\ Goto(s, pc) /\ pc \in {"student", "find"}
      BY <2>1 DEF DeleteOTP
    <3> HIDE DEF pc
    <3> QED  BY <3>1, GotoMoves
  <2>2. CASE ~ Deletable(k)
    BY <2>2, Finishes DEF DeleteOTP
  <2> QED  BY <2>1, <2>2
<1>5. \A x \in Slots : Sound(req[x])'
  BY <1>2, <1>4 DEF Sound, UserExists
<1> QED  BY <1>2, <1>3, <1>4, <1>5 DEF IInv, TypeOK, AdminRoleStays

\* What a lookup by name finds, and what it leaves in the cache.
LEMMA LookUps ==
  ASSUME IInv
  PROVE  /\ \A r \in LookUp(cache.student, "STUDENT") : r \in RoleIds /\ r # AdminRole
         /\ \A r : r \in LookUp(cache.admin, "ADMIN") <=> r = AdminRole
         /\ RoleNamed("ADMIN") = {AdminRole}
<1>1. \A r \in RoleNamed("STUDENT") : r \in RoleIds /\ r # AdminRole
  BY DEF RoleNamed, IInv, AdminRoleStays
<1>2. RoleNamed("ADMIN") = {AdminRole}
  BY SeedRoles DEF RoleNamed, IInv, AdminRoleStays, AdminRole
<1>3. /\ cache.student \in RoleIds \cup {None} /\ cache.student # AdminRole
      /\ cache.admin \in {None, AdminRole}
  BY DEF IInv, TypeOK, AdminRoleStays
<1> QED  BY <1>1, <1>2, <1>3 DEF LookUp

LEMMA FindStudentRoleStep ==
  ASSUME IInv, NEW s \in Slots, FindStudentRole(s)
  PROVE  IInv'
<1>1. UNCHANGED <<user, role, nextRole, code, spent, edits, faults>>
  BY DEF FindStudentRole, Tables
<1>2. CASE \E r \in LookUp(cache.student, "STUDENT") :
             /\ cache' = [cache EXCEPT !.student = r]
             /\ req' = [req EXCEPT ![s].pc = "account", ![s].role = r]
  <2>1. PICK r \in LookUp(cache.student, "STUDENT") :
          /\ cache' = [cache EXCEPT !.student = r]
          /\ req' = [req EXCEPT ![s].pc = "account", ![s].role = r]
    BY <1>2
  <2>2. r \in RoleIds /\ r # AdminRole
    BY LookUps
  <2> DEFINE q == [req[s] EXCEPT !.pc = "account", !.role = r]
  <2>3. q \in ReqRow /\ Sound(q)
    <3>1. req[s] \in ReqRow /\ r \in 0..MaxRoles /\ "account" \in Pcs
      BY <2>2, AccountsAssumption DEF IInv, TypeOK, Pcs, RoleIds
    <3>2. q \in ReqRow /\ q.pc = "account" /\ q.role = r /\ q.email = req[s].email
      BY <3>1 DEF ReqRow
    <3>3. req[s].email \in Customers
      BY DEF FindStudentRole, At, IInv, Sound
    <3> QED  BY <2>2, <3>2, <3>3 DEF Sound
  <2>4. req' = [req EXCEPT ![s] = q]
    BY <2>1 DEF IInv, TypeOK, ReqRow
  <2> HIDE DEF q
  <2>5. req' \in [Slots -> ReqRow] /\ \A x \in Slots : Sound(req'[x])
    BY <2>3, <2>4, OneMoves
  <2>6. /\ cache' \in [admin : RoleIds \cup {None}, student : RoleIds \cup {None}]
        /\ cache'.admin \in {None, AdminRole} /\ cache'.student # AdminRole
    BY <2>1, <2>2 DEF IInv, TypeOK, AdminRoleStays
  <2>7. /\ user' \in [UserIds -> UserRow \cup {None}]
        /\ edits' \in 0..MaxEdits /\ faults' \in 0..MaxFaults /\ RowsStay
    BY <1>1 DEF IInv, TypeOK, RowsStay
  <2> QED  BY <1>1, <2>5, <2>6, <2>7, TablesStay
<1>3. CASE Finish(s) /\ UNCHANGED cache
  BY <1>1, <1>3, Finishes, OnlyUsers DEF IInv, TypeOK, RowsStay
<1> QED  BY <1>2, <1>3 DEF FindStudentRole

LEMMA CreateAccountStep ==
  ASSUME IInv, NEW s \in Slots, CreateAccount(s)
  PROVE  IInv'
<1>1. UNCHANGED <<role, nextRole, code, cache, spent, edits, faults>> /\ Finish(s)
  BY DEF CreateAccount
<1>2. user' \in [UserIds -> UserRow \cup {None}] /\ RowsStay
  <2>1. CASE Insertable(req[s].email, req[s].role)
    <3>1. req[s].role \in RoleIds /\ req[s].email \in Emails \cup {None}
      BY <2>1 DEF Insertable, RoleExists, IInv, TypeOK, ReqRow
    <3>2. req[s].email \in Emails
      BY CustomersHaveEmails DEF CreateAccount, At, IInv, Sound
    <3> QED  BY <2>1, <3>1, <3>2, InsertTyped DEF CreateAccount
  <2>2. CASE ~ Insertable(req[s].email, req[s].role)
    BY <2>2 DEF CreateAccount, IInv, TypeOK, RowsStay
  <2> QED  BY <2>1, <2>2
<1> QED  BY <1>1, <1>2, Finishes, OnlyUsers

LEMMA FindByEmailStep ==
  ASSUME IInv, NEW s \in Slots, FindByEmail(s)
  PROVE  IInv'
<1>1. /\ UNCHANGED <<role, nextRole, code, cache, spent, edits, faults>>
      /\ user' \in [UserIds -> UserRow \cup {None}] /\ RowsStay
  BY DEF FindByEmail, Tables, IInv, TypeOK, RowsStay
<1>2. CASE \E u \in UserIds : /\ UserExists(u)
                             /\ req' = [req EXCEPT ![s].pc = "reset", ![s].user = u]
  <2>1. PICK u \in UserIds : /\ UserExists(u)
                             /\ req' = [req EXCEPT ![s].pc = "reset", ![s].user = u]
    BY <1>2
  <2> DEFINE r == [req[s] EXCEPT !.pc = "reset", !.user = u]
  <2>2. r \in ReqRow /\ Sound(r)
    <3>1. req[s] \in ReqRow /\ u \in 0..MaxUsers /\ "reset" \in Pcs
      BY AccountsAssumption DEF IInv, TypeOK, Pcs, UserIds
    <3>2. r \in ReqRow /\ r.pc = "reset" /\ r.user = u
      BY <3>1 DEF ReqRow
    <3> QED  BY <2>1, <3>2 DEF Sound
  <2>3. req' = [req EXCEPT ![s] = r]
    BY <2>1 DEF IInv, TypeOK, ReqRow
  <2> HIDE DEF r
  <2> QED  BY <1>1, <2>2, <2>3, OneMoves, OnlyUsers
<1>3. CASE Finish(s)
  BY <1>1, <1>3, Finishes, OnlyUsers
<1> QED  BY <1>2, <1>3 DEF FindByEmail

LEMMA ChangePasswordStep ==
  ASSUME IInv, NEW s \in Slots, ChangePassword(s)
  PROVE  IInv'
<1>1. UNCHANGED <<role, nextRole, code, cache, spent, edits, faults>> /\ Finish(s)
  BY DEF ChangePassword
<1> DEFINE u == req[s].user
<1>2. user' \in [UserIds -> UserRow \cup {None}] /\ RowsStay
  <2>1. u \in UserIds /\ user[u] # None
    BY DEF ChangePassword, At, IInv, Sound, UserExists
  <2> DEFINE row == [user[u] EXCEPT !.password = "reset"]
  <2>2. row \in UserRow /\ row # None
    BY <2>1, SeedAssumption DEF IInv, TypeOK, UserRow
  <2>3. user' = user \/ user' = [user EXCEPT ![u] = row]
    BY <2>1 DEF ChangePassword, IInv, TypeOK, UserRow
  <2> HIDE DEF row
  <2> QED  BY <2>1, <2>2, <2>3 DEF IInv, TypeOK, RowsStay
<1> QED  BY <1>1, <1>2, Finishes, OnlyUsers

-----------------------------------------------------------------------------
(* Administration of users *)

LEMMA AdminCache ==
  ASSUME IInv, NEW b \in BOOLEAN, CacheAdmin(b)
  PROVE  /\ cache' \in [admin : RoleIds \cup {None}, student : RoleIds \cup {None}]
         /\ cache'.admin \in {None, AdminRole} /\ cache'.student # AdminRole
<1>1. (CHOOSE r \in RoleNamed("ADMIN") : TRUE) = AdminRole
  BY LookUps
<1> QED  BY <1>1, SeedRoles
         DEF CacheAdmin, IInv, TypeOK, AdminRoleStays, AdminRole

LEMMA Spared ==
  ASSUME IInv, NEW b \in BOOLEAN, NEW r, MayTouch(b, r)
  PROVE  b \/ r # AdminRole
  BY LookUps DEF MayTouch

LEMMA Begins ==
  ASSUME IInv, NEW s \in Slots, Begin(s)
  PROVE  edits' \in 0..MaxEdits
  BY AccountsAssumption DEF Begin, IInv, TypeOK

\* A user request that begins writes no table.
LEMMA UserRequest ==
  ASSUME IInv, NEW s \in Slots, NEW b \in BOOLEAN, Begin(s), CacheAdmin(b),
         UNCHANGED <<user, role, Frame>>,
         req' \in [Slots -> ReqRow], \A x \in Slots : Sound(req'[x])
  PROVE  IInv'
<1>1. /\ UNCHANGED <<role, nextRole, code, spent>> /\ RowsStay
      /\ user' \in [UserIds -> UserRow \cup {None}] /\ faults' \in 0..MaxFaults
  BY DEF Frame, IInv, TypeOK, RowsStay
<1> QED  BY <1>1, AdminCache, Begins, TablesStay

LEMMA CreateUserStep ==
  ASSUME IInv, NEW s \in Slots, NEW agent \in UserIds, NEW e \in Emails,
         NEW g \in Grants, CreateUser(s, agent, e, g)
  PROVE  IInv'
<1> DEFINE b == IsAdmin(agent)
           r == [req[s] EXCEPT !.pc = "userInsert", !.email = e, !.role = g,
                               !.byAdmin = b]
<1>1. /\ b \in BOOLEAN /\ Begin(s) /\ CacheAdmin(b)
      /\ UNCHANGED <<user, role, Frame>>
  BY DEF CreateUser, IsAdmin
<1>2. CASE MayTouch(b, g)
  <2>1. req' = [req EXCEPT ![s] = r]
    BY <1>2 DEF CreateUser, IInv, TypeOK, ReqRow
  <2>2. r \in ReqRow /\ Sound(r)
    <3>1. req[s] \in ReqRow /\ g \in 0..MaxRoles /\ "userInsert" \in Pcs
      BY AccountsAssumption DEF IInv, TypeOK, Pcs, RoleIds
    <3> HIDE DEF b
    <3>2. /\ r \in ReqRow /\ r.pc = "userInsert" /\ r.email = e
          /\ r.role = g /\ r.byAdmin = b
      BY <1>1, <3>1 DEF ReqRow
    <3>3. b \/ g # AdminRole
      BY <1>1, <1>2, Spared
    <3> QED  BY <3>2, <3>3 DEF Sound
  <2> HIDE DEF r, b
  <2> QED  BY <1>1, <2>1, <2>2, OneMoves, UserRequest
<1>3. CASE ~ MayTouch(b, g)
  <2>1. UNCHANGED req
    BY <1>3 DEF CreateUser
  <2> HIDE DEF b
  <2> QED  BY <1>1, <2>1, Stays, UserRequest
<1> QED  BY <1>2, <1>3

LEMMA UpdateUserStep ==
  ASSUME IInv, NEW s \in Slots, NEW agent \in UserIds, NEW u \in UserIds,
         NEW g \in Grants, UpdateUser(s, agent, u, g)
  PROVE  IInv'
<1> DEFINE b == IsAdmin(agent)
           r == [req[s] EXCEPT !.pc = "userWrite", !.user = u, !.role = g,
                               !.seen = user[u].role, !.byAdmin = b]
<1>1. /\ b \in BOOLEAN /\ Begin(s) /\ CacheAdmin(b)
      /\ UNCHANGED <<user, role, Frame>>
  BY DEF UpdateUser, IsAdmin
<1>2. CASE MayUpdate(b, u, g)
  <2>1. req' = [req EXCEPT ![s] = r]
    BY <1>2 DEF UpdateUser, IInv, TypeOK, ReqRow
  <2>2. r \in ReqRow /\ Sound(r)
    <3>1. /\ req[s] \in ReqRow /\ g \in 0..MaxRoles /\ u \in 0..MaxUsers
          /\ "userWrite" \in Pcs
      BY AccountsAssumption DEF IInv, TypeOK, Pcs, RoleIds, UserIds
    <3>2. user[u].role \in 0..MaxRoles
      <4>1. user[u] \in UserRow
        BY DEF UpdateUser, Live, UserExists, IInv, TypeOK
      <4> QED  BY <4>1, AccountsAssumption DEF UserRow, RoleIds
    <3>3. b \/ g # AdminRole
      BY <1>1, <1>2, Spared DEF MayUpdate
    <3>4. b \/ user[u].role # AdminRole
      BY <1>1, <1>2, Spared DEF MayUpdate
    <3> HIDE DEF b
    <3>5. /\ r \in ReqRow /\ r.pc = "userWrite" /\ r.seen = user[u].role
          /\ r.role = g /\ r.byAdmin = b
      BY <1>1, <3>1, <3>2 DEF ReqRow
    <3> QED  BY <3>3, <3>4, <3>5 DEF Sound
  <2> HIDE DEF r, b
  <2> QED  BY <1>1, <2>1, <2>2, OneMoves, UserRequest
<1>3. CASE ~ MayUpdate(b, u, g)
  <2>1. UNCHANGED req
    BY <1>3 DEF UpdateUser
  <2> HIDE DEF b
  <2> QED  BY <1>1, <2>1, Stays, UserRequest
<1> QED  BY <1>2, <1>3

LEMMA DeleteUserStep ==
  ASSUME IInv, NEW s \in Slots, NEW agent \in UserIds, NEW u \in UserIds,
         DeleteUser(s, agent, u)
  PROVE  IInv'
<1> DEFINE b == IsAdmin(agent)
           r == [req[s] EXCEPT !.pc = "userDelete", !.user = u,
                               !.seen = user[u].role, !.byAdmin = b]
<1>1. /\ b \in BOOLEAN /\ Begin(s) /\ CacheAdmin(b)
      /\ UNCHANGED <<user, role, Frame>>
  BY DEF DeleteUser, IsAdmin
<1>2. CASE MayTouch(b, user[u].role)
  <2>1. req' = [req EXCEPT ![s] = r]
    BY <1>2 DEF DeleteUser, IInv, TypeOK, ReqRow
  <2>2. r \in ReqRow /\ Sound(r)
    <3>1. req[s] \in ReqRow /\ u \in 0..MaxUsers /\ "userDelete" \in Pcs
      BY AccountsAssumption DEF IInv, TypeOK, Pcs, UserIds
    <3>2. user[u].role \in 0..MaxRoles
      <4>1. user[u] \in UserRow
        BY DEF DeleteUser, Live, UserExists, IInv, TypeOK
      <4> QED  BY <4>1, AccountsAssumption DEF UserRow, RoleIds
    <3>3. b \/ user[u].role # AdminRole
      BY <1>1, <1>2, Spared
    <3> HIDE DEF b
    <3>4. /\ r \in ReqRow /\ r.pc = "userDelete" /\ r.seen = user[u].role
          /\ r.byAdmin = b
      BY <1>1, <3>1, <3>2 DEF ReqRow
    <3> QED  BY <3>3, <3>4 DEF Sound
  <2> HIDE DEF r, b
  <2> QED  BY <1>1, <2>1, <2>2, OneMoves, UserRequest
<1>3. CASE ~ MayTouch(b, user[u].role)
  <2>1. UNCHANGED req
    BY <1>3 DEF DeleteUser
  <2> HIDE DEF b
  <2> QED  BY <1>1, <2>1, Stays, UserRequest
<1> QED  BY <1>2, <1>3

LEMMA InsertUserStep ==
  ASSUME IInv, NEW s \in Slots, InsertUser(s)
  PROVE  IInv'
<1>1. UNCHANGED <<role, nextRole, code, cache, spent, edits, faults>> /\ Finish(s)
  BY DEF InsertUser, Frame
<1>2. user' \in [UserIds -> UserRow \cup {None}] /\ RowsStay
  <2>1. CASE Insertable(req[s].email, req[s].role)
    <3>1. req[s].role \in RoleIds
      BY <2>1 DEF Insertable, RoleExists
    <3>2. req[s].email \in Emails
      BY DEF InsertUser, At, IInv, Sound
    <3>3. PICK active \in Statuses : InsertRow(req[s].email, req[s].role, active)
      BY <2>1 DEF InsertUser
    <3>4. active \in BOOLEAN
      BY AccountsAssumption
    <3> QED  BY <3>1, <3>2, <3>3, <3>4, InsertTyped
  <2>2. CASE ~ Insertable(req[s].email, req[s].role)
    BY <2>2 DEF InsertUser, IInv, TypeOK, RowsStay
  <2> QED  BY <2>1, <2>2
<1> QED  BY <1>1, <1>2, Finishes, OnlyUsers

LEMMA WriteUserStep ==
  ASSUME IInv, NEW s \in Slots, WriteUser(s)
  PROVE  IInv'
<1>1. UNCHANGED <<role, nextRole, code, cache, spent, edits, faults>> /\ Finish(s)
  BY DEF WriteUser, Frame
<1> DEFINE u == req[s].user
<1>2. user' \in [UserIds -> UserRow \cup {None}] /\ RowsStay
  <2>1. CASE UNCHANGED user
    BY <2>1 DEF IInv, TypeOK, RowsStay
  <2>2. CASE ~ UNCHANGED user
    <3>1. PICK e \in Emails, active \in Statuses,
               password \in {"other", user[u].password} :
            /\ Live(u) /\ RoleExists(req[s].role)
            /\ user' = [user EXCEPT ![u] =
                 [email |-> e, role |-> req[s].role, active |-> active,
                  live |-> TRUE, password |-> password]]
      BY <2>2 DEF WriteUser
    <3> DEFINE row == [email |-> e, role |-> req[s].role, active |-> active,
                       live |-> TRUE, password |-> password]
    <3>2. u \in UserIds /\ user[u] \in UserRow
      BY <3>1 DEF Live, UserExists, IInv, TypeOK
    <3>3. row \in UserRow /\ row # None
      <4>1. active \in BOOLEAN
        BY AccountsAssumption
      <4>2. password \in {"other", "reset"}
        BY <3>2 DEF UserRow
      <4>3. req[s].role \in RoleIds
        BY <3>1 DEF RoleExists
      <4>4. row \in UserRow
        BY <4>1, <4>2, <4>3 DEF UserRow
      <4> QED  BY <4>4, SeedAssumption
    <3>4. user' = [user EXCEPT ![u] = row]
      BY <3>1
    <3> HIDE DEF row
    <3> QED  BY <3>2, <3>3, <3>4 DEF IInv, TypeOK, RowsStay
  <2> QED  BY <2>1, <2>2
<1> QED  BY <1>1, <1>2, Finishes, OnlyUsers

LEMMA MarkDeletedStep ==
  ASSUME IInv, NEW s \in Slots, MarkDeleted(s)
  PROVE  IInv'
<1>1. UNCHANGED <<role, nextRole, code, cache, spent, edits, faults>> /\ Finish(s)
  BY DEF MarkDeleted, Frame
<1> DEFINE u == req[s].user
<1>2. user' \in [UserIds -> UserRow \cup {None}] /\ RowsStay
  <2>1. CASE Live(u)
    <3> DEFINE row == [user[u] EXCEPT !.live = FALSE]
    <3>1. u \in UserIds /\ user[u] \in UserRow
      BY <2>1 DEF Live, UserExists, IInv, TypeOK
    <3>2. row \in UserRow /\ row # None
      BY <3>1, SeedAssumption DEF UserRow
    <3>3. user' = [user EXCEPT ![u] = row]
      BY <2>1, <3>1 DEF MarkDeleted, IInv, TypeOK, UserRow
    <3> HIDE DEF row
    <3> QED  BY <3>1, <3>2, <3>3 DEF IInv, TypeOK, RowsStay
  <2>2. CASE ~ Live(u)
    BY <2>2 DEF MarkDeleted, IInv, TypeOK, RowsStay
  <2> QED  BY <2>1, <2>2
<1> QED  BY <1>1, <1>2, Finishes, OnlyUsers

-----------------------------------------------------------------------------
(* Administration of roles *)

\* An action that changes roles and leaves ADMIN alone.
LEMMA RolesChange ==
  ASSUME IInv, UNCHANGED <<user, code, cache, spent, faults>>,
         edits' \in 0..MaxEdits, nextRole' \in 4..(MaxRoles + 1),
         role' \in [RoleIds -> RoleNames \cup {None}],
         \A r \in RoleIds : role'[r] = "ADMIN" <=> r = AdminRole,
         req' \in [Slots -> ReqRow], \A x \in Slots : Sound(req'[x])
  PROVE  IInv'
<1>1. \A x \in Slots : Sound(req[x])'
  BY DEF Sound, UserExists
<1> QED  BY <1>1 DEF IInv, TypeOK, AdminRoleStays, SpentIsGone

LEMMA RolesKept ==
  ASSUME IInv, UNCHANGED <<role, nextRole>>
  PROVE  /\ nextRole' \in 4..(MaxRoles + 1)
         /\ role' \in [RoleIds -> RoleNames \cup {None}]
         /\ \A r \in RoleIds : role'[r] = "ADMIN" <=> r = AdminRole
  BY DEF IInv, TypeOK, AdminRoleStays

LEMMA CreateRoleStep ==
  ASSUME IInv, NEW s \in Slots, NEW name \in RoleNames, CreateRole(s, name)
  PROVE  IInv'
<1>1. /\ UNCHANGED <<user, code, cache, req, spent, faults>>
      /\ edits' \in 0..MaxEdits
  BY Begins DEF CreateRole
<1>2. /\ nextRole' \in 4..(MaxRoles + 1)
      /\ role' \in [RoleIds -> RoleNames \cup {None}]
      /\ \A r \in RoleIds : role'[r] = "ADMIN" <=> r = AdminRole
  <2>1. CASE NameFree(name, 0) /\ nextRole \in RoleIds
    <3>1. role' = [role EXCEPT ![nextRole] = name] /\ nextRole' = nextRole + 1
      BY <2>1 DEF CreateRole
    <3>2. name # "ADMIN" /\ nextRole # AdminRole
      BY <2>1, SeedRoles DEF NameFree, IInv, TypeOK, AdminRoleStays, AdminRole
    <3> QED  BY <2>1, <3>1, <3>2, AccountsAssumption
             DEF IInv, TypeOK, AdminRoleStays, RoleIds
  <2>2. CASE ~ (NameFree(name, 0) /\ nextRole \in RoleIds)
    BY <2>2, RolesKept DEF CreateRole
  <2> QED  BY <2>1, <2>2
<1> QED  BY <1>1, <1>2, Stays, RolesChange

LEMMA RoleRequest ==
  ASSUME IInv, NEW s \in Slots, NEW pc \in {"roleWrite", "roleDelete"},
         NEW x \in RoleIds, x # AdminRole, Begin(s),
         UNCHANGED <<user, role, cache, Frame>>,
         req' = [req EXCEPT ![s].pc = pc, ![s].role = x]
  PROVE  IInv'
<1> DEFINE r == [req[s] EXCEPT !.pc = pc, !.role = x]
<1>1. req' = [req EXCEPT ![s] = r]
  BY DEF IInv, TypeOK, ReqRow
<1>2. r \in ReqRow /\ Sound(r)
  <2>1. req[s] \in ReqRow /\ x \in 0..MaxRoles /\ pc \in Pcs
    BY AccountsAssumption DEF IInv, TypeOK, Pcs, RoleIds
  <2>2. r \in ReqRow /\ r.pc = pc /\ r.role = x
    BY <2>1 DEF ReqRow
  <2> QED  BY <2>2 DEF Sound
<1> HIDE DEF r
<1>3. req' \in [Slots -> ReqRow] /\ \A y \in Slots : Sound(req'[y])
  BY <1>1, <1>2, OneMoves
<1>4. UNCHANGED <<user, role, nextRole, code, cache, spent, faults>>
  BY DEF Frame
<1> QED  BY <1>3, <1>4, Begins, RolesKept, RolesChange

LEMMA UpdateRoleStep ==
  ASSUME IInv, NEW s \in Slots, NEW x \in RoleIds, UpdateRole(s, x)
  PROVE  IInv'
  BY RoleRequest DEF UpdateRole, Renamable, RoleExists, IInv, AdminRoleStays

LEMMA DeleteRoleStep ==
  ASSUME IInv, NEW s \in Slots, NEW x \in RoleIds, DeleteRole(s, x)
  PROVE  IInv'
  BY RoleRequest DEF DeleteRole, Removable, BaseNames, RoleExists, IInv, AdminRoleStays

LEMMA WriteRoleStep ==
  ASSUME IInv, NEW s \in Slots, NEW name \in RoleNames, WriteRole(s, name)
  PROVE  IInv'
<1>1. /\ UNCHANGED <<user, nextRole, code, cache, spent, edits, faults>> /\ Finish(s)
      /\ edits' \in 0..MaxEdits /\ nextRole' \in 4..(MaxRoles + 1)
  BY DEF WriteRole, Frame, IInv, TypeOK
<1>2. /\ role' \in [RoleIds -> RoleNames \cup {None}]
      /\ \A r \in RoleIds : role'[r] = "ADMIN" <=> r = AdminRole
  <2>1. CASE RoleExists(req[s].role) /\ NameFree(name, req[s].role)
    <3>1. req[s].role # AdminRole
      BY DEF WriteRole, At, IInv, Sound
    <3>2. name # "ADMIN"
      BY <2>1, <3>1, SeedRoles DEF NameFree, IInv, AdminRoleStays, AdminRole
    <3>3. role' = [role EXCEPT ![req[s].role] = name]
      BY <2>1 DEF WriteRole
    <3> QED  BY <3>1, <3>2, <3>3 DEF IInv, TypeOK, AdminRoleStays
  <2>2. CASE ~ (RoleExists(req[s].role) /\ NameFree(name, req[s].role))
    BY <2>2 DEF WriteRole, IInv, TypeOK, AdminRoleStays
  <2> QED  BY <2>1, <2>2
<1> QED  BY <1>1, <1>2, Finishes, RolesChange

LEMMA EraseRoleStep ==
  ASSUME IInv, NEW s \in Slots, EraseRole(s)
  PROVE  IInv'
<1>1. /\ UNCHANGED <<user, nextRole, code, cache, spent, edits, faults>> /\ Finish(s)
      /\ edits' \in 0..MaxEdits /\ nextRole' \in 4..(MaxRoles + 1)
  BY DEF EraseRole, Frame, IInv, TypeOK
<1>2. req[s].role # AdminRole /\ None # "ADMIN"
  BY AccountsAssumption DEF EraseRole, At, IInv, Sound, RoleNames, BaseNames
<1>3. role' = role \/ role' = [role EXCEPT ![req[s].role] = None]
  BY DEF EraseRole
<1>4. /\ role' \in [RoleIds -> RoleNames \cup {None}]
      /\ \A r \in RoleIds : role'[r] = "ADMIN" <=> r = AdminRole
  BY <1>2, <1>3 DEF IInv, TypeOK, AdminRoleStays
<1> QED  BY <1>1, <1>4, Finishes, RolesChange

-----------------------------------------------------------------------------
(* Expiry and restarts *)

LEMMA ExpireStep ==
  ASSUME IInv, NEW k \in Customers \X Types, Expire(k)
  PROVE  IInv'
<1>1. /\ UNCHANGED <<user, role, nextRole, cache, req, spent, edits>>
      /\ faults' \in 0..MaxFaults
  BY AccountsAssumption DEF Expire, IInv, TypeOK
<1> DEFINE row == [code[k] EXCEPT !.expired = TRUE]
<1>2. code[k] \in CodeRow /\ code[k] # None
  BY DEF Expire, IInv, TypeOK
<1>3. row \in CodeRow
  BY <1>2 DEF CodeRow
<1>4. code' = [code EXCEPT ![k] = row]
  BY <1>2 DEF Expire, IInv, TypeOK, CodeRow
<1> HIDE DEF row
<1>5. code' \in [Customers \X Types -> CodeRow \cup {None}] /\ SpentIsGone'
  BY <1>1, <1>2, <1>3, <1>4 DEF IInv, TypeOK, SpentIsGone
<1>6. \A x \in Slots : Sound(req[x])'
  BY <1>1 DEF IInv, Sound, UserExists
<1> QED  BY <1>1, <1>5, <1>6 DEF IInv, TypeOK, AdminRoleStays

LEMMA RestartStep ==
  ASSUME IInv, Restart
  PROVE  IInv'
<1>1. /\ UNCHANGED <<user, role, nextRole, code, spent, edits>>
      /\ faults' \in 0..MaxFaults /\ edits' \in 0..MaxEdits
      /\ user' \in [UserIds -> UserRow \cup {None}] /\ RowsStay
  BY AccountsAssumption DEF Restart, IInv, TypeOK, RowsStay
<1>2. req' \in [Slots -> ReqRow] /\ \A x \in Slots : Sound(req'[x])
  BY IdleSound DEF Restart
<1>3. /\ cache' \in [admin : RoleIds \cup {None}, student : RoleIds \cup {None}]
      /\ cache'.admin \in {None, AdminRole} /\ cache'.student # AdminRole
  BY SeedRoles, AccountsAssumption DEF Restart, AdminRole
<1> QED  BY <1>1, <1>2, <1>3, TablesStay

-----------------------------------------------------------------------------
(* Every state, every step *)

LEMMA InitIInv == Init => IInv
<1> SUFFICES ASSUME Init PROVE IInv
  OBVIOUS
<1>1. user \in [UserIds -> UserRow \cup {None}]
  <2> DEFINE Row(u) == [email |-> Seeded[u].email, role |-> Seeded[u].role,
                        active |-> TRUE, live |-> TRUE, password |-> "other"]
  <2>1. \A u \in DOMAIN Seeded : Row(u) \in UserRow
    <3> SUFFICES ASSUME NEW u \in DOMAIN Seeded PROVE Row(u) \in UserRow
      OBVIOUS
    <3>1. Seeded[u] \in [email : Emails, role : 1..3]
      BY SeedAssumption
    <3>2. Seeded[u].email \in Emails /\ Seeded[u].role \in RoleIds
      BY <3>1, AccountsAssumption DEF RoleIds
    <3> QED  BY <3>2 DEF UserRow
  <2>2. user = [u \in UserIds |-> IF u \in DOMAIN Seeded THEN Row(u) ELSE None]
    BY DEF Init
  <2> HIDE DEF Row
  <2> QED  BY <2>1, <2>2
<1>2. /\ role \in [RoleIds -> RoleNames \cup {None}]
      /\ \A r \in RoleIds : role[r] = "ADMIN" <=> r = AdminRole
  <2>1. None # "ADMIN"
    BY AccountsAssumption DEF RoleNames, BaseNames
  <2>2. \A r \in RoleIds :
          /\ r = AdminRole => role[r] = "ADMIN"
          /\ r # AdminRole => role[r] \in {"STUDENT", "TEACHER", None}
    BY DEF Init, AdminRole, StudentRole, TeacherRole
  <2>3. role \in [RoleIds -> RoleNames \cup {None}]
    BY DEF Init, RoleNames, BaseNames, AdminRole, StudentRole, TeacherRole
  <2> QED  BY <2>1, <2>2, <2>3
<1>3. /\ nextRole \in 4..(MaxRoles + 1) /\ edits \in 0..MaxEdits
      /\ faults \in 0..MaxFaults
  BY AccountsAssumption DEF Init
<1>4. /\ code \in [Customers \X Types -> CodeRow \cup {None}] /\ SpentIsGone
      /\ spent \in [Customers \X Types -> BOOLEAN]
  BY DEF Init, SpentIsGone
<1>5. req \in [Slots -> ReqRow] /\ \A s \in Slots : Sound(req[s])
  BY IdleSound DEF Init
<1>6. /\ cache \in [admin : RoleIds \cup {None}, student : RoleIds \cup {None}]
      /\ cache.admin \in {None, AdminRole} /\ cache.student # AdminRole
  BY SeedRoles, AccountsAssumption DEF Init, AdminRole
<1> QED  BY <1>1, <1>2, <1>3, <1>4, <1>5, <1>6 DEF IInv, TypeOK, AdminRoleStays

LEMMA VerifyPasswordStep ==
  ASSUME IInv, NEW s \in Slots, NEW u \in UserIds, VerifyPassword(s, u)
  PROVE  IInv'
<1>1. /\ UNCHANGED <<role, nextRole, code, cache, spent, faults>>
      /\ user' \in [UserIds -> UserRow \cup {None}] /\ RowsStay
  BY DEF VerifyPassword, IInv, TypeOK, RowsStay
<1> DEFINE r == [req[s] EXCEPT !.pc = "ownPassword", !.user = u]
<1>2. r \in ReqRow /\ Sound(r)
  <2>1. req[s] \in ReqRow /\ u \in 0..MaxUsers /\ "ownPassword" \in Pcs
    BY AccountsAssumption DEF IInv, TypeOK, Pcs, UserIds
  <2>2. r \in ReqRow /\ r.pc = "ownPassword" /\ r.user = u
    BY <2>1 DEF ReqRow
  <2> QED  BY <2>2 DEF VerifyPassword, Found, Live, Sound
<1>3. req' = [req EXCEPT ![s] = r]
  BY DEF VerifyPassword, IInv, TypeOK, ReqRow
<1> HIDE DEF r
<1>4. edits' \in 0..MaxEdits /\ faults' \in 0..MaxFaults
  BY <1>1, Begins DEF VerifyPassword, IInv, TypeOK
<1> QED  BY <1>1, <1>2, <1>3, <1>4, CacheStays, OneMoves, TablesStay

LEMMA StorePasswordStep ==
  ASSUME IInv, NEW s \in Slots, StorePassword(s)
  PROVE  IInv'
<1>1. UNCHANGED <<role, nextRole, code, cache, spent, edits, faults>> /\ Finish(s)
  BY DEF StorePassword
<1> DEFINE u == req[s].user
<1>2. user' \in [UserIds -> UserRow \cup {None}] /\ RowsStay
  <2>1. u \in UserIds /\ user[u] # None
    BY DEF StorePassword, At, IInv, Sound, UserExists
  <2> DEFINE row == [user[u] EXCEPT !.password = "other"]
  <2>2. row \in UserRow /\ row # None
    BY <2>1, SeedAssumption DEF IInv, TypeOK, UserRow
  <2>3. user' = user \/ user' = [user EXCEPT ![u] = row]
    BY <2>1 DEF StorePassword, IInv, TypeOK, UserRow
  <2> HIDE DEF row
  <2> QED  BY <2>1, <2>2, <2>3 DEF IInv, TypeOK, RowsStay
<1> QED  BY <1>1, <1>2, Finishes, OnlyUsers

LEMMA StutterStep ==
  ASSUME IInv, UNCHANGED vars
  PROVE  IInv'
<1>1. /\ UNCHANGED <<user, role, nextRole, code, cache, spent, edits, faults>>
      /\ UNCHANGED req
  BY DEF vars
<1>2. user' \in [UserIds -> UserRow \cup {None}] /\ RowsStay
  BY <1>1 DEF IInv, TypeOK, RowsStay
<1> QED  BY <1>1, <1>2, Stays, OnlyUsers

LEMMA RegistrationStep ==
  ASSUME IInv, NEW s \in Slots, StartRegistration(s) \/ ContinueRegistration(s)
  PROVE  IInv'
  BY SendOTPStep, PresentCodeStep, CreateOTPStep, DeleteOTPStep,
     FindStudentRoleStep, CreateAccountStep, FindByEmailStep, ChangePasswordStep
  DEF StartRegistration, ContinueRegistration

LEMMA AdministrationStep ==
  ASSUME IInv, NEW s \in Slots,
         StartAdministration(s) \/ ContinueAdministration(s)
  PROVE  IInv'
<1>1. CASE StartAdministration(s)
  BY <1>1, CreateUserStep, UpdateUserStep, DeleteUserStep, CreateRoleStep,
     UpdateRoleStep, DeleteRoleStep DEF StartAdministration
<1>2. CASE ContinueAdministration(s)
  BY <1>2, InsertUserStep, WriteUserStep, MarkDeletedStep, WriteRoleStep,
     EraseRoleStep DEF ContinueAdministration
<1> QED  BY <1>1, <1>2

LEMMA StepIInv == IInv /\ [Next]_vars => IInv'
<1> SUFFICES ASSUME IInv, [Next]_vars PROVE IInv'
  OBVIOUS
<1>1. CASE \E s \in Slots :
             \/ StartRegistration(s) \/ StartAdministration(s) \/ Continue(s)
             \/ \E u \in UserIds : VerifyPassword(s, u)
  BY <1>1, RegistrationStep, AdministrationStep, VerifyPasswordStep, StorePasswordStep
  DEF Continue
<1>2. CASE \E k \in Customers \X Types : Expire(k)
  BY <1>2, ExpireStep
<1>3. CASE Restart
  BY <1>3, RestartStep
<1>4. CASE UNCHANGED vars
  BY <1>4, StutterStep
<1> QED  BY <1>1, <1>2, <1>3, <1>4 DEF Next

\* What every request in progress has found out stays true until it writes.
THEOREM Invariant == Spec => []IInv
  BY InitIInv, StepIInv, PTL DEF Spec

\* The tables, the cache and the requests keep their types.
THEOREM TypeCorrect == Spec => []TypeOK
<1>1. IInv => TypeOK
  BY DEF IInv
<1> QED  BY <1>1, Invariant, PTL

\* The seeded ADMIN role keeps its name, no other gets it, and the cached id is
\* its id (role.service.ts verifyRole, shared-role.repo.ts).
THEOREM AdminRoleIsFixed == Spec => []AdminRoleStays
<1>1. IInv => AdminRoleStays
  BY DEF IInv
<1> QED  BY <1>1, Invariant, PTL

-----------------------------------------------------------------------------
(* What a step may not do *)

\* Only a deletion of the code moves a request on from "spend", and it finds one.
LEMMA Admission ==
  ASSUME IInv, Next, NEW x \in Slots, Admits(x)
  PROVE  ~ spent[<<req[x].email, req[x].type>>]
<1> DEFINE k == <<req[x].email, req[x].type>>
<1>1. At(x, "spend") /\ req'[x].pc \in {"student", "find"} /\ req'[x] # req[x]
  BY DEF Admits, At
<1>2. k \in Customers \X Types
  BY <1>1 DEF At, IInv, TypeOK, ReqRow, Sound
<1>3. req \in [Slots -> ReqRow] /\ IdleReq.pc = "idle"
  BY DEF IInv, TypeOK, IdleReq
<1>4. PICK s \in Slots :
        \/ StartRegistration(s) \/ StartAdministration(s) \/ Continue(s)
        \/ \E u \in UserIds : VerifyPassword(s, u)
  BY <1>1, <1>3 DEF Next, Expire, Restart
<1>5. CASE s # x
  <2>1. ~ ContinueRegistration(s)
    BY <1>1, <1>3, <1>5 DEF ContinueRegistration, CreateOTP, DeleteOTP,
       FindStudentRole, CreateAccount, FindByEmail, ChangePassword, Goto, Finish
  <2>2. ~ ContinueAdministration(s)
    BY <1>1, <1>3, <1>5 DEF ContinueAdministration, InsertUser, WriteUser,
       MarkDeleted, WriteRole, EraseRole, Finish
  <2>3. ~ StartRegistration(s)
    BY <1>1, <1>3, <1>5 DEF StartRegistration, SendOTP, PresentCode
  <2>4. ~ StartAdministration(s)
    <3>1. \A agent \in UserIds, e \in Emails, r \in Grants :
            ~ CreateUser(s, agent, e, r)
      BY <1>1, <1>3, <1>5 DEF CreateUser
    <3>2. \A agent, u \in UserIds, r \in Grants : ~ UpdateUser(s, agent, u, r)
      BY <1>1, <1>3, <1>5 DEF UpdateUser
    <3>3. \A agent, u \in UserIds : ~ DeleteUser(s, agent, u)
      BY <1>1, <1>3, <1>5 DEF DeleteUser
    <3>4. \A name \in RoleNames : ~ CreateRole(s, name)
      BY <1>1 DEF CreateRole
    <3>5. \A r \in RoleIds : ~ UpdateRole(s, r) /\ ~ DeleteRole(s, r)
      BY <1>1, <1>3, <1>5 DEF UpdateRole, DeleteRole
    <3> QED  BY <3>1, <3>2, <3>3, <3>4, <3>5 DEF StartAdministration
  <2>5. (\A u \in UserIds : ~ VerifyPassword(s, u)) /\ ~ StorePassword(s)
    BY <1>1, <1>3, <1>5 DEF VerifyPassword, StorePassword, Finish
  <2> QED  BY <1>4, <2>1, <2>2, <2>3, <2>4, <2>5 DEF Continue
<1>6. CASE s = x
  <2>1. ~ StartRegistration(s) /\ ~ StartAdministration(s)
    BY <1>1, <1>3, <1>6 DEF At, StartRegistration, SendOTP, PresentCode, Begin,
       StartAdministration, CreateUser, UpdateUser, DeleteUser, CreateRole,
       UpdateRole, DeleteRole
  <2>2. ~ ContinueAdministration(s)
    BY <1>1, <1>6 DEF At, ContinueAdministration, InsertUser, WriteUser,
       MarkDeleted, WriteRole, EraseRole
  <2>3. (\A u \in UserIds : ~ VerifyPassword(s, u)) /\ ~ StorePassword(s)
    BY <1>1, <1>6 DEF At, VerifyPassword, StorePassword, Begin
  <2>4. DeleteOTP(s)
    BY <1>1, <1>4, <1>6, <2>1, <2>2, <2>3 DEF At, Continue, ContinueRegistration,
       CreateOTP, FindStudentRole, CreateAccount, FindByEmail, ChangePassword
  <2>5. Deletable(k)
    BY <1>1, <1>3, <1>6, <2>4 DEF DeleteOTP, Finish
  <2> QED  BY <1>2, <2>5 DEF Deletable, IInv, SpentIsGone
<1> QED  BY <1>5, <1>6

\* Two requests that read the same code are not both admitted: the deletion that
\* lets one in leaves none for the other until a new code is sent
\* (auth.service.ts validateOTP).
THEOREM OneAdmissionPerSend == Spec => EachSendAdmitsOnce
<1>1. IInv /\ [Next]_vars =>
        [\A s \in Slots : Admits(s) => ~ spent[<<req[s].email, req[s].type>>]]_vars
  BY Admission
<1> QED  BY <1>1, Invariant, PTL DEF Spec, EachSendAdmitsOnce

\* The row a request writes has the role the request carries, or the one it had.
LEMMA Appointment ==
  ASSUME IInv, Next, NEW u \in UserIds,
         ~ IsAdminRow(user[u]), IsAdminRow(user'[u])
  PROVE  \E s \in Slots : Writes(s, u) /\ req[s].byAdmin
<1>1. user'[u] # user[u] /\ user'[u] # None /\ user'[u].role = AdminRole
  BY DEF IsAdminRow
<1>2. req \in [Slots -> ReqRow] /\ IdleReq.pc = "idle"
  BY DEF IInv, TypeOK, IdleReq
<1>3. PICK s \in Slots :
        \/ CreateAccount(s) \/ ChangePassword(s) \/ StorePassword(s)
        \/ InsertUser(s) \/ WriteUser(s) \/ MarkDeleted(s)
  <2>1. PICK s \in Slots :
          \/ StartRegistration(s) \/ StartAdministration(s) \/ Continue(s)
          \/ \E x \in UserIds : VerifyPassword(s, x)
    BY <1>1 DEF Next, Expire, Restart
  <2>2. ~ StartRegistration(s)
    BY <1>1 DEF StartRegistration, SendOTP, PresentCode, Tables
  <2>3. ~ StartAdministration(s)
    BY <1>1 DEF StartAdministration, CreateUser, UpdateUser, DeleteUser,
       CreateRole, UpdateRole, DeleteRole
  <2>4. CASE ContinueRegistration(s)
    BY <1>1, <2>4 DEF ContinueRegistration, CreateOTP, DeleteOTP,
       FindStudentRole, FindByEmail, Tables
  <2>5. CASE ContinueAdministration(s)
    BY <1>1, <2>5 DEF ContinueAdministration, WriteRole, EraseRole
  <2>6. ~ \E x \in UserIds : VerifyPassword(s, x)
    BY <1>1 DEF VerifyPassword
  <2> QED  BY <2>1, <2>2, <2>3, <2>4, <2>5, <2>6 DEF Continue
<1>4. Writes(s, u)
  BY <1>1, <1>2, <1>3 DEF Writes, At, Finish, CreateAccount, ChangePassword,
     StorePassword, InsertUser, WriteUser, MarkDeleted
<1>5. user[u] # None => user[u].role # AdminRole
  BY DEF IsAdminRow
<1>6. CASE CreateAccount(s)
  <2>1. /\ req[s].role \in RoleIds /\ req[s].email \in Emails
        /\ InsertRow(req[s].email, req[s].role, TRUE) /\ req[s].role # AdminRole
    BY <1>1, <1>6, CustomersHaveEmails
    DEF CreateAccount, Insertable, RoleExists, At, IInv, Sound
  <2> QED  BY <1>1, <2>1, InsertTyped
<1>7. CASE InsertUser(s)
  <2>1. PICK active \in Statuses : InsertRow(req[s].email, req[s].role, active)
    BY <1>1, <1>7 DEF InsertUser
  <2>2. req[s].role \in RoleIds /\ req[s].email \in Emails /\ active \in BOOLEAN
    BY <1>1, <1>7, AccountsAssumption
    DEF InsertUser, Insertable, RoleExists, At, IInv, Sound
  <2>3. req[s].role = AdminRole
    BY <1>1, <2>1, <2>2, InsertTyped
  <2> QED  BY <1>4, <1>7, <2>3 DEF InsertUser, At, IInv, Sound
<1>8. CASE WriteUser(s)
  <2>1. req[s].role = AdminRole
    <3> DEFINE t == req[s].user
    <3>1. PICK e \in Emails, active \in Statuses,
               password \in {"other", user[t].password} :
            user' = [user EXCEPT ![t] =
              [email |-> e, role |-> req[s].role, active |-> active,
               live |-> TRUE, password |-> password]]
      BY <1>1, <1>8 DEF WriteUser
    <3> HIDE DEF t
    <3>2. user'[t].role = req[s].role \/ t \notin UserIds
      BY <3>1 DEF IInv, TypeOK
    <3>3. t = u
      BY <1>1, <3>1 DEF IInv, TypeOK
    <3> QED  BY <1>1, <3>2, <3>3
  <2> QED  BY <1>4, <1>8, <2>1 DEF WriteUser, At, IInv, Sound
<1>9. CASE ChangePassword(s) \/ StorePassword(s) \/ MarkDeleted(s)
  <2>1. user[u] # None
    BY <1>1, <1>9 DEF ChangePassword, StorePassword, MarkDeleted, Found, Live, UserExists, At,
       IInv, TypeOK, Sound
  <2>2. user[u] \in UserRow
    BY <2>1 DEF IInv, TypeOK
  <2>3. user'[u].role = user[u].role
    BY <1>9, <2>2 DEF ChangePassword, StorePassword, MarkDeleted, IInv, TypeOK, UserRow
  <2> QED  BY <1>1, <1>5, <2>1, <2>3
<1> QED  BY <1>3, <1>6, <1>7, <1>8, <1>9

\* A user becomes an admin only by the write of a request whose agent the guard
\* found to be one (user.service.ts create, update and verifyRole).
THEOREM OnlyAdminsAppoint == Spec => OnlyAdminsMakeAdmins
<1>1. IInv /\ [Next]_vars =>
        [\A u \in UserIds : ~ IsAdminRow(user[u]) /\ IsAdminRow(user'[u]) =>
           \E s \in Slots : Writes(s, u) /\ req[s].byAdmin]_vars
  BY Appointment
<1> QED  BY <1>1, Invariant, PTL DEF Spec, OnlyAdminsMakeAdmins

\* A teacher's update or deletion hits an admin only if the target has been
\* appointed since verifyRole read its role (user.service.ts update, delete).
THEOREM AdminsSpared == Spec => NonAdminsSpareAdmins
<1>1. IInv /\ [Next]_vars =>
        [\A s \in Slots, u \in UserIds :
           /\ Writes(s, u) /\ IsAdminRow(user[u]) /\ ~ req[s].byAdmin
           /\ req[s].pc \in {"userWrite", "userDelete"}
           => req[s].seen # AdminRole]_vars
  BY DEF IInv, Sound
<1> QED  BY <1>1, Invariant, PTL DEF Spec, NonAdminsSpareAdmins
-----------------------------------------------------------------------------
(* One-time codes and accounts are what OneTimeCodes promises: each code sent  *)
(* admits one request, and each admission is used for one account at most.     *)

Key(r) == <<r.email, r.type>>
NoKey == <<None, None>>
MayDo(what, k, u) == [may |-> what, key |-> k, account |-> u]
Permit(r) ==
  CASE r.pc = "spend" -> MayDo("ask", Key(r), 0)
    [] r.pc \in {"student", "account"} -> MayDo("open", Key(r), 0)
    [] r.pc = "find" -> MayDo("find", Key(r), 0)
    [] r.pc = "reset" -> MayDo("reset", Key(r), r.user)
    [] r.pc = "userInsert" -> MayDo("enter", NoKey, 0)
    [] r.pc \in {"userWrite", "ownPassword"} -> MayDo("edit", NoKey, r.user)
    [] OTHER -> MayDo("nothing", NoKey, 0)

Unspent == {k \in Customers \X Types : code[k] # None}
Fresh == {k \in Customers \X Types : code[k] # None /\ ~ code[k].expired}
Permits == [s \in Slots |-> Permit(req[s])]
Addresses == [u \in UserIds |-> IF user[u] = None THEN None ELSE user[u].email]
ResetByCode == {u \in UserIds : user[u] # None /\ user[u].password = "reset"}

O == INSTANCE OneTimeCodes WITH
       Requests <- Slots, Keys <- Customers \X Types, Accounts <- UserIds,
       fresh <- Fresh, unspent <- Unspent, permit <- Permits, address <- Addresses,
       resets <- ResetByCode

LEMMA PermitOf ==
  ASSUME NEW r
  PROVE  /\ r.pc = "spend" => Permit(r) = O!May("ask", Key(r), 0)
         /\ r.pc \in {"student", "account"} => Permit(r) = O!May("open", Key(r), 0)
         /\ r.pc = "find" => Permit(r) = O!May("find", Key(r), 0)
         /\ r.pc = "reset" => Permit(r) = O!May("reset", Key(r), r.user)
         /\ r.pc = "userInsert" => Permit(r) = O!May("enter", NoKey, 0)
         /\ r.pc \in {"userWrite", "ownPassword"} => Permit(r) = O!May("edit", NoKey, r.user)
         /\ r.pc \in {"idle", "otp", "userDelete", "roleWrite", "roleDelete"} =>
              Permit(r) = O!Nothing
<1>1. r.pc \in {"userWrite", "ownPassword"} => Permit(r) = O!May("edit", NoKey, r.user)
  BY DEF Permit, MayDo, O!May
<1>2. r.pc \in {"idle", "otp", "userDelete", "roleWrite", "roleDelete"} =>
        Permit(r) = O!Nothing
  BY DEF Permit, MayDo, NoKey, O!Nothing
<1> QED  BY <1>1, <1>2 DEF Permit, MayDo, O!May

\* A request's step moves its permit alone.
LEMMA PermitMoves ==
  ASSUME IInv, NEW s \in Slots, NEW r, req' = [req EXCEPT ![s] = r]
  PROVE  O!Use(s, Permit(r)) /\ (Permit(r) = Permit(req[s]) => UNCHANGED Permits)
  BY DEF O!Use, Permits, IInv, TypeOK

LEMMA PermitHeld ==
  ASSUME NEW s \in Slots  PROVE Permits[s] = Permit(req[s])
  BY DEF Permits

\* What the tables show while they stand.
LEMMA TablesShow ==
  /\ UNCHANGED code => UNCHANGED <<Fresh, Unspent>>
  /\ UNCHANGED user => UNCHANGED <<Addresses, ResetByCode>>
  /\ UNCHANGED req => UNCHANGED Permits
  BY DEF Fresh, Unspent, Addresses, ResetByCode, Permits

LEMMA Stutters ==
  ASSUME UNCHANGED <<code, user>>, UNCHANGED Permits
  PROVE  UNCHANGED O!vars
  BY TablesShow DEF O!vars

LEMMA GivesUp ==
  ASSUME IInv, NEW s \in Slots, Finish(s), UNCHANGED <<code, user>>
  PROVE  O!GiveUp(s)
<1>1. O!Use(s, Permit(IdleReq)) /\ Permit(IdleReq) = O!Nothing
  BY PermitMoves, PermitOf DEF Finish, IdleReq
<1> QED  BY <1>1, TablesShow DEF O!GiveUp

\* Ending, a request gives its permit back.
LEMMA GivesBack ==
  ASSUME IInv, NEW s \in Slots, Finish(s)  PROVE O!Use(s, O!Nothing)
  BY PermitMoves, PermitOf DEF Finish, IdleReq

LEMMA RowShows ==
  ASSUME IInv, NEW u \in UserIds, NEW row \in UserRow, user' = [user EXCEPT ![u] = row]
  PROVE  /\ Addresses' = [Addresses EXCEPT ![u] = row.email]
         /\ row.password = "reset" => ResetByCode' = ResetByCode \cup {u}
         /\ row.password = "other" => ResetByCode' = ResetByCode \ {u}
<1>1. row # None
  BY SeedAssumption
<1>2. \A x \in UserIds : user'[x] = IF x = u THEN row ELSE user[x]
  BY DEF IInv, TypeOK
<1>3. Addresses' = [Addresses EXCEPT ![u] = row.email]
  <2>1. ASSUME NEW x \in UserIds
        PROVE  (IF user'[x] = None THEN None ELSE user'[x].email) =
                 IF x = u THEN row.email ELSE Addresses[x]
    <3>1. CASE x = u
      BY <1>1, <1>2, <3>1
    <3>2. CASE x # u
      <4>1. user'[x] = user[x]
        BY <1>2, <3>2
      <4> QED  BY <3>2, <4>1 DEF Addresses
    <3> QED  BY <3>1, <3>2
  <2> QED  BY <2>1 DEF Addresses
<1>4. row.password = "reset" => ResetByCode' = ResetByCode \cup {u}
  BY <1>1, <1>2 DEF ResetByCode
<1>5. row.password = "other" => ResetByCode' = ResetByCode \ {u}
  BY <1>1, <1>2 DEF ResetByCode
<1> QED  BY <1>3, <1>4, <1>5

LEMMA AddressOf ==
  ASSUME IInv, NEW u \in UserIds
  PROVE  /\ user[u] = None => Addresses[u] = None
         /\ user[u] # None => /\ Addresses[u] = user[u].email /\ Addresses[u] # None
                              /\ user[u] \in UserRow
  BY AccountsAssumption DEF Addresses, IInv, TypeOK, UserRow

\* The next id is one that no row has.
LEMMA NextUserFree ==
  ASSUME FreeUserIds # {}  PROVE NextUser \in FreeUserIds
<1>1. FreeUserIds \subseteq Nat
  BY AccountsAssumption DEF FreeUserIds, UserIds
<1>2. PICK m \in FreeUserIds : \A n \in FreeUserIds : ~ (<<n, m>> \in OpToRel(<, Nat))
  BY <1>1, NatLessThanWellFounded, WFMin, Zenon
<1>3. \A n \in FreeUserIds : n < m => <<n, m>> \in OpToRel(<, Nat)
  BY <1>1, Zenon DEF OpToRel
<1>4. \A n \in FreeUserIds : ~ (n < m)
  BY <1>2, <1>3, Zenon
<1>5. \E u \in FreeUserIds : \A v \in FreeUserIds : u <= v
  BY <1>1, <1>4
<1> QED  BY <1>5 DEF NextUser

LEMMA InsertShows ==
  ASSUME IInv, NEW e \in Emails, NEW r \in RoleIds, NEW active \in BOOLEAN,
         InsertRow(e, r, active), FreeUserIds # {}
  PROVE  \E u \in UserIds : /\ Addresses[u] = None
                            /\ Addresses' = [Addresses EXCEPT ![u] = e]
                            /\ UNCHANGED ResetByCode
<1> DEFINE u == NextUser
<1> DEFINE row == [email |-> e, role |-> r, active |-> active, live |-> TRUE,
                   password |-> "other"]
<1>1. u \in UserIds /\ user[u] = None
  BY NextUserFree DEF FreeUserIds
<1>2. row \in UserRow /\ row.email = e /\ row.password = "other"
  BY DEF UserRow
<1>3. user' = [user EXCEPT ![u] = row]
  BY DEF InsertRow
<1> HIDE DEF row, u
<1>4. Addresses' = [Addresses EXCEPT ![u] = e] /\ ResetByCode' = ResetByCode \ {u}
  BY <1>1, <1>2, <1>3, RowShows
<1>5. u \notin ResetByCode
  BY <1>1 DEF ResetByCode
<1> QED  BY <1>1, <1>4, <1>5, AddressOf

\* Codes
LEMMA SendShows ==
  ASSUME IInv, NEW s \in Slots, NEW c \in Codes, CreateOTP(s, c)
  PROVE  \E k \in Customers \X Types : O!Send(k)
<1> DEFINE k == <<req[s].email, req[s].type>>
<1> DEFINE row == [value |-> c, expired |-> FALSE]
<1>1. k \in Customers \X Types /\ req[s].pc = "otp"
  BY DEF CreateOTP, At, IInv, TypeOK, ReqRow, Sound
<1>2. row \in CodeRow /\ row # None /\ ~ row.expired
  <2>1. row \in CodeRow /\ ~ row.expired
    BY DEF CodeRow
  <2> HIDE DEF row
  <2> QED  BY <2>1, SeedAssumption
<1>3. code' = [code EXCEPT ![k] = row] /\ UNCHANGED user /\ req' = [req EXCEPT ![s] = IdleReq]
  BY DEF CreateOTP, Tables, Finish
<1> HIDE DEF k, row
<1>4. \A x \in Customers \X Types : code'[x] = IF x = k THEN row ELSE code[x]
  BY <1>3 DEF IInv, TypeOK
<1>5. Fresh' = Fresh \cup {k} /\ Unspent' = Unspent \cup {k}
  BY <1>1, <1>2, <1>4 DEF Fresh, Unspent
<1>6. Permit(IdleReq) = Permit(req[s])
  BY <1>1, PermitOf DEF IdleReq
<1> QED  BY <1>1, <1>3, <1>5, <1>6, PermitMoves, TablesShow DEF O!Send

LEMMA ExpireShows ==
  ASSUME IInv, NEW k \in Customers \X Types, Expire(k)
  PROVE  O!Expire(k)
<1> DEFINE row == [code[k] EXCEPT !.expired = TRUE]
<1>1. code[k] \in CodeRow /\ code[k] # None /\ UNCHANGED <<user, req>>
  BY DEF Expire, IInv, TypeOK
<1>2. row # None /\ row.expired
  <2>1. row \in CodeRow /\ row.expired
    BY <1>1 DEF CodeRow
  <2> HIDE DEF row
  <2> QED  BY <2>1, SeedAssumption
<1>3. code' = [code EXCEPT ![k] = row]
  BY DEF Expire, IInv, TypeOK
<1> HIDE DEF row
<1>4. \A x \in Customers \X Types : code'[x] = IF x = k THEN row ELSE code[x]
  BY <1>3 DEF IInv, TypeOK
<1>5. Fresh' = Fresh \ {k} /\ UNCHANGED Unspent
  BY <1>1, <1>2, <1>4 DEF Fresh, Unspent
<1> QED  BY <1>1, <1>5, TablesShow DEF O!Expire

LEMMA PresentShows ==
  ASSUME IInv, NEW s \in Slots, NEW e \in Customers, NEW type \in Types, NEW c \in Codes,
         PresentCode(s, e, type, c)
  PROVE  O!Present(s, <<e, type>>)
<1> DEFINE r == [req[s] EXCEPT !.pc = "spend", !.email = e, !.type = type]
<1>1. req[s] \in ReqRow /\ req[s].pc = "idle" /\ UNCHANGED <<code, user>>
  BY DEF PresentCode, At, IInv, TypeOK, Tables
<1>2. r.pc = "spend" /\ Key(r) = <<e, type>>
  BY <1>1 DEF ReqRow, Key
<1>3. req' = [req EXCEPT ![s] = r]
  BY DEF PresentCode, IInv, TypeOK, ReqRow
<1> HIDE DEF r
<1>4. O!Use(s, O!May("ask", <<e, type>>, 0))
  BY <1>2, <1>3, PermitMoves, PermitOf
<1>5. Permits[s] = O!Nothing
  BY <1>1, PermitHeld, PermitOf
<1>6. <<e, type>> \in Fresh
  BY DEF PresentCode, Matches, Fresh
<1> QED  BY <1>1, <1>4, <1>5, <1>6, TablesShow DEF O!Present

LEMMA AdmitShows ==
  ASSUME IInv, NEW s \in Slots, DeleteOTP(s)
  PROVE  O!Admit(s) \/ O!GiveUp(s)
<1> DEFINE k == <<req[s].email, req[s].type>>
<1>1. /\ k \in Customers \X Types /\ req[s].pc = "spend" /\ UNCHANGED user
      /\ req[s] \in ReqRow
  BY DEF DeleteOTP, At, IInv, TypeOK, ReqRow, Sound, Tables
<1>2. CASE ~ Deletable(k)
  BY <1>1, <1>2, GivesUp DEF DeleteOTP
<1>3. CASE Deletable(k)
  <2> DEFINE pc == IF req[s].type = "REGISTER" THEN "student" ELSE "find"
  <2> DEFINE r == [req[s] EXCEPT !.pc = pc]
  <2>1. code' = [code EXCEPT ![k] = None] /\ Goto(s, pc)
    BY <1>3 DEF DeleteOTP
  <2>2. req' = [req EXCEPT ![s] = r] /\ r.pc = pc /\ Key(r) = k
    BY <1>1, <2>1 DEF Goto, IInv, TypeOK, ReqRow, Key
  <2>3. \A x \in Customers \X Types : code'[x] = IF x = k THEN None ELSE code[x]
    BY <2>1 DEF IInv, TypeOK
  <2>4. k[2] = req[s].type
    OBVIOUS
  <2>5. Permit(r) = O!May(IF k[2] = "REGISTER" THEN "open" ELSE "find", k, 0)
    <3> HIDE DEF r
    <3>1. CASE req[s].type = "REGISTER"
      <4>1. r.pc = "student"
        BY <2>2, <3>1
      <4> QED  BY <2>2, <2>4, <3>1, <4>1, PermitOf
    <3>2. CASE req[s].type # "REGISTER"
      <4>1. r.pc = "find"
        BY <2>2, <3>2
      <4> QED  BY <2>2, <2>4, <3>2, <4>1, PermitOf
    <3> QED  BY <3>1, <3>2
  <2>6. Permits[s] = O!May("ask", k, 0)
    BY <1>1, PermitHeld, PermitOf DEF Key
  <2> HIDE DEF k, r, pc
  <2>7. O!Use(s, O!May(IF k[2] = "REGISTER" THEN "open" ELSE "find", k, 0))
    BY <2>2, <2>5, PermitMoves
  <2>8. Fresh' = Fresh \ {k} /\ Unspent' = Unspent \ {k} /\ k \in Unspent
    BY <1>1, <1>3, <2>3 DEF Fresh, Unspent, Deletable
  <2>9. Permits[s].may = "ask" /\ Permits[s].key = k
    BY <2>6 DEF O!May
  <2> QED  BY <1>1, <2>7, <2>8, <2>9, TablesShow DEF O!Admit
<1> QED  BY <1>2, <1>3

\* Accounts by code
LEMMA StudentShows ==
  ASSUME IInv, NEW s \in Slots, FindStudentRole(s)
  PROVE  O!GiveUp(s) \/ UNCHANGED O!vars
<1>1. UNCHANGED <<code, user>> /\ req[s] \in ReqRow /\ req[s].pc = "student"
  BY DEF FindStudentRole, Tables, At, IInv, TypeOK
<1>2. ASSUME NEW q, req' = [req EXCEPT ![s].pc = "account", ![s].role = q]
      PROVE  UNCHANGED Permits
  <2> DEFINE r == [req[s] EXCEPT !.pc = "account", !.role = q]
  <2>1. r.pc = "account" /\ Key(r) = Key(req[s]) /\ req' = [req EXCEPT ![s] = r]
    BY <1>1, <1>2 DEF IInv, TypeOK, ReqRow, Key
  <2> HIDE DEF r
  <2>2. Permit(r) = Permit(req[s])
    BY <1>1, <2>1, PermitOf
  <2> QED  BY <2>1, <2>2, PermitMoves
<1> QED  BY <1>1, <1>2, GivesUp, Stutters DEF FindStudentRole

LEMMA OpenShows ==
  ASSUME IInv, NEW s \in Slots, CreateAccount(s)
  PROVE  O!GiveUp(s) \/ \E u \in UserIds : O!Open(s, u)
<1> DEFINE e == req[s].email
<1>1. req[s].pc = "account" /\ Finish(s) /\ UNCHANGED code /\ e \in Emails
  BY CustomersHaveEmails DEF CreateAccount, At, IInv, Sound
<1>2. CASE ~ Insertable(e, req[s].role)
  BY <1>1, <1>2, GivesUp DEF CreateAccount
<1>3. CASE Insertable(e, req[s].role)
  <2>1. InsertRow(e, req[s].role, TRUE) /\ req[s].role \in RoleIds /\ FreeUserIds # {}
    BY <1>3 DEF CreateAccount, Insertable, RoleExists
  <2>2. PICK u \in UserIds : /\ Addresses[u] = None
                             /\ Addresses' = [Addresses EXCEPT ![u] = e]
                             /\ UNCHANGED ResetByCode
    BY <1>1, <2>1, InsertShows
  <2>3. Permits[s].may = "open" /\ Permits[s].key[1] = e
    BY <1>1, PermitHeld, PermitOf DEF O!May, Key
  <2> HIDE DEF e
  <2>4. O!Open(s, u)
    BY <1>1, <2>2, <2>3, GivesBack, TablesShow DEF O!Open
  <2> QED  BY <2>4
<1> QED  BY <1>2, <1>3

LEMMA FindShows ==
  ASSUME IInv, NEW s \in Slots, FindByEmail(s)
  PROVE  O!GiveUp(s) \/ \E u \in UserIds : O!Find(s, u)
<1>1. UNCHANGED <<code, user>> /\ req[s] \in ReqRow /\ req[s].pc = "find"
  BY DEF FindByEmail, Tables, At, IInv, TypeOK
<1>2. ASSUME NEW u \in UserIds, user[u] # None, user[u].email = req[s].email,
             req' = [req EXCEPT ![s].pc = "reset", ![s].user = u]
      PROVE  O!Find(s, u)
  <2> DEFINE r == [req[s] EXCEPT !.pc = "reset", !.user = u]
  <2>1. /\ r.pc = "reset" /\ Key(r) = Key(req[s]) /\ r.user = u
        /\ req' = [req EXCEPT ![s] = r]
    BY <1>1, <1>2 DEF IInv, TypeOK, ReqRow, Key
  <2> HIDE DEF r
  <2>2. O!Use(s, O!May("reset", Key(req[s]), u))
    BY <2>1, PermitMoves, PermitOf
  <2>3. Permits[s].may = "find" /\ Permits[s].key = Key(req[s])
    BY <1>1, PermitHeld, PermitOf DEF O!May
  <2>4. Addresses[u] = Permits[s].key[1]
    BY <1>2, <2>3, AddressOf DEF Key
  <2> QED  BY <1>1, <2>2, <2>3, <2>4, TablesShow DEF O!Find
<1> QED  BY <1>1, <1>2, GivesUp DEF FindByEmail, UserExists

LEMMA ResetShows ==
  ASSUME IInv, NEW s \in Slots, ChangePassword(s)
  PROVE  O!GiveUp(s) \/ O!Reset(s)
<1> DEFINE u == req[s].user
<1>1. /\ req[s].pc = "reset" /\ Finish(s) /\ UNCHANGED code
      /\ u \in UserIds /\ user[u] # None
  BY DEF ChangePassword, At, IInv, Sound, UserExists
<1>2. CASE UNCHANGED user
  BY <1>1, <1>2, GivesUp
<1>3. CASE user' = [user EXCEPT ![u].password = "reset"]
  <2> DEFINE row == [user[u] EXCEPT !.password = "reset"]
  <2>1. user[u] \in UserRow
    BY <1>1, AddressOf
  <2>2. row \in UserRow /\ row.email = user[u].email /\ row.password = "reset"
    BY <2>1 DEF UserRow
  <2>3. user' = [user EXCEPT ![u] = row]
    BY <1>1, <1>3 DEF IInv, TypeOK
  <2> HIDE DEF row
  <2>4. Addresses' = [Addresses EXCEPT ![u] = row.email]
        /\ ResetByCode' = ResetByCode \cup {u}
    <3> HIDE DEF u
    <3> QED  BY <1>1, <2>2, <2>3, RowShows
  <2>5. UNCHANGED Addresses
    BY <1>1, <2>2, <2>4, AddressOf DEF Addresses
  <2>6. Permits[s].may = "reset" /\ Permits[s].account = u
    BY <1>1, PermitHeld, PermitOf DEF O!May
  <2> HIDE DEF u
  <2>7. O!Reset(s)
    BY <1>1, <2>4, <2>5, <2>6, GivesBack, TablesShow DEF O!Reset
  <2> QED  BY <2>7
<1> QED  BY <1>2, <1>3 DEF ChangePassword

\* Staff and owners
LEMMA EngageShows ==
  ASSUME IInv, NEW s \in Slots, At(s, "idle"), NEW r, req' = [req EXCEPT ![s] = r],
         UNCHANGED <<code, user>>, r.user \in UserIds \cup {0},
         r.pc \in {"userInsert", "userWrite", "ownPassword"}
  PROVE  \E a \in UserIds \cup {0}, what \in {"enter", "edit"} :
           O!Engage(s, O!May(what, <<None, None>>, a))
<1>1. PICK a \in UserIds \cup {0}, what \in {"enter", "edit"} :
        Permit(r) = O!May(what, <<None, None>>, a)
  <2>1. CASE r.pc = "userInsert"
    <3>1. Permit(r) = O!May("enter", <<None, None>>, 0)
      BY <2>1, PermitOf DEF NoKey
    <3> QED  BY <3>1
  <2>2. CASE r.pc \in {"userWrite", "ownPassword"}
    <3>1. Permit(r) = O!May("edit", <<None, None>>, r.user)
      BY <2>2, PermitOf DEF NoKey
    <3> QED  BY <3>1
  <2> QED  BY <2>1, <2>2
<1>2. Permits[s] = O!Nothing
  BY PermitHeld, PermitOf DEF At
<1>3. O!Use(s, O!May(what, <<None, None>>, a))
  BY <1>1, PermitMoves
<1>4. O!May(what, <<None, None>>, a).may \in {"enter", "edit"}
  BY DEF O!May
<1>5. O!Engage(s, O!May(what, <<None, None>>, a))
  BY <1>2, <1>3, <1>4, TablesShow DEF O!Engage
<1> QED  BY <1>5

LEMMA EnterShows ==
  ASSUME IInv, NEW s \in Slots, InsertUser(s)
  PROVE  O!GiveUp(s) \/ \E u \in UserIds, e \in Emails : O!Enter(s, u, e)
<1> DEFINE e == req[s].email
<1>1. req[s].pc = "userInsert" /\ Finish(s) /\ UNCHANGED code /\ e \in Emails
  BY DEF InsertUser, Frame, At, IInv, Sound
<1>2. CASE UNCHANGED user
  BY <1>1, <1>2, GivesUp
<1>3. ASSUME NEW active \in Statuses, InsertRow(e, req[s].role, active),
             Insertable(e, req[s].role)
      PROVE  \E u \in UserIds : O!Enter(s, u, e)
  <2>1. active \in BOOLEAN /\ req[s].role \in RoleIds /\ FreeUserIds # {}
    BY <1>3, AccountsAssumption DEF Insertable, RoleExists
  <2>2. PICK u \in UserIds : /\ Addresses[u] = None
                             /\ Addresses' = [Addresses EXCEPT ![u] = e]
                             /\ UNCHANGED ResetByCode
    BY <1>1, <1>3, <2>1, InsertShows
  <2>3. Permits[s].may = "enter"
    BY <1>1, PermitHeld, PermitOf DEF O!May
  <2> HIDE DEF e
  <2>4. O!Enter(s, u, e)
    BY <1>1, <2>2, <2>3, GivesBack, TablesShow DEF O!Enter
  <2> QED  BY <2>4
<1> QED  BY <1>1, <1>2, <1>3 DEF InsertUser

\* A row is replaced by one that may have another address or a password of another kind.
LEMMA RowEdited ==
  ASSUME IInv, NEW s \in Slots, Finish(s), UNCHANGED code,
         req[s].pc \in {"userWrite", "ownPassword"}, NEW u \in UserIds, u = req[s].user,
         user[u] # None, NEW row \in UserRow, user' = [user EXCEPT ![u] = row],
         row.password \in {"other", user[u].password}
  PROVE  O!Edit(s, row.email)
<1>1. Addresses' = [Addresses EXCEPT ![u] = row.email]
  BY RowShows
<1>2. ResetByCode' \in {ResetByCode, ResetByCode \ {u}}
  <2>1. CASE row.password = "other"
    BY <2>1, RowShows
  <2>2. CASE row.password # "other"
    <3>1. row.password = "reset" /\ u \in ResetByCode
      BY <2>2 DEF UserRow, ResetByCode
    <3>2. ResetByCode' = ResetByCode \cup {u}
      BY <3>1, RowShows
    <3> QED  BY <3>1, <3>2
  <2> QED  BY <2>1, <2>2
<1>3. Permits[s].may = "edit" /\ Permits[s].account = u
  BY PermitHeld, PermitOf DEF O!May
<1>4. Addresses[u] # None
  BY AddressOf
<1> QED  BY <1>1, <1>2, <1>3, <1>4, GivesBack, TablesShow DEF O!Edit

LEMMA WriteShows ==
  ASSUME IInv, NEW s \in Slots, WriteUser(s)
  PROVE  O!GiveUp(s) \/ \E e \in Emails : O!Edit(s, e)
<1> DEFINE u == req[s].user
<1>1. req[s].pc = "userWrite" /\ Finish(s) /\ UNCHANGED code
  BY DEF WriteUser, Frame, At
<1>2. CASE UNCHANGED user
  BY <1>1, <1>2, GivesUp
<1>3. ASSUME NEW e \in Emails, NEW active \in Statuses,
             NEW password \in {"other", user[u].password}, Live(u), RoleExists(req[s].role),
             user' = [user EXCEPT ![u] =
               [email |-> e, role |-> req[s].role, active |-> active, live |-> TRUE,
                password |-> password]]
      PROVE  O!Edit(s, e)
  <2> DEFINE row == [email |-> e, role |-> req[s].role, active |-> active, live |-> TRUE,
                     password |-> password]
  <2>1. u \in UserIds /\ user[u] # None /\ user[u] \in UserRow
    BY <1>3, AddressOf DEF Live, UserExists
  <2>2. password \in {"other", "reset"}
    BY <1>3, <2>1 DEF UserRow
  <2>3. row \in UserRow /\ row.email = e /\ row.password = password
    BY <1>3, <2>2, AccountsAssumption DEF UserRow, RoleExists
  <2>4. user' = [user EXCEPT ![u] = row]
    BY <1>3
  <2> HIDE DEF row
  <2> QED  BY <1>1, <1>3, <2>1, <2>3, <2>4, RowEdited
<1> QED  BY <1>2, <1>3 DEF WriteUser

LEMMA StoreShows ==
  ASSUME IInv, NEW s \in Slots, StorePassword(s)
  PROVE  O!GiveUp(s) \/ \E e \in Emails : O!Edit(s, e)
<1> DEFINE u == req[s].user
<1>1. /\ req[s].pc = "ownPassword" /\ Finish(s) /\ UNCHANGED code
      /\ u \in UserIds /\ user[u] # None
  BY DEF StorePassword, At, IInv, Sound, UserExists
<1>2. CASE UNCHANGED user
  BY <1>1, <1>2, GivesUp
<1>3. CASE user' = [user EXCEPT ![u].password = "other"]
  <2> DEFINE row == [user[u] EXCEPT !.password = "other"]
  <2>1. user[u] \in UserRow
    BY <1>1, AddressOf
  <2>2. row \in UserRow /\ row.email \in Emails /\ row.password = "other"
    BY <2>1 DEF UserRow
  <2>3. user' = [user EXCEPT ![u] = row]
    BY <1>1, <1>3 DEF IInv, TypeOK
  <2> HIDE DEF row
  <2>4. O!Edit(s, row.email)
    BY <1>1, <2>2, <2>3, RowEdited
  <2> QED  BY <2>2, <2>4
<1> QED  BY <1>2, <1>3 DEF StorePassword

\* Deletions and roles: nothing that codes have to do with.
LEMMA DeletionShows ==
  ASSUME IInv, NEW s \in Slots, MarkDeleted(s)
  PROVE  UNCHANGED O!vars
<1> DEFINE u == req[s].user
<1>1. req[s].pc = "userDelete" /\ Finish(s) /\ UNCHANGED code
  BY DEF MarkDeleted, Frame, At
<1>2. UNCHANGED Permits
  <2>1. Permit(IdleReq) = Permit(req[s])
    BY <1>1, PermitOf DEF IdleReq
  <2> QED  BY <1>1, <2>1, PermitMoves DEF Finish
<1>3. CASE UNCHANGED user
  BY <1>1, <1>2, <1>3, Stutters
<1>4. CASE Live(u) /\ user' = [user EXCEPT ![u].live = FALSE]
  <2> DEFINE row == [user[u] EXCEPT !.live = FALSE]
  <2>1. u \in UserIds /\ user[u] # None /\ user[u] \in UserRow
    BY <1>4, AddressOf DEF Live, UserExists
  <2>2. row \in UserRow /\ row.email = user[u].email /\ row.password = user[u].password
    BY <2>1 DEF UserRow
  <2>3. user' = [user EXCEPT ![u] = row]
    BY <1>4, <2>1 DEF IInv, TypeOK
  <2> HIDE DEF row
  <2>4. UNCHANGED Addresses
    <3>1. Addresses' = [Addresses EXCEPT ![u] = row.email]
      <4> HIDE DEF u
      <4> QED  BY <2>1, <2>2, <2>3, RowShows
    <3> QED  BY <2>1, <2>2, <3>1, AddressOf DEF Addresses
  <2>5. UNCHANGED ResetByCode
    <3>1. CASE row.password = "reset"
      BY <2>1, <2>2, <2>3, <3>1, RowShows DEF ResetByCode
    <3>2. CASE row.password = "other"
      BY <2>1, <2>2, <2>3, <3>2, RowShows DEF ResetByCode
    <3> QED  BY <2>2, <3>1, <3>2 DEF UserRow
  <2> QED  BY <1>1, <1>2, <2>4, <2>5, TablesShow DEF O!vars
<1> QED  BY <1>3, <1>4 DEF MarkDeleted

LEMMA CalmShows ==
  ASSUME IInv, NEW s \in Slots, UNCHANGED <<code, user>>,
         \/ UNCHANGED req \/ Finish(s)
         \/ \E r : req' = [req EXCEPT ![s] = r]
                   /\ r.pc \in {"otp", "userDelete", "roleWrite", "roleDelete"},
         req[s].pc \in {"idle", "roleWrite", "roleDelete"}
  PROVE  UNCHANGED O!vars
<1>1. ASSUME NEW r, req' = [req EXCEPT ![s] = r],
             r.pc \in {"idle", "otp", "userDelete", "roleWrite", "roleDelete"}
      PROVE  UNCHANGED O!vars
  <2>1. Permit(r) = Permit(req[s])
    BY <1>1, PermitOf
  <2> QED  BY <1>1, <2>1, PermitMoves, Stutters
<1>2. CASE UNCHANGED req
  BY <1>2, TablesShow, Stutters
<1>3. CASE Finish(s)
  <2>1. IdleReq.pc = "idle"
    BY DEF IdleReq
  <2> QED  BY <1>1, <1>3, <2>1 DEF Finish
<1> QED  BY <1>1, <1>2, <1>3

LEMMA RegistrationShows ==
  ASSUME IInv, NEW s \in Slots, StartRegistration(s) \/ ContinueRegistration(s)
  PROVE  [O!Next]_(O!vars)
<1>1. ASSUME NEW e \in Customers, NEW type \in Types, SendOTP(s, e, type)
      PROVE  UNCHANGED O!vars
  <2> DEFINE r == [req[s] EXCEPT !.pc = "otp", !.email = e, !.type = type]
  <2>1. req[s] \in ReqRow /\ req[s].pc = "idle" /\ UNCHANGED <<code, user>>
    BY <1>1 DEF SendOTP, Tables, At, IInv, TypeOK
  <2>2. req' = [req EXCEPT ![s] = r] /\ r.pc = "otp"
    BY <1>1, <2>1 DEF SendOTP, IInv, TypeOK, ReqRow
  <2> HIDE DEF r
  <2> QED  BY <2>1, <2>2, CalmShows
<1>2. CASE StartRegistration(s)
  <2>1. ASSUME NEW e \in Customers, NEW type \in Types, NEW c \in Codes,
               PresentCode(s, e, type, c)
        PROVE  O!Next
    <3>1. O!Present(s, <<e, type>>) /\ <<e, type>> \in Customers \X Types
      BY <2>1, PresentShows
    <3> QED  BY <3>1 DEF O!Next
  <2> QED  BY <1>1, <1>2, <2>1 DEF StartRegistration
<1>3. CASE \E c \in Codes : CreateOTP(s, c)
  BY <1>3, SendShows DEF O!Next
<1>4. CASE DeleteOTP(s) \/ FindStudentRole(s) \/ ChangePassword(s)
  BY <1>4, AdmitShows, StudentShows, ResetShows DEF O!Next
<1>5. CASE CreateAccount(s) \/ FindByEmail(s)
  BY <1>5, OpenShows, FindShows DEF O!Next
<1> QED  BY <1>2, <1>3, <1>4, <1>5 DEF ContinueRegistration

LEMMA Engages ==
  ASSUME IInv, NEW s \in Slots, At(s, "idle"), NEW r, req' = [req EXCEPT ![s] = r],
         UNCHANGED <<code, user>>, r.user \in UserIds \cup {0},
         r.pc \in {"userInsert", "userWrite", "ownPassword"}
  PROVE  O!Next
  BY EngageShows DEF O!Next

LEMMA AdministrationShows ==
  ASSUME IInv, NEW s \in Slots,
         \/ StartAdministration(s) \/ ContinueAdministration(s)
         \/ StorePassword(s) \/ \E u \in UserIds : VerifyPassword(s, u)
  PROVE  [O!Next]_(O!vars)
<1>1. req \in [Slots -> ReqRow] /\ req[s] \in ReqRow
  BY DEF IInv, TypeOK
<1>2. UserIds \cup {0} = 0..MaxUsers
  BY AccountsAssumption DEF UserIds
<1>3. ASSUME NEW agent \in UserIds, NEW e \in Emails, NEW r \in Grants,
             CreateUser(s, agent, e, r)
      PROVE  [O!Next]_(O!vars)
  <2> DEFINE q == [req[s] EXCEPT !.pc = "userInsert", !.email = e, !.role = r,
                                 !.byAdmin = IsAdmin(agent)]
  <2>1. At(s, "idle") /\ UNCHANGED <<code, user>>
    BY <1>3 DEF CreateUser, Begin, Frame
  <2>2. q.pc = "userInsert" /\ q.user = req[s].user /\ req[s].user \in UserIds \cup {0}
    BY <1>1, <1>2 DEF ReqRow
  <2>3. UNCHANGED req \/ req' = [req EXCEPT ![s] = q]
    BY <1>1, <1>3 DEF CreateUser, ReqRow
  <2> HIDE DEF q
  <2>4. UNCHANGED req => UNCHANGED O!vars
    BY <2>1, CalmShows DEF At
  <2> QED  BY <2>1, <2>2, <2>3, <2>4, Engages
<1>4. ASSUME NEW agent \in UserIds, NEW u \in UserIds, NEW r \in Grants,
             UpdateUser(s, agent, u, r)
      PROVE  [O!Next]_(O!vars)
  <2> DEFINE q == [req[s] EXCEPT !.pc = "userWrite", !.user = u, !.role = r,
                                 !.seen = user[u].role, !.byAdmin = IsAdmin(agent)]
  <2>1. At(s, "idle") /\ UNCHANGED <<code, user>>
    BY <1>4 DEF UpdateUser, Begin, Frame
  <2>2. q.pc = "userWrite" /\ q.user = u
    BY <1>1 DEF ReqRow
  <2>3. UNCHANGED req \/ req' = [req EXCEPT ![s] = q]
    BY <1>1, <1>4 DEF UpdateUser, ReqRow
  <2> HIDE DEF q
  <2>4. UNCHANGED req => UNCHANGED O!vars
    BY <2>1, CalmShows DEF At
  <2> QED  BY <2>1, <2>2, <2>3, <2>4, Engages
<1>5. ASSUME NEW agent \in UserIds, NEW u \in UserIds, DeleteUser(s, agent, u)
      PROVE  [O!Next]_(O!vars)
  <2> DEFINE q == [req[s] EXCEPT !.pc = "userDelete", !.user = u, !.seen = user[u].role,
                                 !.byAdmin = IsAdmin(agent)]
  <2>1. At(s, "idle") /\ UNCHANGED <<code, user>>
    BY <1>5 DEF DeleteUser, Begin, Frame
  <2>2. q.pc = "userDelete"
    BY <1>1 DEF ReqRow
  <2>3. UNCHANGED req \/ req' = [req EXCEPT ![s] = q]
    BY <1>1, <1>5 DEF DeleteUser, ReqRow
  <2> HIDE DEF q
  <2> QED  BY <2>1, <2>2, <2>3, CalmShows DEF At
<1>6. ASSUME NEW name \in RoleNames, CreateRole(s, name)  PROVE [O!Next]_(O!vars)
  BY <1>6, CalmShows DEF CreateRole, Begin, At
<1>7. ASSUME NEW r \in RoleIds, UpdateRole(s, r) \/ DeleteRole(s, r)
      PROVE  [O!Next]_(O!vars)
  <2>1. At(s, "idle") /\ UNCHANGED <<code, user>>
    BY <1>7 DEF UpdateRole, DeleteRole, Begin, Frame
  <2>2. \E q : req' = [req EXCEPT ![s] = q] /\ q.pc \in {"roleWrite", "roleDelete"}
    <3> DEFINE a == [req[s] EXCEPT !.pc = "roleWrite", !.role = r]
    <3> DEFINE b == [req[s] EXCEPT !.pc = "roleDelete", !.role = r]
    <3>1. a.pc = "roleWrite" /\ b.pc = "roleDelete"
      BY <1>1 DEF ReqRow
    <3>2. req' = [req EXCEPT ![s] = a] \/ req' = [req EXCEPT ![s] = b]
      BY <1>1, <1>7 DEF UpdateRole, DeleteRole, ReqRow
    <3> HIDE DEF a, b
    <3> QED  BY <3>1, <3>2
  <2> QED  BY <2>1, <2>2, CalmShows DEF At
<1>8. CASE EraseRole(s) \/ \E name \in RoleNames : WriteRole(s, name)
  BY <1>8, CalmShows DEF EraseRole, WriteRole, Frame, At
<1>9. ASSUME NEW u \in UserIds, VerifyPassword(s, u)  PROVE [O!Next]_(O!vars)
  <2> DEFINE q == [req[s] EXCEPT !.pc = "ownPassword", !.user = u]
  <2>1. At(s, "idle") /\ UNCHANGED <<code, user>>
    BY <1>9 DEF VerifyPassword, Begin
  <2>2. q.pc = "ownPassword" /\ q.user = u
    BY <1>1 DEF ReqRow
  <2>3. req' = [req EXCEPT ![s] = q]
    BY <1>1, <1>9 DEF VerifyPassword, ReqRow
  <2> HIDE DEF q
  <2> QED  BY <2>1, <2>2, <2>3, Engages
<1>10. CASE InsertUser(s) \/ WriteUser(s) \/ StorePassword(s) \/ MarkDeleted(s)
  BY <1>10, EnterShows, WriteShows, StoreShows, DeletionShows DEF O!Next
<1> QED  BY <1>3, <1>4, <1>5, <1>6, <1>7, <1>8, <1>9, <1>10
         DEF StartAdministration, ContinueAdministration

LEMMA RestartShows ==
  ASSUME Restart  PROVE O!Crash
<1>1. Permit(IdleReq) = O!Nothing
  BY PermitOf DEF IdleReq
<1>2. Permits' = [s \in Slots |-> O!Nothing]
  BY <1>1 DEF Restart, Permits
<1> QED  BY <1>2, TablesShow DEF Restart, O!Crash

LEMMA CodesInitially ==
  ASSUME Init  PROVE O!Init
<1>1. Permit(IdleReq) = O!Nothing
  BY PermitOf DEF IdleReq
<1>2. Permits = [s \in Slots |-> O!Nothing]
  BY <1>1 DEF Init, Permits
<1>3. Fresh = {} /\ Unspent = {}
  BY DEF Init, Fresh, Unspent
<1>4. \A u \in UserIds : user[u] \in UserRow \cup {None} /\ user[u] # None =>
                           user[u].password = "other"
  BY DEF Init
<1>5. Addresses \in [UserIds -> Emails \cup {None}]
  BY InitIInv DEF IInv, TypeOK, Addresses, UserRow
<1>6. ResetByCode = {}
  BY <1>4, InitIInv DEF ResetByCode, IInv, TypeOK
<1> QED  BY <1>2, <1>3, <1>5, <1>6 DEF O!Init

\* Whatever requests present one code, however late, and whatever staff, expiries and
\* restarts do meanwhile: each code sent admits one request, and what is admitted opens one
\* account for the address the code was sent to, or sets the password of one account that had
\* it (auth.service.ts validateOTP, register and forgotPassword).
THEOREM CodesAreUsedOnce == Spec => O!Spec
<1>1. Init => O!Init
  BY CodesInitially
<1>2. IInv /\ [Next]_vars => [O!Next]_(O!vars)
  <2> SUFFICES ASSUME IInv, [Next]_vars  PROVE [O!Next]_(O!vars)
    OBVIOUS
  <2>1. CASE \E s \in Slots :
               \/ StartRegistration(s) \/ StartAdministration(s) \/ Continue(s)
               \/ \E u \in UserIds : VerifyPassword(s, u)
    BY <2>1, RegistrationShows, AdministrationShows DEF Continue
  <2>2. ASSUME NEW k \in Customers \X Types, Expire(k)  PROVE O!Next
    BY <2>2, ExpireShows DEF O!Next
  <2>3. CASE Restart
    BY <2>3, RestartShows DEF O!Next
  <2>4. CASE UNCHANGED vars
    BY <2>4, TablesShow, Stutters DEF vars
  <2> QED  BY <2>1, <2>2, <2>3, <2>4 DEF Next
<1> QED  BY <1>1, <1>2, Invariant, PTL DEF Spec, O!Spec

-----------------------------------------------------------------------------
(* No request goes round in circles.                                          *)

Ahead(pc) ==
  IF pc = "idle" THEN 0
  ELSE IF pc = "spend" THEN 3
  ELSE IF pc \in {"student", "find"} THEN 2
  ELSE 1

RunsDown ==
  \A s \in Slots :
    ~ At(s, "idle") => req'[s] = req[s] \/ Ahead(req'[s].pc) < Ahead(req[s].pc)

LEMMA ContinueLower ==
  ASSUME IInv, NEW s \in Slots, Continue(s)
  PROVE  RunsDown
<1>1. req \in [Slots -> ReqRow] /\ IdleReq.pc = "idle"
  BY DEF IInv, TypeOK, IdleReq
<1>2. ~ At(s, "idle") /\ \A x \in Slots \ {s} : req'[x] = req[x]
  <2>1. CASE ContinueRegistration(s)
    BY <1>1, <2>1 DEF ContinueRegistration, CreateOTP, DeleteOTP, FindStudentRole,
       CreateAccount, FindByEmail, ChangePassword, Finish, Goto, At
  <2>2. CASE ContinueAdministration(s) \/ StorePassword(s)
    BY <1>1, <2>2 DEF ContinueAdministration, InsertUser, WriteUser, MarkDeleted, WriteRole,
       EraseRole, StorePassword, Finish, At
  <2> QED  BY <2>1, <2>2 DEF Continue
<1>3. Ahead(req'[s].pc) < Ahead(req[s].pc)
  <2>1. CASE Finish(s)
    <3>1. req'[s].pc = "idle" /\ req[s].pc # "idle"
      BY <1>1, <1>2, <2>1 DEF Finish, At
    <3> QED  BY <3>1 DEF Ahead
  <2>2. CASE DeleteOTP(s) /\ ~ Finish(s)
    <3>1. req[s].pc = "spend" /\ req'[s].pc \in {"student", "find"}
      BY <1>1, <2>2 DEF DeleteOTP, Goto, At, ReqRow
    <3> QED  BY <3>1 DEF Ahead
  <2>3. CASE (FindStudentRole(s) \/ FindByEmail(s)) /\ ~ Finish(s)
    <3>1. req[s].pc \in {"student", "find"} /\ req'[s].pc \in {"account", "reset"}
      BY <1>1, <2>3 DEF FindStudentRole, FindByEmail, At, ReqRow
    <3> QED  BY <3>1 DEF Ahead
  <2> QED  BY <2>1, <2>2, <2>3
           DEF Continue, ContinueRegistration, ContinueAdministration, CreateOTP,
               CreateAccount, ChangePassword, InsertUser, WriteUser, MarkDeleted, WriteRole,
               EraseRole, StorePassword
<1> QED  BY <1>2, <1>3 DEF RunsDown

\* Whatever step is taken, restarts included, a request that is under way stays or has fewer
\* steps left; and these handlers wait for nobody.
THEOREM RequestsRunDown == Spec => [][RunsDown]_vars
<1>1. ASSUME IInv, [Next]_vars  PROVE RunsDown
  <2>1. req \in [Slots -> ReqRow] /\ IdleReq.pc = "idle"
    BY <1>1 DEF IInv, TypeOK, IdleReq
  <2>2. CASE \E s \in Slots : Continue(s)
    BY <1>1, <2>2, ContinueLower
  <2>3. ASSUME NEW s \in Slots,
               \/ StartRegistration(s) \/ StartAdministration(s)
               \/ \E u \in UserIds : VerifyPassword(s, u)
        PROVE  RunsDown
    <3>1. At(s, "idle")
      BY <2>3 DEF StartRegistration, SendOTP, PresentCode, StartAdministration, CreateUser,
         UpdateUser, DeleteUser, CreateRole, UpdateRole, DeleteRole, VerifyPassword, Begin
    <3>2. \A x \in Slots \ {s} : req'[x] = req[x]
      <4>1. CASE StartRegistration(s) \/ \E u \in UserIds : VerifyPassword(s, u)
        BY <2>1, <4>1 DEF StartRegistration, SendOTP, PresentCode, VerifyPassword
      <4>2. CASE StartAdministration(s)
        <5>1. ASSUME NEW agent \in UserIds, NEW e \in Emails, NEW r \in Grants,
                     CreateUser(s, agent, e, r)
              PROVE  \A x \in Slots \ {s} : req'[x] = req[x]
          BY <2>1, <5>1 DEF CreateUser
        <5>2. ASSUME NEW agent \in UserIds, NEW u \in UserIds, NEW r \in Grants,
                     UpdateUser(s, agent, u, r)
              PROVE  \A x \in Slots \ {s} : req'[x] = req[x]
          BY <2>1, <5>2 DEF UpdateUser
        <5>3. ASSUME NEW agent \in UserIds, NEW u \in UserIds, DeleteUser(s, agent, u)
              PROVE  \A x \in Slots \ {s} : req'[x] = req[x]
          BY <2>1, <5>3 DEF DeleteUser
        <5>4. ASSUME \/ \E name \in RoleNames : CreateRole(s, name)
                     \/ \E r \in RoleIds : UpdateRole(s, r) \/ DeleteRole(s, r)
              PROVE  \A x \in Slots \ {s} : req'[x] = req[x]
          BY <2>1, <5>4 DEF CreateRole, UpdateRole, DeleteRole
        <5> QED  BY <4>2, <5>1, <5>2, <5>3, <5>4 DEF StartAdministration
      <4> QED  BY <2>3, <4>1, <4>2
    <3> QED  BY <3>1, <3>2 DEF RunsDown
  <2>4. CASE Restart
    <3>1. ASSUME NEW s \in Slots, ~ At(s, "idle")
          PROVE  Ahead(req'[s].pc) < Ahead(req[s].pc)
      <4>1. req'[s].pc = "idle" /\ req[s].pc # "idle"
        BY <2>1, <2>4, <3>1 DEF Restart, At
      <4> QED  BY <4>1 DEF Ahead
    <3> QED  BY <3>1 DEF RunsDown
  <2>5. CASE UNCHANGED req
    BY <2>5 DEF RunsDown
  <2> QED  BY <1>1, <2>2, <2>3, <2>4, <2>5 DEF Next, Expire, vars
<1> QED  BY <1>1, Invariant, PTL DEF Spec
=============================================================================

------------------------------- MODULE Session -------------------------------
(***************************************************************************)
(* One user's sessions: login, the guard that every request passes and that *)
(* renews the token it finds past a third of its life, logout, the nightly  *)
(* sweep, and a change of the user's role meanwhile.                       *)
(*                                                                         *)
(* A signed token is an id whose claims are in `signed`; SessionToken rows  *)
(* are keyed by token, and a renewal changes the key.  Requests are split   *)
(* at their awaits and their responses reach the browser in any order.      *)
(***************************************************************************)
EXTENDS Integers, FiniteSets

CONSTANTS
  Browsers,   \* the user's browsers, each with one cookie
  Slots,      \* requests in progress at once
  Roles,      \* roles an admin may give the user
  Lifetime,   \* SESSION_TOKEN_EXPIRES_IN, in ticks
  None,       \* the absent row or cookie
  MaxTokens, MaxTime, MaxChanges, MaxFaults  \* bounds: tokens signed, ticks,
                                             \* role changes, lost requests

ASSUME SessionAssumption ==
  /\ Lifetime \in Nat \ {0} /\ MaxTokens \in Nat /\ MaxTime \in Nat
  /\ MaxChanges \in Nat /\ MaxFaults \in Nat

Tokens == 1..MaxTokens
Goals == {"use", "logout", "login"}
Pcs == {"idle", "read", "user", "drop", "renew", "permit", "handle",
        "loginCreate", "respond"}

\* iat and the role a token claims, and the login it descends from.
Claims == [iat : Nat, role : Roles, session : Tokens]
SessionRow == [createdAt : Nat, expiresAt : Nat]

ASSUME NoneAssumption ==
  None \notin Browsers \cup Roles \cup Nat \cup Claims \cup SessionRow

VARIABLES
  now,        \* the clock
  role,       \* the user's role
  signed,     \* claims of the tokens signed so far
  row,        \* SessionToken rows by token
  cookie,     \* the token each browser sends
  req,        \* requests in progress
  loggedOut,  \* history: sessions whose logout reported success
  ended,      \* history: sessions whose row was deleted
  changes,    \* changes of the role so far, at most MaxChanges
  faults      \* requests lost so far, at most MaxFaults

vars == <<now, role, signed, row, cookie, req, loggedOut, ended, changes, faults>>

\* `reply` is the cookie a response sets: a token, 0 to clear it, None to keep it.
ReqRow == [pc : Pcs, goal : Goals, browser : Browsers \cup {None},
           sent : 0..MaxTokens, token : 0..MaxTokens, createdAt : Nat,
           role : Roles \cup {None}, roles : SUBSET Roles,
           reply : 0..MaxTokens \cup {None}]

IdleReq == [pc |-> "idle", goal |-> "use", browser |-> None, sent |-> 0,
            token |-> 0, createdAt |-> 0, role |-> None, roles |-> {},
            reply |-> None]

Init ==
  /\ now = 0
  /\ role \in Roles
  /\ signed = [t \in Tokens |-> None]
  /\ row = [t \in Tokens |-> None]
  /\ cookie = [b \in Browsers |-> None]
  /\ req = [s \in Slots |-> IdleReq]
  /\ loggedOut = {} /\ ended = {}
  /\ changes = 0
  /\ faults = 0

-----------------------------------------------------------------------------
At(s, pc) == req[s].pc = pc
Goto(s, pc) == req' = [req EXCEPT ![s].pc = pc]
Finish(s) == req' = [req EXCEPT ![s] = IdleReq]

\* The response, with the cookie it sets, is on its way to the browser.
Answer(s, reply) ==
  req' = [req EXCEPT ![s] = [IdleReq EXCEPT !.pc = "respond", !.reply = reply,
                                            !.browser = req[s].browser]]

Exp(t) == signed[t].iat + Lifetime
SessionOf(t) == signed[t].session

\* verifySessionToken, and the guard's look at the row's own expiry.
Verifies(t) == now < Exp(t)
RowValid(t) == row[t] # None /\ row[t].expiresAt >= now

\* user.findUnique by the id and the role the token claims.
UserFoundById(t) == TRUE  \* mutant: the role is not part of the query
UserFound(t) == signed[t].role = role

\* A third of the token's life has passed since the row was created.
DueForRenewal(s) == 3 * (now - req[s].createdAt) >= Lifetime

\* Tokens are signed in the order of their ids.
NextToken == Cardinality({t \in Tokens : signed[t] # None}) + 1
CanSign == NextToken \in Tokens
Sign(r, session) ==
  signed' = [signed EXCEPT ![NextToken] =
               [iat |-> now, role |-> r, session |-> session]]

-----------------------------------------------------------------------------
(* The guard *)

\* Requests of one browser send the cookie it has at that moment.
Send(s, b, goal) ==
  /\ At(s, "idle") /\ cookie[b] # None /\ goal \in {"use", "logout"}
  /\ req' = [req EXCEPT ![s] =
               [IdleReq EXCEPT !.pc = "read", !.goal = goal, !.browser = b,
                               !.sent = cookie[b], !.token = cookie[b],
                               !.roles = {role}]]
  /\ UNCHANGED <<now, role, signed, row, cookie, loggedOut, ended, changes, faults>>

ReadSession(s) ==
  LET t == req[s].sent
  IN /\ At(s, "read")
     /\ IF Verifies(t) /\ RowValid(t)
        THEN /\ req' = [req EXCEPT ![s].pc = "user",
                                   ![s].createdAt = row[t].createdAt]
        ELSE Finish(s)
     /\ UNCHANGED <<now, role, signed, row, cookie, loggedOut, ended, changes, faults>>

\* Past MaxTokens a request that would renew is dropped (a bound of the model).
CheckUser(s) ==
  /\ At(s, "user")
  /\ IF ~ UserFound(req[s].sent) THEN Goto(s, "drop") /\ UNCHANGED signed
     ELSE IF ~ DueForRenewal(s) THEN Goto(s, "permit") /\ UNCHANGED signed
     ELSE IF CanSign
          THEN /\ Sign(signed[req[s].sent].role, SessionOf(req[s].sent))
               /\ req' = [req EXCEPT ![s].pc = "renew", ![s].token = NextToken]
          ELSE Finish(s) /\ UNCHANGED signed
  /\ UNCHANGED <<now, role, row, cookie, loggedOut, ended, changes, faults>>

\* The user no longer has the token's role: the session goes.
DropSession(s) ==
  LET t == req[s].sent
  IN /\ At(s, "drop") /\ Finish(s)
     /\ row' = [row EXCEPT ![t] = None]
     /\ ended' = IF row[t] # None THEN ended \cup {SessionOf(t)} ELSE ended
     /\ UNCHANGED <<now, role, signed, cookie, loggedOut, changes, faults>>

\* sessionToken.update finds its row by the token that was sent.
RenewableOrNot(t) == TRUE  \* mutant: upsert in place of update
Renewable(t) == row[t] # None

\* The row under its new token; createdAt stays.
RenewedKeepingExpiry(s) ==  \* mutant: expiresAt is not written
  [createdAt |-> req[s].createdAt,
   expiresAt |-> signed[req[s].sent].iat + Lifetime]
RenewedInThePast(s) ==  \* mutant: the lifetime is subtracted
  [createdAt |-> req[s].createdAt, expiresAt |-> now - Lifetime]
RenewedRow(s) == [createdAt |-> req[s].createdAt, expiresAt |-> Exp(req[s].token)]

\* The Set-Cookie of the renewal, which a later failure does not take back.
RenewalReplyNone(s) == None  \* mutant: no cookie is set
RenewalReply(s) == req[s].token

RenewSession(s) ==
  /\ At(s, "renew")
  /\ IF Renewable(req[s].sent)
     THEN /\ row' = [row EXCEPT ![req[s].sent] = None,
                                ![req[s].token] = RenewedRow(s)]
          /\ req' = [req EXCEPT ![s].pc = "permit", ![s].reply = RenewalReply(s)]
     ELSE Finish(s) /\ UNCHANGED row
  /\ UNCHANGED <<now, role, signed, cookie, loggedOut, ended, changes, faults>>

\* validateUserPermission: whether the role may call the route is left open.
Permit(s) ==
  /\ At(s, "permit")
  /\ Goto(s, "handle") \/ Answer(s, req[s].reply)
  /\ UNCHANGED <<now, role, signed, row, cookie, loggedOut, ended, changes, faults>>

-----------------------------------------------------------------------------
(* Handlers *)

Use(s) ==
  /\ At(s, "handle") /\ req[s].goal = "use"
  /\ Answer(s, req[s].reply)
  /\ UNCHANGED <<now, role, signed, row, cookie, loggedOut, ended, changes, faults>>

\* logout deletes the row of the token the guard has handed on, renewed or not.
Logout(s) ==
  LET t == req[s].token
  IN /\ At(s, "handle") /\ req[s].goal = "logout"
     /\ IF Verifies(t) /\ row[t] # None
        THEN /\ row' = [row EXCEPT ![t] = None]
             /\ loggedOut' = loggedOut \cup {SessionOf(t)}
             /\ ended' = ended \cup {SessionOf(t)}
             /\ Answer(s, 0)
        ELSE Answer(s, req[s].reply) /\ UNCHANGED <<row, loggedOut, ended>>
     /\ UNCHANGED <<now, role, signed, cookie, changes, faults>>

Login(s, b) ==
  /\ At(s, "idle") /\ CanSign
  /\ req' = [req EXCEPT ![s] =
               [IdleReq EXCEPT !.pc = "loginCreate", !.goal = "login",
                               !.browser = b, !.role = role]]
  /\ UNCHANGED <<now, role, signed, row, cookie, loggedOut, ended, changes, faults>>

LoginCreate(s) ==
  /\ At(s, "loginCreate")
  /\ IF CanSign
     THEN /\ Sign(req[s].role, NextToken)
          /\ row' = [row EXCEPT ![NextToken] =
                       [createdAt |-> now, expiresAt |-> now + Lifetime]]
          /\ Answer(s, NextToken)
     ELSE Finish(s) /\ UNCHANGED <<signed, row>>
  /\ UNCHANGED <<now, role, cookie, loggedOut, ended, changes, faults>>

\* The response reaches the browser.
Respond(s) ==
  /\ At(s, "respond") /\ Finish(s)
  /\ cookie' = IF req[s].reply = None THEN cookie
               ELSE [cookie EXCEPT ![req[s].browser] =
                       IF req[s].reply = 0 THEN None ELSE req[s].reply]
  /\ UNCHANGED <<now, role, signed, row, loggedOut, ended, changes, faults>>

-----------------------------------------------------------------------------
(* The clock, the sweep, the admin, faults *)

Tick ==
  /\ now < MaxTime
  /\ now' = now + 1
  /\ UNCHANGED <<role, signed, row, cookie, req, loggedOut, ended, changes, faults>>

Sweepable(t) == row[t] # None /\ row[t].expiresAt < now
Sweep ==
  /\ \E t \in Tokens : Sweepable(t)
  /\ row' = [t \in Tokens |-> IF Sweepable(t) THEN None ELSE row[t]]
  /\ ended' = ended \cup {SessionOf(t) : t \in {u \in Tokens : Sweepable(u)}}
  /\ UNCHANGED <<now, role, signed, cookie, req, loggedOut, changes, faults>>

\* `roles` collects the roles the user has had while a request was under way.
ChangeRole(r) ==
  /\ r # role /\ changes < MaxChanges
  /\ role' = r /\ changes' = changes + 1
  /\ req' = [s \in Slots |-> IF At(s, "idle") THEN req[s]
                             ELSE [req[s] EXCEPT !.roles = @ \cup {r}]]
  /\ UNCHANGED <<now, signed, row, cookie, loggedOut, ended, faults>>

\* The process or a connection is lost, or the response is.
RequestLost(s) ==
  /\ ~ At(s, "idle") /\ faults < MaxFaults
  /\ faults' = faults + 1
  /\ Finish(s)
  /\ UNCHANGED <<now, role, signed, row, cookie, loggedOut, ended, changes>>

Quiescent == (\A s \in Slots : At(s, "idle")) /\ UNCHANGED vars

Next ==
  \/ \E s \in Slots :
       \/ \E b \in Browsers : Login(s, b) \/ (\E g \in Goals : Send(s, b, g))
       \/ ReadSession(s) \/ CheckUser(s) \/ DropSession(s) \/ RenewSession(s)
       \/ Permit(s) \/ Use(s) \/ Logout(s) \/ LoginCreate(s) \/ Respond(s)
       \/ RequestLost(s)
  \/ Tick \/ Sweep
  \/ \E r \in Roles : ChangeRole(r)
  \/ Quiescent

Spec == Init /\ [][Next]_vars

-----------------------------------------------------------------------------
(* Properties *)

\* Every row, token and request stays in the shape the code gives it.
TypeOK ==
  /\ now \in 0..MaxTime
  /\ role \in Roles
  /\ signed \in [Tokens -> Claims \cup {None}]
  /\ row \in [Tokens -> SessionRow \cup {None}]
  /\ cookie \in [Browsers -> Tokens \cup {None}]
  /\ req \in [Slots -> ReqRow]
  /\ loggedOut \subseteq Tokens /\ ended \subseteq Tokens
  /\ changes \in 0..MaxChanges
  /\ faults \in 0..MaxFaults

\* Renewals keep a session in one piece: it has at most one row, and the row
\* expires with the token it is stored under.
OneRowPerSession ==
  \A t \in Tokens : row[t] # None =>
    /\ row[t].expiresAt = Exp(t)
    /\ \A u \in Tokens : row[u] # None /\ SessionOf(u) = SessionOf(t) => u = t

\* A logout that reports success is final: no renewal under way, read before
\* it or answered after it, brings the session back.
LogoutIsFinal ==
  \A t \in Tokens : row[t] # None => SessionOf(t) \notin loggedOut

\* A handler runs under a role the user has had since the request was sent:
\* a demotion before that is never missed, whatever the token claims.
ActsInRole ==
  \A s \in Slots : At(s, "handle") => signed[req[s].token].role \in req[s].roles

\* When all of a browser's requests have been answered, and no answer was lost,
\* its cookie names a row, unless the session was logged out, dropped or swept:
\* parallel renewals and answers out of order lose nobody the session.
CookieFollows ==
  faults = 0 => \A b \in Browsers :
    (\A s \in Slots : req[s].browser # b) =>
      \/ cookie[b] = None
      \/ row[cookie[b]] # None
      \/ SessionOf(cookie[b]) \in ended

\* 'Session token không hợp lệ' (session-token.guard.ts) is never said of a
\* session in its prime: one with a row, whose tokens have not expired, the
\* one that was sent included, and whose user still has its role.
InItsPrime(t) ==
  \E u \in Tokens : /\ row[u] # None /\ SessionOf(u) = SessionOf(t)
                    /\ Verifies(t) /\ Verifies(u) /\ UserFound(t)
GoodSessionAdmitted ==
  [][\A s \in Slots :
       /\ req[s].pc \in {"read", "renew"} /\ req'[s].pc = "idle"
       /\ faults' = faults
       => ~ InItsPrime(req[s].sent)]_req
=============================================================================

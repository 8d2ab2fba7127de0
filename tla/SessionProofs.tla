---------------------------- MODULE SessionProofs ----------------------------
(***************************************************************************)
(* Proofs about Session, for any number of browsers, requests, roles,      *)
(* tokens and faults and any lifetime.                                     *)
(***************************************************************************)
EXTENDS Session, FiniteSetTheorems, TLAPS

-----------------------------------------------------------------------------
(* The inductive invariant *)

\* Requests that still use the token the browser sent, and those that have a
\* token in hand, the sent one or its renewal.
Looking == {"read", "user", "drop", "renew"}
Guarded == Looking \cup {"permit", "handle"}

IsSigned(t) == t \in Tokens /\ signed[t] # None

\* Tokens are signed in the order of their ids.
SignedUpTo(n) == \A t \in Tokens : signed[t] # None <=> t <= n
SignedInOrder == \E n \in 0..MaxTokens : SignedUpTo(n)

\* Whatever is called a session was signed at a login, and whatever is called
\* a token was signed.
SignedSound ==
  /\ \A t \in Tokens : signed[t] # None => IsSigned(SessionOf(t))
  /\ \A t \in Tokens : row[t] # None => IsSigned(t)
  /\ \A b \in Browsers : cookie[b] # None => IsSigned(cookie[b])
  /\ \A k \in loggedOut : IsSigned(k)

\* What a request carries at each await.
ReqSound(s) ==
  /\ At(s, "idle") => req[s] = IdleReq
  /\ ~ At(s, "idle") => req[s].browser \in Browsers
  /\ req[s].pc \in Looking => IsSigned(req[s].sent)
  /\ req[s].pc \in Looking \cup {"loginCreate"} => req[s].reply = None
  /\ req[s].pc \in Looking \ {"renew"} => req[s].token = req[s].sent
  /\ At(s, "renew") => SessionOf(req[s].token) = SessionOf(req[s].sent)
  /\ req[s].pc \in Guarded => IsSigned(req[s].token) /\ role \in req[s].roles
  /\ req[s].pc \in {"renew", "permit", "handle"} =>
       signed[req[s].token].role \in req[s].roles
  /\ req[s].pc \in {"permit", "handle"} => req[s].reply \in {None, req[s].token}
  /\ At(s, "loginCreate") => req[s].role \in Roles
  /\ req[s].reply \in Tokens => IsSigned(req[s].reply)

\* A token that a request has signed or stored and its browser has not got.
Undelivered(s, t) == (At(s, "renew") /\ req[s].token = t) \/ req[s].reply = t

\* Only the response that brings a token makes it known to the browser.
DeliveredOnce ==
  \A s \in Slots, t \in Tokens : Undelivered(s, t) =>
    /\ \A b \in Browsers : cookie[b] # t
    /\ \A x \in Slots : req[x].pc \in Looking => req[x].sent # t
    /\ \A x \in Slots \ {s} : ~ Undelivered(x, t)

\* Tokens of one session stay with the browser that has logged in.
KnowsBy(s, b, k) ==
  /\ req[s].browser = b
  /\ \/ req[s].pc \in Guarded /\ SessionOf(req[s].token) = k
     \/ req[s].reply \in Tokens /\ SessionOf(req[s].reply) = k
Knows(b, k) ==
  \/ cookie[b] # None /\ SessionOf(cookie[b]) = k
  \/ \E s \in Slots : KnowsBy(s, b, k)
OneBrowser ==
  \A k \in Tokens : \A b, c \in Browsers : Knows(b, k) /\ Knows(c, k) => b = c

\* As long as no answer is lost, a token that is to be delivered, or has been,
\* has its row, or its session has ended, or its successor is on the way.
Alive(t) == row[t] # None \/ SessionOf(t) \in ended
SuccessorUnderWay(b) ==
  \E s \in Slots : /\ req[s].browser = b /\ req[s].reply \in Tokens
                   /\ SessionOf(req[s].reply) = SessionOf(cookie[b])
RowsFollowed ==
  faults = 0 =>
    /\ \A s \in Slots : req[s].reply \in Tokens => Alive(req[s].reply)
    /\ \A b \in Browsers :
         cookie[b] # None => Alive(cookie[b]) \/ SuccessorUnderWay(b)

IInv ==
  /\ TypeOK /\ SignedInOrder /\ SignedSound
  /\ \A s \in Slots : ReqSound(s)
  /\ OneRowPerSession /\ LogoutIsFinal
  /\ DeliveredOnce /\ OneBrowser /\ RowsFollowed

-----------------------------------------------------------------------------
(* Tokens *)

\* The next token's id follows the last signed one's.
LEMMA NextTokenIs ==
  ASSUME NEW n \in 0..MaxTokens, SignedUpTo(n)
  PROVE  NextToken = n + 1
<1>1. {t \in Tokens : signed[t] # None} = 1..n
  BY SessionAssumption DEF SignedUpTo, Tokens
<1>2. Cardinality(1..n) = n
  BY FS_Interval, SessionAssumption
<1> QED  BY <1>1, <1>2 DEF NextToken

\* Signing takes an unused id, and ids stay in order.
LEMMA SigningIsFresh ==
  ASSUME TypeOK, SignedInOrder, CanSign, NEW r \in Roles,
         NEW k \in Tokens, Sign(r, k)
  PROVE  /\ signed[NextToken] = None
         /\ signed'[NextToken] = [iat |-> now, role |-> r, session |-> k]
         /\ signed'[NextToken] \in Claims /\ signed'[NextToken] # None
         /\ \A t \in Tokens : t # NextToken => signed'[t] = signed[t]
         /\ signed' \in [Tokens -> Claims \cup {None}]
         /\ SignedInOrder'
<1> PICK n \in 0..MaxTokens : SignedUpTo(n)
  BY DEF SignedInOrder
<1>1. NextToken = n + 1 /\ NextToken \in Tokens
  BY NextTokenIs DEF CanSign
<1> DEFINE claims == [iat |-> now, role |-> r, session |-> k]
<1>2. claims \in Claims /\ claims # None
  BY NoneAssumption DEF TypeOK, Claims
<1>3. signed' = [signed EXCEPT ![NextToken] = claims]
  BY DEF Sign
<1>4. signed \in [Tokens -> Claims \cup {None}]
  BY DEF TypeOK
<1>5. signed[NextToken] = None
  BY <1>1, SessionAssumption DEF SignedUpTo, Tokens
<1>6. /\ signed' \in [Tokens -> Claims \cup {None}]
      /\ signed'[NextToken] = claims
      /\ \A t \in Tokens : t # NextToken => signed'[t] = signed[t]
  <2> HIDE DEF claims
  <2> QED  BY <1>1, <1>2, <1>3, <1>4
<1>7. SignedInOrder'
  <2>1. n + 1 \in 0..MaxTokens
    BY <1>1, SessionAssumption DEF Tokens
  <2>2. \A t \in Tokens : signed'[t] # None <=> t <= n + 1
    <3> HIDE DEF claims
    <3> QED  BY <1>1, <1>2, <1>6 DEF SignedUpTo, Tokens
  <2> QED  BY <2>1, <2>2 DEF SignedInOrder, SignedUpTo
<1> QED  BY <1>2, <1>5, <1>6, <1>7

-----------------------------------------------------------------------------
(* One request moves *)

\* What is known of a request's new record after the steps that control it.
OnlyMoves(s) ==
  /\ req' \in [Slots -> ReqRow]
  /\ \A x \in Slots : x # s => req'[x] = req[x]

LEMMA IdleTyped == IdleReq \in ReqRow
  BY SessionAssumption DEF IdleReq, ReqRow, Pcs, Goals

LEMMA FinishMoves ==
  ASSUME TypeOK, NEW s \in Slots, Finish(s)
  PROVE  OnlyMoves(s) /\ req'[s] = IdleReq
  BY IdleTyped DEF TypeOK, Finish, OnlyMoves

LEMMA GotoMoves ==
  ASSUME TypeOK, NEW s \in Slots, NEW pc \in Pcs, Goto(s, pc)
  PROVE  /\ OnlyMoves(s)
         /\ req'[s].pc = pc /\ req'[s].goal = req[s].goal
         /\ req'[s].browser = req[s].browser /\ req'[s].sent = req[s].sent
         /\ req'[s].token = req[s].token /\ req'[s].createdAt = req[s].createdAt
         /\ req'[s].role = req[s].role /\ req'[s].roles = req[s].roles
         /\ req'[s].reply = req[s].reply
  BY DEF TypeOK, Goto, OnlyMoves, ReqRow

LEMMA AnswerMoves ==
  ASSUME TypeOK, NEW s \in Slots, NEW reply \in 0..MaxTokens \cup {None},
         Answer(s, reply)
  PROVE  /\ OnlyMoves(s)
         /\ req'[s].pc = "respond" /\ req'[s].reply = reply
         /\ req'[s].browser = req[s].browser
<1> DEFINE r == [IdleReq EXCEPT !.pc = "respond", !.reply = reply,
                                !.browser = req[s].browser]
<1>1. /\ r \in ReqRow
      /\ r.pc = "respond" /\ r.reply = reply /\ r.browser = req[s].browser
  BY IdleTyped DEF TypeOK, ReqRow, Pcs
<1>2. req' = [req EXCEPT ![s] = r]
  BY DEF Answer
<1> HIDE DEF r
<1>3. OnlyMoves(s) /\ req'[s] = r
  BY <1>1, <1>2 DEF OnlyMoves, TypeOK
<1> QED  BY <1>1, <1>3

LEMMA IdleFields ==
  IdleReq.pc = "idle" /\ IdleReq.browser = None /\ IdleReq.reply = None
  BY DEF IdleReq

LEMMA IdleSound ==
  ASSUME NEW s \in Slots, req'[s] = IdleReq
  PROVE  ReqSound(s)'
  BY IdleFields, NoneAssumption DEF ReqSound, At, Looking, Guarded, Tokens

-----------------------------------------------------------------------------
(* Frames *)

\* Signed tokens keep their claims.
SignedKept == \A t \in Tokens : signed[t] # None => signed'[t] = signed[t]

\* The request claims no token and no session that it did not have before.
Narrows(s) ==
  /\ req'[s].pc \in Looking => /\ req[s].pc \in Looking
                               /\ req'[s].sent = req[s].sent
  /\ \A t \in Tokens : Undelivered(s, t)' => Undelivered(s, t)
  /\ \A b \in Browsers, k \in Tokens : KnowsBy(s, b, k)' => KnowsBy(s, b, k)

\* The request has the same token on its way to the same browser, or none.
KeepsReply(s) ==
  \/ req[s].reply \notin Tokens /\ req'[s].reply \notin Tokens
  \/ req'[s].reply = req[s].reply /\ req'[s].browser = req[s].browser

LEMMA RequestFrame ==
  ASSUME NEW x \in Slots, req'[x] = req[x], role' = role, SignedKept, ReqSound(x)
  PROVE  ReqSound(x)'
  BY DEF ReqSound, At, Guarded, Looking, SignedKept, IsSigned, SessionOf

LEMMA StayingNarrows ==
  ASSUME NEW x \in Slots, req'[x] = req[x], signed' = signed
  PROVE  Narrows(x) /\ KeepsReply(x)
  BY DEF Narrows, KeepsReply, Undelivered, At, KnowsBy, SessionOf

LEMMA OnceFrame ==
  ASSUME DeliveredOnce, UNCHANGED cookie, \A x \in Slots : Narrows(x)
  PROVE  DeliveredOnce'
  BY DEF DeliveredOnce, Narrows

LEMMA OwnerFrame ==
  ASSUME OneBrowser, UNCHANGED <<cookie, signed>>, \A x \in Slots : Narrows(x)
  PROVE  OneBrowser'
<1>1. ASSUME NEW b \in Browsers, NEW k \in Tokens, Knows(b, k)'
      PROVE  Knows(b, k)
  BY <1>1 DEF Knows, Narrows, SessionOf
<1> QED  BY <1>1 DEF OneBrowser

LEMMA FollowFrame ==
  ASSUME RowsFollowed, UNCHANGED <<cookie, signed>>,
         \A t \in Tokens : Alive(t) => Alive(t)',
         \A b \in Browsers : cookie[b] \in Tokens \cup {None},
         faults' = 0 => faults = 0 /\ \A x \in Slots : KeepsReply(x)
  PROVE  RowsFollowed'
<1> SUFFICES ASSUME faults' = 0  PROVE RowsFollowed'
  BY DEF RowsFollowed
<1>1. ASSUME NEW x \in Slots
      PROVE  (req[x].reply \in Tokens => Alive(req[x].reply))'
  BY DEF KeepsReply, RowsFollowed, Alive, SessionOf
<1>2. ASSUME NEW b \in Browsers, cookie[b] # None, SuccessorUnderWay(b)
      PROVE  SuccessorUnderWay(b)'
  BY <1>2 DEF SuccessorUnderWay, KeepsReply, SessionOf
<1>3. ASSUME NEW b \in Browsers, cookie[b] # None, Alive(cookie[b])
      PROVE  Alive(cookie[b])'
  BY <1>3 DEF Alive, SessionOf
<1> QED  BY <1>1, <1>2, <1>3 DEF RowsFollowed

\* Rows that go leave the others as they should be.
LEMMA RowsShrink ==
  ASSUME OneRowPerSession, LogoutIsFinal, SignedSound,
         UNCHANGED <<signed, cookie, loggedOut>>,
         \A t \in Tokens : row'[t] \in {row[t], None}
  PROVE  OneRowPerSession' /\ LogoutIsFinal' /\ SignedSound'
<1>1. OneRowPerSession'
  BY DEF OneRowPerSession, Exp, SessionOf
<1>2. LogoutIsFinal' /\ SignedSound'
  BY DEF LogoutIsFinal, SignedSound, IsSigned, SessionOf
<1> QED  BY <1>1, <1>2

\* A step of one request that changes no table.
LEMMA PlainMove ==
  ASSUME IInv, NEW s \in Slots, OnlyMoves(s), ReqSound(s)',
         UNCHANGED <<now, role, signed, row, cookie, loggedOut, ended, changes>>,
         faults' \in 0..MaxFaults, faults' = 0 => faults = 0 /\ KeepsReply(s),
         DeliveredOnce', OneBrowser'
  PROVE  IInv'
<1>1. TypeOK'
  BY DEF IInv, TypeOK, OnlyMoves
<1>2. SignedInOrder' /\ SignedSound'
  BY DEF IInv, SignedInOrder, SignedUpTo, SignedSound, IsSigned, SessionOf
<1>3. \A x \in Slots : ReqSound(x)'
  BY RequestFrame DEF IInv, OnlyMoves, SignedKept
<1>4. OneRowPerSession' /\ LogoutIsFinal'
  BY DEF IInv, OneRowPerSession, LogoutIsFinal, Exp, SessionOf
<1>5. faults' = 0 => \A x \in Slots : KeepsReply(x)
  BY StayingNarrows DEF OnlyMoves
<1>6. RowsFollowed'
  BY <1>5, FollowFrame DEF IInv, TypeOK, Alive, SessionOf
<1> QED  BY <1>1, <1>2, <1>3, <1>4, <1>6 DEF IInv

LEMMA QuietMove ==
  ASSUME IInv, NEW s \in Slots, OnlyMoves(s), ReqSound(s)', Narrows(s),
         UNCHANGED <<now, role, signed, row, cookie, loggedOut, ended, changes>>,
         faults' \in 0..MaxFaults, faults' = 0 => faults = 0 /\ KeepsReply(s)
  PROVE  IInv'
<1>1. \A x \in Slots : Narrows(x)
  BY StayingNarrows DEF OnlyMoves
<1> QED  BY <1>1, OnceFrame, OwnerFrame, PlainMove DEF IInv

LEMMA IdleNarrows ==
  ASSUME NEW s \in Slots, req'[s] = IdleReq
  PROVE  Narrows(s)
  BY IdleFields, NoneAssumption
     DEF Narrows, Undelivered, At, KnowsBy, Looking, Guarded, Tokens

\* A request may end without an answer when it has none under way.
LEMMA FinishStep ==
  ASSUME IInv, NEW s \in Slots, Finish(s), req[s].reply \notin Tokens \/ faults' # 0,
         UNCHANGED <<now, role, signed, row, cookie, loggedOut, ended, changes>>,
         faults' \in 0..MaxFaults, faults' = 0 => faults = 0
  PROVE  IInv'
<1>1. OnlyMoves(s) /\ req'[s] = IdleReq
  BY FinishMoves DEF IInv
<1>2. ReqSound(s)'
  BY <1>1, IdleSound
<1>3. Narrows(s) /\ (faults' = 0 => KeepsReply(s))
  BY <1>1, IdleNarrows, IdleFields, NoneAssumption DEF KeepsReply, Tokens
<1> QED  BY <1>1, <1>2, <1>3, QuietMove

-----------------------------------------------------------------------------
(* The guard *)

LEMMA SendStep ==
  ASSUME IInv, NEW s \in Slots, NEW b \in Browsers, NEW g \in Goals, Send(s, b, g)
  PROVE  IInv'
<1> DEFINE r == [IdleReq EXCEPT !.pc = "read", !.goal = g, !.browser = b,
                                !.sent = cookie[b], !.token = cookie[b],
                                !.roles = {role}]
<1>1. cookie[b] \in Tokens /\ IsSigned(cookie[b]) /\ req[s] = IdleReq
  BY DEF IInv, Send, SignedSound, IsSigned, ReqSound
<1>2. /\ r \in ReqRow
      /\ r.pc = "read" /\ r.browser = b /\ r.sent = cookie[b]
      /\ r.token = cookie[b] /\ r.roles = {role} /\ r.reply = None
  <2>1. role \in Roles /\ "read" \in Pcs /\ cookie[b] \in 0..MaxTokens
    BY <1>1 DEF IInv, TypeOK, Pcs, Tokens
  <2>2. r \in ReqRow
    BY <2>1, IdleTyped DEF ReqRow
  <2> QED  BY <2>2, IdleTyped, IdleFields DEF ReqRow
<1>3. req' = [req EXCEPT ![s] = r]
  BY DEF Send
<1> HIDE DEF r
<1>4. OnlyMoves(s) /\ req'[s] = r
  BY <1>2, <1>3 DEF OnlyMoves, IInv, TypeOK
<1>5. UNCHANGED <<now, role, signed, row, cookie, loggedOut, ended, changes, faults>>
  BY DEF Send
<1>6. ReqSound(s)'
  BY <1>1, <1>2, <1>4, <1>5, NoneAssumption
     DEF ReqSound, At, Looking, Guarded, IsSigned, Tokens
<1>7. \A t \in Tokens : ~ Undelivered(s, t)'
  BY <1>2, <1>4, NoneAssumption DEF Undelivered, At, Tokens
<1>8. DeliveredOnce'
  <2>1. ASSUME NEW x \in Slots, NEW t \in Tokens, Undelivered(x, t)'
        PROVE  x # s /\ Undelivered(x, t)
    BY <1>4, <1>7, <2>1 DEF OnlyMoves, Undelivered, At
  <2> QED  BY <1>2, <1>4, <1>5, <2>1 DEF IInv, DeliveredOnce, OnlyMoves
<1>9. OneBrowser'
  <2>1. ASSUME NEW c \in Browsers, NEW k \in Tokens, Knows(c, k)'
        PROVE  Knows(c, k)
    <3>1. CASE KnowsBy(s, c, k)'
      BY <1>1, <1>2, <1>4, <1>5, <3>1, NoneAssumption
         DEF Knows, KnowsBy, SessionOf, IsSigned, Tokens
    <3> QED  BY <1>4, <1>5, <2>1, <3>1 DEF Knows, KnowsBy, SessionOf, OnlyMoves
  <2> QED  BY <2>1 DEF IInv, OneBrowser
<1>10. KeepsReply(s)
  BY <1>1, <1>2, <1>4, IdleFields, NoneAssumption DEF KeepsReply, Tokens
<1> QED  BY <1>4, <1>5, <1>6, <1>8, <1>9, <1>10, PlainMove DEF IInv, TypeOK

LEMMA ReadSessionStep ==
  ASSUME IInv, NEW s \in Slots, ReadSession(s)
  PROVE  IInv'
<1>1. UNCHANGED <<now, role, signed, row, cookie, loggedOut, ended, changes, faults>>
  BY DEF ReadSession
<1>2. TypeOK /\ ReqSound(s) /\ req[s].pc = "read" /\ faults \in 0..MaxFaults
  BY DEF IInv, TypeOK, ReadSession, At
<1>3. req[s].reply = None
  BY <1>2 DEF ReqSound, Looking
<1>4. CASE Finish(s)
  BY <1>1, <1>2, <1>3, <1>4, FinishStep, NoneAssumption DEF Tokens
<1>5. CASE /\ RowValid(req[s].sent)
           /\ req' = [req EXCEPT ![s].pc = "user",
                                 ![s].createdAt = row[req[s].sent].createdAt]
  <2>1. row[req[s].sent] \in SessionRow
    BY <1>2, <1>5 DEF RowValid, TypeOK, ReqSound, Looking, IsSigned
  <2>2. /\ OnlyMoves(s)
        /\ req'[s].pc = "user" /\ req'[s].browser = req[s].browser
        /\ req'[s].sent = req[s].sent /\ req'[s].token = req[s].token
        /\ req'[s].roles = req[s].roles /\ req'[s].reply = req[s].reply
    <3> DEFINE r == [req[s] EXCEPT !.pc = "user",
                                   !.createdAt = row[req[s].sent].createdAt]
    <3>1. req[s] \in ReqRow /\ row[req[s].sent].createdAt \in Nat /\ "user" \in Pcs
      BY <1>2, <2>1 DEF SessionRow, Pcs, TypeOK
    <3>2. /\ r \in ReqRow
          /\ r.pc = "user" /\ r.browser = req[s].browser /\ r.sent = req[s].sent
          /\ r.token = req[s].token /\ r.roles = req[s].roles
          /\ r.reply = req[s].reply
      BY <3>1 DEF ReqRow
    <3>3. req' = [req EXCEPT ![s] = r]
      BY <1>5
    <3> HIDE DEF r
    <3> QED  BY <1>2, <3>2, <3>3 DEF OnlyMoves, TypeOK
  <2>3. ReqSound(s)'
    BY <1>1, <1>2, <2>2 DEF ReqSound, At, Looking, Guarded, IsSigned, SessionOf
  <2>4. Narrows(s) /\ KeepsReply(s)
    BY <1>1, <1>2, <2>2
       DEF Narrows, KeepsReply, Undelivered, At, KnowsBy, SessionOf, Looking, Guarded
  <2> QED  BY <1>1, <1>2, <2>2, <2>3, <2>4, QuietMove
<1> QED  BY <1>4, <1>5 DEF ReadSession

LEMMA SigningKeeps ==
  ASSUME IInv, CanSign, NEW r \in Roles, NEW k \in Tokens, Sign(r, k)
  PROVE  /\ NextToken \in Tokens /\ ~ IsSigned(NextToken)
         /\ SignedKept /\ signed'[NextToken] # None
         /\ \A t \in Tokens : t # NextToken => signed'[t] = signed[t]
         /\ signed'[NextToken].role = r /\ signed'[NextToken].session = k
         /\ signed'[NextToken].iat = now
         /\ signed' \in [Tokens -> Claims \cup {None}]
         /\ SignedInOrder'
<1> TypeOK /\ SignedInOrder
  BY DEF IInv
<1>1. /\ signed[NextToken] = None
      /\ signed'[NextToken] = [iat |-> now, role |-> r, session |-> k]
      /\ signed'[NextToken] # None
      /\ \A t \in Tokens : t # NextToken => signed'[t] = signed[t]
      /\ signed' \in [Tokens -> Claims \cup {None}]
      /\ SignedInOrder'
  BY SigningIsFresh
<1>2. NextToken \in Tokens
  BY DEF CanSign
<1> QED  BY <1>1, <1>2 DEF IsSigned, SignedKept

\* Nobody has the next token, and no session has its name.
LEMMA NextUnknown ==
  ASSUME IInv, NEW n \in Tokens, ~ IsSigned(n)
  PROVE  /\ row[n] = None /\ n \notin loggedOut
         /\ \A t \in Tokens : IsSigned(t) => SessionOf(t) # n
         /\ \A b \in Browsers : cookie[b] # n /\ ~ Knows(b, n)
         /\ \A x \in Slots : /\ req[x].pc \in Looking => req[x].sent # n
                             /\ req[x].pc \in Guarded => req[x].token # n
                             /\ req[x].reply # n /\ ~ Undelivered(x, n)
<1>1. \A t \in Tokens : IsSigned(t) => SessionOf(t) # n
  BY DEF IInv, SignedSound, IsSigned
<1>2. row[n] = None /\ n \notin loggedOut /\ \A b \in Browsers : cookie[b] # n
  BY NoneAssumption DEF IInv, SignedSound, Tokens, IsSigned
<1>3. \A x \in Slots : /\ req[x].pc \in Looking => req[x].sent # n
                       /\ req[x].pc \in Guarded => req[x].token # n
                       /\ req[x].reply # n
  BY DEF IInv, ReqSound
<1>4. ASSUME NEW x \in Slots  PROVE ~ Undelivered(x, n)
  <2>1. At(x, "renew") => req[x].pc \in Guarded
    BY DEF At, Guarded, Looking
  <2> QED  BY <1>3, <2>1 DEF Undelivered
<1>5. \A b \in Browsers : ~ Knows(b, n)
  <2>1. ASSUME NEW b \in Browsers, NEW x \in Slots  PROVE ~ KnowsBy(x, b, n)
    BY <1>1 DEF IInv, KnowsBy, ReqSound, IsSigned
  <2> QED  BY <1>1, <2>1 DEF IInv, SignedSound, Knows, IsSigned
<1> QED  BY <1>1, <1>2, <1>3, <1>4, <1>5

LEMMA CheckUserStep ==
  ASSUME IInv, NEW s \in Slots, CheckUser(s)
  PROVE  IInv'
<1>1. /\ UNCHANGED <<now, role, row, cookie, loggedOut, ended, changes, faults>>
      /\ TypeOK /\ ReqSound(s) /\ req[s].pc = "user"
  BY DEF CheckUser, IInv, At
<1>2. /\ req[s].reply = None /\ req[s].token = req[s].sent
      /\ IsSigned(req[s].sent) /\ role \in req[s].roles
      /\ req[s].browser \in Browsers /\ faults \in 0..MaxFaults
  BY <1>1 DEF ReqSound, At, Looking, Guarded, TypeOK
<1>3. CASE Finish(s) /\ UNCHANGED signed
  BY <1>1, <1>2, <1>3, FinishStep, NoneAssumption DEF Tokens
<1>4. CASE Goto(s, "drop") /\ UNCHANGED signed
  <2>1. ReqSound(s)' /\ Narrows(s) /\ KeepsReply(s)
    BY <1>1, <1>2, <1>4, GotoMoves
       DEF ReqSound, At, Looking, Guarded, IsSigned, SessionOf, Narrows, KeepsReply,
           Undelivered, KnowsBy, Pcs
  <2> QED  BY <1>1, <1>2, <1>4, <2>1, GotoMoves, QuietMove DEF Pcs
<1>5. CASE Goto(s, "permit") /\ UNCHANGED signed /\ UserFound(req[s].sent)
  <2>1. ReqSound(s)' /\ Narrows(s) /\ KeepsReply(s)
    BY <1>1, <1>2, <1>5, GotoMoves
       DEF ReqSound, At, Looking, Guarded, IsSigned, SessionOf, Narrows, KeepsReply,
           Undelivered, KnowsBy, Pcs, UserFound
  <2> QED  BY <1>1, <1>2, <1>5, <2>1, GotoMoves, QuietMove DEF Pcs
<1>6. CASE /\ UserFound(req[s].sent) /\ CanSign
           /\ Sign(signed[req[s].sent].role, SessionOf(req[s].sent))
           /\ req' = [req EXCEPT ![s].pc = "renew", ![s].token = NextToken]
  <2> DEFINE n == NextToken
             k == SessionOf(req[s].sent)
  <2>1. signed[req[s].sent].role \in Roles /\ IsSigned(k)
    BY <1>1, <1>2 DEF TypeOK, Claims, IsSigned, IInv, SignedSound
  <2>2. /\ n \in Tokens /\ ~ IsSigned(n) /\ SignedKept /\ signed'[n] # None
        /\ \A t \in Tokens : t # n => signed'[t] = signed[t]
        /\ signed'[n].role = signed[req[s].sent].role /\ signed'[n].session = k
        /\ signed' \in [Tokens -> Claims \cup {None}] /\ SignedInOrder'
    BY <1>6, <2>1, SigningKeeps DEF IsSigned
  <2>3. /\ OnlyMoves(s)
        /\ req'[s].pc = "renew" /\ req'[s].token = n
        /\ req'[s].browser = req[s].browser /\ req'[s].sent = req[s].sent
        /\ req'[s].roles = req[s].roles /\ req'[s].reply = req[s].reply
    <3> HIDE DEF n
    <3>1. n \in 0..MaxTokens /\ "renew" \in Pcs
      BY <2>2 DEF Tokens, Pcs
    <3>2. req' = [req EXCEPT ![s].pc = "renew", ![s].token = n]
      BY <1>6 DEF n
    <3> DEFINE r == [req[s] EXCEPT !.pc = "renew", !.token = n]
    <3>3. /\ r \in ReqRow /\ r.pc = "renew" /\ r.token = n
          /\ r.browser = req[s].browser /\ r.sent = req[s].sent
          /\ r.roles = req[s].roles /\ r.reply = req[s].reply
      BY <1>1, <3>1 DEF TypeOK, ReqRow
    <3>4. req' = [req EXCEPT ![s] = r]
      BY <3>2
    <3> HIDE DEF r
    <3>5. OnlyMoves(s) /\ req'[s] = r
      BY <1>1, <3>3, <3>4 DEF TypeOK, OnlyMoves
    <3> QED  BY <3>3, <3>5
  <2> HIDE DEF n, k
  <2>4. TypeOK'
    BY <1>1, <2>2, <2>3 DEF TypeOK, OnlyMoves
  <2>5. SignedSound'
    BY <1>1, <2>1, <2>2 DEF IInv, SignedSound, IsSigned, SessionOf, SignedKept
  <2>6. ReqSound(s)'
    <3>1. /\ IsSigned(req[s].sent)' /\ SessionOf(req[s].sent)' = k
          /\ signed'[n].role \in req[s].roles
      BY <1>1, <1>2, <1>6, <2>2, <2>3
         DEF IsSigned, SignedKept, SessionOf, UserFound, k
    <3> QED  BY <1>1, <1>2, <2>2, <2>3, <3>1, NoneAssumption
                DEF ReqSound, At, Looking, Guarded, IsSigned, SessionOf, Tokens
  <2>7. \A x \in Slots : ReqSound(x)'
    BY <1>1, <2>2, <2>3, <2>6, RequestFrame DEF IInv, OnlyMoves
  <2>8. OneRowPerSession' /\ LogoutIsFinal'
    BY <1>1, <2>2 DEF IInv, SignedSound, OneRowPerSession, LogoutIsFinal, Exp,
                      SessionOf, SignedKept, IsSigned
  <2>9. DeliveredOnce'
    <3>1. ASSUME NEW x \in Slots, NEW t \in Tokens, Undelivered(x, t)'
          PROVE  (x = s /\ t = n) \/ (x # s /\ t # n /\ Undelivered(x, t))
      <4>1. ~ Undelivered(x, n)
        BY <2>2, NextUnknown
      <4>2. CASE x = s
        BY <1>2, <2>3, <3>1, <4>2, NoneAssumption DEF Undelivered, At, Tokens
      <4>3. CASE x # s
        BY <2>3, <3>1, <4>1, <4>3 DEF Undelivered, At, OnlyMoves
      <4> QED  BY <4>2, <4>3
    <3>2. ASSUME NEW x \in Slots, req'[x].pc \in Looking
          PROVE  req[x].pc \in Looking /\ req'[x].sent = req[x].sent
      BY <1>1, <2>3, <3>2 DEF OnlyMoves, Looking
    <3>3. /\ \A b \in Browsers : cookie[b] # n
          /\ \A x \in Slots : req[x].pc \in Looking => req[x].sent # n
      BY <2>2, NextUnknown
    <3> SUFFICES ASSUME NEW x \in Slots, NEW t \in Tokens, Undelivered(x, t)'
                 PROVE  /\ \A b \in Browsers : cookie[b] # t
                        /\ \A y \in Slots : req'[y].pc \in Looking => req'[y].sent # t
                        /\ \A y \in Slots \ {x} : ~ Undelivered(y, t)'
      BY <1>1 DEF DeliveredOnce
    <3>4. CASE x = s /\ t = n
      BY <3>1, <3>2, <3>3, <3>4
    <3>5. CASE x # s /\ t # n /\ Undelivered(x, t)
      BY <3>1, <3>2, <3>5 DEF IInv, DeliveredOnce
    <3> QED  BY <3>1, <3>4, <3>5
  <2>10. OneBrowser'
    <3>1. ASSUME NEW c \in Browsers, NEW j \in Tokens, NEW x \in Slots,
                 KnowsBy(x, c, j)'
          PROVE  KnowsBy(x, c, j)
      <4>1. CASE x = s
        BY <1>1, <1>2, <2>2, <2>3, <3>1, <4>1, NoneAssumption
           DEF KnowsBy, Guarded, Looking, SessionOf, k, Tokens
      <4>2. CASE x # s
        BY <2>2, <2>3, <3>1, <4>2
           DEF KnowsBy, OnlyMoves, SessionOf, IInv, ReqSound, SignedKept, IsSigned
      <4> QED  BY <4>1, <4>2
    <3>2. ASSUME NEW c \in Browsers, NEW j \in Tokens, Knows(c, j)'
          PROVE  Knows(c, j)
      BY <1>1, <2>2, <3>1, <3>2
         DEF Knows, SessionOf, IInv, SignedSound, SignedKept, IsSigned
    <3> QED  BY <3>2 DEF IInv, OneBrowser
  <2>11. RowsFollowed'
    <3>1. ASSUME NEW t \in Tokens, IsSigned(t)
          PROVE  SessionOf(t)' = SessionOf(t) /\ (Alive(t) => Alive(t)')
      BY <1>1, <2>2, <3>1 DEF Alive, SessionOf, SignedKept, IsSigned
    <3>2. ASSUME NEW x \in Slots
          PROVE  req'[x].reply = req[x].reply /\ req'[x].browser = req[x].browser
      BY <2>3, <3>2 DEF OnlyMoves
    <3> QED  BY <1>1, <3>1, <3>2 DEF IInv, RowsFollowed, SuccessorUnderWay, ReqSound,
                SignedSound, IsSigned
  <2> QED  BY <2>2, <2>4, <2>5, <2>7, <2>8, <2>9, <2>10, <2>11 DEF IInv
<1> QED  BY <1>3, <1>4, <1>5, <1>6 DEF CheckUser

LEMMA DropSessionStep ==
  ASSUME IInv, NEW s \in Slots, DropSession(s)
  PROVE  IInv'
<1> DEFINE t == req[s].sent
<1>1. /\ UNCHANGED <<now, role, signed, cookie, loggedOut, changes, faults>>
      /\ TypeOK /\ ReqSound(s) /\ req[s].pc = "drop" /\ Finish(s)
      /\ row' = [row EXCEPT ![t] = None]
      /\ ended' = IF row[t] # None THEN ended \cup {SessionOf(t)} ELSE ended
  BY DEF DropSession, IInv, At
<1>2. IsSigned(t) /\ IsSigned(SessionOf(t)) /\ req[s].reply = None
  BY <1>1 DEF ReqSound, Looking, IInv, SignedSound, IsSigned
<1>3. OnlyMoves(s) /\ req'[s] = IdleReq
  BY <1>1, FinishMoves
<1> HIDE DEF t
<1>4. row' \in [Tokens -> SessionRow \cup {None}] /\ ended' \subseteq Tokens
  BY <1>1, <1>2 DEF TypeOK, IsSigned
<1>5. TypeOK'
  BY <1>1, <1>3, <1>4 DEF TypeOK, OnlyMoves
<1>6. SignedInOrder'
  BY <1>1 DEF IInv, SignedInOrder, SignedUpTo
<1>7. OneRowPerSession' /\ LogoutIsFinal' /\ SignedSound'
  BY <1>1, RowsShrink DEF IInv, TypeOK
<1>8. \A x \in Slots : ReqSound(x)'
  BY <1>1, <1>3, IdleSound, RequestFrame DEF IInv, OnlyMoves, SignedKept
<1>9. \A x \in Slots : Narrows(x) /\ KeepsReply(x)
  BY <1>1, <1>2, <1>3, IdleNarrows, StayingNarrows, IdleFields, NoneAssumption
     DEF OnlyMoves, KeepsReply, Tokens
<1>10. DeliveredOnce' /\ OneBrowser'
  BY <1>1, <1>9, OnceFrame, OwnerFrame DEF IInv
<1>11. \A u \in Tokens : Alive(u) => Alive(u)'
  BY <1>1 DEF Alive, SessionOf, TypeOK
<1>12. RowsFollowed'
  BY <1>1, <1>9, <1>11, FollowFrame DEF IInv, TypeOK
<1> QED  BY <1>5, <1>6, <1>7, <1>8, <1>10, <1>12 DEF IInv

LEMMA RenewSessionStep ==
  ASSUME IInv, NEW s \in Slots, RenewSession(s)
  PROVE  IInv'
<1>1. /\ UNCHANGED <<now, role, signed, cookie, loggedOut, ended, changes, faults>>
      /\ TypeOK /\ ReqSound(s) /\ req[s].pc = "renew" /\ faults \in 0..MaxFaults
  BY DEF RenewSession, IInv, At, TypeOK
<1>2. PICK t \in Tokens, n \in Tokens, b \in Browsers :
        /\ t = req[s].sent /\ n = req[s].token /\ b = req[s].browser
        /\ IsSigned(t) /\ IsSigned(n) /\ SessionOf(n) = SessionOf(t)
        /\ req[s].reply = None
  BY <1>1 DEF ReqSound, At, Looking, Guarded, IsSigned
<1>3. CASE Finish(s) /\ UNCHANGED row
  BY <1>1, <1>2, <1>3, FinishStep, NoneAssumption DEF Tokens
<1>4. CASE /\ row[t] # None
           /\ row' = [row EXCEPT ![t] = None, ![n] = RenewedRow(s)]
           /\ req' = [req EXCEPT ![s].pc = "permit", ![s].reply = n]
  <2>1. RenewedRow(s) \in SessionRow /\ RenewedRow(s).expiresAt = Exp(n)
    <3>1. signed[n] \in Claims /\ req[s].createdAt \in Nat
      BY <1>1, <1>2 DEF TypeOK, ReqRow, IsSigned
    <3> QED  BY <1>2, <3>1, SessionAssumption DEF RenewedRow, SessionRow, Exp, Claims
  <2>2. /\ OnlyMoves(s)
        /\ req'[s].pc = "permit" /\ req'[s].token = n /\ req'[s].browser = b
        /\ req'[s].reply = n /\ req'[s].roles = req[s].roles
    <3>1. n \in 0..MaxTokens /\ "permit" \in Pcs
      BY DEF Tokens, Pcs
    <3> DEFINE r == [req[s] EXCEPT !.pc = "permit", !.reply = n]
    <3>2. /\ r \in ReqRow
          /\ r.pc = "permit" /\ r.token = n /\ r.browser = b
          /\ r.reply = n /\ r.roles = req[s].roles
      <4>1. req[s] \in ReqRow
        BY <1>1 DEF TypeOK
      <4> QED  BY <1>2, <3>1, <4>1 DEF ReqRow
    <3>3. req' = [req EXCEPT ![s] = r]
      BY <1>4
    <3> HIDE DEF r
    <3> QED  BY <1>1, <3>2, <3>3 DEF OnlyMoves, TypeOK
  <2>3. /\ row'[n] = RenewedRow(s) /\ row'[n] # None
        /\ t # n => row'[t] = None
        /\ \A u \in Tokens : u # t /\ u # n => row'[u] = row[u]
        /\ row' \in [Tokens -> SessionRow \cup {None}]
    <3> QED  BY <1>1, <1>2, <1>4, <2>1, NoneAssumption DEF TypeOK, IsSigned
  <2>4. Undelivered(s, n) /\ KnowsBy(s, b, SessionOf(t)) /\ req[s].pc \in Looking
    BY <1>1, <1>2 DEF Undelivered, At, KnowsBy, Guarded, Looking
  <2>5. Narrows(s)
    BY <1>1, <1>2, <2>2, NoneAssumption
       DEF Narrows, Undelivered, At, KnowsBy, Guarded, Looking, Tokens, SessionOf
  <2>6. TypeOK'
    BY <1>1, <2>2, <2>3 DEF TypeOK, OnlyMoves
  <2>7. SignedInOrder' /\ SignedSound'
    BY <1>1, <1>2, <2>3
       DEF IInv, SignedInOrder, SignedUpTo, SignedSound, IsSigned, SessionOf
  <2>8. ReqSound(s)'
    BY <1>1, <1>2, <2>2
       DEF ReqSound, At, Looking, Guarded, IsSigned, SessionOf
  <2>9. \A x \in Slots : ReqSound(x)'
    BY <1>1, <2>2, <2>8, RequestFrame DEF IInv, OnlyMoves, SignedKept
  <2>10. OneRowPerSession'
    <3>1. ASSUME NEW u \in Tokens, row'[u] # None
          PROVE  u = n \/ (u # t /\ row[u] # None /\ row'[u] = row[u])
      BY <2>3, <3>1
    <3>2. ASSUME NEW u \in Tokens, u # t, row[u] # None
          PROVE  SessionOf(u) # SessionOf(t)
      BY <1>2, <1>4, <3>2 DEF IInv, OneRowPerSession, IsSigned
    <3> QED  BY <1>1, <1>2, <2>1, <2>3, <3>1, <3>2
                DEF IInv, OneRowPerSession, Exp, SessionOf
  <2>11. LogoutIsFinal'
    BY <1>1, <1>2, <1>4, <2>3 DEF IInv, LogoutIsFinal, SessionOf, IsSigned
  <2>12. \A x \in Slots : Narrows(x)
    BY <1>1, <2>2, <2>5, StayingNarrows DEF OnlyMoves
  <2>13. DeliveredOnce' /\ OneBrowser'
    BY <1>1, <2>12, OnceFrame, OwnerFrame DEF IInv
  <2>14. RowsFollowed'
    <3> SUFFICES ASSUME faults = 0  PROVE RowsFollowed'
      BY <1>1 DEF RowsFollowed
    <3>1. ASSUME NEW u \in Tokens, u # t, Alive(u)  PROVE Alive(u)'
      BY <1>1, <2>3, <3>1 DEF Alive, SessionOf
    <3>2. Alive(n)'
      BY <2>3 DEF Alive
    <3>3. ASSUME NEW x \in Slots, req[x].reply \in Tokens
          PROVE  req[x].reply # t
      BY <1>2, <2>4, <3>3 DEF IInv, DeliveredOnce, Undelivered
    <3>4. ASSUME NEW x \in Slots
          PROVE  (req[x].reply \in Tokens => Alive(req[x].reply))'
      <4>1. CASE x = s
        BY <1>1, <2>2, <2>3, <4>1 DEF Alive, SessionOf
      <4>2. CASE x # s
        BY <1>1, <2>2, <2>3, <3>3, <4>2
           DEF OnlyMoves, IInv, RowsFollowed, Alive, SessionOf
      <4> QED  BY <4>1, <4>2
    <3>5. ASSUME NEW c \in Browsers, cookie[c] # None
          PROVE  (Alive(cookie[c]) \/ SuccessorUnderWay(c))'
      <4>1. cookie[c] \in Tokens
        BY <1>1, <3>5 DEF TypeOK
      <4>2. CASE cookie[c] = t
        <5>1. Knows(c, SessionOf(t)) /\ Knows(b, SessionOf(t))
          BY <2>4, <3>5, <4>2 DEF Knows
        <5>2. b = c
          BY <1>2, <5>1 DEF IInv, OneBrowser, SignedSound, IsSigned
        <5> QED  BY <1>1, <1>2, <2>2, <4>2, <5>2
                    DEF SuccessorUnderWay, SessionOf, IsSigned
      <4>3. CASE cookie[c] # t /\ Alive(cookie[c])
        BY <1>1, <2>3, <4>1, <4>3 DEF Alive, SessionOf
      <4>4. CASE SuccessorUnderWay(c)
        BY <1>1, <1>2, <2>2, <4>4, NoneAssumption
           DEF SuccessorUnderWay, OnlyMoves, SessionOf, Tokens
      <4> QED  BY <3>5, <4>2, <4>3, <4>4 DEF IInv, RowsFollowed
    <3> QED  BY <1>1, <3>4, <3>5 DEF RowsFollowed
  <2> QED  BY <2>6, <2>7, <2>9, <2>10, <2>11, <2>13, <2>14 DEF IInv
<1> QED  BY <1>2, <1>3, <1>4 DEF RenewSession, Renewable, RenewalReply

-----------------------------------------------------------------------------
(* Handlers *)

\* An answer that leaves the cookie as the guard has set it.
LEMMA PlainAnswer ==
  ASSUME IInv, NEW s \in Slots, req[s].pc \in {"permit", "handle"},
         Answer(s, req[s].reply),
         UNCHANGED <<now, role, signed, row, cookie, loggedOut, ended, changes, faults>>
  PROVE  IInv'
<1>1. TypeOK /\ ReqSound(s) /\ faults \in 0..MaxFaults
  BY DEF IInv, TypeOK
<1>2. req[s].reply \in 0..MaxTokens \cup {None} /\ req[s].browser \in Browsers
  BY <1>1 DEF TypeOK, ReqRow, ReqSound, At
<1>3. /\ OnlyMoves(s) /\ req'[s].pc = "respond"
      /\ req'[s].reply = req[s].reply /\ req'[s].browser = req[s].browser
  BY <1>1, <1>2, AnswerMoves
<1>4. ReqSound(s)'
  BY <1>1, <1>2, <1>3 DEF ReqSound, At, Looking, Guarded, IsSigned
<1>5. Narrows(s) /\ KeepsReply(s)
  BY <1>3 DEF Narrows, KeepsReply, Undelivered, At, KnowsBy, Looking, Guarded, SessionOf
<1> QED  BY <1>1, <1>3, <1>4, <1>5, QuietMove

LEMMA PermitStep ==
  ASSUME IInv, NEW s \in Slots, Permit(s)
  PROVE  IInv'
<1>1. /\ UNCHANGED <<now, role, signed, row, cookie, loggedOut, ended, changes, faults>>
      /\ TypeOK /\ ReqSound(s) /\ req[s].pc = "permit" /\ faults \in 0..MaxFaults
  BY DEF Permit, IInv, At, TypeOK
<1>2. CASE Goto(s, "handle")
  <2>1. ReqSound(s)' /\ Narrows(s) /\ KeepsReply(s)
    BY <1>1, <1>2, GotoMoves
       DEF ReqSound, At, Looking, Guarded, IsSigned, SessionOf, Narrows, KeepsReply,
           Undelivered, KnowsBy, Pcs
  <2> QED  BY <1>1, <1>2, <2>1, GotoMoves, QuietMove DEF Pcs
<1> QED  BY <1>1, <1>2, PlainAnswer DEF Permit

LEMMA UseStep ==
  ASSUME IInv, NEW s \in Slots, Use(s)
  PROVE  IInv'
  BY PlainAnswer DEF Use, At

LEMMA LogoutStep ==
  ASSUME IInv, NEW s \in Slots, Logout(s)
  PROVE  IInv'
<1>1. /\ UNCHANGED <<now, role, signed, cookie, changes, faults>>
      /\ TypeOK /\ ReqSound(s) /\ req[s].pc = "handle"
  BY DEF Logout, IInv, At
<1>2. PICK t \in Tokens : /\ t = req[s].token /\ IsSigned(t)
                          /\ req[s].reply \in {None, t} /\ req[s].browser \in Browsers
  BY <1>1 DEF ReqSound, At, Guarded, Looking, IsSigned
<1>3. CASE Answer(s, req[s].reply) /\ UNCHANGED <<row, loggedOut, ended>>
  BY <1>1, <1>3, PlainAnswer
<1>4. CASE /\ row[t] # None
           /\ row' = [row EXCEPT ![t] = None]
           /\ loggedOut' = loggedOut \cup {SessionOf(t)}
           /\ ended' = ended \cup {SessionOf(t)}
           /\ Answer(s, 0)
  <2>1. /\ OnlyMoves(s) /\ req'[s].pc = "respond"
        /\ req'[s].reply = 0 /\ req'[s].browser = req[s].browser
    BY <1>1, <1>4, AnswerMoves, SessionAssumption
  <2>2. IsSigned(SessionOf(t))
    BY <1>2 DEF IInv, SignedSound, IsSigned
  <2>3. TypeOK'
    BY <1>1, <1>4, <2>1, <2>2 DEF TypeOK, OnlyMoves, IsSigned
  <2>4. SignedInOrder' /\ SignedSound'
    BY <1>1, <1>4, <2>2
       DEF IInv, TypeOK, SignedInOrder, SignedUpTo, SignedSound, IsSigned, SessionOf
  <2>5. ReqSound(s)'
    BY <1>2, <2>1, NoneAssumption DEF ReqSound, At, Looking, Guarded, Tokens
  <2>6. \A x \in Slots : ReqSound(x)'
    BY <1>1, <2>1, <2>5, RequestFrame DEF IInv, OnlyMoves, SignedKept
  <2>7. OneRowPerSession'
    BY <1>1, <1>4 DEF IInv, TypeOK, OneRowPerSession, Exp, SessionOf
  <2>8. LogoutIsFinal'
    BY <1>1, <1>4 DEF IInv, TypeOK, OneRowPerSession, LogoutIsFinal, SessionOf
  <2>9. Narrows(s)
    BY <2>1 DEF Narrows, Undelivered, At, KnowsBy, Looking, Guarded, Tokens
  <2>10. \A x \in Slots : Narrows(x)
    BY <1>1, <2>1, <2>9, StayingNarrows DEF OnlyMoves
  <2>11. DeliveredOnce' /\ OneBrowser'
    BY <1>1, <2>10, OnceFrame, OwnerFrame DEF IInv
  <2>12. RowsFollowed'
    <3> SUFFICES ASSUME faults = 0  PROVE RowsFollowed'
      BY <1>1 DEF RowsFollowed
    <3>1. ASSUME NEW x \in Slots
          PROVE  (req[x].reply \in Tokens => Alive(req[x].reply))'
      BY <1>1, <1>4, <2>1 DEF OnlyMoves, TypeOK, IInv, RowsFollowed, Alive, SessionOf, Tokens
    <3>2. ASSUME NEW c \in Browsers, cookie[c] # None
          PROVE  (Alive(cookie[c]) \/ SuccessorUnderWay(c))'
      <4>1. CASE Alive(cookie[c])
        BY <1>1, <1>4, <3>2, <4>1 DEF Alive, SessionOf, TypeOK
      <4>2. CASE SuccessorUnderWay(c)
        <5> PICK x \in Slots : /\ req[x].browser = c /\ req[x].reply \in Tokens
                               /\ SessionOf(req[x].reply) = SessionOf(cookie[c])
          BY <4>2 DEF SuccessorUnderWay
        <5>1. CASE x = s
          BY <1>1, <1>2, <1>4, <5>1, NoneAssumption DEF Alive, SessionOf, Tokens
        <5>2. CASE x # s
          BY <1>1, <2>1, <5>2 DEF SuccessorUnderWay, OnlyMoves, SessionOf
        <5> QED  BY <5>1, <5>2
      <4> QED  BY <3>2, <4>1, <4>2 DEF IInv, RowsFollowed
    <3> QED  BY <1>1, <3>1, <3>2 DEF RowsFollowed
  <2> QED  BY <2>3, <2>4, <2>6, <2>7, <2>8, <2>11, <2>12 DEF IInv
<1> QED  BY <1>2, <1>3, <1>4 DEF Logout

LEMMA LoginStep ==
  ASSUME IInv, NEW s \in Slots, NEW b \in Browsers, Login(s, b)
  PROVE  IInv'
<1> DEFINE r == [IdleReq EXCEPT !.pc = "loginCreate", !.goal = "login",
                                !.browser = b, !.role = role]
<1>1. /\ UNCHANGED <<now, role, signed, row, cookie, loggedOut, ended, changes, faults>>
      /\ TypeOK /\ req[s] = IdleReq /\ role \in Roles /\ faults \in 0..MaxFaults
  BY DEF Login, IInv, ReqSound, TypeOK
<1>2. r \in ReqRow
  BY <1>1, IdleTyped DEF ReqRow, Pcs, Goals
<1>3. r.pc = "loginCreate" /\ r.browser = b /\ r.role = role /\ r.reply = None
  BY <1>2, IdleTyped, IdleFields DEF ReqRow
<1>4. req' = [req EXCEPT ![s] = r]
  BY DEF Login
<1> HIDE DEF r
<1>5. OnlyMoves(s) /\ req'[s] = r
  BY <1>1, <1>2, <1>4 DEF OnlyMoves, TypeOK
<1>6. ReqSound(s)'
  BY <1>1, <1>3, <1>5, NoneAssumption DEF ReqSound, At, Looking, Guarded, Tokens
<1>7. Narrows(s) /\ KeepsReply(s)
  BY <1>1, <1>3, <1>5, IdleFields, NoneAssumption
     DEF Narrows, KeepsReply, Undelivered, At, KnowsBy, Looking, Guarded, Tokens
<1> QED  BY <1>1, <1>5, <1>6, <1>7, QuietMove

LEMMA LoginCreateStep ==
  ASSUME IInv, NEW s \in Slots, LoginCreate(s)
  PROVE  IInv'
<1>1. /\ UNCHANGED <<now, role, cookie, loggedOut, ended, changes, faults>>
      /\ TypeOK /\ ReqSound(s) /\ req[s].pc = "loginCreate"
      /\ faults \in 0..MaxFaults /\ now \in Nat
  BY DEF LoginCreate, IInv, At, TypeOK
<1>2. req[s].reply = None /\ req[s].role \in Roles /\ req[s].browser \in Browsers
  BY <1>1 DEF ReqSound, At
<1>3. CASE Finish(s) /\ UNCHANGED <<signed, row>>
  BY <1>1, <1>2, <1>3, FinishStep, NoneAssumption DEF Tokens
<1>4. CASE /\ CanSign /\ Sign(req[s].role, NextToken)
           /\ row' = [row EXCEPT ![NextToken] =
                        [createdAt |-> now, expiresAt |-> now + Lifetime]]
           /\ Answer(s, NextToken)
  <2>1. PICK n \in Tokens :
          /\ n = NextToken /\ ~ IsSigned(n) /\ SignedKept /\ signed'[n] # None
          /\ \A t \in Tokens : t # n => signed'[t] = signed[t]
          /\ signed'[n].session = n /\ signed'[n].iat = now
          /\ signed' \in [Tokens -> Claims \cup {None}] /\ SignedInOrder'
    BY <1>2, <1>4, SigningKeeps DEF CanSign
  <2>2. /\ OnlyMoves(s) /\ req'[s].pc = "respond"
        /\ req'[s].reply = n /\ req'[s].browser = req[s].browser
    BY <1>1, <1>4, <2>1, AnswerMoves DEF Tokens
  <2>3. [createdAt |-> now, expiresAt |-> now + Lifetime] \in SessionRow
    BY <1>1, SessionAssumption DEF SessionRow
  <2>4. /\ row'[n] # None /\ row'[n].expiresAt = now + Lifetime
        /\ \A t \in Tokens : t # n => row'[t] = row[t]
        /\ row' \in [Tokens -> SessionRow \cup {None}]
    BY <1>1, <1>4, <2>1, <2>3, NoneAssumption DEF TypeOK
  <2>5. /\ row[n] = None /\ n \notin loggedOut
        /\ \A t \in Tokens : IsSigned(t) => SessionOf(t) # n
        /\ \A c \in Browsers : cookie[c] # n /\ ~ Knows(c, n)
        /\ \A x \in Slots : /\ req[x].pc \in Looking => req[x].sent # n
                            /\ ~ Undelivered(x, n)
    BY <2>1, NextUnknown
  <2>6. \A t \in Tokens : /\ IsSigned(t) => SessionOf(t)' = SessionOf(t)
                          /\ IsSigned(t) => Exp(t)' = Exp(t)
                          /\ IsSigned(t) => IsSigned(t)'
    BY <2>1 DEF SessionOf, Exp, SignedKept, IsSigned
  <2>7. SessionOf(n)' = n /\ Exp(n)' = now + Lifetime /\ IsSigned(n)'
    BY <2>1 DEF SessionOf, Exp, IsSigned
  <2>8. TypeOK'
    BY <1>1, <2>1, <2>2, <2>4 DEF TypeOK, OnlyMoves
  <2>9. SignedSound'
    BY <1>1, <2>1, <2>4 DEF IInv, SignedSound, IsSigned, SessionOf
  <2>10. ReqSound(s)'
    BY <1>2, <2>1, <2>2 DEF ReqSound, At, Looking, Guarded, IsSigned
  <2>11. \A x \in Slots : ReqSound(x)'
    BY <1>1, <2>1, <2>2, <2>10, RequestFrame DEF IInv, OnlyMoves
  <2>12. ASSUME NEW t \in Tokens, row'[t] # None
         PROVE  t = n \/ (IsSigned(t) /\ row[t] # None /\ row'[t] = row[t])
    BY <2>4, <2>12 DEF IInv, SignedSound
  <2>13. OneRowPerSession'
    <3> SUFFICES ASSUME NEW t \in Tokens, row'[t] # None
                 PROVE  /\ row'[t].expiresAt = Exp(t)'
                        /\ \A u \in Tokens :
                             row'[u] # None /\ SessionOf(u)' = SessionOf(t)' => u = t
      BY DEF OneRowPerSession
    <3>1. row'[t].expiresAt = Exp(t)'
      BY <2>4, <2>6, <2>7, <2>12 DEF IInv, OneRowPerSession
    <3>2. ASSUME NEW u \in Tokens, row'[u] # None, SessionOf(u)' = SessionOf(t)'
          PROVE  u = t
      BY <2>5, <2>6, <2>7, <2>12, <3>2 DEF IInv, OneRowPerSession
    <3> QED  BY <3>1, <3>2
  <2>14. LogoutIsFinal'
    <3>1. ASSUME NEW t \in Tokens, row'[t] # None
          PROVE  SessionOf(t)' \notin loggedOut
      BY <2>5, <2>6, <2>7, <2>12, <3>1 DEF IInv, LogoutIsFinal
    <3> QED  BY <1>1, <3>1 DEF LogoutIsFinal
  <2>15. DeliveredOnce'
    <3>1. ASSUME NEW x \in Slots, NEW t \in Tokens, Undelivered(x, t)'
          PROVE  (x = s /\ t = n) \/ (x # s /\ t # n /\ Undelivered(x, t))
      BY <2>1, <2>2, <2>5, <3>1 DEF Undelivered, At, OnlyMoves
    <3>2. ASSUME NEW x \in Slots, req'[x].pc \in Looking
          PROVE  req[x].pc \in Looking /\ req'[x].sent = req[x].sent
      BY <2>2, <3>2 DEF OnlyMoves, Looking
    <3> SUFFICES ASSUME NEW x \in Slots, NEW t \in Tokens, Undelivered(x, t)'
                 PROVE  /\ \A b \in Browsers : cookie[b] # t
                        /\ \A y \in Slots : req'[y].pc \in Looking => req'[y].sent # t
                        /\ \A y \in Slots \ {x} : ~ Undelivered(y, t)'
      BY <1>1 DEF DeliveredOnce
    <3>3. CASE x = s /\ t = n
      BY <2>5, <3>1, <3>2, <3>3
    <3>4. CASE x # s /\ t # n /\ Undelivered(x, t)
      BY <3>1, <3>2, <3>4 DEF IInv, DeliveredOnce
    <3> QED  BY <3>1, <3>3, <3>4
  <2>16. OneBrowser'
    <3>1. ASSUME NEW c \in Browsers, NEW j \in Tokens, NEW x \in Slots,
                 KnowsBy(x, c, j)'
          PROVE  KnowsBy(x, c, j) \/ (c = req[s].browser /\ j = n)
      <4>1. CASE x = s
        BY <1>2, <2>2, <2>7, <3>1, <4>1 DEF KnowsBy, Guarded, Looking, SessionOf
      <4>2. CASE x # s
        BY <2>1, <2>2, <3>1, <4>2
           DEF KnowsBy, OnlyMoves, SessionOf, IInv, ReqSound, SignedKept, IsSigned
      <4> QED  BY <4>1, <4>2
    <3>2. ASSUME NEW c \in Browsers, NEW j \in Tokens, Knows(c, j)'
          PROVE  Knows(c, j) \/ (c = req[s].browser /\ j = n)
      BY <1>1, <2>1, <3>1, <3>2
         DEF Knows, SessionOf, IInv, SignedSound, SignedKept, IsSigned
    <3> QED  BY <2>5, <3>2 DEF IInv, OneBrowser
  <2>17. RowsFollowed'
    <3> SUFFICES ASSUME faults = 0  PROVE RowsFollowed'
      BY <1>1 DEF RowsFollowed
    <3>1. ASSUME NEW t \in Tokens, IsSigned(t), Alive(t)  PROVE Alive(t)'
      BY <1>1, <2>1, <2>4, <2>6, <3>1 DEF Alive
    <3>2. ASSUME NEW x \in Slots
          PROVE  (req[x].reply \in Tokens => Alive(req[x].reply))'
      <4>1. CASE x = s
        BY <2>2, <2>4, <4>1 DEF Alive
      <4>2. CASE x # s
        BY <1>1, <2>1, <2>2, <2>4, <4>2
           DEF OnlyMoves, IInv, RowsFollowed, ReqSound, Alive, SessionOf, SignedKept, IsSigned
      <4> QED  BY <4>1, <4>2
    <3>3. ASSUME NEW c \in Browsers, cookie[c] # None
          PROVE  (Alive(cookie[c]) \/ SuccessorUnderWay(c))'
      <4>1. IsSigned(cookie[c])
        BY <3>3 DEF IInv, SignedSound
      <4>2. CASE Alive(cookie[c])
        BY <1>1, <2>1, <2>4, <4>1, <4>2 DEF Alive, SessionOf, SignedKept, IsSigned
      <4>3. CASE SuccessorUnderWay(c)
        <5> PICK x \in Slots : /\ req[x].browser = c /\ req[x].reply \in Tokens
                               /\ SessionOf(req[x].reply) = SessionOf(cookie[c])
          BY <4>3 DEF SuccessorUnderWay
        <5>1. x # s /\ IsSigned(req[x].reply)
          BY <1>2, NoneAssumption DEF IInv, ReqSound, Tokens
        <5> QED  BY <1>1, <2>1, <2>2, <4>1, <5>1
                    DEF SuccessorUnderWay, OnlyMoves, SessionOf, SignedKept, IsSigned
      <4> QED  BY <3>3, <4>2, <4>3 DEF IInv, RowsFollowed
    <3> QED  BY <1>1, <3>2, <3>3 DEF RowsFollowed
  <2> QED  BY <2>1, <2>8, <2>9, <2>11, <2>13, <2>14, <2>15, <2>16, <2>17 DEF IInv
<1> QED  BY <1>3, <1>4 DEF LoginCreate

-----------------------------------------------------------------------------
(* Answers arrive *)

LEMMA RespondStep ==
  ASSUME IInv, NEW s \in Slots, Respond(s)
  PROVE  IInv'
<1>1. /\ UNCHANGED <<now, role, signed, row, loggedOut, ended, changes, faults>>
      /\ TypeOK /\ ReqSound(s) /\ req[s].pc = "respond" /\ Finish(s)
      /\ faults \in 0..MaxFaults
  BY DEF Respond, IInv, At, TypeOK
<1>2. PICK b \in Browsers : b = req[s].browser
  BY <1>1 DEF ReqSound, At
<1>3. OnlyMoves(s) /\ req'[s] = IdleReq
  BY <1>1, FinishMoves
<1>4. CASE req[s].reply = None
  <2>1. cookie' = cookie
    BY <1>4 DEF Respond
  <2> QED  BY <1>1, <1>4, <2>1, FinishStep, NoneAssumption DEF Tokens
<1>5. CASE req[s].reply \in 0..MaxTokens
  <2> DEFINE c == IF req[s].reply = 0 THEN None ELSE req[s].reply
  <2>1. cookie' = [cookie EXCEPT ![b] = c]
    BY <1>2, <1>5, NoneAssumption DEF Respond
  <2>2. c \in Tokens \cup {None} /\ (c # None => c = req[s].reply)
    BY <1>5 DEF Tokens
  <2> HIDE DEF c
  <2>3. /\ cookie' \in [Browsers -> Tokens \cup {None}] /\ cookie'[b] = c
        /\ \A x \in Browsers : x # b => cookie'[x] = cookie[x]
    BY <1>1, <2>1, <2>2 DEF TypeOK
  <2>4. c # None => /\ c \in Tokens /\ IsSigned(c) /\ Undelivered(s, c)
                    /\ KnowsBy(s, b, SessionOf(c))
    BY <1>1, <1>2, <2>2 DEF ReqSound, Undelivered, KnowsBy
  <2>5. TypeOK'
    BY <1>1, <1>3, <2>3 DEF TypeOK, OnlyMoves
  <2>6. SignedInOrder' /\ SignedSound'
    BY <1>1, <2>3, <2>4
       DEF IInv, SignedInOrder, SignedUpTo, SignedSound, IsSigned, SessionOf
  <2>7. \A x \in Slots : ReqSound(x)'
    BY <1>1, <1>3, IdleSound, RequestFrame DEF IInv, OnlyMoves, SignedKept
  <2>8. OneRowPerSession' /\ LogoutIsFinal'
    BY <1>1 DEF IInv, OneRowPerSession, LogoutIsFinal, Exp, SessionOf
  <2>9. DeliveredOnce'
    <3>1. ASSUME NEW x \in Slots, NEW t \in Tokens, Undelivered(x, t)'
          PROVE  x # s /\ Undelivered(x, t)
      BY <1>3, <3>1, IdleFields, NoneAssumption DEF Undelivered, At, OnlyMoves, Tokens
    <3>2. ASSUME NEW x \in Slots, req'[x].pc \in Looking
          PROVE  req[x].pc \in Looking /\ req'[x].sent = req[x].sent
      BY <1>3, <3>2, IdleFields DEF OnlyMoves, Looking
    <3> SUFFICES ASSUME NEW x \in Slots, NEW t \in Tokens, Undelivered(x, t)'
                 PROVE  /\ \A d \in Browsers : cookie'[d] # t
                        /\ \A y \in Slots : req'[y].pc \in Looking => req'[y].sent # t
                        /\ \A y \in Slots \ {x} : ~ Undelivered(y, t)'
      BY DEF DeliveredOnce
    <3>3. Undelivered(x, t) /\ x # s
      BY <3>1
    <3>4. ~ Undelivered(s, t) /\ \A d \in Browsers : cookie[d] # t
      BY <3>3 DEF IInv, DeliveredOnce
    <3>5. \A d \in Browsers : cookie'[d] # t
      BY <2>3, <2>4, <3>4, NoneAssumption DEF Tokens
    <3> QED  BY <3>1, <3>2, <3>3, <3>5 DEF IInv, DeliveredOnce
  <2>10. OneBrowser'
    <3>1. ASSUME NEW d \in Browsers, NEW k \in Tokens, Knows(d, k)'
          PROVE  Knows(d, k)
      <4>1. CASE cookie'[d] # None /\ SessionOf(cookie[d])' = k
        BY <1>1, <2>3, <2>4, <4>1 DEF Knows, SessionOf
      <4>2. CASE \E x \in Slots : KnowsBy(x, d, k)'
        BY <1>1, <1>3, <4>2, IdleFields, NoneAssumption
           DEF Knows, KnowsBy, OnlyMoves, SessionOf
      <4> QED  BY <3>1, <4>1, <4>2 DEF Knows
    <3> QED  BY <3>1 DEF IInv, OneBrowser
  <2>11. RowsFollowed'
    <3> SUFFICES ASSUME faults = 0  PROVE RowsFollowed'
      BY <1>1 DEF RowsFollowed
    <3>1. ASSUME NEW x \in Slots
          PROVE  (req[x].reply \in Tokens => Alive(req[x].reply))'
      BY <1>1, <1>3, IdleFields, NoneAssumption
         DEF OnlyMoves, IInv, RowsFollowed, Alive, SessionOf, Tokens
    <3>2. ASSUME NEW d \in Browsers, cookie'[d] # None
          PROVE  (Alive(cookie[d]) \/ SuccessorUnderWay(d))'
      <4>1. CASE d = b
        BY <1>1, <2>2, <2>3, <3>2, <4>1 DEF IInv, RowsFollowed, Alive, SessionOf
      <4>2. CASE d # b /\ Alive(cookie[d])
        BY <1>1, <2>3, <4>2 DEF Alive, SessionOf
      <4>3. CASE d # b /\ SuccessorUnderWay(d)
        BY <1>1, <1>2, <1>3, <2>3, <4>3 DEF SuccessorUnderWay, OnlyMoves, SessionOf
      <4> QED  BY <2>3, <3>2, <4>1, <4>2, <4>3 DEF IInv, RowsFollowed
    <3> QED  BY <3>1, <3>2 DEF RowsFollowed
  <2> QED  BY <2>5, <2>6, <2>7, <2>8, <2>9, <2>10, <2>11 DEF IInv
<1> QED  BY <1>1, <1>4, <1>5 DEF TypeOK, ReqRow

-----------------------------------------------------------------------------
(* The clock, the sweep, the admin, faults *)

LEMMA StayAll ==
  ASSUME UNCHANGED <<req, signed>>
  PROVE  \A x \in Slots : Narrows(x) /\ KeepsReply(x)
  BY StayingNarrows

LEMMA TickStep ==
  ASSUME IInv, Tick \/ UNCHANGED vars
  PROVE  IInv'
<1>1. /\ UNCHANGED <<role, signed, row, cookie, req, loggedOut, ended, changes, faults>>
      /\ TypeOK /\ now' \in 0..MaxTime
  BY SessionAssumption DEF Tick, vars, IInv, TypeOK
<1>2. TypeOK'
  BY <1>1 DEF TypeOK
<1>3. SignedInOrder' /\ SignedSound' /\ OneRowPerSession' /\ LogoutIsFinal'
  BY <1>1 DEF IInv, SignedInOrder, SignedUpTo, SignedSound, IsSigned, SessionOf,
              OneRowPerSession, LogoutIsFinal, Exp
<1>4. \A x \in Slots : ReqSound(x)'
  BY <1>1, RequestFrame DEF IInv, SignedKept
<1>5. DeliveredOnce' /\ OneBrowser'
  BY <1>1, StayAll, OnceFrame, OwnerFrame DEF IInv
<1>6. RowsFollowed'
  BY <1>1, StayAll, FollowFrame DEF IInv, TypeOK, Alive, SessionOf
<1> QED  BY <1>2, <1>3, <1>4, <1>5, <1>6 DEF IInv

LEMMA SweepStep ==
  ASSUME IInv, Sweep
  PROVE  IInv'
<1>1. /\ UNCHANGED <<now, role, signed, cookie, req, loggedOut, changes, faults>>
      /\ TypeOK
      /\ row' = [t \in Tokens |-> IF Sweepable(t) THEN None ELSE row[t]]
      /\ ended' = ended \cup {SessionOf(t) : t \in {u \in Tokens : Sweepable(u)}}
  BY DEF Sweep, IInv
<1>2. \A t \in Tokens : Sweepable(t) => SessionOf(t) \in Tokens
  BY DEF Sweepable, IInv, SignedSound, IsSigned
<1>3. TypeOK'
  BY <1>1, <1>2 DEF TypeOK
<1>4. SignedInOrder'
  BY <1>1 DEF IInv, SignedInOrder, SignedUpTo
<1>5. OneRowPerSession' /\ LogoutIsFinal' /\ SignedSound'
  BY <1>1, RowsShrink DEF IInv
<1>6. \A x \in Slots : ReqSound(x)'
  BY <1>1, RequestFrame DEF IInv, SignedKept
<1>7. DeliveredOnce' /\ OneBrowser'
  BY <1>1, StayAll, OnceFrame, OwnerFrame DEF IInv
<1>8. \A t \in Tokens : Alive(t) => Alive(t)'
  BY <1>1 DEF Alive, SessionOf
<1>9. RowsFollowed'
  BY <1>1, <1>8, StayAll, FollowFrame DEF IInv, TypeOK
<1> QED  BY <1>3, <1>4, <1>5, <1>6, <1>7, <1>9 DEF IInv

LEMMA ChangeRoleStep ==
  ASSUME IInv, NEW r \in Roles, ChangeRole(r)
  PROVE  IInv'
<1>1. /\ UNCHANGED <<now, signed, row, cookie, loggedOut, ended, faults>>
      /\ TypeOK /\ role' = r /\ changes' \in 0..MaxChanges
  BY SessionAssumption DEF ChangeRole, IInv, TypeOK
<1>2. ASSUME NEW x \in Slots
      PROVE  /\ req'[x] \in ReqRow
             /\ req'[x].pc = req[x].pc /\ req'[x].browser = req[x].browser
             /\ req'[x].sent = req[x].sent /\ req'[x].token = req[x].token
             /\ req'[x].role = req[x].role /\ req'[x].reply = req[x].reply
             /\ req'[x].roles = (IF At(x, "idle") THEN req[x].roles
                                 ELSE req[x].roles \cup {r})
             /\ At(x, "idle") => req'[x] = req[x]
  BY <1>1 DEF ChangeRole, TypeOK, ReqRow, At
<1>3. req' \in [Slots -> ReqRow]
  BY <1>2 DEF ChangeRole
<1>4. TypeOK'
  BY <1>1, <1>3 DEF TypeOK
<1>5. SignedInOrder' /\ SignedSound' /\ OneRowPerSession' /\ LogoutIsFinal'
  BY <1>1 DEF IInv, SignedInOrder, SignedUpTo, SignedSound, IsSigned, SessionOf,
              OneRowPerSession, LogoutIsFinal, Exp
<1>6. ASSUME NEW x \in Slots  PROVE ReqSound(x)'
  <2>1. ReqSound(x)
    BY DEF IInv
  <2>2. CASE At(x, "idle")
    BY <1>2, <2>1, <2>2, IdleSound DEF ReqSound
  <2>3. CASE ~ At(x, "idle")
    <3>1. req'[x].roles = req[x].roles \cup {r}
      BY <1>2, <2>3
    <3> QED  BY <1>1, <1>2, <2>1, <2>3, <3>1
             DEF ReqSound, At, Looking, Guarded, IsSigned, SessionOf
  <2> QED  BY <2>2, <2>3
<1>7. \A x \in Slots : Narrows(x) /\ KeepsReply(x)
  BY <1>1, <1>2 DEF Narrows, KeepsReply, Undelivered, At, KnowsBy, SessionOf
<1>8. DeliveredOnce' /\ OneBrowser'
  BY <1>1, <1>7, OnceFrame, OwnerFrame DEF IInv
<1>9. RowsFollowed'
  BY <1>1, <1>7, FollowFrame DEF IInv, TypeOK, Alive, SessionOf
<1> QED  BY <1>4, <1>5, <1>6, <1>8, <1>9 DEF IInv

LEMMA RequestLostStep ==
  ASSUME IInv, NEW s \in Slots, RequestLost(s)
  PROVE  IInv'
<1>1. faults' \in 0..MaxFaults /\ faults' # 0
  BY SessionAssumption DEF RequestLost, IInv, TypeOK
<1> QED  BY <1>1, FinishStep DEF RequestLost

-----------------------------------------------------------------------------
(* The theorems *)

LEMMA InitIInv == Init => IInv
<1> SUFFICES ASSUME Init  PROVE IInv
  OBVIOUS
<1>1. \A s \in Slots : req[s] = IdleReq
  BY DEF Init
<1>2. TypeOK
  BY IdleTyped, SessionAssumption DEF Init, TypeOK
<1>3. SignedInOrder
  <2>1. SignedUpTo(0)
    BY SessionAssumption DEF Init, SignedUpTo, Tokens
  <2> QED  BY <2>1, SessionAssumption DEF SignedInOrder
<1>4. SignedSound /\ OneRowPerSession /\ LogoutIsFinal
  BY DEF Init, SignedSound, OneRowPerSession, LogoutIsFinal
<1>5. \A s \in Slots : ReqSound(s)
  BY <1>1, IdleFields, NoneAssumption DEF ReqSound, At, Looking, Guarded, Tokens
<1>6. /\ \A s \in Slots, t \in Tokens : ~ Undelivered(s, t)
      /\ \A s \in Slots, b \in Browsers, k \in Tokens : ~ KnowsBy(s, b, k)
  BY <1>1, IdleFields, NoneAssumption
     DEF Undelivered, KnowsBy, At, Looking, Guarded, Tokens
<1>7. DeliveredOnce /\ OneBrowser
  BY <1>6 DEF Init, DeliveredOnce, OneBrowser, Knows
<1>8. RowsFollowed
  BY <1>1, IdleFields, NoneAssumption DEF Init, RowsFollowed, Tokens
<1> QED  BY <1>2, <1>3, <1>4, <1>5, <1>7, <1>8 DEF IInv

LEMMA NextIInv == ASSUME IInv, [Next]_vars PROVE IInv'
<1>1. ASSUME NEW s \in Slots, NEW b \in Browsers, Login(s, b)  PROVE IInv'
  BY <1>1, LoginStep
<1>2. ASSUME NEW s \in Slots, NEW b \in Browsers, NEW g \in Goals, Send(s, b, g)
      PROVE  IInv'
  BY <1>2, SendStep
<1>3. ASSUME NEW s \in Slots,
             \/ ReadSession(s) \/ CheckUser(s) \/ DropSession(s) \/ RenewSession(s)
             \/ Permit(s) \/ Use(s) \/ Logout(s) \/ LoginCreate(s) \/ Respond(s)
             \/ RequestLost(s)
      PROVE  IInv'
  BY <1>3, ReadSessionStep, CheckUserStep, DropSessionStep, RenewSessionStep,
     PermitStep, UseStep, LogoutStep, LoginCreateStep, RespondStep, RequestLostStep
<1>4. CASE Tick \/ Sweep \/ UNCHANGED vars
  BY <1>4, TickStep, SweepStep
<1>5. ASSUME NEW r \in Roles, ChangeRole(r)  PROVE IInv'
  BY <1>5, ChangeRoleStep
<1> QED  BY <1>1, <1>2, <1>3, <1>4, <1>5 DEF Next, Quiescent

\* Everything a request, a cookie or a row is known to be, in every reachable
\* state: what session-token.guard.ts and auth.repo.ts keep true together.
THEOREM Invariant == Spec => []IInv
<1>1. Init => IInv
  BY InitIInv
<1>2. IInv /\ [Next]_vars => IInv'
  BY NextIInv
<1> QED  BY <1>1, <1>2, PTL DEF Spec

\* Rows, tokens and requests keep the shape that schema.prisma and the guard
\* give them.
THEOREM TypeCorrect == Spec => []TypeOK
<1>1. IInv => TypeOK
  BY DEF IInv
<1> QED  BY <1>1, Invariant, PTL

\* Whatever renewals of session-token.guard.ts:78 race, a session has one row at
\* most, which expires with its token.
THEOREM SessionsHaveOneRow == Spec => []OneRowPerSession
<1>1. IInv => OneRowPerSession
  BY DEF IInv
<1> QED  BY <1>1, Invariant, PTL

\* A logout that auth.repo.ts:137 reports as done ends its session for good,
\* however many renewals are under way.
THEOREM LogoutsAreFinal == Spec => []LogoutIsFinal
<1>1. IInv => LogoutIsFinal
  BY DEF IInv
<1> QED  BY <1>1, Invariant, PTL

\* No handler runs under a role that its user has lost before the request was
\* sent (session-token.guard.ts:54).
THEOREM HandlersActInRole == Spec => []ActsInRole
<1>1. IInv => ActsInRole
  BY DEF IInv, ReqSound, ActsInRole, At
<1> QED  BY <1>1, Invariant, PTL

\* As long as no answer is lost, a browser whose requests are all answered holds
\* the key of a row or of a session that has ended (session-token.guard.ts:87).
THEOREM CookiesFollowRows == Spec => []CookieFollows
<1>1. IInv => CookieFollows
  BY DEF IInv, RowsFollowed, Alive, SuccessorUnderWay, CookieFollows
<1> QED  BY <1>1, Invariant, PTL
-----------------------------------------------------------------------------
(* The life of a session *)

\* The key of session k among rows r of tokens with claims g.
HoldsIn(r, g, t, k) == r[t] # None /\ g[t].session = k
KeyIn(r, g, k) ==
  IF \E t \in Tokens : HoldsIn(r, g, t, k)
  THEN CHOOSE t \in Tokens : HoldsIn(r, g, t, k) ELSE None

Key == [k \in Tokens |-> KeyIn(row, signed, k)]
Since == [k \in Tokens |-> IF Key[k] = None THEN 0 ELSE row[Key[k]].createdAt]
Until == [k \in Tokens |-> IF Key[k] = None THEN 0 ELSE row[Key[k]].expiresAt]
GivenTo == [k \in Tokens |-> IF Key[k] = None THEN None ELSE signed[Key[k]].role]

\* Signed keys without a row, except the one a renewal is about to store.
Renewing(t) == \E s \in Slots : At(s, "renew") /\ req[s].token = t
Spent == {t \in Tokens : signed[t] # None /\ row[t] = None /\ ~ Renewing(t)}

\* Sessions that a request is about to drop.
Dropping(k) == \E s \in Slots : At(s, "drop") /\ SessionOf(req[s].sent) = k
Doubted == {k \in Tokens : Key[k] # None /\ Dropping(k)}

L == INSTANCE SessionLife WITH
       Keys <- Tokens, key <- Key, since <- Since, until <- Until, as <- GivenTo,
       spent <- Spent, over <- ended, doubted <- Doubted

\* What the steps of SessionLife need besides IInv.
EndedSound ==
  /\ \A t \in Tokens : row[t] # None => SessionOf(t) \notin ended
  /\ \A k \in ended : IsSigned(k)
  /\ loggedOut \subseteq ended
SignedAlike ==
  \A t \in Tokens : IsSigned(t) =>
    /\ SessionOf(SessionOf(t)) = SessionOf(t)
    /\ signed[t].role = signed[SessionOf(t)].role
    /\ signed[t].iat <= now
RenewSound(s) ==
  /\ At(s, "renew") => /\ row[req[s].token] = None
                       /\ signed[req[s].sent].iat <= signed[req[s].token].iat
  /\ req[s].pc \in {"user", "drop", "renew"} /\ row[req[s].sent] # None =>
       req[s].createdAt = row[req[s].sent].createdAt
LifeInv == EndedSound /\ SignedAlike /\ \A s \in Slots : RenewSound(s)

LifeStep == LifeInv' /\ [L!Next]_(L!vars)

\* The key of a session is the token with its row.
LEMMA KeyFacts ==
  ASSUME NEW r, NEW g,
         \A t, u \in Tokens : r[t] # None /\ r[u] # None
                              /\ g[t].session = g[u].session => t = u
  PROVE  \A k : /\ KeyIn(r, g, k) \in Tokens \cup {None}
                /\ \A t \in Tokens : KeyIn(r, g, k) = t <=> HoldsIn(r, g, t, k)
<1> SUFFICES ASSUME NEW k
             PROVE  /\ KeyIn(r, g, k) \in Tokens \cup {None}
                    /\ \A t \in Tokens : KeyIn(r, g, k) = t <=> HoldsIn(r, g, t, k)
  OBVIOUS
<1>1. None \notin Tokens
  BY NoneAssumption DEF Tokens
<1>2. CASE \E t \in Tokens : HoldsIn(r, g, t, k)
  <2>1. KeyIn(r, g, k) \in Tokens /\ HoldsIn(r, g, KeyIn(r, g, k), k)
    BY <1>2 DEF KeyIn
  <2>2. ASSUME NEW t \in Tokens, HoldsIn(r, g, t, k)  PROVE KeyIn(r, g, k) = t
    BY <2>1, <2>2 DEF HoldsIn
  <2> QED  BY <2>1, <2>2
<1>3. CASE ~ \E t \in Tokens : HoldsIn(r, g, t, k)
  BY <1>1, <1>3 DEF KeyIn
<1> QED  BY <1>2, <1>3

\* Now and after the step.
KeysKnown ==
  \A k \in Tokens : /\ Key[k] \in Tokens \cup {None}
                    /\ \A t \in Tokens : Key[k] = t <=> row[t] # None /\ SessionOf(t) = k
LEMMA KeysAre == ASSUME IInv, IInv' PROVE KeysKnown /\ KeysKnown'
<1>1. KeysKnown
  <2>1. \A t, u \in Tokens : row[t] # None /\ row[u] # None
                             /\ signed[t].session = signed[u].session => t = u
    BY DEF IInv, OneRowPerSession, SessionOf
  <2> QED  BY <2>1, KeyFacts DEF KeysKnown, Key, HoldsIn, SessionOf
<1>2. KeysKnown'
  <2>1. \A t, u \in Tokens : row'[t] # None /\ row'[u] # None
                             /\ signed'[t].session = signed'[u].session => t = u
    BY DEF IInv, OneRowPerSession, SessionOf
  <2> QED  BY <2>1, KeyFacts DEF KeysKnown, Key, HoldsIn, SessionOf
<1> QED  BY <1>1, <1>2

\* Keys go when their rows do, and only then.
LEMMA RowsKept ==
  ASSUME IInv, IInv', UNCHANGED row, SignedKept
  PROVE  UNCHANGED <<Key, Since, Until, GivenTo>>
<1>1. KeysKnown /\ KeysKnown'
  BY KeysAre
<1>2. \A t \in Tokens : row[t] # None => SessionOf(t)' = SessionOf(t)
                                         /\ signed'[t] = signed[t]
  BY DEF IInv, SignedSound, IsSigned, SignedKept, SessionOf
<1>3. ASSUME NEW k \in Tokens  PROVE Key'[k] = Key[k]
  BY <1>1, <1>2 DEF KeysKnown
<1>4. Key' = Key
  BY <1>3 DEF Key
<1>5. \A k \in Tokens : Key[k] # None => Key[k] \in Tokens /\ row[Key[k]] # None
  BY <1>1 DEF KeysKnown
<1>6. Since' = Since /\ Until' = Until
  BY <1>4 DEF Since, Until
<1>7. ASSUME NEW k \in Tokens  PROVE GivenTo'[k] = GivenTo[k]
  BY <1>2, <1>4, <1>5 DEF GivenTo
<1> QED  BY <1>4, <1>6, <1>7 DEF GivenTo


\* One request moves and no row or token changes.
Resting == UNCHANGED <<now, role, signed, row, loggedOut, ended>>

LEMMA RestingLife ==
  ASSUME IInv, IInv', LifeInv, Resting
  PROVE  /\ UNCHANGED <<Key, Since, Until, GivenTo>>
         /\ EndedSound' /\ SignedAlike'
<1>1. SignedKept
  BY DEF Resting, SignedKept
<1>2. UNCHANGED <<Key, Since, Until, GivenTo>>
  BY <1>1, RowsKept DEF Resting
<1>3. EndedSound' /\ SignedAlike'
  BY DEF Resting, LifeInv, EndedSound, SignedAlike, IsSigned, SessionOf
<1> QED  BY <1>2, <1>3

\* Nothing is known of a request anew when rows only go.
LEMMA RenewFrame ==
  ASSUME IInv, NEW x \in Slots, RenewSound(x), SignedKept,
         req'[x].pc = req[x].pc, req'[x].sent = req[x].sent,
         req'[x].token = req[x].token, req'[x].createdAt = req[x].createdAt,
         \A t \in Tokens : row'[t] \in {row[t], None}
  PROVE  RenewSound(x)'
<1>1. ReqSound(x)
  BY DEF IInv
<1>2. req[x].pc \in Looking => IsSigned(req[x].sent) /\ IsSigned(req[x].token)
  BY <1>1 DEF ReqSound, Guarded
<1> QED  BY <1>2 DEF RenewSound, At, Looking, IsSigned, SignedKept

LEMMA IdleRenew ==
  ASSUME NEW x \in Slots, req'[x] = IdleReq
  PROVE  RenewSound(x)'
  BY IdleFields DEF RenewSound, At

LEMMA QuietLife ==
  ASSUME IInv, IInv', LifeInv, NEW s \in Slots, OnlyMoves(s), Resting,
         req[s].pc \notin {"drop", "renew"}, req'[s].pc \notin {"drop", "renew"},
         RenewSound(s)'
  PROVE  LifeStep
<1>1. UNCHANGED <<Key, Since, Until, GivenTo>> /\ EndedSound' /\ SignedAlike'
  BY RestingLife
<1>2. \A x \in Slots : RenewSound(x)'
  BY RenewFrame DEF OnlyMoves, Resting, LifeInv, SignedKept
<1>3. \A x \in Slots : /\ At(x, "renew")' <=> At(x, "renew")
                       /\ At(x, "drop")' <=> At(x, "drop")
                       /\ At(x, "renew") \/ At(x, "drop") => req'[x] = req[x]
  BY DEF OnlyMoves, At
<1>4. /\ \A t \in Tokens : Renewing(t)' <=> Renewing(t)
      /\ \A k \in Tokens : Dropping(k)' <=> Dropping(k)
  BY <1>3 DEF Renewing, Dropping, Resting, SessionOf
<1>5. Spent' = Spent /\ Doubted' = Doubted
  BY <1>1, <1>4 DEF Spent, Doubted, Resting
<1> QED  BY <1>1, <1>2, <1>5 DEF LifeStep, LifeInv, L!vars, Resting

\* A renewal that is not stored wastes its token; a drop that does not come
\* leaves the session.
LEMMA FinishLife ==
  ASSUME IInv, IInv', LifeInv, NEW s \in Slots, Finish(s), Resting
  PROVE  LifeStep
<1>1. UNCHANGED <<Key, Since, Until, GivenTo>> /\ EndedSound' /\ SignedAlike'
  BY RestingLife
<1>2. OnlyMoves(s) /\ req'[s] = IdleReq /\ req'[s].pc = "idle"
  BY FinishMoves, IdleFields DEF IInv
<1>3. RenewSound(s)'
  BY <1>2, IdleRenew
<1>4. \A x \in Slots : RenewSound(x)'
  BY <1>2, <1>3, RenewFrame DEF OnlyMoves, Resting, LifeInv, SignedKept
<1>5. CASE req[s].pc \notin {"drop", "renew"}
  BY <1>2, <1>3, <1>5, QuietLife
<1>6. CASE req[s].pc = "renew"
  <2>1. PICK n \in Tokens : n = req[s].token /\ row[n] = None /\ IsSigned(n)
    BY <1>6 DEF IInv, ReqSound, Guarded, Looking, IsSigned, LifeInv, RenewSound, At
  <2>2. \A x \in Slots \ {s} : ~ (At(x, "renew") /\ req[x].token = n)
    BY <1>6, <2>1 DEF IInv, DeliveredOnce, Undelivered, At
  <2>3. \A t \in Tokens : Renewing(t)' <=> Renewing(t) /\ t # n
    BY <1>2, <1>6, <2>1, <2>2 DEF Renewing, OnlyMoves, At
  <2>4. Spent' = Spent \cup {n}
    BY <2>1, <2>3 DEF Spent, Resting, IsSigned
  <2>5. \A k \in Tokens : Dropping(k)' <=> Dropping(k)
    BY <1>2, <1>6 DEF Dropping, OnlyMoves, At, Resting, SessionOf
  <2>6. Doubted' = Doubted
    BY <1>1, <2>5 DEF Doubted
  <2>7. KeysKnown
    BY KeysAre
  <2>8. \A j \in Tokens : Key[j] # n
    BY <2>1, <2>7 DEF KeysKnown
  <2>9. L!Waste(n)
    BY <1>1, <2>4, <2>6, <2>8 DEF L!Waste, L!life, L!Sessions, Resting
  <2> QED  BY <1>1, <1>4, <2>9 DEF LifeStep, LifeInv, L!Next
<1>7. CASE req[s].pc = "drop"
  <2>1. PICK k \in Tokens : k = SessionOf(req[s].sent)
    BY <1>7 DEF IInv, ReqSound, Looking, SignedSound, IsSigned
  <2>2. \A t \in Tokens : Renewing(t)' <=> Renewing(t)
    BY <1>2, <1>7 DEF Renewing, OnlyMoves, At
  <2>3. Spent' = Spent
    BY <2>2 DEF Spent, Resting
  <2>4. \A j \in Tokens : j # k => (Dropping(j)' <=> Dropping(j))
    BY <1>2, <1>7, <2>1 DEF Dropping, OnlyMoves, At, Resting, SessionOf
  <2>5. Dropping(k)
    BY <1>7, <2>1 DEF Dropping, At
  <2>6. CASE Dropping(k)'
    <3>1. Doubted' = Doubted
      BY <1>1, <2>4, <2>5, <2>6 DEF Doubted
    <3> QED  BY <1>1, <1>4, <2>3, <3>1 DEF LifeStep, LifeInv, L!vars, Resting
  <2>7. CASE ~ Dropping(k)'
    <3>1. Doubted' = Doubted \ {k}
      BY <1>1, <2>4, <2>7 DEF Doubted
    <3>2. L!Relent(k)
      BY <1>1, <2>3, <3>1 DEF L!Relent, L!life, Resting
    <3> QED  BY <1>1, <1>4, <3>2 DEF LifeStep, LifeInv, L!Next, L!Sessions
  <2> QED  BY <2>6, <2>7
<1> QED  BY <1>5, <1>6, <1>7

LEMMA SendLife ==
  ASSUME IInv, IInv', LifeInv, NEW s \in Slots, NEW b \in Browsers, NEW g \in Goals,
         Send(s, b, g)
  PROVE  LifeStep
<1> DEFINE r == [IdleReq EXCEPT !.pc = "read", !.goal = g, !.browser = b,
                                !.sent = cookie[b], !.token = cookie[b],
                                !.roles = {role}]
<1>1. r.pc = "read"
  BY DEF IdleReq
<1>2. req' = [req EXCEPT ![s] = r] /\ At(s, "idle") /\ Resting
  BY DEF Send, Resting
<1> HIDE DEF r
<1>3. OnlyMoves(s) /\ req'[s].pc = "read" /\ req[s].pc = "idle"
  BY <1>1, <1>2 DEF OnlyMoves, IInv, TypeOK, At
<1> QED  BY <1>2, <1>3, QuietLife DEF RenewSound, At

LEMMA ReadSessionLife ==
  ASSUME IInv, IInv', LifeInv, NEW s \in Slots, ReadSession(s)
  PROVE  LifeStep
<1>1. Resting /\ req[s].pc = "read" /\ TypeOK
  BY DEF ReadSession, Resting, At, IInv
<1>2. CASE Finish(s)
  BY <1>1, <1>2, FinishLife
<1>3. CASE req' = [req EXCEPT ![s].pc = "user",
                              ![s].createdAt = row[req[s].sent].createdAt]
  <2>1. /\ OnlyMoves(s) /\ req'[s].pc = "user" /\ req'[s].sent = req[s].sent
        /\ req'[s].createdAt = row[req[s].sent].createdAt
    BY <1>1, <1>3 DEF OnlyMoves, IInv, TypeOK, ReqRow
  <2>2. RenewSound(s)'
    BY <1>1, <2>1 DEF RenewSound, At, Resting
  <2> QED  BY <1>1, <2>1, <2>2, QuietLife
<1> QED  BY <1>2, <1>3 DEF ReadSession

\* The user is found without the role of the session.
LEMMA DoubtLife ==
  ASSUME IInv, IInv', LifeInv, NEW s \in Slots, Resting, req[s].pc = "user",
         Goto(s, "drop"), ~ UserFound(req[s].sent)
  PROVE  LifeStep
<1>1. UNCHANGED <<Key, Since, Until, GivenTo>> /\ EndedSound' /\ SignedAlike'
  BY RestingLife
<1>2. /\ OnlyMoves(s) /\ req'[s].pc = "drop" /\ req'[s].sent = req[s].sent
      /\ req'[s].createdAt = req[s].createdAt
  BY GotoMoves DEF IInv, Pcs
<1>3. RenewSound(s)'
  BY <1>2 DEF RenewSound, At, Resting, LifeInv
<1>4. \A x \in Slots : RenewSound(x)'
  BY <1>2, <1>3, RenewFrame DEF OnlyMoves, Resting, LifeInv, SignedKept
<1>5. PICK t \in Tokens, k \in Tokens :
        t = req[s].sent /\ k = SessionOf(t) /\ IsSigned(t) /\ IsSigned(k)
  BY DEF IInv, ReqSound, Looking, SignedSound, IsSigned
<1>6. \A u \in Tokens : Renewing(u)' <=> Renewing(u)
  BY <1>2 DEF Renewing, OnlyMoves, At
<1>7. Spent' = Spent
  BY <1>6 DEF Spent, Resting
<1>8. \A j \in Tokens : Dropping(j)' <=> Dropping(j) \/ j = k
  BY <1>2, <1>5 DEF Dropping, OnlyMoves, At, Resting, SessionOf
<1>9. CASE Key[k] = None
  <2>1. Doubted' = Doubted
    BY <1>1, <1>8, <1>9 DEF Doubted
  <2> QED  BY <1>1, <1>4, <1>7, <2>1 DEF LifeStep, LifeInv, L!vars, Resting
<1>10. CASE Key[k] # None
  <2>1. Doubted' = Doubted \cup {k}
    BY <1>1, <1>8, <1>10 DEF Doubted
  <2>2. Key[k] \in Tokens /\ row[Key[k]] # None /\ SessionOf(Key[k]) = k
    BY <1>10, KeysAre DEF KeysKnown
  <2>3. IsSigned(Key[k])
    BY <2>2 DEF IInv, SignedSound
  <2>4. signed[Key[k]].role = signed[t].role
    BY <1>5, <2>2, <2>3 DEF LifeInv, SignedAlike
  <2>5. GivenTo[k] # role
    BY <1>5, <1>10, <2>4 DEF GivenTo, UserFound
  <2>6. L!Doubt(k)
    BY <1>1, <1>7, <1>10, <2>1, <2>5 DEF L!Doubt, L!life, Resting
  <2> QED  BY <1>1, <1>4, <2>6 DEF LifeStep, LifeInv, L!Next, L!Sessions
<1> QED  BY <1>9, <1>10

\* A token is signed for a renewal: no session has it yet, and it is not spent.
LEMMA SignLife ==
  ASSUME IInv, IInv', LifeInv, NEW s \in Slots, req[s].pc = "user",
         UNCHANGED <<now, role, row, loggedOut, ended>>, CanSign,
         Sign(signed[req[s].sent].role, SessionOf(req[s].sent)),
         req' = [req EXCEPT ![s].pc = "renew", ![s].token = NextToken]
  PROVE  LifeStep
<1>1. PICK t \in Tokens, k \in Tokens :
        t = req[s].sent /\ k = SessionOf(t) /\ IsSigned(t) /\ IsSigned(k)
  BY DEF IInv, ReqSound, Looking, SignedSound, IsSigned
<1>2. signed[t].role \in Roles /\ signed[t].iat \in Nat /\ TypeOK
  BY <1>1 DEF IInv, TypeOK, IsSigned, Claims
<1>3. PICK n \in Tokens :
        /\ n = NextToken /\ ~ IsSigned(n) /\ SignedKept /\ signed'[n] # None
        /\ \A u \in Tokens : u # n => signed'[u] = signed[u]
        /\ signed'[n].role = signed[t].role /\ signed'[n].session = k
        /\ signed'[n].iat = now
  BY <1>1, <1>2, SigningKeeps
<1>4. /\ OnlyMoves(s) /\ req'[s].pc = "renew" /\ req'[s].token = n
      /\ req'[s].sent = req[s].sent /\ req'[s].createdAt = req[s].createdAt
  <2>1. req' = [req EXCEPT ![s].pc = "renew", ![s].token = n]
    BY <1>3
  <2> DEFINE r == [req[s] EXCEPT !.pc = "renew", !.token = n]
  <2>2. /\ r \in ReqRow /\ r.pc = "renew" /\ r.token = n
        /\ r.sent = req[s].sent /\ r.createdAt = req[s].createdAt
    <3>1. req[s] \in ReqRow /\ n \in 0..MaxTokens /\ "renew" \in Pcs
      BY <1>2 DEF TypeOK, Tokens, Pcs
    <3> QED  BY <3>1 DEF ReqRow
  <2>3. req' = [req EXCEPT ![s] = r]
    BY <2>1
  <2> HIDE DEF r
  <2>4. OnlyMoves(s) /\ req'[s] = r
    BY <1>2, <2>2, <2>3 DEF OnlyMoves, TypeOK
  <2> QED  BY <2>2, <2>4
<1>5. UNCHANGED <<Key, Since, Until, GivenTo>>
  BY <1>3, RowsKept
<1>6. row[n] = None /\ \A x \in Slots : ~ (At(x, "renew") /\ req[x].token = n)
  BY <1>3, NextUnknown DEF Undelivered
<1>7. EndedSound'
  BY <1>3 DEF LifeInv, EndedSound, IInv, SignedSound, IsSigned, SignedKept, SessionOf
<1>8. SignedAlike'
  <2>1. ASSUME NEW u \in Tokens, IsSigned(u), u # n
        PROVE  /\ signed'[u] = signed[u] /\ SessionOf(u) # n
               /\ signed'[SessionOf(u)] = signed[SessionOf(u)]
    BY <1>3, <2>1, NextUnknown DEF IInv, SignedSound, IsSigned
  <2>2. k # n /\ signed'[k] = signed[k] /\ SessionOf(k) = k /\ signed[k].role = signed[t].role
    BY <1>1, <1>3 DEF LifeInv, SignedAlike, IsSigned
  <2>3. now \in Int
    BY <1>2 DEF TypeOK
  <2> QED  BY <1>3, <2>1, <2>2, <2>3 DEF LifeInv, SignedAlike, IsSigned, SessionOf
<1>9. RenewSound(s)'
  <2>1. signed'[t].iat <= signed'[n].iat
    BY <1>1, <1>3 DEF LifeInv, SignedAlike, SignedKept, IsSigned
  <2> QED  BY <1>1, <1>4, <1>6, <2>1 DEF LifeInv, RenewSound, At
<1>10. \A x \in Slots : RenewSound(x)'
  BY <1>3, <1>4, <1>9, RenewFrame DEF OnlyMoves, LifeInv
<1>11. \A u \in Tokens : Renewing(u)' <=> Renewing(u) \/ u = n
  BY <1>4 DEF Renewing, OnlyMoves, At
<1>12. Spent' = Spent
  BY <1>3, <1>11 DEF Spent, IsSigned
<1>13. ASSUME NEW j \in Tokens  PROVE Dropping(j)' <=> Dropping(j)
  <2>1. \A x \in Slots : At(x, "drop") => IsSigned(req[x].sent)
    BY DEF IInv, ReqSound, At, Looking
  <2> QED  BY <1>3, <1>4, <2>1 DEF Dropping, OnlyMoves, At, SignedKept, SessionOf, IsSigned
<1>14. Doubted' = Doubted
  BY <1>5, <1>13 DEF Doubted
<1> QED  BY <1>5, <1>7, <1>8, <1>10, <1>12, <1>14 DEF LifeStep, LifeInv, L!vars

LEMMA CheckUserLife ==
  ASSUME IInv, IInv', LifeInv, NEW s \in Slots, CheckUser(s)
  PROVE  LifeStep
<1>1. UNCHANGED <<now, role, row, loggedOut, ended>> /\ req[s].pc = "user"
  BY DEF CheckUser, At
<1>2. CASE Finish(s) /\ UNCHANGED signed
  BY <1>1, <1>2, FinishLife DEF Resting
<1>3. CASE Goto(s, "permit") /\ UNCHANGED signed
  <2>1. OnlyMoves(s) /\ req'[s].pc = "permit"
    BY <1>3, GotoMoves DEF IInv, Pcs
  <2>2. RenewSound(s)'
    BY <2>1 DEF RenewSound, At
  <2> QED  BY <1>1, <1>3, <2>1, <2>2, QuietLife DEF Resting
<1>4. CASE Goto(s, "drop") /\ UNCHANGED signed /\ ~ UserFound(req[s].sent)
  BY <1>1, <1>4, DoubtLife DEF Resting
<1> QED  BY <1>1, <1>2, <1>3, <1>4, SignLife DEF CheckUser

\* Rows go, and with them their sessions' keys.
LEMMA EndLife ==
  ASSUME IInv, IInv', LifeInv, UNCHANGED <<now, role, signed>>,
         NEW T \in SUBSET Tokens, \A t \in T : row[t] # None,
         row' = [u \in Tokens |-> IF u \in T THEN None ELSE row[u]],
         NEW K, K = {SessionOf(t) : t \in T}, ended' = ended \cup K,
         \A u \in Tokens : Renewing(u)' <=> Renewing(u),
         \A j \in Tokens \ K : Dropping(j)' <=> Dropping(j)
  PROVE  K \subseteq Tokens /\ L!End(K) /\ Doubted' = Doubted \ K /\ SignedAlike'
<1>1. KeysKnown /\ KeysKnown'
  BY KeysAre
<1>2. \A u \in Tokens : SessionOf(u)' = SessionOf(u)
  BY DEF SessionOf
<1>3. \A t \in T : IsSigned(t) /\ SessionOf(t) \in Tokens /\ Key[SessionOf(t)] = t
  BY <1>1 DEF IInv, SignedSound, IsSigned, KeysKnown
<1>4. \A k \in K : k \in Tokens /\ Key[k] \in T
  BY <1>3
<1>5. {Key[k] : k \in K} = T
  BY <1>3, <1>4
<1>6. ASSUME NEW j \in Tokens
      PROVE  Key'[j] = IF j \in K THEN None ELSE Key[j]
  BY <1>1, <1>2, <1>3, NoneAssumption DEF KeysKnown, Tokens
<1>7. Key' = [j \in Tokens |-> IF j \in K THEN None ELSE Key[j]]
  BY <1>6 DEF Key
<1>8. \A j \in Tokens : j \notin K /\ Key[j] # None =>
        Key[j] \in Tokens /\ row'[Key[j]] = row[Key[j]]
  BY <1>1, <1>3 DEF KeysKnown
<1>9. /\ Since' = [j \in Tokens |-> IF j \in K THEN 0 ELSE Since[j]]
      /\ Until' = [j \in Tokens |-> IF j \in K THEN 0 ELSE Until[j]]
      /\ GivenTo' = [j \in Tokens |-> IF j \in K THEN None ELSE GivenTo[j]]
  <2>1. ASSUME NEW j \in Tokens
        PROVE  /\ Since'[j] = IF j \in K THEN 0 ELSE Since[j]
               /\ Until'[j] = IF j \in K THEN 0 ELSE Until[j]
               /\ GivenTo'[j] = IF j \in K THEN None ELSE GivenTo[j]
    BY <1>6, <1>8 DEF Since, Until, GivenTo
  <2> QED  BY <2>1 DEF Since, Until, GivenTo
<1>10. Spent' = Spent \cup T
  <2>1. \A t \in T : ~ Renewing(t)
    BY DEF Renewing, LifeInv, RenewSound
  <2> QED  BY <1>3, <2>1 DEF Spent, IsSigned
<1>11. L!End(K)
  <2>1. \A k \in K : Key[k] # None
    <3>1. None \notin Tokens
      BY NoneAssumption DEF Tokens
    <3> QED  BY <1>4, <3>1
  <2>2. Spent' = Spent \cup {Key[k] : k \in K}
    BY <1>5, <1>10
  <2>3. UNCHANGED <<now, role>>
    OBVIOUS
  <2> QED  BY <1>7, <1>9, <2>1, <2>2, <2>3, Zenon DEF L!End, L!Sessions
<1>12. Doubted' = Doubted \ K
  BY <1>6 DEF Doubted
<1>13. SignedAlike'
  BY DEF LifeInv, SignedAlike, IsSigned, SessionOf
<1> QED  BY <1>4, <1>11, <1>12, <1>13

\* One request ends the session of the token t.
LEMMA EndOne ==
  ASSUME IInv, IInv', LifeInv, UNCHANGED <<now, role, signed>>,
         NEW s \in Slots, OnlyMoves(s), req[s].pc \in {"drop", "handle"},
         req'[s].pc \in {"idle", "respond"},
         NEW t \in Tokens, row[t] # None, row' = [row EXCEPT ![t] = None],
         At(s, "drop") => t = req[s].sent, ended' = ended \cup {SessionOf(t)},
         loggedOut' \subseteq loggedOut \cup {SessionOf(t)}
  PROVE  /\ SessionOf(t) \in Tokens /\ L!End({SessionOf(t)})
         /\ Doubted' = Doubted \ {SessionOf(t)} /\ LifeInv'
<1>1. row' = [u \in Tokens |-> IF u \in {t} THEN None ELSE row[u]]
  BY DEF IInv, TypeOK
<1>2. \A u \in Tokens : Renewing(u)' <=> Renewing(u)
  BY DEF Renewing, OnlyMoves, At
<1>3. \A j \in Tokens \ {SessionOf(t)} : Dropping(j)' <=> Dropping(j)
  BY DEF Dropping, OnlyMoves, At, SessionOf
<1>4. {t} \in SUBSET Tokens /\ {SessionOf(t)} = {SessionOf(u) : u \in {t}}
  OBVIOUS
<1>5. /\ SessionOf(t) \in Tokens /\ L!End({SessionOf(t)})
      /\ Doubted' = Doubted \ {SessionOf(t)} /\ SignedAlike'
  <2> DEFINE T == {t}
             K == {SessionOf(t)}
  <2>1. /\ T \in SUBSET Tokens /\ \A u \in T : row[u] # None
        /\ row' = [u \in Tokens |-> IF u \in T THEN None ELSE row[u]]
        /\ K = {SessionOf(u) : u \in T} /\ ended' = ended \cup K
        /\ \A j \in Tokens \ K : Dropping(j)' <=> Dropping(j)
        /\ SessionOf(t) \in K
    BY <1>1, <1>3, <1>4
  <2> HIDE DEF T, K
  <2>2. K \subseteq Tokens /\ L!End(K) /\ Doubted' = Doubted \ K /\ SignedAlike'
    BY <1>2, <2>1, EndLife
  <2> QED  BY <2>1, <2>2 DEF K
<1>6. \A u \in Tokens : row'[u] \in {row[u], None} /\ (row'[u] # None => u # t)
  BY DEF IInv, TypeOK
<1>7. EndedSound'
  <2>1. ASSUME NEW u \in Tokens, row'[u] # None
        PROVE  SessionOf(u) \notin ended \cup {SessionOf(t)}
    BY <1>6, <2>1 DEF LifeInv, EndedSound, IInv, OneRowPerSession
  <2>2. IsSigned(SessionOf(t))
    BY DEF IInv, SignedSound, IsSigned
  <2> QED  BY <2>1, <2>2 DEF LifeInv, EndedSound, IsSigned, SessionOf
<1>8. RenewSound(s)'
  BY DEF RenewSound, At
<1>9. \A x \in Slots : RenewSound(x)'
  BY <1>6, <1>8, RenewFrame DEF OnlyMoves, LifeInv, SignedKept
<1> QED  BY <1>5, <1>7, <1>9 DEF LifeInv

LEMMA DropSessionLife ==
  ASSUME IInv, IInv', LifeInv, NEW s \in Slots, DropSession(s)
  PROVE  LifeStep
<1>1. PICK t \in Tokens : t = req[s].sent
  BY DEF DropSession, At, IInv, ReqSound, Looking, IsSigned
<1>2. /\ UNCHANGED <<now, role, signed, loggedOut>> /\ req[s].pc = "drop" /\ Finish(s)
      /\ row' = [row EXCEPT ![t] = None]
      /\ ended' = IF row[t] # None THEN ended \cup {SessionOf(t)} ELSE ended
  BY <1>1 DEF DropSession, At
<1>3. CASE row[t] = None
  <2>1. row' = row
    BY <1>2, <1>3 DEF IInv, TypeOK
  <2> QED  BY <1>2, <1>3, <2>1, FinishLife DEF Resting
<1>4. CASE row[t] # None
  <2>1. OnlyMoves(s) /\ req'[s].pc = "idle"
    BY <1>2, FinishMoves, IdleFields DEF IInv
  <2>2. ended' = ended \cup {SessionOf(t)} /\ loggedOut' \subseteq loggedOut \cup {SessionOf(t)}
    BY <1>2, <1>4
  <2>3. /\ SessionOf(t) \in Tokens /\ L!End({SessionOf(t)})
        /\ Doubted' = Doubted \ {SessionOf(t)} /\ LifeInv'
    BY <1>1, <1>2, <1>4, <2>1, <2>2, EndOne
  <2>4. SessionOf(t) \in Doubted
    <3>1. KeysKnown
      BY KeysAre
    <3>2. Key[SessionOf(t)] = t /\ t # None
      BY <1>4, <2>3, <3>1, NoneAssumption DEF KeysKnown, Tokens
    <3> QED  BY <1>1, <1>2, <2>3, <3>2 DEF Doubted, Dropping, At
  <2>5. L!Drop(SessionOf(t))
    BY <1>2, <2>3, <2>4 DEF L!Drop
  <2> QED  BY <2>3, <2>5 DEF LifeStep, L!Next, L!Sessions
<1> QED  BY <1>3, <1>4

LEMMA LogoutLife ==
  ASSUME IInv, IInv', LifeInv, NEW s \in Slots, Logout(s)
  PROVE  LifeStep
<1>1. PICK t \in Tokens : t = req[s].token /\ req[s].reply \in 0..MaxTokens \cup {None}
  BY DEF Logout, At, IInv, ReqSound, Guarded, Looking, IsSigned, Tokens
<1>2. UNCHANGED <<now, role, signed>> /\ req[s].pc = "handle"
  BY DEF Logout, At
<1>3. CASE Answer(s, req[s].reply) /\ UNCHANGED <<row, loggedOut, ended>>
  <2>1. OnlyMoves(s) /\ req'[s].pc = "respond"
    BY <1>1, <1>3, AnswerMoves DEF IInv
  <2>2. RenewSound(s)'
    BY <2>1 DEF RenewSound, At
  <2> QED  BY <1>2, <1>3, <2>1, <2>2, QuietLife DEF Resting
<1>4. CASE /\ row[t] # None
           /\ row' = [row EXCEPT ![t] = None]
           /\ loggedOut' = loggedOut \cup {SessionOf(t)}
           /\ ended' = ended \cup {SessionOf(t)}
           /\ Answer(s, 0)
  <2>1. OnlyMoves(s) /\ req'[s].pc = "respond"
    BY <1>4, AnswerMoves, SessionAssumption DEF IInv
  <2>2. loggedOut' \subseteq loggedOut \cup {SessionOf(t)} /\ ~ At(s, "drop")
    BY <1>2, <1>4 DEF At
  <2>3. /\ SessionOf(t) \in Tokens /\ L!End({SessionOf(t)})
        /\ Doubted' = Doubted \ {SessionOf(t)} /\ LifeInv'
    BY <1>2, <1>4, <2>1, <2>2, EndOne
  <2>4. L!LogOut(SessionOf(t))
    BY <1>4, <2>3 DEF L!LogOut
  <2> QED  BY <2>3, <2>4 DEF LifeStep, L!Next, L!Sessions
<1> QED  BY <1>1, <1>3, <1>4 DEF Logout

LEMMA SweepLife ==
  ASSUME IInv, IInv', LifeInv, Sweep
  PROVE  LifeStep
<1> DEFINE T == {t \in Tokens : Sweepable(t)}
           K == {SessionOf(t) : t \in T}
<1>1. /\ UNCHANGED <<now, role, signed, req, loggedOut>>
      /\ row' = [u \in Tokens |-> IF u \in T THEN None ELSE row[u]]
      /\ ended' = ended \cup K
  BY DEF Sweep
<1>2. /\ T \in SUBSET Tokens /\ \A t \in T : row[t] # None
      /\ \A t \in Tokens : t \in T <=> row[t] # None /\ row[t].expiresAt < now
      /\ K = {SessionOf(t) : t \in T}
  BY DEF Sweepable
<1>3. /\ \A u \in Tokens : Renewing(u)' <=> Renewing(u)
      /\ \A j \in Tokens \ K : Dropping(j)' <=> Dropping(j)
  BY <1>1 DEF Renewing, Dropping, At, SessionOf
<1> HIDE DEF T, K
<1>4. K \subseteq Tokens /\ L!End(K) /\ Doubted' = Doubted \ K /\ SignedAlike'
  BY <1>1, <1>2, <1>3, EndLife
<1>5. KeysKnown
  BY KeysAre
<1>6. K = L!Expired
  <2>1. ASSUME NEW k \in Tokens
        PROVE  k \in K <=> Key[k] # None /\ row[Key[k]].expiresAt < now
    <3>1. CASE k \in K
      <4>1. PICK t \in T : k = SessionOf(t)
        BY <1>2, <3>1
      <4>2. Key[k] = t
        BY <1>2, <1>5, <4>1 DEF KeysKnown
      <4> QED  BY <1>2, <3>1, <4>2, NoneAssumption DEF Tokens
    <3>2. CASE Key[k] # None /\ row[Key[k]].expiresAt < now
      <4>1. Key[k] \in Tokens /\ row[Key[k]] # None /\ SessionOf(Key[k]) = k
        BY <1>5, <3>2 DEF KeysKnown
      <4> QED  BY <1>2, <3>2, <4>1
    <3> QED  BY <3>1, <3>2
  <2>2. \A k \in Tokens : Key[k] # None => Until[k] = row[Key[k]].expiresAt
    BY DEF Until
  <2> QED  BY <1>4, <2>1, <2>2 DEF L!Expired, L!Sessions
<1>7. L!Expire
  BY <1>1, <1>4, <1>6 DEF L!Expire
<1>8. EndedSound'
  <2>1. ASSUME NEW u \in Tokens, row'[u] # None  PROVE SessionOf(u) \notin ended \cup K
    BY <1>1, <1>2, <2>1 DEF LifeInv, EndedSound, IInv, OneRowPerSession
  <2>2. \A k \in K : IsSigned(k)
    BY <1>2 DEF IInv, SignedSound, IsSigned
  <2> QED  BY <1>1, <2>1, <2>2 DEF LifeInv, EndedSound, IsSigned, SessionOf
<1>9. \A x \in Slots : RenewSound(x)'
  BY <1>1, RenewFrame DEF LifeInv, SignedKept
<1> QED  BY <1>4, <1>7, <1>8, <1>9 DEF LifeStep, LifeInv, L!Next

LEMMA RenewSessionLife ==
  ASSUME IInv, IInv', LifeInv, NEW s \in Slots, RenewSession(s)
  PROVE  LifeStep
<1>1. UNCHANGED <<now, role, signed, loggedOut, ended>> /\ req[s].pc = "renew"
  BY DEF RenewSession, At
<1>2. PICK t \in Tokens, n \in Tokens, k \in Tokens :
        /\ t = req[s].sent /\ n = req[s].token /\ IsSigned(t) /\ IsSigned(n)
        /\ SessionOf(t) = k /\ SessionOf(n) = k
  BY <1>1 DEF IInv, SignedSound, ReqSound, At, Looking, Guarded, IsSigned
<1>3. CASE Finish(s) /\ UNCHANGED row
  BY <1>1, <1>3, FinishLife DEF Resting
<1>4. CASE /\ row[t] # None
           /\ row' = [row EXCEPT ![t] = None, ![n] = RenewedRow(s)]
           /\ req' = [req EXCEPT ![s].pc = "permit", ![s].reply = n]
  <2>1. /\ row[n] = None /\ n # t /\ signed[t].iat <= signed[n].iat
        /\ req[s].createdAt = row[t].createdAt
    BY <1>1, <1>2, <1>4 DEF LifeInv, RenewSound, At
  <2>2. OnlyMoves(s) /\ req'[s].pc = "permit"
    BY <1>4 DEF IInv, TypeOK, OnlyMoves, ReqRow
  <2>3. signed[t].iat \in Nat /\ signed[n].iat \in Nat /\ now \in Nat /\ Lifetime \in Nat
    BY <1>2, SessionAssumption DEF IInv, TypeOK, IsSigned, Claims
  <2>4. /\ RenewedRow(s).expiresAt = Exp(n) /\ RenewedRow(s).createdAt = row[t].createdAt
        /\ row[t].expiresAt = Exp(t) /\ Exp(n) \in Nat
        /\ Exp(t) <= Exp(n) /\ Exp(n) <= now + Lifetime
    BY <1>2, <1>4, <2>1, <2>3
       DEF RenewedRow, Exp, IInv, OneRowPerSession, LifeInv, SignedAlike
  <2>5. RenewedRow(s) \in SessionRow /\ RenewedRow(s) # None
    <3>1. req[s].createdAt \in Nat
      BY DEF IInv, TypeOK, ReqRow
    <3>2. Exp(req[s].token) \in Nat
      BY <1>2, <2>4
    <3> QED  BY <3>1, <3>2, NoneAssumption DEF RenewedRow, SessionRow
  <2>6. /\ row'[n] = RenewedRow(s) /\ row'[t] = None
        /\ \A u \in Tokens : u # t /\ u # n => row'[u] = row[u]
    <3> HIDE DEF RenewedRow
    <3> QED  BY <1>4, <2>1 DEF IInv, TypeOK
  <2>7. KeysKnown /\ KeysKnown'
    BY KeysAre
  <2>8. Key[k] = t /\ Key'[k] = n /\ t # None /\ n # None
    <3>1. None \notin Tokens
      BY NoneAssumption DEF Tokens
    <3>2. SessionOf(n)' = k /\ row'[n] # None
      BY <1>1, <1>2, <2>5, <2>6 DEF SessionOf
    <3> QED  BY <1>2, <1>4, <2>7, <3>1, <3>2 DEF KeysKnown
  <2>9. ASSUME NEW j \in Tokens, j # k
        PROVE  /\ Key'[j] = Key[j]
               /\ Key[j] # None => row'[Key[j]] = row[Key[j]]
    <3>1. \A u \in Tokens : SessionOf(u)' = SessionOf(u)
      BY <1>1 DEF SessionOf
    <3>2. \A u \in Tokens : SessionOf(u) = j => row'[u] = row[u]
      BY <1>2, <2>6, <2>9
    <3> QED  BY <2>7, <3>1, <3>2 DEF KeysKnown
  <2>10. Key' = [Key EXCEPT ![k] = n]
    BY <2>8, <2>9 DEF Key
  <2>11. Until' = [Until EXCEPT ![k] = Exp(n)]
    <3>1. ASSUME NEW j \in Tokens
          PROVE  Until'[j] = IF j = k THEN Exp(n) ELSE Until[j]
      BY <2>4, <2>6, <2>8, <2>9 DEF Until
    <3> QED  BY <3>1 DEF Until
  <2>12. Since' = Since
    <3>1. ASSUME NEW j \in Tokens  PROVE Since'[j] = Since[j]
      BY <2>4, <2>6, <2>8, <2>9 DEF Since
    <3> QED  BY <3>1 DEF Since
  <2>13. GivenTo' = GivenTo
    <3>1. signed[n].role = signed[t].role
      BY <1>2 DEF LifeInv, SignedAlike
    <3>2. ASSUME NEW j \in Tokens  PROVE GivenTo'[j] = GivenTo[j]
      BY <1>1, <2>8, <2>9, <3>1 DEF GivenTo
    <3> QED  BY <3>2 DEF GivenTo
  <2>14. /\ Renewing(n) /\ ~ Renewing(t)
         /\ \A u \in Tokens : Renewing(u)' <=> Renewing(u) /\ u # n
    <3>1. \A x \in Slots \ {s} : ~ (At(x, "renew") /\ req[x].token = n)
      BY <1>1, <1>2 DEF IInv, DeliveredOnce, Undelivered, At
    <3>2. ~ Renewing(t)
      BY <1>4 DEF Renewing, LifeInv, RenewSound
    <3> QED  BY <1>1, <1>2, <2>2, <3>1, <3>2 DEF Renewing, OnlyMoves, At
  <2>15. Spent' = Spent \cup {t}
    BY <1>1, <1>2, <2>5, <2>6, <2>14 DEF Spent, IsSigned
  <2>16. \A j \in Tokens : Dropping(j)' <=> Dropping(j)
    BY <1>1, <2>2 DEF Dropping, OnlyMoves, At, SessionOf
  <2>17. Doubted' = Doubted
    BY <2>8, <2>9, <2>16 DEF Doubted
  <2>18. L!Renew(k, n, Exp(n))
    <3>1. n \notin Spent /\ Until[k] <= Exp(n) /\ \A j \in Tokens : Key[j] # n
      BY <2>1, <2>4, <2>7, <2>8, <2>14 DEF Spent, Until, KeysKnown
    <3>2. Spent' = Spent \cup {Key[k]} /\ Key[k] # None
      BY <2>8, <2>15
    <3> QED  BY <1>1, <2>4, <2>10, <2>11, <2>12, <2>13, <2>17, <3>1, <3>2
             DEF L!Renew, L!Sessions
  <2>19. EndedSound'
    <3>1. k \notin ended
      BY <1>2, <1>4 DEF LifeInv, EndedSound
    <3>2. ASSUME NEW u \in Tokens, row'[u] # None  PROVE SessionOf(u) \notin ended
      BY <1>2, <2>6, <3>1, <3>2 DEF LifeInv, EndedSound
    <3> QED  BY <1>1, <3>2 DEF LifeInv, EndedSound, IsSigned, SessionOf
  <2>20. SignedAlike'
    BY <1>1 DEF LifeInv, SignedAlike, IsSigned, SessionOf
  <2>21. ASSUME NEW x \in Slots  PROVE RenewSound(x)'
    <3>1. CASE x = s
      BY <2>2, <3>1 DEF RenewSound, At
    <3>2. CASE x # s
      <4>1. req'[x] = req[x] /\ RenewSound(x) /\ ReqSound(x)
        BY <2>2, <3>2 DEF OnlyMoves, LifeInv, IInv
      <4>2. req[x].pc \in Looking =>
              /\ IsSigned(req[x].sent) /\ IsSigned(req[x].token) /\ req[x].sent # n
              /\ At(x, "renew") => req[x].token # n
        BY <1>1, <1>2, <3>2, <4>1
           DEF IInv, DeliveredOnce, Undelivered, ReqSound, Guarded, At
      <4> QED  BY <1>1, <2>6, <4>1, <4>2 DEF RenewSound, At, Looking, IsSigned
    <3> QED  BY <3>1, <3>2
  <2> QED  BY <2>4, <2>18, <2>19, <2>20, <2>21 DEF LifeStep, LifeInv, L!Next, L!Sessions
<1> QED  BY <1>2, <1>3, <1>4 DEF RenewSession, Renewable, RenewalReply

LEMMA LoginCreateLife ==
  ASSUME IInv, IInv', LifeInv, NEW s \in Slots, LoginCreate(s)
  PROVE  LifeStep
<1>1. UNCHANGED <<now, role, loggedOut, ended>> /\ req[s].pc = "loginCreate"
  BY DEF LoginCreate, At
<1>2. req[s].role \in Roles /\ TypeOK /\ now \in Nat
  BY <1>1 DEF IInv, ReqSound, At, TypeOK
<1>3. CASE Finish(s) /\ UNCHANGED <<signed, row>>
  BY <1>1, <1>3, FinishLife DEF Resting
<1>4. CASE /\ CanSign /\ Sign(req[s].role, NextToken)
           /\ row' = [row EXCEPT ![NextToken] =
                        [createdAt |-> now, expiresAt |-> now + Lifetime]]
           /\ Answer(s, NextToken)
  <2>1. PICK n \in Tokens :
          /\ n = NextToken /\ ~ IsSigned(n) /\ SignedKept /\ signed'[n] # None
          /\ \A t \in Tokens : t # n => signed'[t] = signed[t]
          /\ signed'[n].role = req[s].role
          /\ signed'[n].session = n /\ signed'[n].iat = now
    BY <1>2, <1>4, SigningKeeps DEF CanSign
  <2>2. OnlyMoves(s) /\ req'[s].pc = "respond"
    BY <1>2, <1>4, <2>1, AnswerMoves DEF Tokens
  <2> DEFINE r == [createdAt |-> now, expiresAt |-> now + Lifetime]
  <2>3. r # None /\ r.createdAt = now /\ r.expiresAt = now + Lifetime
    BY <1>2, SessionAssumption, NoneAssumption DEF SessionRow
  <2>4. row' = [row EXCEPT ![n] = r]
    BY <1>4, <2>1
  <2> HIDE DEF r
  <2>5. row'[n] = r /\ \A t \in Tokens : t # n => row'[t] = row[t]
    BY <1>2, <2>4 DEF TypeOK
  <2>6. /\ row[n] = None
        /\ \A t \in Tokens : IsSigned(t) => SessionOf(t) # n
        /\ \A x \in Slots : /\ req[x].pc \in Looking => req[x].sent # n
                            /\ ~ Undelivered(x, n)
    BY <2>1, NextUnknown
  <2>7. /\ SessionOf(n)' = n
        /\ \A t \in Tokens : IsSigned(t) => /\ SessionOf(t)' = SessionOf(t)
                                            /\ t # n /\ SessionOf(t) # n
    BY <2>1, <2>6 DEF SessionOf, IsSigned
  <2>8. KeysKnown /\ KeysKnown'
    BY KeysAre
  <2>9. \A t \in Tokens : row[t] # None => IsSigned(t)
    BY DEF IInv, SignedSound
  <2>10. Key[n] = None /\ Key'[n] = n /\ n # None
    BY <2>3, <2>5, <2>7, <2>8, <2>9, NoneAssumption DEF KeysKnown, Tokens
  <2>11. ASSUME NEW j \in Tokens, j # n
         PROVE  /\ Key'[j] = Key[j]
                /\ Key[j] # None => /\ Key[j] \in Tokens /\ Key[j] # n
                                    /\ row'[Key[j]] = row[Key[j]]
                                    /\ signed'[Key[j]] = signed[Key[j]]
    <3>1. \A t \in Tokens : row'[t] # None /\ SessionOf(t)' = j
                            <=> row[t] # None /\ SessionOf(t) = j
      BY <2>5, <2>6, <2>7, <2>9, <2>11
    <3>2. Key'[j] = Key[j]
      BY <2>8, <3>1 DEF KeysKnown
    <3>3. Key[j] # None => Key[j] \in Tokens /\ row[Key[j]] # None
      BY <2>8 DEF KeysKnown
    <3> QED  BY <2>1, <2>5, <2>6, <3>2, <3>3
  <2>12. Key' = [Key EXCEPT ![n] = n]
    <3>1. ASSUME NEW j \in Tokens
          PROVE  Key'[j] = IF j = n THEN n ELSE Key[j]
      BY <2>10, <2>11
    <3> QED  BY <3>1 DEF Key
  <2>13. /\ Since' = [Since EXCEPT ![n] = now]
         /\ Until' = [Until EXCEPT ![n] = now + Lifetime]
         /\ GivenTo' = [GivenTo EXCEPT ![n] = req[s].role]
    <3>1. ASSUME NEW j \in Tokens
          PROVE  /\ Since'[j] = IF j = n THEN now ELSE Since[j]
                 /\ Until'[j] = IF j = n THEN now + Lifetime ELSE Until[j]
                 /\ GivenTo'[j] = IF j = n THEN req[s].role ELSE GivenTo[j]
      BY <2>1, <2>3, <2>5, <2>10, <2>11 DEF Since, Until, GivenTo
    <3> QED  BY <3>1 DEF Since, Until, GivenTo
  <2>14. \A u \in Tokens : Renewing(u)' <=> Renewing(u)
    BY <1>1, <2>2 DEF Renewing, OnlyMoves, At
  <2>15. Spent' = Spent /\ n \notin Spent
    BY <2>1, <2>3, <2>5, <2>14 DEF Spent, IsSigned
  <2>16. ASSUME NEW j \in Tokens  PROVE Dropping(j)' <=> Dropping(j)
    <3>1. \A x \in Slots : At(x, "drop") => IsSigned(req[x].sent)
      BY DEF IInv, ReqSound, At, Looking
    <3> QED  BY <1>1, <2>2, <2>7, <3>1 DEF Dropping, OnlyMoves, At, IsSigned
  <2>17. Doubted' = Doubted
    <3>1. ~ Dropping(n)
      <4>1. \A x \in Slots : At(x, "drop") => IsSigned(req[x].sent)
        BY DEF IInv, ReqSound, At, Looking
      <4> QED  BY <2>7, <4>1 DEF Dropping, IsSigned
    <3> QED  BY <2>11, <2>16, <3>1 DEF Doubted
  <2>18. n \notin ended
    BY <2>1 DEF LifeInv, EndedSound
  <2>19. L!Begin(n, req[s].role)
    <3>1. \A j \in Tokens : Key[j] # n
      BY <2>6, <2>8, <2>10 DEF KeysKnown
    <3> QED  BY <1>1, <2>10, <2>12, <2>13, <2>15, <2>17, <2>18, <3>1
             DEF L!Begin, L!Sessions
  <2>20. EndedSound'
    <3>1. ASSUME NEW u \in Tokens, row'[u] # None  PROVE SessionOf(u)' \notin ended
      BY <2>5, <2>7, <2>9, <2>18, <3>1 DEF LifeInv, EndedSound
    <3>2. \A k \in ended : IsSigned(k)'
      BY <2>1 DEF LifeInv, EndedSound, IsSigned, SignedKept
    <3> QED  BY <1>1, <3>1, <3>2 DEF LifeInv, EndedSound
  <2>21. SignedAlike'
    <3>1. ASSUME NEW u \in Tokens, signed'[u] # None
          PROVE  /\ signed'[signed'[u].session].session = signed'[u].session
                 /\ signed'[u].role = signed'[signed'[u].session].role
                 /\ signed'[u].iat <= now
      <4>1. CASE u = n
        BY <1>2, <2>1, <4>1
      <4>2. CASE u # n
        <5>1. IsSigned(u) /\ IsSigned(SessionOf(u)) /\ signed'[u] = signed[u]
          BY <2>1, <3>1, <4>2 DEF IsSigned, IInv, SignedSound
        <5>2. signed'[SessionOf(u)] = signed[SessionOf(u)]
          BY <2>1, <5>1 DEF IsSigned
        <5> QED  BY <5>1, <5>2 DEF LifeInv, SignedAlike, SessionOf
      <4> QED  BY <4>1, <4>2
    <3> QED  BY <1>1, <3>1 DEF SignedAlike, SessionOf, IsSigned
  <2>22. ASSUME NEW x \in Slots  PROVE RenewSound(x)'
    <3>1. CASE x = s
      BY <2>2, <3>1 DEF RenewSound, At
    <3>2. CASE x # s
      <4>1. req'[x] = req[x] /\ RenewSound(x) /\ ReqSound(x)
        BY <2>2, <3>2 DEF OnlyMoves, LifeInv, IInv
      <4>2. req[x].pc \in Looking =>
              /\ IsSigned(req[x].sent) /\ IsSigned(req[x].token)
              /\ req[x].sent # n /\ req[x].token # n
        BY <2>1, <4>1, NextUnknown DEF ReqSound, Guarded
      <4> QED  BY <2>1, <2>5, <4>1, <4>2 DEF RenewSound, At, Looking, IsSigned
    <3> QED  BY <3>1, <3>2
  <2> QED  BY <1>2, <2>19, <2>20, <2>21, <2>22 DEF LifeStep, LifeInv, L!Next, L!Sessions
<1> QED  BY <1>3, <1>4 DEF LoginCreate

\* Requests that come, go on past the guard and are answered.
LEMMA OtherLife ==
  ASSUME IInv, IInv', LifeInv, NEW s \in Slots,
         \/ Permit(s) \/ Use(s) \/ Respond(s) \/ RequestLost(s)
         \/ \E b \in Browsers : Login(s, b)
  PROVE  LifeStep
<1>1. Resting
  BY DEF Permit, Use, Respond, RequestLost, Login, Resting
<1>2. CASE Respond(s) \/ RequestLost(s)
  BY <1>1, <1>2, FinishLife DEF Respond, RequestLost
<1>3. CASE \/ Goto(s, "handle") /\ At(s, "permit")
           \/ Answer(s, req[s].reply) /\ req[s].pc \in {"permit", "handle"}
  <2>1. req[s].reply \in 0..MaxTokens \cup {None}
    BY DEF IInv, TypeOK, ReqRow
  <2>2. OnlyMoves(s) /\ req'[s].pc \in {"handle", "respond"}
    BY <1>3, <2>1, GotoMoves, AnswerMoves DEF IInv, Pcs
  <2>3. RenewSound(s)'
    BY <2>2 DEF RenewSound, At
  <2> QED  BY <1>1, <1>3, <2>2, <2>3, QuietLife DEF At
<1>4. ASSUME NEW b \in Browsers, Login(s, b)  PROVE LifeStep
  <2> DEFINE r == [IdleReq EXCEPT !.pc = "loginCreate", !.goal = "login",
                                  !.browser = b, !.role = role]
  <2>1. r.pc = "loginCreate"
    BY DEF IdleReq
  <2>2. req' = [req EXCEPT ![s] = r] /\ At(s, "idle")
    BY <1>4 DEF Login
  <2> HIDE DEF r
  <2>3. OnlyMoves(s) /\ req'[s].pc = "loginCreate" /\ req[s].pc = "idle"
    BY <2>1, <2>2 DEF OnlyMoves, IInv, TypeOK, At
  <2>4. RenewSound(s)'
    BY <2>3 DEF RenewSound, At
  <2> QED  BY <1>1, <2>3, <2>4, QuietLife
<1>5. CASE Permit(s) \/ Use(s)
  BY <1>3, <1>5 DEF Permit, Use, At
<1> QED  BY <1>2, <1>4, <1>5

\* Time passes, the role changes, or nothing happens.
LEMMA OutsideLife ==
  ASSUME IInv, IInv', LifeInv,
         \/ Tick \/ UNCHANGED vars \/ \E r \in Roles : ChangeRole(r)
  PROVE  LifeStep
<1>1. /\ UNCHANGED <<signed, row, loggedOut, ended>>
      /\ now \in Int /\ now' \in Int /\ now <= now'
  BY DEF Tick, ChangeRole, vars, IInv, TypeOK
<1>2. ASSUME NEW x \in Slots
      PROVE  /\ req'[x].pc = req[x].pc /\ req'[x].sent = req[x].sent
             /\ req'[x].token = req[x].token /\ req'[x].createdAt = req[x].createdAt
  <2>1. CASE UNCHANGED req
    BY <2>1
  <2>2. ASSUME NEW r \in Roles, ChangeRole(r)
        PROVE  req'[x] \in {req[x], [req[x] EXCEPT !.roles = @ \cup {r}]}
    BY <2>2 DEF ChangeRole
  <2>3. req[x] \in ReqRow
    BY DEF IInv, TypeOK
  <2> QED  BY <2>1, <2>2, <2>3 DEF Tick, vars, ReqRow
<1>3. UNCHANGED <<Key, Since, Until, GivenTo>>
  BY <1>1, RowsKept DEF SignedKept
<1>4. /\ \A t \in Tokens : Renewing(t)' <=> Renewing(t)
      /\ \A k \in Tokens : Dropping(k)' <=> Dropping(k)
  BY <1>1, <1>2 DEF Renewing, Dropping, At, SessionOf
<1>5. Spent' = Spent /\ Doubted' = Doubted
  BY <1>1, <1>3, <1>4 DEF Spent, Doubted
<1>6. EndedSound'
  BY <1>1 DEF LifeInv, EndedSound, IsSigned, SessionOf
<1>7. SignedAlike'
  <2>1. \A t \in Tokens : IsSigned(t) => signed[t].iat \in Int
    BY DEF IInv, TypeOK, IsSigned, Claims
  <2> QED  BY <1>1, <2>1 DEF LifeInv, SignedAlike, IsSigned, SessionOf
<1>8. \A x \in Slots : RenewSound(x)'
  BY <1>1, <1>2, RenewFrame DEF LifeInv, SignedKept
<1>9. [L!Next]_(L!vars)
  <2>1. CASE Tick
    <3>1. L!Tick
      BY <1>1, <1>3, <1>5, <2>1 DEF L!Tick, L!life, Tick
    <3> QED  BY <3>1 DEF L!Next
  <2>2. ASSUME NEW r \in Roles, ChangeRole(r)  PROVE [L!Next]_(L!vars)
    <3>1. L!ChangeRole
      BY <1>1, <1>3, <1>5, <2>2 DEF L!ChangeRole, L!life, ChangeRole
    <3> QED  BY <3>1 DEF L!Next
  <2>3. CASE UNCHANGED vars
    BY <1>1, <1>3, <1>5, <2>3 DEF L!vars, vars
  <2> QED  BY <2>1, <2>2, <2>3
<1> QED  BY <1>6, <1>7, <1>8, <1>9 DEF LifeStep, LifeInv

LEMMA InitLife == Init => LifeInv /\ L!Init
<1> SUFFICES ASSUME Init  PROVE LifeInv /\ L!Init
  OBVIOUS
<1>1. \A s \in Slots : req[s].pc = "idle"
  BY IdleFields DEF Init
<1>2. LifeInv
  BY <1>1 DEF Init, LifeInv, EndedSound, SignedAlike, IsSigned, RenewSound, At
<1>3. \A k : KeyIn(row, signed, k) = None
  BY DEF Init, KeyIn, HoldsIn
<1>4. /\ Key = [k \in Tokens |-> None] /\ GivenTo = [k \in Tokens |-> None]
      /\ Since = [k \in Tokens |-> 0] /\ Until = [k \in Tokens |-> 0]
  BY <1>3 DEF Key, Since, Until, GivenTo
<1>5. Spent = {} /\ Doubted = {}
  BY <1>4 DEF Init, Spent, Doubted
<1> QED  BY <1>2, <1>4, <1>5 DEF Init, L!Init, L!Sessions

LEMMA NextLife == ASSUME IInv, IInv', LifeInv, [Next]_vars PROVE LifeStep
<1>1. ASSUME NEW s \in Slots, NEW b \in Browsers, NEW g \in Goals, Send(s, b, g)
      PROVE  LifeStep
  BY <1>1, SendLife
<1>2. ASSUME NEW s \in Slots,
             \/ ReadSession(s) \/ CheckUser(s) \/ DropSession(s) \/ RenewSession(s)
             \/ Logout(s) \/ LoginCreate(s)
      PROVE  LifeStep
  BY <1>2, ReadSessionLife, CheckUserLife, DropSessionLife, RenewSessionLife,
     LogoutLife, LoginCreateLife
<1>3. ASSUME NEW s \in Slots,
             \/ Permit(s) \/ Use(s) \/ Respond(s) \/ RequestLost(s)
             \/ \E b \in Browsers : Login(s, b)
      PROVE  LifeStep
  BY <1>3, OtherLife
<1>4. CASE \/ Tick \/ UNCHANGED vars \/ \E r \in Roles : ChangeRole(r)
  BY <1>4, OutsideLife
<1>5. CASE Sweep
  BY <1>5, SweepLife
<1> QED  BY <1>1, <1>2, <1>3, <1>4, <1>5 DEF Next, Quiescent

\* session-token.guard.ts:78 replaces a session's row in the midst of logouts,
\* drops and sweeps, and of other renewals; yet every step of the requests is one
\* event in the life of a session, or none.
THEOREM SessionsLiveOnce == Spec => L!Spec
<1>1. Init => LifeInv /\ L!Init
  BY InitLife
<1>2. IInv /\ IInv' /\ LifeInv /\ [Next]_vars => LifeInv' /\ [L!Next]_(L!vars)
  BY NextLife DEF LifeStep
<1> QED  BY <1>1, <1>2, Invariant, PTL DEF Spec, L!Spec

\* No token serves two sessions, one that a renewal has replaced or whose session
\* is over opens nothing again, and a session that was logged out is over
\* (session-token.guard.ts:87, auth.repo.ts:137).
THEOREM ReplacedTokensOpenNothing == Spec => []L!Sound
  BY SessionsLiveOnce, L!SpentKeysOpenNothing, PTL
=============================================================================

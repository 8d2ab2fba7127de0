----------------------------- MODULE SessionLife -----------------------------
(***************************************************************************)
(* What the life of a session promises, as if each of its events were one   *)
(* step: it begins with a login, passes from key to key at renewals, and     *)
(* ends once, for a reason.  A key that has been replaced, or whose session  *)
(* is over, opens nothing again.                                              *)
(***************************************************************************)
EXTENDS Integers, TLAPS

CONSTANTS Keys, Roles, Lifetime, None
Sessions == Keys   \* a session is named for its first key

VARIABLES
  now,        \* the clock
  role,       \* the user's role
  key,        \* the one key of each session, None before it begins and after
  since,      \* when it began, 0 without a key
  until,      \* when its key expires, 0 without a key
  as,         \* the role it was given to, None without a key
  spent,      \* keys that no session will have again
  over,       \* sessions that have ended
  loggedOut,  \* those that a logout has ended
  doubted     \* sessions seen while the user had another role

life == <<key, since, until, as>>
vars == <<now, role, key, since, until, as, spent, over, loggedOut, doubted>>

Init ==
  /\ now = 0 /\ role \in Roles
  /\ key = [k \in Sessions |-> None] /\ as = [k \in Sessions |-> None]
  /\ since = [k \in Sessions |-> 0] /\ until = [k \in Sessions |-> 0]
  /\ spent = {} /\ over = {} /\ loggedOut = {} /\ doubted = {}

Begin(k, r) ==
  /\ k \notin over \cup spent /\ \A j \in Sessions : key[j] # k
  /\ key[k] = None
  /\ key' = [key EXCEPT ![k] = k] /\ as' = [as EXCEPT ![k] = r]
  /\ since' = [since EXCEPT ![k] = now] /\ until' = [until EXCEPT ![k] = now + Lifetime]
  /\ UNCHANGED <<now, role, spent, over, loggedOut, doubted>>

\* A renewal gives the session a key that was never used, and never less time.
Renew(k, t, e) ==
  /\ key[k] # None /\ t \notin spent /\ \A j \in Sessions : key[j] # t
  /\ until[k] <= e /\ e <= now + Lifetime
  /\ key' = [key EXCEPT ![k] = t] /\ until' = [until EXCEPT ![k] = e]
  /\ spent' = spent \cup {key[k]}
  /\ UNCHANGED <<now, role, since, as, over, loggedOut, doubted>>

\* The sessions of K end, and their keys go.
End(K) ==
  /\ \A k \in K : key[k] # None
  /\ key' = [k \in Sessions |-> IF k \in K THEN None ELSE key[k]]
  /\ as' = [k \in Sessions |-> IF k \in K THEN None ELSE as[k]]
  /\ since' = [k \in Sessions |-> IF k \in K THEN 0 ELSE since[k]]
  /\ until' = [k \in Sessions |-> IF k \in K THEN 0 ELSE until[k]]
  /\ spent' = spent \cup {key[k] : k \in K}
  /\ over' = over \cup K
  /\ UNCHANGED <<now, role>>

LogOut(k) ==
  /\ End({k}) /\ loggedOut' = loggedOut \cup {k} /\ doubted' = doubted \ {k}

Drop(k) == k \in doubted /\ End({k}) /\ doubted' = doubted \ {k} /\ UNCHANGED loggedOut

Expired == {k \in Sessions : key[k] # None /\ until[k] < now}
Expire == End(Expired) /\ doubted' = doubted \ Expired /\ UNCHANGED loggedOut

\* The user is seen without the session's role; that may come to nothing.
Doubt(k) ==
  /\ key[k] # None /\ as[k] # role
  /\ doubted' = doubted \cup {k}
  /\ UNCHANGED <<now, role, life, spent, over, loggedOut>>
Relent(k) ==
  /\ doubted' = doubted \ {k}
  /\ UNCHANGED <<now, role, life, spent, over, loggedOut>>

\* A key made for a renewal that does not happen.
Waste(t) ==
  /\ \A j \in Sessions : key[j] # t
  /\ spent' = spent \cup {t}
  /\ UNCHANGED <<now, role, life, over, loggedOut, doubted>>

Tick ==
  /\ now' = now + 1
  /\ UNCHANGED <<role, life, spent, over, loggedOut, doubted>>
ChangeRole ==
  /\ role' \in Roles
  /\ UNCHANGED <<now, life, spent, over, loggedOut, doubted>>

Next ==
  \/ \E k \in Sessions :
       \/ \E r \in Roles : Begin(k, r)
       \/ \E t \in Keys, e \in Nat : Renew(k, t, e)
       \/ LogOut(k) \/ Drop(k) \/ Doubt(k) \/ Relent(k)
  \/ Expire \/ Tick \/ ChangeRole
  \/ \E t \in Keys : Waste(t)

Spec == Init /\ [][Next]_vars

\* A session that is over has no key, one that is not has a key of its own that
\* was never replaced, and only sessions that are over were logged out.
Sound ==
  /\ \A k \in Sessions : key[k] # None =>
       /\ k \notin over /\ key[k] \in Keys \ spent
       /\ \A j \in Sessions : key[j] = key[k] => j = k
  /\ loggedOut \subseteq over

-----------------------------------------------------------------------------
TypeOK ==
  /\ key \in [Sessions -> Keys \cup {None}] /\ spent \subseteq Keys
  /\ over \subseteq Sessions

LEMMA EndSound ==
  ASSUME TypeOK, Sound, NEW K \in SUBSET Sessions, End(K),
         loggedOut' \subseteq loggedOut \cup K
  PROVE  (TypeOK /\ Sound)'
<1>1. \A k \in Sessions : key'[k] = IF k \in K THEN None ELSE key[k]
  BY DEF End
<1>2. \A k \in K : key[k] \in Keys
  BY DEF End, TypeOK
<1>3. TypeOK'
  BY <1>2 DEF End, TypeOK
<1>4. ASSUME NEW k \in Sessions, key'[k] # None
      PROVE  /\ k \notin over' /\ key'[k] \in Keys \ spent'
             /\ \A j \in Sessions : key'[j] = key'[k] => j = k
  BY <1>1, <1>4 DEF End, Sound
<1> QED  BY <1>3, <1>4 DEF End, Sound

\* What a key promises holds of every life that passes from key to key in the way
\* session-token.guard.ts:78 means it to.
THEOREM SpentKeysOpenNothing == Spec => []Sound
<1>1. Init => TypeOK /\ Sound
  BY DEF Init, TypeOK, Sound, Sessions
<1>2. TypeOK /\ Sound /\ [Next]_vars => (TypeOK /\ Sound)'
  <2> SUFFICES ASSUME TypeOK, Sound, [Next]_vars  PROVE (TypeOK /\ Sound)'
    OBVIOUS
  <2>1. ASSUME NEW k \in Sessions, NEW r \in Roles, Begin(k, r)
        PROVE  (TypeOK /\ Sound)'
    BY <2>1 DEF Begin, TypeOK, Sound, Sessions
  <2>2. ASSUME NEW k \in Sessions, NEW t \in Keys, NEW e \in Nat, Renew(k, t, e)
        PROVE  (TypeOK /\ Sound)'
    BY <2>2 DEF Renew, TypeOK, Sound, Sessions
  <2>3. ASSUME NEW k \in Sessions, LogOut(k) \/ Drop(k)  PROVE (TypeOK /\ Sound)'
    <3>1. {k} \in SUBSET Sessions /\ End({k}) /\ loggedOut' \subseteq loggedOut \cup {k}
      BY <2>3 DEF LogOut, Drop
    <3> QED  BY <3>1, EndSound
  <2>4. CASE Expire
    <3>1. /\ Expired \in SUBSET Sessions /\ End(Expired)
          /\ loggedOut' \subseteq loggedOut \cup Expired
      BY <2>4 DEF Expire, Expired
    <3> QED  BY <3>1, EndSound
  <2>5. ASSUME NEW t \in Keys, Waste(t)  PROVE (TypeOK /\ Sound)'
    BY <2>5 DEF Waste, TypeOK, Sound, life
  <2>6. CASE \/ Tick \/ ChangeRole \/ UNCHANGED vars
             \/ \E k \in Sessions : Doubt(k) \/ Relent(k)
    BY <2>6 DEF Tick, ChangeRole, Doubt, Relent, TypeOK, Sound, life, vars
  <2> QED  BY <2>1, <2>2, <2>3, <2>4, <2>5, <2>6 DEF Next
<1> QED  BY <1>1, <1>2, PTL DEF Spec
=============================================================================

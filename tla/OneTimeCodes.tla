----------------------------- MODULE OneTimeCodes -----------------------------
(***************************************************************************)
(* What one-time codes promise, as if each use were one step.  A code that   *)
(* was sent admits one request.  What is admitted may open one account for   *)
(* the address it was sent to, or set the password of one account that has    *)
(* the address.  Besides that, accounts change by staff and their owners,     *)
(* each of whose requests does one thing, too.                                *)
(***************************************************************************)
CONSTANTS Requests, Emails, Keys, Accounts, None
\* Keys are pairs <<e-mail, purpose>>; account 0 is none.

VARIABLES
  fresh,    \* keys with a code that is good
  unspent,  \* keys with a code that has admitted nobody, expired or not
  permit,   \* what each request may do, once
  address,  \* the e-mail of each account, None of those to come
  resets    \* accounts whose password a code has set

vars == <<fresh, unspent, permit, address, resets>>

Nothing == [may |-> "nothing", key |-> <<None, None>>, account |-> 0]
May(what, k, a) == [may |-> what, key |-> k, account |-> a]
Use(s, p) == permit' = [permit EXCEPT ![s] = p]

Init ==
  /\ fresh = {} /\ unspent = {} /\ resets = {}
  /\ permit = [s \in Requests |-> Nothing]
  /\ address \in [Accounts -> Emails \cup {None}]

\* A code that is sent takes the place of the one before.
Send(k) ==
  /\ fresh' = fresh \cup {k} /\ unspent' = unspent \cup {k}
  /\ UNCHANGED <<permit, address, resets>>
Expire(k) == fresh' = fresh \ {k} /\ UNCHANGED <<unspent, permit, address, resets>>

\* Any number of requests may present a code.
Present(s, k) ==
  /\ permit[s] = Nothing /\ k \in fresh
  /\ Use(s, May("ask", k, 0))
  /\ UNCHANGED <<fresh, unspent, address, resets>>

\* One is admitted.
Admit(s) ==
  LET k == permit[s].key
  IN /\ permit[s].may = "ask" /\ k \in unspent
     /\ fresh' = fresh \ {k} /\ unspent' = unspent \ {k}
     /\ Use(s, May(IF k[2] = "REGISTER" THEN "open" ELSE "find", k, 0))
     /\ UNCHANGED <<address, resets>>

Open(s, a) ==
  /\ permit[s].may = "open" /\ address[a] = None
  /\ address' = [address EXCEPT ![a] = permit[s].key[1]]
  /\ Use(s, Nothing) /\ UNCHANGED <<fresh, unspent, resets>>

Find(s, a) ==
  /\ permit[s].may = "find" /\ address[a] = permit[s].key[1]
  /\ Use(s, May("reset", permit[s].key, a))
  /\ UNCHANGED <<fresh, unspent, address, resets>>
Reset(s) ==
  /\ permit[s].may = "reset" /\ resets' = resets \cup {permit[s].account}
  /\ Use(s, Nothing) /\ UNCHANGED <<fresh, unspent, address>>

\* Staff enter an account; staff or the owner edit one: its address, or the password.
Engage(s, p) ==
  /\ permit[s] = Nothing
  /\ p.may \in {"enter", "edit"} /\ Use(s, p)
  /\ UNCHANGED <<fresh, unspent, address, resets>>
Enter(s, a, e) ==
  /\ permit[s].may = "enter" /\ address[a] = None
  /\ address' = [address EXCEPT ![a] = e]
  /\ Use(s, Nothing) /\ UNCHANGED <<fresh, unspent, resets>>
Edit(s, e) ==
  LET a == permit[s].account
  IN /\ permit[s].may = "edit" /\ address[a] # None
     /\ address' = [address EXCEPT ![a] = e]
     /\ resets' \in {resets, resets \ {a}}
     /\ Use(s, Nothing) /\ UNCHANGED <<fresh, unspent>>

\* A request that fails has had its permit; a crash takes them all.
GiveUp(s) == Use(s, Nothing) /\ UNCHANGED <<fresh, unspent, address, resets>>
Crash ==
  /\ permit' = [s \in Requests |-> Nothing]
  /\ UNCHANGED <<fresh, unspent, address, resets>>

Next ==
  \/ \E k \in Keys : Send(k) \/ Expire(k) \/ \E s \in Requests : Present(s, k)
  \/ \E s \in Requests :
       \/ Admit(s) \/ Reset(s) \/ GiveUp(s)
       \/ \E a \in Accounts : Open(s, a) \/ Find(s, a)
       \/ \E a \in Accounts, e \in Emails : Enter(s, a, e)
       \/ \E e \in Emails : Edit(s, e)
       \/ \E a \in Accounts \cup {0}, what \in {"enter", "edit"} :
            Engage(s, May(what, <<None, None>>, a))
  \/ Crash

Spec == Init /\ [][Next]_vars
===============================================================================

--------------------------- MODULE PurchaseLedger ---------------------------
(***************************************************************************)
(* What the purchase path promises, with every purchase a single step:     *)
(* an item leaves the cart exactly when its order appears; an order that   *)
(* costs nothing is paid and grants at once; a due order becomes paid only *)
(* together with the record of the one transfer that covers it and with    *)
(* the enrolments it buys.  Requests, transactions, locks, jobs and faults *)
(* do not exist here; Checkout is shown to implement this module.          *)
(***************************************************************************)
EXTENDS Integers

CONSTANTS Users, Courses, Children, TxIds, Amounts, None, MaxCarts, MaxOrders

VARIABLES cartItem, order, payment, enrolment, revoked, transfer

ledger == <<cartItem, order, payment, enrolment, revoked, transfer>>

Init ==
  /\ cartItem = [i \in 1..MaxCarts |-> None]
  /\ order = [o \in 1..MaxOrders |-> None]
  /\ payment = [t \in TxIds |-> 0]
  /\ enrolment = {}
  /\ revoked = {}
  /\ transfer = [t \in TxIds |-> None]

\* A user has a course in the cart at most once.
AddItem(i, u, c) ==
  /\ cartItem[i] = None
  /\ \A j \in 1..MaxCarts : cartItem[j] # [user |-> u, course |-> c]
  /\ cartItem' = [cartItem EXCEPT ![i] = [user |-> u, course |-> c]]
  /\ UNCHANGED <<order, payment, enrolment, revoked, transfer>>

DropItem(i) ==
  /\ cartItem[i] # None
  /\ cartItem' = [cartItem EXCEPT ![i] = None]
  /\ UNCHANGED <<order, payment, enrolment, revoked, transfer>>

\* Order o's customer u gains some courses among c and its children, and ends
\* up with c unless a teacher took it away while the purchase was under way.
Grant(o, u, c) ==
  \E new \in SUBSET (Children[c] \cup {c}) :
    /\ enrolment' = enrolment \cup ({u} \X new)
    /\ <<u, c>> \in enrolment' \/ o \in revoked

\* Cart item i becomes order o.
Place(o, i, total) ==
  /\ order[o] = None /\ cartItem[i] # None
  /\ cartItem' = [cartItem EXCEPT ![i] = None]
  /\ order' = [order EXCEPT ![o] =
                 [user |-> cartItem[i].user, course |-> cartItem[i].course,
                  total |-> total, cart |-> i,
                  status |-> IF total = 0 THEN "PAID" ELSE "PENDING"]]
  /\ IF total = 0 THEN Grant(o, cartItem[i].user, cartItem[i].course)
                  ELSE UNCHANGED enrolment
  /\ UNCHANGED <<payment, revoked, transfer>>

Book(t, o, a) ==
  /\ transfer[t] = None
  /\ transfer' = [transfer EXCEPT ![t] = [order |-> o, amount |-> a]]
  /\ UNCHANGED <<cartItem, order, payment, enrolment, revoked>>

Settle(t, o) ==
  /\ transfer[t] # None /\ payment[t] = 0
  /\ order[o] # None /\ order[o].status # "PAID"
  /\ \A x \in TxIds : payment[x] # o
  /\ transfer[t] = [order |-> o, amount |-> order[o].total]
  /\ payment' = [payment EXCEPT ![t] = o]
  /\ order' = [order EXCEPT ![o].status = "PAID"]
  /\ Grant(o, order[o].user, order[o].course)
  /\ UNCHANGED <<cartItem, revoked, transfer>>

\* By its customer or by the job; a payment and its enrolments stay.
Cancel(o) ==
  /\ order[o] # None
  /\ order' = [order EXCEPT ![o].status = "CANCELLED"]
  /\ UNCHANGED <<cartItem, payment, enrolment, revoked, transfer>>

Enrol(e) ==
  /\ enrolment' = enrolment \cup {e}
  /\ UNCHANGED <<cartItem, order, payment, revoked, transfer>>

\* orders: the purchases that lose the enrolment they brought.
Revoke(e, orders) ==
  /\ e \in enrolment
  /\ enrolment' = enrolment \ {e} /\ revoked' = revoked \cup orders
  /\ UNCHANGED <<cartItem, order, payment, transfer>>

Next ==
  \/ \E i \in 1..MaxCarts :
       \/ DropItem(i)
       \/ \E u \in Users, c \in Courses : AddItem(i, u, c)
       \/ \E o \in 1..MaxOrders, a \in Amounts : Place(o, i, a)
  \/ \E o \in 1..MaxOrders :
       \/ Cancel(o)
       \/ \E t \in TxIds : Settle(t, o) \/ (\E a \in Amounts : Book(t, o, a))
  \/ \E e \in Users \X Courses :
       \/ Enrol(e)
       \/ \E orders \in SUBSET (1..MaxOrders) : Revoke(e, orders)

Spec == Init /\ [][Next]_ledger
=============================================================================

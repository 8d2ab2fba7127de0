------------------------------ MODULE Checkout ------------------------------
(***************************************************************************)
(* The purchase path: the cart, the order, the bank's webhook, the delayed  *)
(* cancellation job and the enrolments a purchase grants.                  *)
(*                                                                         *)
(* Every handler is split at its awaits.  A statement outside a            *)
(* transaction is one step and is visible at once.  Inside                 *)
(* prisma.$transaction the rows written are kept in the request's record   *)
(* (req) and become visible together in its commit step, which is          *)
(* PostgreSQL's READ COMMITTED; the row and unique-index locks that the    *)
(* transaction holds meanwhile are read off the same record, and a         *)
(* statement that needs one of them waits.  An early return that writes    *)
(* nothing is the negation of a guard.                                     *)
(***************************************************************************)
EXTENDS Integers, FiniteSets

CONSTANTS
  Users,         \* customers
  Courses,       \* courses and combos
  Children,      \* Children[c]: the courses a combo contains, {} for a course
  TxIds,         \* the bank's transaction ids
  Slots,         \* requests the server can have in progress at once
  Coupons,       \* coupons a customer can name
  CouponFor,     \* the pairs <<coupon, course>> the ownership check accepts
  Prices,        \* course prices an owner can set
  Amounts,       \* amounts of money that occur
  TotalPrice,    \* TotalPrice[<<p, k>>]: what price p costs with coupon k or None
  EditableCourses, \* courses whose owner edits them during the run
  Managed,       \* pairs <<user, course>> a teacher enrols and removes by hand
  FaultKinds,    \* which of "request", "queueAdd", "queueRemove", "job" fail
  None,          \* the absent row or value
  MaxCarts, MaxOrders, MaxFaults, MaxTries   \* bounds; MaxTries is the
                                             \* job's `attempts`

CartIds  == 1..MaxCarts
OrderIds == 1..MaxOrders
Statuses == {"PENDING", "PAID", "CANCELLED"}
Pcs == {"idle", "cartCourse", "cartInsert", "orderBegin", "enrol", "grant",
        "commit", "addJob", "cancelWrite", "payCreate", "payRead",
        "payUpdate", "removeJob"}

CartRow  == [user : Users, course : Courses]
OrderRow == [user : Users, course : Courses, total : Amounts,
             status : Statuses, cart : CartIds]
Transfer == [order : OrderIds, amount : Amounts]

ASSUME BoundsAssumption ==
  /\ MaxCarts \in Nat /\ MaxOrders \in Nat /\ MaxFaults \in Nat
  /\ MaxTries \in Nat \ {0}

ASSUME CatalogueAssumption ==
  /\ Children \in [Courses -> SUBSET Courses]
  /\ \A c \in Courses : c \notin Children[c]
  /\ EditableCourses \subseteq Courses
  /\ Managed \subseteq Users \X Courses
  /\ CouponFor \subseteq Coupons \X Courses

ASSUME MoneyAssumption ==
  /\ Amounts \subseteq Nat /\ 0 \in Amounts /\ Prices \subseteq Amounts
  /\ TotalPrice \in [Prices \X (Coupons \cup {None}) -> Amounts]

ASSUME NoneAssumption ==
  /\ None \notin Users \cup Courses \cup TxIds \cup Coupons
  /\ None \notin CartRow \cup OrderRow \cup Transfer

VARIABLES
  cartItem,    \* CartItem rows by id
  order,       \* Order rows (with their snapshot's total) by id
  payment,     \* Payment rows: the order each recorded transfer pays, or 0
  enrolment,   \* CourseEnrollment rows with deletedAt null
  course,      \* price and visibility of each course
  job,         \* the delayed cancellation job of each order
  transfer,    \* transfers the bank has booked
  notified,    \* orders for which 'Payment received successfully' was emitted
  revoked,     \* history: orders whose enrolment a teacher took away after
               \* the purchase had granted it or seen it there
  req,         \* requests in progress, with their transactions' buffers
  nextCart, nextOrder,  \* the id sequences
  faults       \* faults so far, at most MaxFaults

vars == <<cartItem, order, payment, enrolment, course, job, transfer,
          notified, revoked, req, nextCart, nextOrder, faults>>

ReqRow == [pc : Pcs, user : Users \cup {None}, course : Courses \cup {None},
           cart : 0..MaxCarts, order : 0..MaxOrders, tx : TxIds \cup {None},
           amount : Amounts, todo : SUBSET Courses,
           cur : Courses \cup {None}, granted : SUBSET Courses]

IdleReq == [pc |-> "idle", user |-> None, course |-> None, cart |-> 0,
            order |-> 0, tx |-> None, amount |-> 0, todo |-> {},
            cur |-> None, granted |-> {}]

NoJob == [state |-> "none", tries |-> 0]

Init ==
  /\ cartItem = [i \in CartIds |-> None]
  /\ order = [o \in OrderIds |-> None]
  /\ payment = [t \in TxIds |-> 0]
  /\ enrolment = {}
  /\ course \in [Courses -> [price : Prices, visible : {TRUE}]]
  /\ job = [o \in OrderIds |-> NoJob]
  /\ transfer = [t \in TxIds |-> None]
  /\ notified = {}
  /\ revoked = {}
  /\ req = [s \in Slots |-> IdleReq]
  /\ nextCart = 1
  /\ nextOrder = 1
  /\ faults = 0

-----------------------------------------------------------------------------
(* What the handlers look up *)

Placed(o) == order[o] # None
HasStatus(o, st) == Placed(o) /\ order[o].status = st
Settled(o) == \E t \in TxIds : payment[t] = o

HasLiveOrder(u, c) ==
  \E o \in OrderIds : /\ Placed(o)
                      /\ order[o].user = u /\ order[o].course = c
                      /\ order[o].status \in {"PENDING", "PAID"}

\* courseIds of createOrder and receiver: the combo's children that are
\* neither drafts nor deleted, and the course itself.
VisibleChildren(c) == {k \in Children[c] : course[k].visible}
CoursesToGrant(c) == VisibleChildren(c) \cup {c}

\* findFirst of the enrolment loop: a row that is not soft-deleted.
EnrolledEver(u, c) ==  \* mutant: soft-deleted rows count as enrolments
  \/ <<u, c>> \in enrolment
  \/ \E o \in revoked : HasStatus(o, "PAID") /\ order[o].user = u /\ order[o].course = c
Enrolled(u, c) == <<u, c>> \in enrolment

\* receiver's test of an order row against the money that came in.
PayableAnyAmount(row, amount) ==  \* mutant: the amount is not compared
  row.status = "PENDING"
Payable(row, amount) == row.status = "PENDING" /\ row.total = amount

\* payment.create succeeds: the id and the orderId are new, the order exists.
PaymentFits(t, o) == Placed(o) /\ payment[t] = 0 /\ ~ Settled(o)

\* cartItem.delete finds its row.
CartRowThereOrNot(i) == TRUE  \* mutant: deleteMany, which accepts no row
CartRowThere(i) == cartItem[i] # None

CouponAllowed(k, c) == k = None \/ <<k, c>> \in CouponFor

(* Locks held by transactions in progress *)

HoldsCart(x, i) == req[x].cart = i /\ req[x].pc \in {"enrol", "grant", "commit"}
InPayTx(x) ==
  /\ req[x].tx # None
  /\ req[x].pc \in {"payRead", "payUpdate", "enrol", "grant"}
HoldsOrderRow(x, o) ==
  /\ req[x].tx # None /\ req[x].order = o
  /\ req[x].pc \in {"enrol", "grant"}
CartLocked(i) == \E x \in Slots : HoldsCart(x, i)
OrderLocked(o) == \E x \in Slots : HoldsOrderRow(x, o)

\* s must insert an enrolment that x has inserted and not committed.
WaitsFor(s, x) ==
  /\ x # s /\ req[s].pc = "grant"
  /\ req[x].user = req[s].user /\ req[s].cur \in req[x].granted

(* Control of a request *)

At(s, pc) == req[s].pc = pc
Finish(s) == req' = [req EXCEPT ![s] = IdleReq]
Goto(s, pc) == req' = [req EXCEPT ![s].pc = pc]

-----------------------------------------------------------------------------
(* POST /carts *)

CartCheckOrder(s, u, c) ==
  /\ At(s, "idle") /\ nextCart <= MaxCarts
  /\ ~ HasLiveOrder(u, c)
  /\ req' = [req EXCEPT ![s] = [IdleReq EXCEPT !.pc = "cartCourse",
                                               !.user = u, !.course = c]]
  /\ UNCHANGED <<cartItem, order, payment, enrolment, course, job, transfer,
                 notified, revoked, nextCart, nextOrder, faults>>

CartCheckCourse(s) ==
  /\ At(s, "cartCourse")
  /\ IF course[req[s].course].visible THEN Goto(s, "cartInsert") ELSE Finish(s)
  /\ UNCHANGED <<cartItem, order, payment, enrolment, course, job, transfer,
                 notified, revoked, nextCart, nextOrder, faults>>

\* The unique index on (userId, courseId) makes the insert wait for a
\* transaction that is deleting the user's row for the course, and refuses a
\* second row.  Past MaxCarts the request is dropped (a bound of the model).
CartInsert(s) ==
  LET row  == [user |-> req[s].user, course |-> req[s].course]
      held == {i \in CartIds : cartItem[i] = row}
  IN /\ At(s, "cartInsert")
     /\ \A i \in held : ~ CartLocked(i)
     /\ IF held = {} /\ nextCart <= MaxCarts
        THEN /\ cartItem' = [cartItem EXCEPT ![nextCart] = row]
             /\ nextCart' = nextCart + 1
        ELSE UNCHANGED <<cartItem, nextCart>>
     /\ Finish(s)
     /\ UNCHANGED <<order, payment, enrolment, course, job, transfer,
                    notified, revoked, nextOrder, faults>>

(* DELETE /carts/:cartId: a hard delete, one statement. *)
DeleteCart(i) ==
  /\ cartItem[i] # None /\ ~ CartLocked(i)
  /\ cartItem' = [cartItem EXCEPT ![i] = None]
  /\ UNCHANGED <<order, payment, enrolment, course, job, transfer, notified,
                 revoked, req, nextCart, nextOrder, faults>>

-----------------------------------------------------------------------------
(* POST /orders *)

\* The coupon and the cart item, its course included, are read and the price
\* computed before the transaction.  Whether coupon k is active and within
\* its dates is left open: both outcomes are possible for every k.
OrderReadCart(s, u, i, k) ==
  /\ At(s, "idle") /\ nextOrder <= MaxOrders
  /\ cartItem[i] # None /\ cartItem[i].user = u
  /\ CouponAllowed(k, cartItem[i].course)
  /\ LET c == cartItem[i].course
         total == TotalPrice[<<course[c].price, k>>]
     IN req' = [req EXCEPT ![s] =
                  [IdleReq EXCEPT !.pc = "orderBegin", !.user = u,
                     !.course = c, !.cart = i, !.amount = total,
                     !.todo = IF total = 0 THEN CoursesToGrant(c) ELSE {}]]
  /\ UNCHANGED <<cartItem, order, payment, enrolment, course, job, transfer,
                 notified, revoked, nextCart, nextOrder, faults>>

\* A free order goes on to its enrolments, a due one straight to the commit.
AfterCreateAlwaysFree(s) == "enrol"  \* mutant: every order takes the free path
AfterCreate(s) == IF req[s].amount = 0 THEN "enrol" ELSE "commit"

\* order.create takes the next id; cartItem.delete locks the row, waiting for
\* whoever holds it, and rolls everything back when the row has gone.
OrderTxBegin(s) ==
  /\ At(s, "orderBegin") /\ ~ CartLocked(req[s].cart)
  /\ IF CartRowThere(req[s].cart) /\ nextOrder <= MaxOrders
     THEN /\ req' = [req EXCEPT ![s].order = nextOrder,
                                ![s].pc = AfterCreate(s)]
          /\ nextOrder' = nextOrder + 1
     ELSE Finish(s) /\ UNCHANGED nextOrder
  /\ UNCHANGED <<cartItem, order, payment, enrolment, course, job, transfer,
                 notified, revoked, nextCart, faults>>

\* A free order tells the customer 'Payment received successfully' while its
\* transaction is still open.
OrderNotify(s) ==
  /\ At(s, "enrol") /\ req[s].todo = {} /\ req[s].tx = None
  /\ notified' = notified \cup {req[s].order}
  /\ Goto(s, "commit")
  /\ UNCHANGED <<cartItem, order, payment, enrolment, course, job, transfer,
                 revoked, nextCart, nextOrder, faults>>

\* Enrolments this transaction inserted.
GrantedPairsSwapped(s) ==  \* mutant: userId and courseId swapped
  req[s].granted \X {req[s].user}
GrantedPairs(s) == {req[s].user} \X req[s].granted

OrderCommit(s) ==
  /\ At(s, "commit")
  /\ order' = [order EXCEPT ![req[s].order] =
                 [user |-> req[s].user, course |-> req[s].course,
                  total |-> req[s].amount, cart |-> req[s].cart,
                  status |-> IF req[s].amount = 0 THEN "PAID" ELSE "PENDING"]]
  /\ cartItem' = [cartItem EXCEPT ![req[s].cart] = None]
  /\ enrolment' = enrolment \cup GrantedPairs(s)
  /\ req' = [req EXCEPT ![s] =
               IF req[s].amount = 0 THEN IdleReq
               ELSE [IdleReq EXCEPT !.pc = "addJob", !.order = req[s].order]]
  /\ UNCHANGED <<payment, course, job, transfer, notified, revoked, nextCart,
                 nextOrder, faults>>

\* After the commit the cancellation job is queued; a refusal is swallowed.
JobAdd(s) ==
  /\ At(s, "addJob")
  /\ job' = [job EXCEPT ![req[s].order] = [state |-> "delayed", tries |-> 0]]
  /\ Finish(s)
  /\ UNCHANGED <<cartItem, order, payment, enrolment, course, transfer,
                 notified, revoked, nextCart, nextOrder, faults>>

(* The enrolment loop that createOrder and receiver run in their            *)
(* transactions.  The children come in no stated order, the course last.   *)

\* findFirst: a row already there, committed or this transaction's, is kept.
EnrolFind(s) ==
  /\ At(s, "enrol")
  /\ \E c \in req[s].todo :
       /\ c = req[s].course => req[s].todo = {c}
       /\ IF Enrolled(req[s].user, c)
          THEN req' = [req EXCEPT ![s].todo = @ \ {c}]
          ELSE req' = [req EXCEPT ![s].todo = @ \ {c}, ![s].cur = c,
                                  ![s].pc = "grant"]
  /\ UNCHANGED <<cartItem, order, payment, enrolment, course, job, transfer,
                 notified, revoked, nextCart, nextOrder, faults>>

\* create: waits for another transaction's row of the same user and course; a
\* row committed since findFirst violates the unique index and aborts.
EnrolCreate(s) ==
  /\ At(s, "grant")
  /\ \A x \in Slots : ~ WaitsFor(s, x)
  /\ IF <<req[s].user, req[s].cur>> \in enrolment THEN Finish(s)
     ELSE req' = [req EXCEPT ![s].granted = @ \cup {req[s].cur},
                             ![s].cur = None, ![s].pc = "enrol"]
  /\ UNCHANGED <<cartItem, order, payment, enrolment, course, job, transfer,
                 notified, revoked, nextCart, nextOrder, faults>>

\* PostgreSQL aborts one of the transactions of a cycle of waits.
DeadlockVictimNever(s) == FALSE  \* mutant: waits in the application, no detection
DeadlockVictim(s) ==
  /\ \E cycle \in SUBSET Slots :
       /\ s \in cycle
       /\ \A x \in cycle : /\ \E y \in cycle : WaitsFor(x, y)
                           /\ \E y \in cycle : WaitsFor(y, x)
  /\ Finish(s)
  /\ UNCHANGED <<cartItem, order, payment, enrolment, course, job, transfer,
                 notified, revoked, nextCart, nextOrder, faults>>

-----------------------------------------------------------------------------
(* PUT /orders/:orderId: the status is read, then written unconditionally. *)

CancelRead(s, o) ==
  /\ At(s, "idle") /\ HasStatus(o, "PENDING")
  /\ req' = [req EXCEPT ![s] = [IdleReq EXCEPT !.pc = "cancelWrite",
                                               !.order = o]]
  /\ UNCHANGED <<cartItem, order, payment, enrolment, course, job, transfer,
                 notified, revoked, nextCart, nextOrder, faults>>

CancelWrite(s) ==
  /\ At(s, "cancelWrite") /\ ~ OrderLocked(req[s].order)
  /\ order' = [order EXCEPT ![req[s].order].status = "CANCELLED"]
  /\ Finish(s)
  /\ UNCHANGED <<cartItem, payment, enrolment, course, job, transfer,
                 notified, revoked, nextCart, nextOrder, faults>>

-----------------------------------------------------------------------------
(* POST /payment/receiver, the bank's webhook *)

\* A delivery of a booked transfer; 'Payment transaction already exists'
\* turns a delivery away before its transaction.
PayReceive(s, t) ==
  /\ At(s, "idle") /\ transfer[t] # None /\ payment[t] = 0
  /\ req' = [req EXCEPT ![s] =
               [IdleReq EXCEPT !.pc = "payCreate", !.tx = t,
                               !.order = transfer[t].order,
                               !.amount = transfer[t].amount]]
  /\ UNCHANGED <<cartItem, order, payment, enrolment, course, job, transfer,
                 notified, revoked, nextCart, nextOrder, faults>>

PayCreateOutsideTx(s) ==  \* mutant: the payment row is written outside the transaction
  /\ At(s, "payCreate")
  /\ IF PaymentFits(req[s].tx, req[s].order)
     THEN /\ payment' = [payment EXCEPT ![req[s].tx] = req[s].order]
          /\ Goto(s, "payRead")
     ELSE Finish(s) /\ UNCHANGED payment
  /\ UNCHANGED <<cartItem, order, enrolment, course, job, transfer,
                 notified, revoked, nextCart, nextOrder, faults>>

\* payment.create waits while another transaction holds an uncommitted row
\* with the same id or orderId, and fails on a committed one or when the order
\* does not exist (foreign key).
PayCreate(s) ==
  /\ At(s, "payCreate")
  /\ \A x \in Slots : InPayTx(x) => /\ req[x].tx # req[s].tx
                                    /\ req[x].order # req[s].order
  /\ IF PaymentFits(req[s].tx, req[s].order) THEN Goto(s, "payRead")
                                             ELSE Finish(s)
  /\ UNCHANGED <<cartItem, order, payment, enrolment, course, job, transfer,
                 notified, revoked, nextCart, nextOrder, faults>>

\* The order must be PENDING and its snapshot cost exactly the amount; if not,
\* the exception rolls the payment row back as well.
PayRead(s) ==
  LET row == order[req[s].order]
  IN /\ At(s, "payRead")
     /\ IF Payable(row, req[s].amount)
        THEN req' = [req EXCEPT ![s].user = row.user, ![s].course = row.course,
                                ![s].todo = CoursesToGrant(row.course),
                                ![s].pc = "payUpdate"]
        ELSE Finish(s)
     /\ UNCHANGED <<cartItem, order, payment, enrolment, course, job,
                    transfer, notified, revoked, nextCart, nextOrder, faults>>

\* order.update names the id only: whatever the status has become since
\* PayRead, it will be PAID.  The row stays locked until the commit.
PayUpdate(s) ==
  /\ At(s, "payUpdate") /\ ~ OrderLocked(req[s].order)
  /\ Goto(s, "enrol")
  /\ UNCHANGED <<cartItem, order, payment, enrolment, course, job, transfer,
                 notified, revoked, nextCart, nextOrder, faults>>

PayCommit(s) ==
  /\ At(s, "enrol") /\ req[s].todo = {} /\ req[s].tx # None
  /\ payment' = [payment EXCEPT ![req[s].tx] = req[s].order]
  /\ order' = [order EXCEPT ![req[s].order].status = "PAID"]
  /\ enrolment' = enrolment \cup GrantedPairs(s)
  /\ req' = [req EXCEPT ![s] = [IdleReq EXCEPT !.pc = "removeJob",
                                               !.order = req[s].order]]
  /\ UNCHANGED <<cartItem, course, job, transfer, notified, revoked, nextCart,
                 nextOrder, faults>>

\* After the commit the cancellation job is removed, which does nothing to a
\* job a worker is running, and the customer is told.
JobRemove(s) ==
  LET o == req[s].order
  IN /\ At(s, "removeJob")
     /\ job' = IF job[o].state = "delayed" THEN [job EXCEPT ![o] = NoJob] ELSE job
     /\ notified' = notified \cup {o}
     /\ Finish(s)
     /\ UNCHANGED <<cartItem, order, payment, enrolment, course, transfer,
                    revoked, nextCart, nextOrder, faults>>

-----------------------------------------------------------------------------
(* The payment queue's worker, concurrency 1 *)

\* The delay (or a retry's backoff) has passed and the worker is free.
JobStart(o) ==
  /\ job[o].state = "delayed"
  /\ \A p \in OrderIds : job[p].state # "active"
  /\ job' = [job EXCEPT ![o].state = "active"]
  /\ UNCHANGED <<cartItem, order, payment, enrolment, course, transfer,
                 notified, revoked, req, nextCart, nextOrder, faults>>

\* cancelOrder of the worker asks only whether the order exists.
JobCancel(o) ==
  /\ job[o].state = "active" /\ ~ OrderLocked(o)
  /\ order' = [order EXCEPT ![o].status = "CANCELLED"]
  /\ job' = [job EXCEPT ![o] = NoJob]
  /\ UNCHANGED <<cartItem, payment, enrolment, course, transfer, notified,
                 revoked, req, nextCart, nextOrder, faults>>

-----------------------------------------------------------------------------
(* Faults, at most MaxFaults of the kinds in FaultKinds *)

Fault(kind) == kind \in FaultKinds /\ faults < MaxFaults /\ faults' = faults + 1

\* A request dies at one of its awaits: the process or the connection is lost,
\* or the interactive transaction outlives its time limit.  An open
\* transaction rolls back.
RequestLost(s) ==
  /\ ~ At(s, "idle") /\ Fault("request")
  /\ Finish(s)
  /\ UNCHANGED <<cartItem, order, payment, enrolment, course, job, transfer,
                 notified, revoked, nextCart, nextOrder>>

\* Redis refuses the new job and createOrder's catch swallows the error.
JobAddFails(s) ==
  /\ At(s, "addJob") /\ Fault("queueAdd")
  /\ Finish(s)
  /\ UNCHANGED <<cartItem, order, payment, enrolment, course, job, transfer,
                 notified, revoked, nextCart, nextOrder>>

\* Redis refuses the removal and receiver's catch swallows the error.
JobRemoveFails(s) ==
  /\ At(s, "removeJob") /\ Fault("queueRemove")
  /\ notified' = notified \cup {req[s].order}
  /\ Finish(s)
  /\ UNCHANGED <<cartItem, order, payment, enrolment, course, job, transfer,
                 revoked, nextCart, nextOrder>>

AttemptsLeftOne(tries) == tries < 1  \* mutant: attempts: 1
AttemptsLeft(tries) == tries < MaxTries

\* The worker fails before its write, or after it and before it reports the
\* job done; the job is retried until its attempts are used up, then dropped.
JobFails(o) ==
  LET tries == job[o].tries + 1
  IN /\ job[o].state = "active" /\ Fault("job")
     /\ \/ UNCHANGED order
        \/ /\ ~ OrderLocked(o)
           /\ order' = [order EXCEPT ![o].status = "CANCELLED"]
     /\ job' = [job EXCEPT ![o] = IF AttemptsLeft(tries)
                                  THEN [state |-> "delayed", tries |-> tries]
                                  ELSE NoJob]
     /\ UNCHANGED <<cartItem, payment, enrolment, course, transfer, notified,
                    revoked, req, nextCart, nextOrder>>

-----------------------------------------------------------------------------
(* The environment: customers' bank, course owners, teachers *)

\* A transfer names any order id and any amount; an outgoing transfer is one
\* whose amountIn is 0.
BankTransfer(t, tr) ==
  /\ transfer[t] = None
  /\ transfer' = [transfer EXCEPT ![t] = tr]
  /\ UNCHANGED <<cartItem, order, payment, enrolment, course, job, notified,
                 revoked, req, nextCart, nextOrder, faults>>

EditCourse(c, row) ==
  /\ c \in EditableCourses /\ row # course[c]
  /\ course' = [course EXCEPT ![c] = row]
  /\ UNCHANGED <<cartItem, order, payment, enrolment, job, transfer, notified,
                 revoked, req, nextCart, nextOrder, faults>>

\* A teacher's insert of one enrolment obeys the same unique index.
TeacherEnrol(e) ==
  /\ e \in Managed \ enrolment
  /\ \A x \in Slots : e \notin GrantedPairs(x)
  /\ enrolment' = enrolment \cup {e}
  /\ UNCHANGED <<cartItem, order, payment, course, job, transfer, notified,
                 revoked, req, nextCart, nextOrder, faults>>

\* An order's enrolment e has been granted, or x's transaction is past it.
Granted(o, e) ==
  /\ Placed(o) /\ (HasStatus(o, "PAID") \/ Settled(o))
  /\ e = <<order[o].user, order[o].course>>
Granting(x, o, e) ==
  /\ req[x].order = o /\ e = <<req[x].user, req[x].course>>
  /\ req[x].pc = "enrol" \/ (req[x].pc = "commit" /\ req[x].amount = 0)
  /\ req[x].course \notin req[x].todo

TeacherRevoke(e) ==
  /\ e \in Managed \cap enrolment
  /\ enrolment' = enrolment \ {e}
  /\ revoked' = revoked \cup
                {o \in OrderIds : Granted(o, e) \/ \E x \in Slots : Granting(x, o, e)}
  /\ UNCHANGED <<cartItem, order, payment, course, job, transfer, notified,
                 req, nextCart, nextOrder, faults>>

\* No request and no job is left: the system may rest here.
Quiescent ==
  /\ \A s \in Slots : At(s, "idle")
  /\ \A o \in OrderIds : job[o].state = "none"
  /\ UNCHANGED vars

-----------------------------------------------------------------------------
NewRequest(s) ==
  \/ \E u \in Users, c \in Courses : CartCheckOrder(s, u, c)
  \/ \E u \in Users, i \in CartIds, k \in Coupons \cup {None} :
        OrderReadCart(s, u, i, k)
  \/ \E o \in OrderIds : CancelRead(s, o)
  \/ \E t \in TxIds : PayReceive(s, t)

\* The next step of a request in progress, faults aside.
Continue(s) ==
  \/ CartCheckCourse(s) \/ CartInsert(s)
  \/ OrderTxBegin(s) \/ OrderNotify(s) \/ OrderCommit(s) \/ JobAdd(s)
  \/ EnrolFind(s) \/ EnrolCreate(s) \/ DeadlockVictim(s)
  \/ CancelWrite(s)
  \/ PayCreate(s) \/ PayRead(s) \/ PayUpdate(s) \/ PayCommit(s) \/ JobRemove(s)

Worker(o) == JobStart(o) \/ JobCancel(o)

Faulty == \/ \E s \in Slots : RequestLost(s) \/ JobAddFails(s) \/ JobRemoveFails(s)
          \/ \E o \in OrderIds : JobFails(o)

Environment ==
  \/ \E i \in CartIds : DeleteCart(i)
  \/ \E t \in TxIds, tr \in Transfer : BankTransfer(t, tr)
  \/ \E c \in Courses : \E row \in [price : Prices, visible : BOOLEAN] :
        EditCourse(c, row)
  \/ \E e \in Managed : TeacherEnrol(e) \/ TeacherRevoke(e)

Next ==
  \/ \E s \in Slots : NewRequest(s) \/ Continue(s)
  \/ \E o \in OrderIds : Worker(o)
  \/ Faulty
  \/ Environment
  \/ Quiescent

Spec == Init /\ [][Next]_vars

(* Node runs every request on and BullMQ's worker every job.  The bank may  *)
(* deliver a hopeless transfer for ever, each delivery holding the index    *)
(* entry a while, but PostgreSQL queues those who wait for it: a waiting    *)
(* payment.create is not overtaken for ever.  Customers need never act.    *)
FairSpec ==
  /\ Spec
  /\ \A s \in Slots : WF_vars(Continue(s)) /\ SF_vars(PayCreate(s))
  /\ \A o \in OrderIds : WF_vars(JobStart(o)) /\ WF_vars(JobCancel(o))

(* The bank delivers a booked transfer again until it is recorded.          *)
RedeliverySpec ==
  /\ FairSpec
  /\ \A t \in TxIds : SF_vars(\E s \in Slots : PayReceive(s, t))

-----------------------------------------------------------------------------
(* Properties *)

\* Every row and request stays in the shape its table and handler give it.
TypeOK ==
  /\ cartItem \in [CartIds -> CartRow \cup {None}]
  /\ order \in [OrderIds -> OrderRow \cup {None}]
  /\ payment \in [TxIds -> 0..MaxOrders]
  /\ enrolment \subseteq Users \X Courses
  /\ course \in [Courses -> [price : Prices, visible : BOOLEAN]]
  /\ job \in [OrderIds -> [state : {"none", "delayed", "active"},
                           tries : 0..MaxTries]]
  /\ transfer \in [TxIds -> Transfer \cup {None}]
  /\ notified \subseteq OrderIds
  /\ revoked \subseteq OrderIds
  /\ req \in [Slots -> ReqRow]
  /\ nextCart \in 1..(MaxCarts + 1)
  /\ nextOrder \in 1..(MaxOrders + 1)
  /\ faults \in 0..MaxFaults

\* No order is given away: a PAID order cost nothing when it was placed or has
\* a recorded payment of exactly its snapshot's total, however course prices,
\* cancellations and other transfers interleave with it.
PaidIsJustified ==
  \A o \in OrderIds :
    HasStatus(o, "PAID") =>
      \/ order[o].total = 0
      \/ \E t \in TxIds : /\ payment[t] = o
                          /\ transfer[t].amount = order[o].total

\* A recorded payment settles its order: it carries the exact total, is the
\* order's only payment, and the order no longer waits for money.
PaymentSettlesOrder ==
  \A t \in TxIds :
    payment[t] # 0 =>
      /\ Placed(payment[t]) /\ order[payment[t]].status # "PENDING"
      /\ transfer[t] = [order |-> payment[t],
                        amount |-> order[payment[t]].total]
      /\ \A x \in TxIds : payment[x] = payment[t] => x = t

\* Whoever has paid is enrolled in what was bought, unless a teacher has taken
\* that enrolment away since: the findFirst/create loop loses no enrolment to
\* another purchase, a teacher's insert, a rollback or a deadlock, and buying
\* again restores what was taken away before.
PaidGrantsAccess ==
  \A o \in OrderIds :
    Placed(o) /\ (HasStatus(o, "PAID") \/ Settled(o)) =>
      o \in revoked \/ <<order[o].user, order[o].course>> \in enrolment

\* One cart item is ordered once, whatever requests race for it, and leaves
\* the cart with its order.
OneOrderPerCartItem ==
  \A o \in OrderIds :
    Placed(o) =>
      /\ cartItem[order[o].cart] = None
      /\ \A p \in OrderIds : Placed(p) /\ order[p].cart = order[o].cart => p = o

(* Every step of the handlers is one step of PurchaseLedger or none: a
   purchase is atomic although its handler is not.                         *)
Ledger == INSTANCE PurchaseLedger WITH
  cartItem <- cartItem, order <- order, payment <- payment, enrolment <- enrolment,
  revoked <- revoked, transfer <- transfer
ImplementsLedger == Ledger!Spec

\* Cancelling is for orders that still wait for money (order.repo.ts, 'Không
\* thể hủy đơn hàng'): an order that was PAID does not become CANCELLED.
PaidIsFinal ==
  [][\A o \in OrderIds : HasStatus(o, "PAID") => order'[o].status = "PAID"]_order

\* What createCart's check is for ('Bạn đang có đơn hàng chưa thanh toán'): a
\* customer never has two open or paid orders for one course.
OneLiveOrder ==
  \A o, p \in OrderIds :
    /\ Placed(o) /\ Placed(p) /\ o # p
    /\ order[o].user = order[p].user /\ order[o].course = order[p].course
    => order[o].status = "CANCELLED" \/ order[p].status = "CANCELLED"

\* 'Payment received successfully' (order.repo.ts, payment.repo.ts) is only
\* ever said of an order that was free or that a recorded payment settles.
NotifiedIsSettled ==
  \A o \in notified : Placed(o) => order[o].total = 0 \/ Settled(o)

\* An order whose cancellation job is queued leaves PENDING: it is paid, or
\* cancelled by its customer or by the job a day later, although the job may
\* fail less often than it is attempted, at any point, and other requests die.
JobEndsOrder ==
  \A o \in OrderIds :
    HasStatus(o, "PENDING") /\ job[o].state # "none" ~> ~ HasStatus(o, "PENDING")

\* Every request ends: no wait for a row, an index entry or another
\* transaction lasts for ever.
RequestsTerminate == \A s \in Slots : ~ At(s, "idle") ~> At(s, "idle")

\* A transfer of the exact total for an open order is recorded or the order
\* leaves PENDING some other way, whatever other transfers and requests do.
ExactTransferSettles ==
  \A t \in TxIds, o \in OrderIds :
    /\ HasStatus(o, "PENDING")
    /\ transfer[t] = [order |-> o, amount |-> order[o].total]
    ~> ~ HasStatus(o, "PENDING")
-----------------------------------------------------------------------------
(* The inductive invariant behind the safety properties (CheckoutProofs).   *)

InOrderTx(s) == req[s].tx = None /\ req[s].pc \in {"enrol", "grant", "commit"}
Paying(s) == req[s].tx # None /\ req[s].pc \in {"payUpdate", "enrol", "grant"}
Grantable(c) == Children[c] \cup {c}

\* What a request carries at each of its awaits.
Shaped(s) ==
  /\ req[s].pc \in {"idle", "cartCourse", "cartInsert", "orderBegin", "commit",
                    "addJob", "cancelWrite", "removeJob"} => req[s].tx = None
  /\ req[s].pc \in {"payCreate", "payRead", "payUpdate"} => req[s].tx # None
  /\ req[s].pc \in {"cartCourse", "cartInsert", "orderBegin", "payUpdate",
                    "enrol", "grant", "commit"}
       => req[s].user \in Users /\ req[s].course \in Courses
  /\ req[s].pc \in {"cancelWrite", "addJob", "removeJob"}
       => req[s].order \in OrderIds /\ Placed(req[s].order)

\* createOrder's cart item is the one it has read or is gone; while its
\* transaction is open the item is there and the new order is not.
OrderTxSound(s) ==
  /\ req[s].pc = "orderBegin" \/ InOrderTx(s) =>
       /\ req[s].cart \in CartIds /\ req[s].cart < nextCart
       /\ cartItem[req[s].cart] \in
            {None, [user |-> req[s].user, course |-> req[s].course]}
  /\ InOrderTx(s) =>
       /\ cartItem[req[s].cart] # None
       /\ req[s].order \in OrderIds /\ req[s].order < nextOrder
       /\ ~ Placed(req[s].order)
       /\ req[s].pc # "commit" => req[s].amount = 0

\* receiver carries its booked transfer; with its payment row written nobody
\* else has settled the order; past the price check it agrees with the order.
PayTxSound(s) ==
  /\ req[s].tx # None =>
       /\ req[s].order \in OrderIds /\ req[s].cart = 0
       /\ transfer[req[s].tx] = [order |-> req[s].order, amount |-> req[s].amount]
  /\ InPayTx(s) =>
       Placed(req[s].order) /\ payment[req[s].tx] = 0 /\ ~ Settled(req[s].order)
  /\ Paying(s) =>
       /\ req[s].amount = order[req[s].order].total /\ req[s].amount # 0
       /\ req[s].user = order[req[s].order].user
       /\ req[s].course = order[req[s].order].course

\* While a purchase is under way its own course is still to be looked at, or
\* is being inserted, or has been inserted or found in place.
GrantSound(s) ==
  /\ req[s].pc \in {"orderBegin", "payUpdate", "enrol", "grant", "commit"} =>
       req[s].todo \cup req[s].granted \subseteq Grantable(req[s].course)
  /\ req[s].pc \notin {"enrol", "grant", "commit"} => req[s].granted = {}
  /\ req[s].pc = "grant" => req[s].cur \in Grantable(req[s].course)
  /\ req[s].pc \in {"enrol", "grant"} /\ req[s].course \notin req[s].todo
       => req[s].todo = {}
  /\ req[s].pc = "commit" =>
       IF req[s].amount = 0 THEN req[s].todo = {} ELSE req[s].granted = {}
  /\ Paying(s) \/ (req[s].amount = 0 /\ (req[s].pc = "orderBegin" \/ InOrderTx(s))) =>
       \/ req[s].course \in req[s].todo
       \/ req[s].pc = "grant" /\ req[s].cur = req[s].course
       \/ req[s].pc \in {"enrol", "commit"} /\
            \/ req[s].course \in req[s].granted
            \/ <<req[s].user, req[s].course>> \in enrolment
            \/ req[s].order \in revoked

\* The locks: two transactions never hold one cart row, one new order id, one
\* transaction id or one order's payment.
Apart(s, x) ==
  /\ InOrderTx(s) /\ InOrderTx(x) =>
       req[s].cart # req[x].cart /\ req[s].order # req[x].order
  /\ InPayTx(s) /\ InPayTx(x) =>
       req[s].tx # req[x].tx /\ req[s].order # req[x].order

RequestSound(s) == Shaped(s) /\ OrderTxSound(s) /\ PayTxSound(s) /\ GrantSound(s)

RequestInv ==
  /\ \A s \in Slots : RequestSound(s)
  /\ \A s, x \in Slots : s # x => Apart(s, x)

\* Ids are handed out once; a due order has something to pay; a job has an
\* order to cancel.
IdsSound ==
  /\ \A i \in CartIds : nextCart <= i => cartItem[i] = None
  /\ \A o \in OrderIds :
       /\ Placed(o) => /\ o < nextOrder /\ order[o].cart < nextCart
                       /\ order[o].status = "PENDING" => order[o].total # 0
       /\ job[o].state # "none" => Placed(o)

TableInv ==
  /\ IdsSound /\ PaidIsJustified /\ PaymentSettlesOrder
  /\ OneOrderPerCartItem /\ PaidGrantsAccess

IInv == TypeOK /\ RequestInv /\ TableInv
=============================================================================

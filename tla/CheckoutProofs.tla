--------------------------- MODULE CheckoutProofs ---------------------------
(***************************************************************************)
(* Proofs about Checkout for every choice of its constants: the inductive  *)
(* invariant IInv, the safety properties it implies, and that Checkout     *)
(* implements PurchaseLedger.                                              *)
(***************************************************************************)
EXTENDS Checkout, FiniteSetTheorems, TLAPS

\* The tables that RequestInv and TableInv speak of.
Tables == <<cartItem, order, payment, enrolment, transfer, revoked, nextCart>>

JobRow == [state : {"none", "delayed", "active"}, tries : 0..MaxTries]

\* A step that writes no table: it may take an order id and change jobs.
TablesKept ==
  /\ UNCHANGED Tables
  /\ nextOrder' \in nextOrder..(MaxOrders + 1)
  /\ job' \in [OrderIds -> JobRow]
  /\ \A o \in OrderIds : job'[o].state # "none" => Placed(o)
  /\ notified' \subseteq OrderIds
  /\ faults' \in 0..MaxFaults
  /\ course' \in [Courses -> [price : Prices, visible : BOOLEAN]]

\* The one request that the step of slot s touches.
OnlyMoves(s) ==
  /\ req' \in [Slots -> ReqRow]
  /\ \A x \in Slots \ {s} : req'[x] = req[x]

-----------------------------------------------------------------------------
(* Frames: what a step that leaves the tables alone preserves *)

LEMMA IdleTyped == IdleReq \in ReqRow
  BY MoneyAssumption, BoundsAssumption DEF IdleReq, ReqRow, Pcs

LEMMA TableFrame ==
  ASSUME TypeOK, TableInv, TablesKept PROVE
  TableInv' /\ (req' \in [Slots -> ReqRow] => TypeOK')
  <1> USE DEF TableInv, TablesKept, Tables
  <1>0. nextOrder \in Int /\ nextOrder' \in 1..(MaxOrders + 1) /\ nextOrder <= nextOrder'
    BY BoundsAssumption DEF TypeOK
  <1>1. IdsSound'
    BY <1>0 DEF IdsSound, Placed, OrderIds
  <1>2. PaidIsJustified'
    BY DEF PaidIsJustified, HasStatus, Placed
  <1>3. PaymentSettlesOrder'
    BY DEF PaymentSettlesOrder, Placed
  <1>4. OneOrderPerCartItem'
    BY DEF OneOrderPerCartItem, Placed
  <1>5. PaidGrantsAccess'
    BY DEF PaidGrantsAccess, HasStatus, Placed, Settled
  <1>6. TypeOK' \/ req' \notin [Slots -> ReqRow]
    BY <1>0 DEF TypeOK, JobRow
  <1> QED BY <1>1, <1>2, <1>3, <1>4, <1>5, <1>6

\* A request that does not move stays sound.
LEMMA RequestFrame ==
  ASSUME TypeOK, NEW x \in Slots, req'[x] = req[x], TablesKept, RequestSound(x)
  PROVE  RequestSound(x)'
  <1> USE DEF TablesKept, Tables, RequestSound
  <1>1. Shaped(x)'
    BY DEF Shaped, Placed
  <1>2. OrderTxSound(x)'
    BY BoundsAssumption DEF OrderTxSound, InOrderTx, Placed, TypeOK, OrderIds
  <1>3. PayTxSound(x)'
    BY DEF PayTxSound, InPayTx, Paying, Placed, Settled
  <1>4. GrantSound(x)'
    BY DEF GrantSound, Paying, InOrderTx, Grantable
  <1> QED BY <1>1, <1>2, <1>3, <1>4

LEMMA ApartFrame ==
  ASSUME NEW x \in Slots, NEW y \in Slots, req'[x] = req[x], req'[y] = req[y],
         Apart(x, y)
  PROVE  Apart(x, y)'
  BY DEF Apart, InOrderTx, InPayTx

\* So only the request that moves has to be looked at.
LEMMA OneRequestMoves ==
  ASSUME IInv, NEW s \in Slots, OnlyMoves(s), TablesKept, RequestSound(s)',
         \A x \in Slots \ {s} : Apart(s, x)' /\ Apart(x, s)'
  PROVE  IInv'
  <1>1. TypeOK'
    BY TableFrame DEF IInv, OnlyMoves
  <1>2. TableInv'
    BY TableFrame DEF IInv
  <1>3. ASSUME NEW x \in Slots PROVE RequestSound(x)'
    BY RequestFrame DEF IInv, RequestInv, OnlyMoves
  <1>4. ASSUME NEW x \in Slots, NEW y \in Slots, x # y PROVE Apart(x, y)'
    <2>1. CASE x = s \/ y = s
      BY <1>4, <2>1
    <2>2. CASE x # s /\ y # s
      BY <1>4, <2>2, ApartFrame DEF IInv, RequestInv, OnlyMoves
    <2> QED BY <2>1, <2>2
  <1> QED BY <1>1, <1>2, <1>3, <1>4 DEF IInv, RequestInv

\* A request outside every transaction is apart from all others.
LEMMA OutsideApart ==
  ASSUME NEW s \in Slots, NEW x \in Slots, ~ InOrderTx(s)', ~ InPayTx(s)'
  PROVE  Apart(s, x)' /\ Apart(x, s)'
  BY DEF Apart

\* A request that keeps the locks it had keeps apart.
LEMMA SameLocksApart ==
  ASSUME IInv, NEW s \in Slots, OnlyMoves(s),
         InOrderTx(s)' => InOrderTx(s), InPayTx(s)' => InPayTx(s),
         req'[s].cart = req[s].cart, req'[s].order = req[s].order,
         req'[s].tx = req[s].tx
  PROVE  \A x \in Slots \ {s} : Apart(s, x)' /\ Apart(x, s)'
  BY DEF IInv, RequestInv, Apart, OnlyMoves, InOrderTx, InPayTx

LEMMA IdleSound ==
  ASSUME NEW s \in Slots, req'[s] = IdleReq
  PROVE  RequestSound(s)' /\ ~ InOrderTx(s)' /\ ~ InPayTx(s)'
  BY DEF IdleReq, RequestSound, Shaped, OrderTxSound, PayTxSound, GrantSound,
         InOrderTx, InPayTx, Paying

LEMMA NoRequestMoves ==
  ASSUME IInv, UNCHANGED req, TablesKept
  PROVE  IInv'
  <1>1. TypeOK' /\ TableInv'
    BY TableFrame DEF IInv, TypeOK
  <1>2. ASSUME NEW x \in Slots PROVE RequestSound(x)'
    BY RequestFrame DEF IInv, RequestInv
  <1>3. ASSUME NEW x \in Slots, NEW y \in Slots, x # y PROVE Apart(x, y)'
    BY <1>3, ApartFrame DEF IInv, RequestInv
  <1> QED BY <1>1, <1>2, <1>3 DEF IInv, RequestInv

LEMMA NothingWritten ==
  ASSUME IInv, UNCHANGED Tables, UNCHANGED <<nextOrder, job>>,
         notified' \subseteq OrderIds, faults' \in 0..MaxFaults,
         course' \in [Courses -> [price : Prices, visible : BOOLEAN]]
  PROVE  TablesKept
  <1>1. nextOrder' \in nextOrder..(MaxOrders + 1)
    BY BoundsAssumption DEF IInv, TypeOK
  <1>2. job' \in [OrderIds -> JobRow] /\ \A o \in OrderIds : job'[o].state # "none" => Placed(o)
    BY DEF IInv, TypeOK, TableInv, IdsSound, JobRow
  <1> QED BY <1>1, <1>2 DEF TablesKept

\* Goto changes the program counter of one request and nothing else.
LEMMA GotoMoves ==
  ASSUME IInv, NEW s \in Slots, NEW pc \in Pcs, Goto(s, pc)
  PROVE  /\ OnlyMoves(s)
         /\ req'[s].pc = pc /\ req'[s].user = req[s].user
         /\ req'[s].course = req[s].course /\ req'[s].cart = req[s].cart
         /\ req'[s].order = req[s].order /\ req'[s].tx = req[s].tx
         /\ req'[s].amount = req[s].amount /\ req'[s].todo = req[s].todo
         /\ req'[s].cur = req[s].cur /\ req'[s].granted = req[s].granted
  BY DEF IInv, TypeOK, Goto, OnlyMoves, ReqRow

\* A request may end at any of its awaits: an error, a refusal, a rollback.
LEMMA FinishStep ==
  ASSUME IInv, NEW s \in Slots, Finish(s), TablesKept
  PROVE  IInv'
  <1>1. OnlyMoves(s) /\ req'[s] = IdleReq
    BY IdleTyped DEF IInv, TypeOK, Finish, OnlyMoves
  <1> QED BY <1>1, IdleSound, OutsideApart, OneRequestMoves

-----------------------------------------------------------------------------
(* Steps that write no table *)

LEMMA CartCheckOrderStep ==
  ASSUME IInv, NEW s \in Slots, NEW u \in Users, NEW c \in Courses,
         CartCheckOrder(s, u, c)
  PROVE  IInv'
  <1>1. TablesKept
    BY NothingWritten DEF CartCheckOrder, Tables, IInv, TypeOK
  <1>2. /\ OnlyMoves(s)
        /\ req'[s] = [pc |-> "cartCourse", user |-> u, course |-> c, cart |-> 0,
                      order |-> 0, tx |-> None, amount |-> 0, todo |-> {},
                      cur |-> None, granted |-> {}]
    BY IdleTyped DEF IInv, TypeOK, CartCheckOrder, OnlyMoves, IdleReq, ReqRow, Pcs
  <1>3. RequestSound(s)' /\ ~ InOrderTx(s)' /\ ~ InPayTx(s)'
    BY <1>2 DEF RequestSound, Shaped, OrderTxSound, PayTxSound, GrantSound,
                InOrderTx, InPayTx, Paying
  <1> QED BY <1>1, <1>2, <1>3, OutsideApart, OneRequestMoves

LEMMA CartCheckCourseStep ==
  ASSUME IInv, NEW s \in Slots, CartCheckCourse(s)
  PROVE  IInv'
  <1>1. TablesKept
    BY NothingWritten DEF CartCheckCourse, Tables, IInv, TypeOK
  <1>2. CASE Goto(s, "cartInsert")
    <2>1. req[s].pc = "cartCourse" /\ RequestSound(s)
      BY DEF CartCheckCourse, At, IInv, RequestInv
    <2>2. RequestSound(s)' /\ ~ InOrderTx(s)' /\ ~ InPayTx(s)'
      BY <1>2, <2>1, GotoMoves
      DEF RequestSound, Shaped, OrderTxSound, PayTxSound, GrantSound, InOrderTx,
          InPayTx, Paying, Pcs
    <2> QED BY <1>1, <1>2, <2>2, GotoMoves, OutsideApart, OneRequestMoves DEF Pcs
  <1>3. CASE Finish(s)
    BY <1>1, <1>3, FinishStep
  <1> QED BY <1>2, <1>3 DEF CartCheckCourse

LEMMA OrderReadCartStep ==
  ASSUME IInv, NEW s \in Slots, NEW u \in Users, NEW i \in CartIds,
         NEW k \in Coupons \cup {None}, OrderReadCart(s, u, i, k)
  PROVE  IInv'
  <1> DEFINE c == cartItem[i].course
             total == TotalPrice[<<course[c].price, k>>]
             todo == IF total = 0 THEN CoursesToGrant(c) ELSE {}
  <1>1. TablesKept
    BY NothingWritten DEF OrderReadCart, Tables, IInv, TypeOK
  <1>2. cartItem[i] = [user |-> u, course |-> c] /\ c \in Courses /\ i < nextCart
    BY BoundsAssumption
    DEF OrderReadCart, IInv, TypeOK, CartRow, TableInv, IdsSound, CartIds
  <1>3. total \in Amounts /\ i \in 0..MaxCarts
    BY <1>2, MoneyAssumption, BoundsAssumption DEF IInv, TypeOK, CartIds
  <1>4. /\ todo \subseteq Grantable(c) /\ todo \subseteq Courses
        /\ total = 0 => c \in todo
    BY <1>2, CatalogueAssumption DEF CoursesToGrant, VisibleChildren, Grantable
  <1>5. req'[s] = [pc |-> "orderBegin", user |-> u, course |-> c, cart |-> i,
                   order |-> 0, tx |-> None, amount |-> total, todo |-> todo,
                   cur |-> None, granted |-> {}]
    BY DEF OrderReadCart, IInv, TypeOK, IdleReq
  <1> HIDE DEF c, total, todo
  <1>6. OnlyMoves(s)
    <2>1. req'[s] \in ReqRow
      BY <1>2, <1>3, <1>4, <1>5, BoundsAssumption DEF ReqRow, Pcs
    <2>2. PICK r : req' = [req EXCEPT ![s] = r]
      BY DEF OrderReadCart
    <2> QED BY <2>1, <2>2 DEF IInv, TypeOK, OnlyMoves
  <1>7. RequestSound(s)' /\ ~ InOrderTx(s)' /\ ~ InPayTx(s)'
    BY <1>1, <1>2, <1>4, <1>5
    DEF RequestSound, Shaped, OrderTxSound, PayTxSound, GrantSound, InOrderTx,
        InPayTx, Paying, Grantable, TablesKept, Tables
  <1> QED BY <1>1, <1>6, <1>7, OutsideApart, OneRequestMoves

LEMMA OrderTxBeginStep ==
  ASSUME IInv, NEW s \in Slots, OrderTxBegin(s)
  PROVE  IInv'
  <1>0. /\ req[s].pc = "orderBegin" /\ RequestSound(s)
        /\ req[s] \in ReqRow /\ req \in [Slots -> ReqRow]
        /\ nextOrder \in 1..(MaxOrders + 1)
    BY DEF OrderTxBegin, AfterCreate, At, IInv, TypeOK, RequestInv
  <1>1. CASE Finish(s) /\ UNCHANGED nextOrder
    <2>1. TablesKept
      BY <1>1, NothingWritten DEF OrderTxBegin, AfterCreate, Tables, IInv, TypeOK
    <2> QED BY <1>1, <2>1, FinishStep
  <1>2. CASE /\ CartRowThere(req[s].cart) /\ nextOrder <= MaxOrders
             /\ req' = [req EXCEPT ![s].order = nextOrder,
                                   ![s].pc = IF req[s].amount = 0 THEN "enrol"
                                                                  ELSE "commit"]
             /\ nextOrder' = nextOrder + 1
    <2> DEFINE pc == IF req[s].amount = 0 THEN "enrol" ELSE "commit"
    <2>1. TablesKept
      BY <1>0, <1>2, BoundsAssumption
      DEF OrderTxBegin, AfterCreate, TablesKept, Tables, IInv, TypeOK, TableInv, IdsSound, JobRow
    <2>2. /\ req'[s].pc = pc /\ req'[s].user = req[s].user
          /\ req'[s].course = req[s].course /\ req'[s].cart = req[s].cart
          /\ req'[s].order = nextOrder /\ req'[s].tx = req[s].tx
          /\ req'[s].amount = req[s].amount /\ req'[s].todo = req[s].todo
          /\ req'[s].cur = req[s].cur /\ req'[s].granted = req[s].granted
      BY <1>0, <1>2 DEF ReqRow
    <2>3. OnlyMoves(s)
      BY <1>0, <1>2, BoundsAssumption DEF OnlyMoves, ReqRow, Pcs
    <2>4. nextOrder \in OrderIds /\ ~ Placed(nextOrder) /\ nextOrder < nextOrder'
      BY <1>0, <1>2, BoundsAssumption DEF IInv, TableInv, IdsSound, OrderIds
    <2>5. req[s].tx = None /\ cartItem[req[s].cart] # None /\ ~ CartLocked(req[s].cart)
      BY <1>0, <1>2 DEF RequestSound, Shaped, CartRowThere, OrderTxBegin, AfterCreate
    <2>6. RequestSound(s)'
      BY <1>0, <2>1, <2>2, <2>4, <2>5
      DEF RequestSound, Shaped, OrderTxSound, PayTxSound, GrantSound, InOrderTx,
          InPayTx, Paying, Grantable, TablesKept, Tables, Placed
    <2>7. \A x \in Slots \ {s} : Apart(s, x)' /\ Apart(x, s)'
      <3> SUFFICES ASSUME NEW x \in Slots \ {s}, InOrderTx(x)
                   PROVE  req[x].cart # req[s].cart /\ req[x].order # nextOrder
        BY <2>2, <2>3, <2>5 DEF Apart, OnlyMoves, InOrderTx, InPayTx
      <3>1. OrderTxSound(x)
        BY DEF IInv, RequestInv, RequestSound
      <3>2. req[x].order # nextOrder
        BY <3>1, <1>0, BoundsAssumption DEF OrderTxSound, OrderIds
      <3>3. req[x].cart # req[s].cart
        BY <2>5 DEF CartLocked, HoldsCart, InOrderTx
      <3> QED BY <3>2, <3>3
    <2> QED BY <2>1, <2>3, <2>6, <2>7, OneRequestMoves
  <1> QED BY <1>1, <1>2 DEF OrderTxBegin, AfterCreate

LEMMA OrderNotifyStep ==
  ASSUME IInv, NEW s \in Slots, OrderNotify(s)
  PROVE  IInv'
  <1>1. /\ req[s].pc = "enrol" /\ req[s].tx = None /\ req[s].todo = {}
        /\ RequestSound(s) /\ Goto(s, "commit")
    BY DEF OrderNotify, At, IInv, RequestInv
  <1>2. req[s].order \in OrderIds
    BY <1>1 DEF RequestSound, OrderTxSound, InOrderTx
  <1>3. TablesKept
    BY <1>2, NothingWritten DEF OrderNotify, Tables, IInv, TypeOK
  <1>4. RequestSound(s)'
    <2>0. /\ req'[s].pc = "commit" /\ req'[s].user = req[s].user
          /\ req'[s].course = req[s].course /\ req'[s].cart = req[s].cart
          /\ req'[s].order = req[s].order /\ req'[s].tx = req[s].tx
          /\ req'[s].amount = req[s].amount /\ req'[s].todo = req[s].todo
          /\ req'[s].cur = req[s].cur /\ req'[s].granted = req[s].granted
          /\ UNCHANGED <<cartItem, order, enrolment, revoked, nextCart, nextOrder>>
      BY <1>1, GotoMoves DEF OrderNotify, Pcs
    <2>1. Shaped(s)'
      BY <1>1, <2>0 DEF RequestSound, Shaped
    <2>2. OrderTxSound(s)'
      BY <1>1, <2>0 DEF RequestSound, OrderTxSound, InOrderTx, Placed
    <2>3. PayTxSound(s)'
      BY <1>1, <2>0 DEF PayTxSound, InPayTx, Paying
    <2>4. GrantSound(s)'
      BY <1>1, <2>0
      DEF RequestSound, OrderTxSound, GrantSound, InOrderTx, Paying, Grantable
    <2> QED BY <2>1, <2>2, <2>3, <2>4 DEF RequestSound
  <1>5. \A x \in Slots \ {s} : Apart(s, x)' /\ Apart(x, s)'
    BY <1>1, GotoMoves, SameLocksApart DEF InOrderTx, InPayTx, Pcs
  <1> QED BY <1>1, <1>3, <1>4, <1>5, GotoMoves, OneRequestMoves DEF Pcs

LEMMA JobAddStep ==
  ASSUME IInv, NEW s \in Slots, JobAdd(s)
  PROVE  IInv'
  <1>1. req[s].order \in OrderIds /\ Placed(req[s].order)
    BY DEF JobAdd, At, IInv, RequestInv, RequestSound, Shaped
  <1>2. TablesKept
    BY <1>1, BoundsAssumption
    DEF JobAdd, TablesKept, Tables, IInv, TypeOK, TableInv, IdsSound, JobRow
  <1> QED BY <1>2, FinishStep DEF JobAdd

LEMMA EnrolFindStep ==
  ASSUME IInv, NEW s \in Slots, EnrolFind(s)
  PROVE  IInv'
  <1>0. /\ req[s].pc = "enrol" /\ RequestSound(s)
        /\ req[s] \in ReqRow /\ req \in [Slots -> ReqRow]
    BY DEF EnrolFind, At, IInv, TypeOK, RequestInv
  <1>1. TablesKept
    BY NothingWritten DEF EnrolFind, Tables, IInv, TypeOK
  <1>2. PICK c \in req[s].todo :
          /\ c = req[s].course => req[s].todo = {c}
          /\ IF Enrolled(req[s].user, c)
             THEN req' = [req EXCEPT ![s].todo = @ \ {c}]
             ELSE req' = [req EXCEPT ![s].todo = @ \ {c}, ![s].cur = c,
                                     ![s].pc = "grant"]
    BY DEF EnrolFind
  <1>3. /\ OnlyMoves(s)
        /\ req'[s].user = req[s].user /\ req'[s].course = req[s].course
        /\ req'[s].cart = req[s].cart /\ req'[s].order = req[s].order
        /\ req'[s].tx = req[s].tx /\ req'[s].amount = req[s].amount
        /\ req'[s].granted = req[s].granted /\ req'[s].todo = req[s].todo \ {c}
        /\ \/ Enrolled(req[s].user, c) /\ req'[s].pc = "enrol"
           \/ req'[s].pc = "grant" /\ req'[s].cur = c
    BY <1>0, <1>2 DEF OnlyMoves, ReqRow, Pcs
  <1>4. c \in Grantable(req[s].course)
    BY <1>0 DEF RequestSound, GrantSound
  <1>5. RequestSound(s)'
    <2> USE <1>0, <1>1, <1>3, <1>4 DEF RequestSound, TablesKept, Tables
    <2>1. Shaped(s)'
      BY DEF Shaped
    <2>2. OrderTxSound(s)'
      BY BoundsAssumption DEF OrderTxSound, InOrderTx, Placed, IInv, TypeOK, OrderIds
    <2>3. PayTxSound(s)'
      BY DEF PayTxSound, InPayTx, Paying, Placed, Settled
    <2>4. GrantSound(s)'
      BY <1>2 DEF GrantSound, InOrderTx, Paying, Grantable, Enrolled
    <2> QED BY <2>1, <2>2, <2>3, <2>4
  <1>6. \A x \in Slots \ {s} : Apart(s, x)' /\ Apart(x, s)'
    BY <1>0, <1>3, SameLocksApart DEF InOrderTx, InPayTx
  <1> QED BY <1>1, <1>3, <1>5, <1>6, OneRequestMoves

LEMMA EnrolCreateStep ==
  ASSUME IInv, NEW s \in Slots, EnrolCreate(s)
  PROVE  IInv'
  <1>0. /\ req[s].pc = "grant" /\ RequestSound(s)
        /\ req[s] \in ReqRow /\ req \in [Slots -> ReqRow]
    BY DEF EnrolCreate, At, IInv, TypeOK, RequestInv
  <1>1. TablesKept
    BY NothingWritten DEF EnrolCreate, Tables, IInv, TypeOK
  <1>2. CASE Finish(s)
    BY <1>1, <1>2, FinishStep
  <1>3. CASE req' = [req EXCEPT ![s].granted = @ \cup {req[s].cur},
                                ![s].cur = None, ![s].pc = "enrol"]
    <2>0. req[s].cur \in Grantable(req[s].course) /\ req[s].cur \in Courses
      BY <1>0, CatalogueAssumption DEF RequestSound, Shaped, GrantSound, Grantable
    <2>1. /\ OnlyMoves(s)
          /\ req'[s].user = req[s].user /\ req'[s].course = req[s].course
          /\ req'[s].cart = req[s].cart /\ req'[s].order = req[s].order
          /\ req'[s].tx = req[s].tx /\ req'[s].amount = req[s].amount
          /\ req'[s].granted = req[s].granted \cup {req[s].cur}
          /\ req'[s].todo = req[s].todo /\ req'[s].pc = "enrol"
      BY <1>0, <1>3, <2>0 DEF OnlyMoves, ReqRow, Pcs
    <2>2. RequestSound(s)'
      <3> USE <1>0, <1>1, <2>0, <2>1 DEF RequestSound, TablesKept, Tables
      <3>1. Shaped(s)'
        BY DEF Shaped
      <3>2. OrderTxSound(s)'
        BY BoundsAssumption DEF OrderTxSound, InOrderTx, Placed, IInv, TypeOK, OrderIds
      <3>3. PayTxSound(s)'
        BY DEF PayTxSound, InPayTx, Paying, Placed, Settled
      <3>4. GrantSound(s)'
        BY DEF GrantSound, InOrderTx, Paying, Grantable
      <3> QED BY <3>1, <3>2, <3>3, <3>4
    <2>3. \A x \in Slots \ {s} : Apart(s, x)' /\ Apart(x, s)'
      BY <1>0, <2>1, SameLocksApart DEF InOrderTx, InPayTx
    <2> QED BY <1>1, <2>1, <2>2, <2>3, OneRequestMoves
  <1> QED BY <1>2, <1>3 DEF EnrolCreate

LEMMA DeadlockVictimStep ==
  ASSUME IInv, NEW s \in Slots, DeadlockVictim(s)
  PROVE  IInv'
  <1>1. TablesKept
    BY NothingWritten DEF DeadlockVictim, Tables, IInv, TypeOK
  <1> QED BY <1>1, FinishStep DEF DeadlockVictim

LEMMA CancelReadStep ==
  ASSUME IInv, NEW s \in Slots, NEW o \in OrderIds, CancelRead(s, o)
  PROVE  IInv'
  <1>1. TablesKept
    BY NothingWritten DEF CancelRead, Tables, IInv, TypeOK
  <1>2. req'[s] = [pc |-> "cancelWrite", user |-> None, course |-> None, cart |-> 0,
                   order |-> o, tx |-> None, amount |-> 0, todo |-> {},
                   cur |-> None, granted |-> {}]
    BY DEF CancelRead, IInv, TypeOK, IdleReq
  <1>3. OnlyMoves(s)
    <2>1. req'[s] \in ReqRow
      BY <1>2, MoneyAssumption, BoundsAssumption DEF ReqRow, Pcs, OrderIds
    <2>2. PICK r : req' = [req EXCEPT ![s] = r]
      BY DEF CancelRead
    <2> QED BY <2>1, <2>2 DEF IInv, TypeOK, OnlyMoves
  <1>4. Placed(o)'
    BY <1>1 DEF CancelRead, HasStatus, Placed, TablesKept, Tables
  <1>5. RequestSound(s)' /\ ~ InOrderTx(s)' /\ ~ InPayTx(s)'
    BY <1>2, <1>4
    DEF RequestSound, Shaped, OrderTxSound, PayTxSound, GrantSound, InOrderTx,
        InPayTx, Paying
  <1> QED BY <1>1, <1>3, <1>5, OutsideApart, OneRequestMoves

LEMMA PayReceiveStep ==
  ASSUME IInv, NEW s \in Slots, NEW t \in TxIds, PayReceive(s, t)
  PROVE  IInv'
  <1>1. TablesKept
    BY NothingWritten DEF PayReceive, Tables, IInv, TypeOK
  <1>2. /\ transfer[t] = [order |-> transfer[t].order, amount |-> transfer[t].amount]
        /\ transfer[t].order \in OrderIds /\ transfer[t].amount \in Amounts
    BY DEF PayReceive, IInv, TypeOK, Transfer
  <1>3. req'[s] = [pc |-> "payCreate", user |-> None, course |-> None, cart |-> 0,
                   order |-> transfer[t].order, tx |-> t,
                   amount |-> transfer[t].amount, todo |-> {}, cur |-> None,
                   granted |-> {}]
    BY DEF PayReceive, IInv, TypeOK, IdleReq
  <1>4. OnlyMoves(s)
    <2>1. req'[s] \in ReqRow
      BY <1>2, <1>3, BoundsAssumption DEF ReqRow, Pcs, OrderIds
    <2>2. PICK r : req' = [req EXCEPT ![s] = r]
      BY DEF PayReceive
    <2> QED BY <2>1, <2>2 DEF IInv, TypeOK, OnlyMoves
  <1>5. transfer' = transfer /\ t # None
    BY <1>1, NoneAssumption DEF TablesKept, Tables
  <1>6. RequestSound(s)' /\ ~ InOrderTx(s)' /\ ~ InPayTx(s)'
    BY <1>2, <1>3, <1>5
    DEF RequestSound, Shaped, OrderTxSound, PayTxSound, GrantSound, InOrderTx,
        InPayTx, Paying
  <1> QED BY <1>1, <1>4, <1>6, OutsideApart, OneRequestMoves

LEMMA PayCreateStep ==
  ASSUME IInv, NEW s \in Slots, PayCreate(s)
  PROVE  IInv'
  <1>1. TablesKept
    BY NothingWritten DEF PayCreate, Tables, IInv, TypeOK
  <1>2. CASE Finish(s)
    BY <1>1, <1>2, FinishStep
  <1>3. CASE PaymentFits(req[s].tx, req[s].order) /\ Goto(s, "payRead")
    <2>1. req[s].pc = "payCreate" /\ RequestSound(s)
      BY DEF PayCreate, At, IInv, RequestInv
    <2> HIDE <1>3
    <2>2. /\ OnlyMoves(s)
          /\ req'[s].pc = "payRead" /\ req'[s].user = req[s].user
          /\ req'[s].course = req[s].course /\ req'[s].cart = req[s].cart
          /\ req'[s].order = req[s].order /\ req'[s].tx = req[s].tx
          /\ req'[s].amount = req[s].amount /\ req'[s].todo = req[s].todo
          /\ req'[s].cur = req[s].cur /\ req'[s].granted = req[s].granted
      BY <1>3, GotoMoves DEF Pcs
    <2>3. /\ order'[req[s].order] # None /\ payment'[req[s].tx] = 0
          /\ \A t \in TxIds : payment'[t] # req[s].order
          /\ UNCHANGED <<order, transfer>>
      BY <1>1, <1>3 DEF PaymentFits, Placed, Settled, TablesKept, Tables
    <2>4. RequestSound(s)'
      BY <2>1, <2>2, <2>3
      DEF RequestSound, Shaped, OrderTxSound, PayTxSound, GrantSound, InOrderTx,
          InPayTx, Paying, Placed, Settled
    <2>5. \A x \in Slots \ {s} : Apart(s, x)' /\ Apart(x, s)'
      BY <2>1, <2>2 DEF PayCreate, Apart, InOrderTx, InPayTx, OnlyMoves
    <2> QED BY <1>1, <2>2, <2>4, <2>5, OneRequestMoves
  <1> QED BY <1>2, <1>3 DEF PayCreate

LEMMA PayReadStep ==
  ASSUME IInv, NEW s \in Slots, PayRead(s)
  PROVE  IInv'
  <1> DEFINE row == order[req[s].order]
  <1>0. /\ req[s].pc = "payRead" /\ RequestSound(s)
        /\ req[s] \in ReqRow /\ req \in [Slots -> ReqRow]
    BY DEF PayRead, At, IInv, TypeOK, RequestInv
  <1>1. TablesKept
    BY NothingWritten DEF PayRead, Tables, IInv, TypeOK
  <1>2. CASE Finish(s)
    BY <1>1, <1>2, FinishStep
  <1>3. CASE /\ Payable(row, req[s].amount)
             /\ req' = [req EXCEPT ![s].user = row.user, ![s].course = row.course,
                                   ![s].todo = CoursesToGrant(row.course),
                                   ![s].pc = "payUpdate"]
    <2>1. /\ req[s].tx # None /\ req[s].order \in OrderIds /\ Placed(req[s].order)
          /\ req[s].granted = {}
      BY <1>0 DEF RequestSound, Shaped, PayTxSound, GrantSound, InPayTx
    <2>2. /\ row.user \in Users /\ row.course \in Courses
          /\ row.status = "PENDING" /\ row.total = req[s].amount /\ row.total # 0
      BY <1>3, <2>1
      DEF Placed, Payable, IInv, TypeOK, OrderRow, TableInv, IdsSound
    <2>3. /\ CoursesToGrant(row.course) \subseteq Grantable(row.course)
          /\ CoursesToGrant(row.course) \subseteq Courses
          /\ row.course \in CoursesToGrant(row.course)
      BY <2>2, CatalogueAssumption DEF CoursesToGrant, VisibleChildren, Grantable
    <2>4. /\ OnlyMoves(s)
          /\ req'[s].pc = "payUpdate" /\ req'[s].user = row.user
          /\ req'[s].course = row.course /\ req'[s].cart = req[s].cart
          /\ req'[s].order = req[s].order /\ req'[s].tx = req[s].tx
          /\ req'[s].amount = req[s].amount /\ req'[s].granted = req[s].granted
          /\ req'[s].todo = CoursesToGrant(row.course)
      <3> HIDE DEF row
      <3> QED BY <1>0, <1>3, <2>2, <2>3 DEF OnlyMoves, ReqRow, Pcs
    <2>5. /\ UNCHANGED <<order, transfer, payment>>
          /\ order'[req[s].order] # None /\ payment'[req[s].tx] = 0
          /\ \A t \in TxIds : payment'[t] # req[s].order
          /\ req[s].cart = 0
          /\ transfer'[req[s].tx] = [order |-> req[s].order, amount |-> req[s].amount]
      BY <1>0, <1>1, <2>1
      DEF RequestSound, PayTxSound, InPayTx, Placed, Settled, TablesKept, Tables
    <2>6. RequestSound(s)'
      <3>1. Shaped(s)' /\ OrderTxSound(s)'
        BY <2>1, <2>2, <2>4 DEF Shaped, OrderTxSound, InOrderTx
      <3>2. PayTxSound(s)'
        BY <2>1, <2>2, <2>4, <2>5 DEF PayTxSound, InPayTx, Paying, Placed, Settled
      <3>3. GrantSound(s)'
        BY <2>1, <2>3, <2>4 DEF GrantSound, InOrderTx, Paying, Grantable
      <3> QED BY <3>1, <3>2, <3>3 DEF RequestSound
    <2>7. \A x \in Slots \ {s} : Apart(s, x)' /\ Apart(x, s)'
      BY <1>0, <2>4, SameLocksApart DEF InOrderTx, InPayTx
    <2> QED BY <1>1, <2>4, <2>6, <2>7, OneRequestMoves
  <1> QED BY <1>2, <1>3 DEF PayRead

LEMMA PayUpdateStep ==
  ASSUME IInv, NEW s \in Slots, PayUpdate(s)
  PROVE  IInv'
  <1>0. req[s].pc = "payUpdate" /\ RequestSound(s) /\ req[s].tx # None
    BY DEF PayUpdate, At, IInv, RequestInv, RequestSound, Shaped
  <1>1. TablesKept
    BY NothingWritten DEF PayUpdate, Tables, IInv, TypeOK
  <1>2. /\ OnlyMoves(s)
        /\ req'[s].pc = "enrol" /\ req'[s].user = req[s].user
        /\ req'[s].course = req[s].course /\ req'[s].cart = req[s].cart
        /\ req'[s].order = req[s].order /\ req'[s].tx = req[s].tx
        /\ req'[s].amount = req[s].amount /\ req'[s].todo = req[s].todo
        /\ req'[s].cur = req[s].cur /\ req'[s].granted = req[s].granted
    BY GotoMoves DEF PayUpdate, Pcs
  <1>3. UNCHANGED <<order, transfer, payment>>
    BY <1>1 DEF TablesKept, Tables
  <1>4. RequestSound(s)'
    <2>1. Shaped(s)' /\ OrderTxSound(s)'
      BY <1>0, <1>2 DEF RequestSound, Shaped, OrderTxSound, InOrderTx
    <2>2. PayTxSound(s)'
      BY <1>0, <1>2, <1>3 DEF RequestSound, PayTxSound, InPayTx, Paying, Placed, Settled
    <2>3. GrantSound(s)'
      BY <1>0, <1>2 DEF RequestSound, GrantSound, InOrderTx, Paying, Grantable
    <2> QED BY <2>1, <2>2, <2>3 DEF RequestSound
  <1>5. \A x \in Slots \ {s} : Apart(s, x)' /\ Apart(x, s)'
    BY <1>0, <1>2, SameLocksApart DEF InOrderTx, InPayTx
  <1> QED BY <1>1, <1>2, <1>4, <1>5, OneRequestMoves

LEMMA JobRemoveStep ==
  ASSUME IInv, NEW s \in Slots, JobRemove(s)
  PROVE  IInv'
  <1>1. req[s].order \in OrderIds
    BY DEF JobRemove, At, IInv, RequestInv, RequestSound, Shaped
  <1>2. TablesKept
    BY <1>1, BoundsAssumption
    DEF JobRemove, TablesKept, Tables, IInv, TypeOK, TableInv, IdsSound, JobRow, NoJob
  <1> QED BY <1>2, FinishStep DEF JobRemove

LEMMA JobStartStep ==
  ASSUME IInv, NEW o \in OrderIds, JobStart(o)
  PROVE  IInv'
  <1>1. TablesKept
    BY BoundsAssumption
    DEF JobStart, TablesKept, Tables, IInv, TypeOK, TableInv, IdsSound, JobRow
  <1> QED BY <1>1, NoRequestMoves DEF JobStart

LEMMA FaultStep ==
  ASSUME IInv, NEW s \in Slots, RequestLost(s) \/ JobAddFails(s) \/ JobRemoveFails(s)
  PROVE  IInv'
  <1>1. faults' \in 0..MaxFaults
    BY BoundsAssumption DEF RequestLost, JobAddFails, JobRemoveFails, Fault, IInv, TypeOK
  <1>2. req[s].pc = "removeJob" => req[s].order \in OrderIds
    BY DEF IInv, RequestInv, RequestSound, Shaped
  <1>3. TablesKept
    BY <1>1, <1>2, NothingWritten
    DEF RequestLost, JobAddFails, JobRemoveFails, At, Tables, IInv, TypeOK
  <1> QED BY <1>3, FinishStep DEF RequestLost, JobAddFails, JobRemoveFails

LEMMA EditCourseStep ==
  ASSUME IInv, NEW c \in Courses, NEW row \in [price : Prices, visible : BOOLEAN],
         EditCourse(c, row)
  PROVE  IInv'
  <1>1. TablesKept
    BY NothingWritten DEF EditCourse, Tables, IInv, TypeOK
  <1> QED BY <1>1, NoRequestMoves DEF EditCourse

-----------------------------------------------------------------------------
(* Steps that write tables.  Evolves: rows that requests rely on only change *)
(* in ways they put up with.  Spared(x): what x's open transaction has locked *)
(* or looked at is left to it.                                               *)

Evolves ==
  /\ nextCart \in Int /\ nextCart' \in Int /\ nextCart <= nextCart'
  /\ nextOrder \in Int /\ nextOrder' \in Int /\ nextOrder <= nextOrder'
  /\ \A i \in CartIds : i < nextCart => cartItem'[i] \in {cartItem[i], None}
  /\ \A o \in OrderIds :
       Placed(o) => /\ order'[o] # None /\ order'[o].user = order[o].user
                    /\ order'[o].course = order[o].course
                    /\ order'[o].total = order[o].total
  /\ \A t \in TxIds : transfer[t] # None => transfer'[t] = transfer[t]
  /\ revoked \subseteq revoked'

Spared(x) ==
  /\ InOrderTx(x) => /\ cartItem'[req[x].cart] = cartItem[req[x].cart]
                     /\ order'[req[x].order] = None
  /\ InPayTx(x) => /\ payment'[req[x].tx] = 0
                   /\ \A t \in TxIds : payment'[t] # req[x].order
  /\ /\ Paying(x) \/ (req[x].amount = 0 /\ InOrderTx(x))
     /\ req[x].pc \in {"enrol", "commit"} /\ req[x].course \notin req[x].todo
     /\ <<req[x].user, req[x].course>> \in enrolment
     => <<req[x].user, req[x].course>> \in enrolment' \/ req[x].order \in revoked'

LEMMA SparedSound ==
  ASSUME TypeOK, NEW x \in Slots, RequestSound(x), req'[x] = req[x], Evolves, Spared(x)
  PROVE  RequestSound(x)'
  <1>0. req[x] \in ReqRow
    BY DEF TypeOK
  <1>1. Shaped(x)'
    BY DEF RequestSound, Shaped, Evolves, Placed
  <1>2. OrderTxSound(x)'
    <2>1. CASE InOrderTx(x)
      BY <1>0, <2>1, BoundsAssumption
      DEF RequestSound, OrderTxSound, InOrderTx, Evolves, Spared, Placed, CartIds, OrderIds
    <2>2. CASE ~ InOrderTx(x)
      BY <1>0, <2>2, BoundsAssumption
      DEF RequestSound, OrderTxSound, InOrderTx, Evolves, CartIds
    <2> QED BY <2>1, <2>2
  <1>3. PayTxSound(x)'
    <2>1. ASSUME req[x].tx # None PROVE transfer'[req[x].tx] = transfer[req[x].tx]
      <3>1. req[x].tx \in TxIds /\ req[x].order \in OrderIds /\ req[x].amount \in Amounts
        BY <1>0, <2>1 DEF ReqRow, RequestSound, PayTxSound
      <3>2. transfer[req[x].tx] \in Transfer
        BY <2>1, <3>1 DEF RequestSound, PayTxSound, Transfer
      <3> QED BY <3>1, <3>2, NoneAssumption DEF Evolves
    <2>2. InPayTx(x) => order'[req[x].order] # None
      BY DEF RequestSound, PayTxSound, InPayTx, Evolves, Placed
    <2>3. Paying(x) => /\ order'[req[x].order].total = order[req[x].order].total
                       /\ order'[req[x].order].user = order[req[x].order].user
                       /\ order'[req[x].order].course = order[req[x].order].course
      BY DEF RequestSound, PayTxSound, InPayTx, Paying, Evolves, Placed
    <2> QED BY <2>1, <2>2, <2>3
        DEF RequestSound, PayTxSound, InPayTx, Paying, Spared, Placed, Settled
  <1>4. GrantSound(x)'
    <2>1. (Paying(x)' <=> Paying(x)) /\ (InOrderTx(x)' <=> InOrderTx(x))
      BY DEF Paying, InOrderTx
    <2>2. GrantSound(x)
      BY DEF RequestSound
    <2>3. revoked \subseteq revoked'
      BY DEF Evolves
    <2>4. /\ Paying(x) \/ (req[x].amount = 0 /\ (req[x].pc = "orderBegin" \/ InOrderTx(x)))
          /\ req[x].pc \in {"enrol", "commit"} /\ req[x].course \notin req[x].todo
          => \/ req[x].course \in req[x].granted
             \/ <<req[x].user, req[x].course>> \in enrolment'
             \/ req[x].order \in revoked'
      BY <2>2, <2>3 DEF GrantSound, Spared
    <2> QED BY <2>1, <2>2, <2>4 DEF GrantSound, Grantable
  <1> QED BY <1>1, <1>2, <1>3, <1>4 DEF RequestSound

\* moved: the requests that the step ends or takes out of their transaction.
LEMMA TablesChange ==
  ASSUME IInv, TypeOK', TableInv', Evolves, NEW moved \in SUBSET Slots,
         \A x \in Slots \ moved : req'[x] = req[x] /\ Spared(x),
         \A x \in moved : RequestSound(x)' /\ ~ InOrderTx(x)' /\ ~ InPayTx(x)'
  PROVE  IInv'
  <1>1. ASSUME NEW x \in Slots PROVE RequestSound(x)'
    <2>1. CASE x \in moved
      BY <2>1
    <2>2. CASE x \notin moved
      BY <2>2, SparedSound DEF IInv, RequestInv
    <2> QED BY <2>1, <2>2
  <1>2. ASSUME NEW x \in Slots, NEW y \in Slots, x # y PROVE Apart(x, y)'
    <2>1. CASE x \in moved \/ y \in moved
      BY <2>1, OutsideApart
    <2>2. CASE x \notin moved /\ y \notin moved
      BY <1>2, <2>2, ApartFrame DEF IInv, RequestInv
    <2> QED BY <2>1, <2>2
  <1> QED BY <1>1, <1>2 DEF IInv, RequestInv

\* What an open transaction holds.
LEMMA Held ==
  ASSUME IInv, NEW x \in Slots
  PROVE  /\ InOrderTx(x) => /\ req[x].cart \in CartIds /\ req[x].cart < nextCart
                            /\ cartItem[req[x].cart] # None
                            /\ cartItem[req[x].cart] = [user |-> req[x].user,
                                                        course |-> req[x].course]
                            /\ req[x].order \in OrderIds /\ req[x].order < nextOrder
                            /\ order[req[x].order] = None
         /\ InPayTx(x) => /\ req[x].order \in OrderIds /\ req[x].tx \in TxIds
                          /\ payment[req[x].tx] = 0
                          /\ \A t \in TxIds : payment[t] # req[x].order
                          /\ order[req[x].order] # None
                          /\ transfer[req[x].tx] = [order |-> req[x].order,
                                                    amount |-> req[x].amount]
  <1>1. OrderTxSound(x) /\ PayTxSound(x) /\ req[x] \in ReqRow
    BY DEF IInv, RequestInv, RequestSound, TypeOK
  <1>2. InOrderTx(x) => /\ req[x].cart \in CartIds /\ req[x].cart < nextCart
                        /\ cartItem[req[x].cart] # None
                        /\ cartItem[req[x].cart] = [user |-> req[x].user,
                                                    course |-> req[x].course]
                        /\ req[x].order \in OrderIds /\ req[x].order < nextOrder
                        /\ order[req[x].order] = None
    BY <1>1 DEF OrderTxSound, Placed
  <1>3. InPayTx(x) => /\ req[x].order \in OrderIds /\ req[x].tx \in TxIds
                      /\ payment[req[x].tx] = 0
                      /\ \A t \in TxIds : payment[t] # req[x].order
                      /\ order[req[x].order] # None
                      /\ transfer[req[x].tx] = [order |-> req[x].order,
                                                amount |-> req[x].amount]
    BY <1>1 DEF PayTxSound, Placed, Settled, InPayTx, ReqRow
  <1> QED BY <1>2, <1>3

\* The id sequences stay within their bounds.
LEMMA Bounds ==
  ASSUME IInv
  PROVE  /\ nextCart \in Int /\ nextOrder \in Int /\ faults \in Int
         /\ nextCart \in 1..(MaxCarts + 1) /\ nextOrder \in 1..(MaxOrders + 1)
  BY BoundsAssumption DEF IInv, TypeOK

LEMMA CartInsertStep ==
  ASSUME IInv, NEW s \in Slots, CartInsert(s)
  PROVE  IInv'
  <1> DEFINE row == [user |-> req[s].user, course |-> req[s].course]
  <1>1. CASE UNCHANGED <<cartItem, nextCart>>
    <2>1. TablesKept
      BY <1>1, NothingWritten DEF CartInsert, Tables, IInv, TypeOK
    <2> QED BY <2>1, FinishStep DEF CartInsert
  <1>2. CASE /\ nextCart <= MaxCarts /\ nextCart' = nextCart + 1
             /\ cartItem' = [cartItem EXCEPT ![nextCart] = row]
    <2>0. /\ UNCHANGED <<order, payment, enrolment, course, job, transfer,
                         notified, revoked, nextOrder, faults>>
          /\ nextCart \in CartIds /\ nextCart \in Int /\ nextOrder \in Int
          /\ \A o \in OrderIds : Placed(o) => order[o].cart < nextCart
      BY <1>2, Bounds, BoundsAssumption DEF CartInsert, CartIds, IInv, TableInv, IdsSound
    <2>1. OnlyMoves(s) /\ req'[s] = IdleReq
      BY IdleTyped DEF IInv, TypeOK, CartInsert, Finish, OnlyMoves
    <2>2. row \in CartRow
      BY DEF CartInsert, At, IInv, RequestInv, RequestSound, Shaped, CartRow
    <2>3. TypeOK'
      <3> HIDE DEF row
      <3> QED BY <1>2, <2>0, <2>1, <2>2, BoundsAssumption DEF IInv, TypeOK, OnlyMoves
    <2>4. TableInv'
      <3>1. \A i \in CartIds : i # nextCart => cartItem'[i] = cartItem[i]
        BY <1>2 DEF IInv, TypeOK
      <3>2. IdsSound'
        <4>1. \A i \in CartIds : nextCart' <= i => cartItem'[i] = None
          BY <1>2, <2>0, <3>1, BoundsAssumption DEF IInv, TableInv, IdsSound, CartIds
        <4>2. \A o \in OrderIds : Placed(o) => order[o].cart \in Int
          BY BoundsAssumption DEF IInv, TypeOK, OrderRow, Placed, CartIds
        <4>3. \A o \in OrderIds : Placed(o) => order[o].cart < nextCart'
          BY <1>2, <2>0, <4>2
        <4> QED BY <2>0, <4>1, <4>3 DEF IInv, TableInv, IdsSound, Placed
      <3>3. OneOrderPerCartItem'
        BY <2>0, <3>1 DEF IInv, TableInv, OneOrderPerCartItem, Placed, TypeOK, OrderRow
      <3>4. PaidIsJustified' /\ PaymentSettlesOrder' /\ PaidGrantsAccess'
        BY <2>0 DEF IInv, TableInv, PaidIsJustified, PaymentSettlesOrder,
                    PaidGrantsAccess, HasStatus, Placed, Settled
      <3> QED BY <3>2, <3>3, <3>4 DEF TableInv
    <2>5. Evolves
      BY <1>2, <2>0 DEF Evolves, IInv, TypeOK, Placed, CartIds
    <2>6. ASSUME NEW x \in Slots \ {s} PROVE req'[x] = req[x] /\ Spared(x)
      <3>1. InOrderTx(x) => cartItem'[req[x].cart] = cartItem[req[x].cart]
        <4> HIDE DEF row
        <4>1. InOrderTx(x) => req[x].cart \in CartIds /\ req[x].cart < nextCart
          BY Held
        <4>2. \A i \in CartIds : i < nextCart => cartItem'[i] = cartItem[i]
          BY <1>2, <2>0 DEF IInv, TypeOK
        <4> QED BY <4>1, <4>2
      <3> QED BY <2>0, <2>1, <3>1, Held DEF Spared, OnlyMoves
    <2> QED
      <3>1. RequestSound(s)' /\ ~ InOrderTx(s)' /\ ~ InPayTx(s)'
        BY <2>1, IdleSound
      <3>2. {s} \in SUBSET Slots
        OBVIOUS
      <3> QED BY <2>3, <2>4, <2>5, <2>6, <3>1, <3>2, TablesChange
  <1> QED BY <1>1, <1>2 DEF CartInsert

LEMMA DeleteCartStep ==
  ASSUME IInv, NEW i \in CartIds, DeleteCart(i)
  PROVE  IInv'
  <1>0. /\ UNCHANGED <<order, payment, enrolment, course, job, transfer, notified,
                       revoked, req, nextCart, nextOrder, faults>>
        /\ cartItem' = [cartItem EXCEPT ![i] = None]
    BY DEF DeleteCart
  <1>1. \A j \in CartIds : cartItem'[j] \in {cartItem[j], None}
    BY <1>0 DEF IInv, TypeOK
  <1>2. TypeOK'
    BY <1>0 DEF IInv, TypeOK
  <1>3. TableInv'
    <2>1. IdsSound' /\ OneOrderPerCartItem'
      BY <1>0, <1>1 DEF IInv, TableInv, IdsSound, OneOrderPerCartItem, Placed, TypeOK, OrderRow
    <2>2. PaidIsJustified' /\ PaymentSettlesOrder' /\ PaidGrantsAccess'
      BY <1>0 DEF IInv, TableInv, PaidIsJustified, PaymentSettlesOrder,
                  PaidGrantsAccess, HasStatus, Placed, Settled
    <2> QED BY <2>1, <2>2 DEF TableInv
  <1>4. Evolves
    BY <1>0, <1>1, Bounds DEF Evolves, Placed
  <1>5. ASSUME NEW x \in Slots PROVE req'[x] = req[x] /\ Spared(x)
    <2>1. InOrderTx(x) => req[x].cart # i
      BY DEF DeleteCart, CartLocked, HoldsCart, InOrderTx
    <2>2. InOrderTx(x) => cartItem'[req[x].cart] = cartItem[req[x].cart]
      BY <1>0, <2>1, Held DEF IInv, TypeOK
    <2> QED BY <1>0, <2>2, Held DEF Spared
  <1> QED
    <2>1. {} \in SUBSET Slots
      OBVIOUS
    <2> QED BY <1>2, <1>3, <1>4, <1>5, <2>1, TablesChange

\* Marking an order cancelled, by its customer or by the job, breaks nothing:
\* its payment and its enrolments stay.
LEMMA CancelTables ==
  ASSUME IInv, NEW o \in OrderIds, Placed(o),
         order' = [order EXCEPT ![o].status = "CANCELLED"],
         UNCHANGED <<cartItem, payment, enrolment, course, transfer, notified,
                     revoked, nextCart, nextOrder>>,
         job' \in [OrderIds -> JobRow],
         \A p \in OrderIds : job'[p].state # "none" => Placed(p),
         faults' \in 0..MaxFaults, req' \in [Slots -> ReqRow]
  PROVE  TypeOK' /\ TableInv' /\ Evolves /\ \A x \in Slots : Spared(x)
  <1>1. order[o] \in OrderRow /\ order \in [OrderIds -> OrderRow \cup {None}]
    BY DEF IInv, TypeOK, Placed
  <1>2. /\ order'[o] \in OrderRow /\ order'[o].status = "CANCELLED"
        /\ order'[o].user = order[o].user /\ order'[o].course = order[o].course
        /\ order'[o].total = order[o].total /\ order'[o].cart = order[o].cart
        /\ \A p \in OrderIds : p # o => order'[p] = order[p]
    BY <1>1 DEF OrderRow, Statuses
  <1>3. \A p \in OrderIds :
          /\ Placed(p)' <=> Placed(p)
          /\ Placed(p) => /\ order'[p].status \in {order[p].status, "CANCELLED"}
                          /\ order'[p].user = order[p].user
                          /\ order'[p].course = order[p].course
                          /\ order'[p].total = order[p].total
                          /\ order'[p].cart = order[p].cart
    BY <1>1, <1>2, NoneAssumption DEF Placed
  <1>4. TypeOK'
    BY <1>1, <1>2 DEF IInv, TypeOK, JobRow
  <1>5. TableInv'
    <2>1. IdsSound'
      BY <1>3 DEF IInv, TableInv, IdsSound
    <2>2. PaidIsJustified'
      BY <1>3 DEF IInv, TableInv, PaidIsJustified, HasStatus
    <2>3. PaymentSettlesOrder'
      <3> SUFFICES ASSUME NEW t \in TxIds, payment[t] # 0
                   PROVE  /\ Placed(payment[t])' /\ order'[payment[t]].status # "PENDING"
                          /\ transfer[t] = [order |-> payment[t],
                                            amount |-> order'[payment[t]].total]
                          /\ \A x \in TxIds : payment[x] = payment[t] => x = t
        BY DEF PaymentSettlesOrder, Placed
      <3>1. payment[t] \in OrderIds
        BY BoundsAssumption DEF IInv, TypeOK, OrderIds
      <3>2. /\ Placed(payment[t]) /\ order[payment[t]].status # "PENDING"
            /\ transfer[t] = [order |-> payment[t], amount |-> order[payment[t]].total]
            /\ \A x \in TxIds : payment[x] = payment[t] => x = t
        BY DEF IInv, TableInv, PaymentSettlesOrder
      <3> QED BY <1>3, <3>1, <3>2 DEF Placed
    <2>4. OneOrderPerCartItem'
      BY <1>3 DEF IInv, TableInv, OneOrderPerCartItem
    <2>5. PaidGrantsAccess'
      BY <1>3 DEF IInv, TableInv, PaidGrantsAccess, HasStatus, Settled
    <2> QED BY <2>1, <2>2, <2>3, <2>4, <2>5 DEF TableInv
  <1>6. Evolves
    BY <1>3, Bounds DEF Evolves, Placed
  <1>7. ASSUME NEW x \in Slots PROVE Spared(x)
    BY <1>3, Held DEF Spared, Placed
  <1> QED BY <1>4, <1>5, <1>6, <1>7

LEMMA CancelWriteStep ==
  ASSUME IInv, NEW s \in Slots, CancelWrite(s)
  PROVE  IInv'
  <1>1. req[s].order \in OrderIds /\ Placed(req[s].order)
    BY DEF CancelWrite, At, IInv, RequestInv, RequestSound, Shaped
  <1>2. OnlyMoves(s) /\ req'[s] = IdleReq
    BY IdleTyped DEF IInv, TypeOK, CancelWrite, Finish, OnlyMoves
  <1>3. TypeOK' /\ TableInv' /\ Evolves /\ \A x \in Slots : Spared(x)
    <2>1. /\ order' = [order EXCEPT ![req[s].order].status = "CANCELLED"]
          /\ UNCHANGED <<cartItem, payment, enrolment, course, job, transfer,
                         notified, revoked, nextCart, nextOrder, faults>>
      BY DEF CancelWrite
    <2>2. /\ job' \in [OrderIds -> JobRow] /\ faults' \in 0..MaxFaults
          /\ \A p \in OrderIds : job'[p].state # "none" => Placed(p)
      BY <2>1 DEF IInv, TypeOK, TableInv, IdsSound, JobRow
    <2> QED BY <1>1, <1>2, <2>1, <2>2, CancelTables DEF OnlyMoves
  <1> QED
    <2>1. {s} \in SUBSET Slots
      OBVIOUS
    <2> QED BY <1>2, <1>3, <2>1, IdleSound, TablesChange DEF OnlyMoves

LEMMA JobCancelStep ==
  ASSUME IInv, NEW o \in OrderIds, JobCancel(o)
  PROVE  IInv'
  <1>1. Placed(o)
    BY DEF JobCancel, IInv, TableInv, IdsSound
  <1>2. /\ order' = [order EXCEPT ![o].status = "CANCELLED"]
        /\ UNCHANGED <<cartItem, payment, enrolment, course, transfer, notified,
                       revoked, req, nextCart, nextOrder, faults>>
    BY DEF JobCancel
  <1>3. /\ job' \in [OrderIds -> JobRow] /\ faults' \in 0..MaxFaults
        /\ req' \in [Slots -> ReqRow]
        /\ \A p \in OrderIds : job'[p].state # "none" => Placed(p)
    BY BoundsAssumption
    DEF JobCancel, IInv, TypeOK, TableInv, IdsSound, JobRow, NoJob
  <1>4. TypeOK' /\ TableInv' /\ Evolves /\ \A x \in Slots : Spared(x)
    BY <1>1, <1>2, <1>3, CancelTables
  <1>5. {} \in SUBSET Slots
    OBVIOUS
  <1> QED BY <1>2, <1>4, <1>5, TablesChange

LEMMA JobFailsStep ==
  ASSUME IInv, NEW o \in OrderIds, JobFails(o)
  PROVE  IInv'
  <1>1. Placed(o)
    BY DEF JobFails, IInv, TableInv, IdsSound
  <1>2. UNCHANGED <<cartItem, payment, enrolment, course, transfer, notified,
                    revoked, req, nextCart, nextOrder>>
    BY DEF JobFails
  <1>3. faults' \in 0..MaxFaults
    BY BoundsAssumption DEF JobFails, Fault, IInv, TypeOK
  <1>4. /\ job' \in [OrderIds -> JobRow] /\ req' \in [Slots -> ReqRow]
        /\ \A p \in OrderIds : job'[p].state # "none" => Placed(p)
    BY <1>1, BoundsAssumption
    DEF JobFails, AttemptsLeft, IInv, TypeOK, TableInv, IdsSound, JobRow, NoJob
  <1>5. CASE UNCHANGED order
    <2>1. TablesKept
      BY <1>2, <1>3, <1>4, <1>5, Bounds DEF TablesKept, Tables, IInv, TypeOK
    <2> QED BY <1>2, <2>1, NoRequestMoves
  <1>6. CASE order' = [order EXCEPT ![o].status = "CANCELLED"]
    <2>1. TypeOK' /\ TableInv' /\ Evolves /\ \A x \in Slots : Spared(x)
      BY <1>1, <1>2, <1>3, <1>4, <1>6, CancelTables
    <2>2. {} \in SUBSET Slots
      OBVIOUS
    <2> QED BY <1>2, <2>1, <2>2, TablesChange
  <1> QED BY <1>5, <1>6 DEF JobFails

LEMMA BankTransferStep ==
  ASSUME IInv, NEW t \in TxIds, NEW tr \in Transfer, BankTransfer(t, tr)
  PROVE  IInv'
  <1>0. /\ UNCHANGED <<cartItem, order, payment, enrolment, course, job, notified,
                       revoked, req, nextCart, nextOrder, faults>>
        /\ transfer' = [transfer EXCEPT ![t] = tr] /\ transfer[t] = None
    BY DEF BankTransfer
  <1>1. TypeOK'
    BY <1>0 DEF IInv, TypeOK
  <1>2. \A x \in TxIds : transfer[x] # None => transfer'[x] = transfer[x]
    BY <1>0 DEF IInv, TypeOK
  <1>3. \A x \in TxIds : payment[x] # 0 => transfer'[x] = transfer[x]
    <2> SUFFICES ASSUME NEW x \in TxIds, payment[x] # 0
                 PROVE  transfer[x] # None
      BY <1>2
    <2>1. payment[x] \in OrderIds
      BY BoundsAssumption DEF IInv, TypeOK, OrderIds
    <2>2. /\ order[payment[x]].total \in Amounts
          /\ transfer[x] = [order |-> payment[x], amount |-> order[payment[x]].total]
      BY <2>1 DEF IInv, TypeOK, TableInv, PaymentSettlesOrder, Placed, OrderRow
    <2> QED BY <2>1, <2>2, NoneAssumption DEF Transfer
  <1>4. TableInv'
    <2>1. IdsSound' /\ OneOrderPerCartItem' /\ PaidGrantsAccess'
      BY <1>0 DEF IInv, TableInv, IdsSound, OneOrderPerCartItem, PaidGrantsAccess,
                  HasStatus, Placed, Settled
    <2>2. PaymentSettlesOrder'
      BY <1>0, <1>3 DEF IInv, TableInv, PaymentSettlesOrder, Placed
    <2>3. PaidIsJustified'
      <3>1. \A o \in OrderIds : o # 0
        BY BoundsAssumption DEF OrderIds
      <3> QED BY <1>0, <1>3, <3>1 DEF IInv, TableInv, PaidIsJustified, HasStatus, Placed
    <2> QED BY <2>1, <2>2, <2>3 DEF TableInv
  <1>5. Evolves
    BY <1>0, <1>2, Bounds DEF Evolves, Placed
  <1>6. ASSUME NEW x \in Slots PROVE Spared(x)
    BY <1>0, Held DEF Spared
  <1>7. {} \in SUBSET Slots
    OBVIOUS
  <1> QED BY <1>0, <1>1, <1>4, <1>5, <1>6, <1>7, TablesChange

LEMMA TeacherEnrolStep ==
  ASSUME IInv, NEW e \in Managed, TeacherEnrol(e)
  PROVE  IInv'
  <1>0. /\ UNCHANGED <<cartItem, order, payment, course, job, transfer, notified,
                       revoked, req, nextCart, nextOrder, faults>>
        /\ enrolment' = enrolment \cup {e} /\ e \in Users \X Courses
    BY CatalogueAssumption DEF TeacherEnrol
  <1>1. TypeOK'
    BY <1>0 DEF IInv, TypeOK
  <1>2. TableInv'
    <2>1. IdsSound' /\ OneOrderPerCartItem' /\ PaymentSettlesOrder' /\ PaidIsJustified'
      BY <1>0 DEF IInv, TableInv, IdsSound, OneOrderPerCartItem, PaymentSettlesOrder,
                  PaidIsJustified, HasStatus, Placed
    <2>2. PaidGrantsAccess'
      BY <1>0 DEF IInv, TableInv, PaidGrantsAccess, HasStatus, Placed, Settled
    <2> QED BY <2>1, <2>2 DEF TableInv
  <1>3. Evolves
    BY <1>0, Bounds DEF Evolves, Placed
  <1>4. ASSUME NEW x \in Slots PROVE Spared(x)
    BY <1>0, Held DEF Spared
  <1>5. {} \in SUBSET Slots
    OBVIOUS
  <1> QED BY <1>0, <1>1, <1>2, <1>3, <1>4, <1>5, TablesChange

\* revoked records every purchase that had granted the enrolment, and every
\* open transaction that has already passed it.
LEMMA TeacherRevokeStep ==
  ASSUME IInv, NEW e \in Managed, TeacherRevoke(e)
  PROVE  IInv'
  <1>0. /\ UNCHANGED <<cartItem, order, payment, course, job, transfer, notified,
                       req, nextCart, nextOrder, faults>>
        /\ enrolment' = enrolment \ {e} /\ revoked \subseteq revoked'
        /\ revoked' \subseteq OrderIds
    BY DEF TeacherRevoke, IInv, TypeOK
  <1>1. TypeOK'
    BY <1>0 DEF IInv, TypeOK
  <1>2. TableInv'
    <2>1. IdsSound' /\ OneOrderPerCartItem' /\ PaymentSettlesOrder' /\ PaidIsJustified'
      BY <1>0 DEF IInv, TableInv, IdsSound, OneOrderPerCartItem, PaymentSettlesOrder,
                  PaidIsJustified, HasStatus, Placed
    <2>2. PaidGrantsAccess'
      <3> SUFFICES ASSUME NEW o \in OrderIds, Placed(o), HasStatus(o, "PAID") \/ Settled(o)
                   PROVE  \/ o \in revoked'
                          \/ <<order[o].user, order[o].course>> \in enrolment'
        BY <1>0 DEF PaidGrantsAccess, HasStatus, Placed, Settled
      <3>1. o \in revoked \/ <<order[o].user, order[o].course>> \in enrolment
        BY DEF IInv, TableInv, PaidGrantsAccess
      <3>2. CASE <<order[o].user, order[o].course>> = e
        BY <3>2 DEF TeacherRevoke, Granted
      <3>3. CASE <<order[o].user, order[o].course>> # e
        BY <1>0, <3>1, <3>3
      <3> QED BY <3>2, <3>3
    <2> QED BY <2>1, <2>2 DEF TableInv
  <1>3. Evolves
    BY <1>0, Bounds DEF Evolves, Placed
  <1>4. ASSUME NEW x \in Slots PROVE Spared(x)
    <2>1. ASSUME Paying(x) \/ (req[x].amount = 0 /\ InOrderTx(x)),
                 req[x].pc \in {"enrol", "commit"}, req[x].course \notin req[x].todo,
                 <<req[x].user, req[x].course>> \in enrolment
          PROVE  <<req[x].user, req[x].course>> \in enrolment' \/ req[x].order \in revoked'
      <3>1. req[x].order \in OrderIds
        BY <2>1, Held DEF Paying, InPayTx
      <3>2. CASE <<req[x].user, req[x].course>> # e
        BY <1>0, <2>1, <3>2
      <3>3. CASE <<req[x].user, req[x].course>> = e
        <4>1. Granting(x, req[x].order, e)
          BY <2>1, <3>3 DEF Granting, Paying, InOrderTx
        <4> QED BY <3>1, <4>1 DEF TeacherRevoke
      <3> QED BY <3>2, <3>3
    <2> QED BY <1>0, <2>1, Held DEF Spared
  <1>5. {} \in SUBSET Slots
    OBVIOUS
  <1> QED BY <1>0, <1>1, <1>2, <1>3, <1>4, <1>5, TablesChange

\* The two commits, where rows of several tables appear at once.
LEMMA OrderCommitStep ==
  ASSUME IInv, NEW s \in Slots, OrderCommit(s)
  PROVE  IInv'
  <1> DEFINE r == req[s]
             row == [user |-> r.user, course |-> r.course, total |-> r.amount,
                     cart |-> r.cart,
                     status |-> IF r.amount = 0 THEN "PAID" ELSE "PENDING"]
  <1>0. /\ UNCHANGED <<payment, course, job, transfer, notified, revoked, nextCart,
                       nextOrder, faults>>
        /\ order' = [order EXCEPT ![r.order] = row]
        /\ cartItem' = [cartItem EXCEPT ![r.cart] = None]
        /\ enrolment' = enrolment \cup ({r.user} \X r.granted)
    BY DEF OrderCommit, GrantedPairs
  <1>1. /\ r.pc = "commit" /\ r.tx = None /\ InOrderTx(s) /\ RequestSound(s)
        /\ r.user \in Users /\ r.course \in Courses /\ r.granted \subseteq Courses
        /\ r.amount \in Amounts
    BY DEF OrderCommit, At, IInv, TypeOK, RequestInv, RequestSound, Shaped, InOrderTx, ReqRow
  <1>2. /\ r.cart \in CartIds /\ r.cart < nextCart /\ cartItem[r.cart] # None
        /\ r.order \in OrderIds /\ r.order < nextOrder /\ order[r.order] = None
    BY <1>1, Held
  <1>3. row \in OrderRow /\ row # None
    BY <1>1, <1>2, NoneAssumption DEF OrderRow, Statuses
  <1>4. r.amount = 0 => \/ r.course \in r.granted
                        \/ <<r.user, r.course>> \in enrolment
                        \/ r.order \in revoked
    BY <1>1 DEF RequestSound, GrantSound
  <1>5. /\ row.user = r.user /\ row.course = r.course /\ row.total = r.amount
        /\ row.cart = r.cart
        /\ r.amount = 0 => row.status = "PAID"
        /\ r.amount # 0 => row.status = "PENDING"
    OBVIOUS
  <1>6. req' = [req EXCEPT ![s] =
                  IF r.amount = 0 THEN IdleReq
                  ELSE [IdleReq EXCEPT !.pc = "addJob", !.order = r.order]]
    BY DEF OrderCommit
  <1> HIDE DEF row, r
  <1>7. /\ \A o \in OrderIds : order'[o] = IF o = r.order THEN row ELSE order[o]
        /\ \A i \in CartIds : cartItem'[i] = IF i = r.cart THEN None ELSE cartItem[i]
    BY <1>0 DEF IInv, TypeOK
  <1>8. OnlyMoves(s) /\ RequestSound(s)' /\ ~ InOrderTx(s)' /\ ~ InPayTx(s)'
    <2>1. CASE r.amount = 0
      <3>1. OnlyMoves(s) /\ req'[s] = IdleReq
        BY <1>6, <2>1, IdleTyped DEF IInv, TypeOK, OnlyMoves
      <3> QED BY <3>1, IdleSound
    <2>2. CASE r.amount # 0
      <3>1. req'[s] = [pc |-> "addJob", user |-> None, course |-> None, cart |-> 0,
                       order |-> r.order, tx |-> None, amount |-> 0, todo |-> {},
                       cur |-> None, granted |-> {}]
        BY <1>6, <2>2 DEF IInv, TypeOK, IdleReq
      <3>2. OnlyMoves(s)
        <4>1. req'[s] \in ReqRow
          BY <1>2, <3>1, MoneyAssumption, BoundsAssumption DEF ReqRow, Pcs, OrderIds
        <4> QED BY <1>6, <4>1 DEF IInv, TypeOK, OnlyMoves
      <3>3. order'[r.order] # None
        BY <1>2, <1>3, <1>7
      <3> QED BY <1>2, <3>1, <3>2, <3>3
          DEF RequestSound, Shaped, OrderTxSound, PayTxSound, GrantSound, InOrderTx,
              InPayTx, Paying, Placed
    <2> QED BY <2>1, <2>2
  <1>9. TypeOK'
    BY <1>0, <1>1, <1>3, <1>8 DEF IInv, TypeOK, OnlyMoves
  <1>10. TableInv'
    <2>1. IdsSound'
      BY <1>0, <1>2, <1>5, <1>7 DEF IInv, TableInv, IdsSound, Placed
    <2>2. PaidIsJustified'
      BY <1>0, <1>5, <1>7 DEF IInv, TableInv, PaidIsJustified, HasStatus, Placed
    <2>3. PaymentSettlesOrder'
      <3>1. \A t \in TxIds : payment[t] # 0 => payment[t] \in OrderIds /\ payment[t] # r.order
        BY <1>2, BoundsAssumption
        DEF IInv, TypeOK, TableInv, PaymentSettlesOrder, Placed, OrderIds
      <3> QED BY <1>0, <1>7, <3>1 DEF IInv, TableInv, PaymentSettlesOrder, Placed
    <2>4. OneOrderPerCartItem'
      <3>1. \A o \in OrderIds : order[o] # None => order[o].cart \in CartIds /\ order[o].cart # r.cart
        BY <1>2 DEF IInv, TypeOK, OrderRow, TableInv, OneOrderPerCartItem, Placed
      <3> QED BY <1>2, <1>5, <1>7, <3>1 DEF IInv, TableInv, OneOrderPerCartItem, Placed
    <2>5. PaidGrantsAccess'
      <3> SUFFICES ASSUME NEW o \in OrderIds, order'[o] # None,
                          order'[o].status = "PAID" \/ \E t \in TxIds : payment[t] = o
                   PROVE  \/ o \in revoked
                          \/ <<order'[o].user, order'[o].course>> \in enrolment'
        BY <1>0 DEF PaidGrantsAccess, HasStatus, Placed, Settled
      <3>1. CASE o = r.order
        <4>1. \A t \in TxIds : payment[t] # o
          <5>1. o # 0 /\ order[o] = None
            BY <1>2, <3>1, BoundsAssumption DEF OrderIds
          <5> QED BY <5>1 DEF IInv, TableInv, PaymentSettlesOrder, Placed
        <4>2. r.amount = 0
          BY <1>5, <1>7, <3>1, <4>1
        <4> QED BY <1>0, <1>4, <1>5, <1>7, <3>1, <4>2
      <3>2. CASE o # r.order
        BY <1>0, <1>7, <3>2 DEF IInv, TableInv, PaidGrantsAccess, HasStatus, Placed, Settled
      <3> QED BY <3>1, <3>2
    <2> QED BY <2>1, <2>2, <2>3, <2>4, <2>5 DEF TableInv
  <1>11. Evolves
    BY <1>0, <1>2, <1>7, Bounds DEF Evolves, Placed
  <1>12. ASSUME NEW x \in Slots \ {s} PROVE req'[x] = req[x] /\ Spared(x)
    <2>1. Apart(s, x) /\ req'[x] = req[x]
      BY <1>8 DEF IInv, RequestInv, OnlyMoves
    <2>2. InOrderTx(x) => /\ cartItem'[req[x].cart] = cartItem[req[x].cart]
                          /\ order'[req[x].order] = None
      BY <1>1, <1>7, <2>1, Held DEF Apart, r
    <2> QED BY <1>0, <2>1, <2>2, Held DEF Spared
  <1>13. {s} \in SUBSET Slots
    OBVIOUS
  <1> QED BY <1>8, <1>9, <1>10, <1>11, <1>12, <1>13, TablesChange

LEMMA PayCommitStep ==
  ASSUME IInv, NEW s \in Slots, PayCommit(s)
  PROVE  IInv'
  <1> DEFINE r == req[s]
             o == req[s].order
  <1>0. /\ UNCHANGED <<cartItem, course, job, transfer, notified, revoked, nextCart,
                       nextOrder, faults>>
        /\ payment' = [payment EXCEPT ![r.tx] = o]
        /\ order' = [order EXCEPT ![o].status = "PAID"]
        /\ enrolment' = enrolment \cup ({r.user} \X r.granted)
    BY DEF PayCommit, GrantedPairs
  <1>1. /\ r.pc = "enrol" /\ r.tx # None /\ r.todo = {} /\ InPayTx(s) /\ Paying(s)
        /\ RequestSound(s) /\ r.user \in Users /\ r.course \in Courses
        /\ r.granted \subseteq Courses
    BY DEF PayCommit, At, IInv, TypeOK, RequestInv, RequestSound, Shaped, InPayTx,
           Paying, ReqRow
  <1>2. /\ o \in OrderIds /\ r.tx \in TxIds /\ payment[r.tx] = 0 /\ order[o] # None
        /\ \A t \in TxIds : payment[t] # o
    BY <1>1, Held
  <1>3. /\ transfer[r.tx] = [order |-> o, amount |-> order[o].total]
        /\ r.user = order[o].user /\ r.course = order[o].course
    BY <1>1 DEF RequestSound, PayTxSound
  <1>4. \/ r.course \in r.granted
        \/ <<r.user, r.course>> \in enrolment
        \/ o \in revoked
    BY <1>1 DEF RequestSound, GrantSound
  <1>5. req' = [req EXCEPT ![s] = [IdleReq EXCEPT !.pc = "removeJob", !.order = o]]
    BY DEF PayCommit
  <1> HIDE DEF r, o
  <1>6. o # 0 /\ \A p \in OrderIds : p # 0
    BY <1>2, BoundsAssumption DEF OrderIds
  <1>7. /\ order'[o] \in OrderRow /\ order'[o].status = "PAID"
        /\ order'[o].user = order[o].user /\ order'[o].course = order[o].course
        /\ order'[o].total = order[o].total /\ order'[o].cart = order[o].cart
        /\ \A p \in OrderIds : p # o => order'[p] = order[p]
        /\ order'[o] # None
        /\ \A t \in TxIds : payment'[t] = IF t = r.tx THEN o ELSE payment[t]
    BY <1>0, <1>2, NoneAssumption DEF IInv, TypeOK, OrderRow, Statuses
  <1>8. OnlyMoves(s) /\ RequestSound(s)' /\ ~ InOrderTx(s)' /\ ~ InPayTx(s)'
    <2>1. req'[s] = [pc |-> "removeJob", user |-> None, course |-> None, cart |-> 0,
                     order |-> o, tx |-> None, amount |-> 0, todo |-> {},
                     cur |-> None, granted |-> {}]
      BY <1>5 DEF IInv, TypeOK, IdleReq
    <2>2. OnlyMoves(s)
      <3>1. req'[s] \in ReqRow
        BY <1>2, <2>1, MoneyAssumption, BoundsAssumption DEF ReqRow, Pcs, OrderIds
      <3> QED BY <1>5, <3>1 DEF IInv, TypeOK, OnlyMoves
    <2> QED BY <1>2, <1>7, <2>1, <2>2
        DEF RequestSound, Shaped, OrderTxSound, PayTxSound, GrantSound, InOrderTx,
            InPayTx, Paying, Placed
  <1>9. TypeOK'
    <2>1. /\ order' \in [OrderIds -> OrderRow \cup {None}]
          /\ payment' \in [TxIds -> 0..MaxOrders]
      BY <1>0, <1>2, <1>7, BoundsAssumption DEF IInv, TypeOK, OrderIds
    <2> QED BY <1>0, <1>1, <1>8, <2>1 DEF IInv, TypeOK, OnlyMoves
  <1>10. TableInv'
    <2>1. IdsSound'
      BY <1>0, <1>2, <1>7 DEF IInv, TableInv, IdsSound, Placed
    <2>2. PaidIsJustified'
      <3> SUFFICES ASSUME NEW p \in OrderIds, order'[p] # None, order'[p].status = "PAID"
                   PROVE  \/ order'[p].total = 0
                          \/ \E t \in TxIds : /\ payment'[t] = p
                                              /\ transfer[t].amount = order'[p].total
        BY <1>0 DEF PaidIsJustified, HasStatus, Placed
      <3>1. CASE p = o
        BY <1>2, <1>3, <1>7, <3>1
      <3>2. CASE p # o
        BY <1>2, <1>6, <1>7, <3>2 DEF IInv, TableInv, PaidIsJustified, HasStatus, Placed
      <3> QED BY <3>1, <3>2
    <2>3. PaymentSettlesOrder'
      <3> SUFFICES ASSUME NEW t \in TxIds, payment'[t] # 0
                   PROVE  /\ order'[payment'[t]] # None
                          /\ order'[payment'[t]].status # "PENDING"
                          /\ transfer[t] = [order |-> payment'[t],
                                            amount |-> order'[payment'[t]].total]
                          /\ \A x \in TxIds : payment'[x] = payment'[t] => x = t
        BY <1>0 DEF PaymentSettlesOrder, Placed
      <3>1. CASE t = r.tx
        BY <1>2, <1>3, <1>7, <3>1
      <3>2. CASE t # r.tx
        <4>1. payment'[t] = payment[t] /\ payment[t] \in OrderIds /\ payment[t] # o
          BY <1>2, <1>7, <3>2, BoundsAssumption DEF IInv, TypeOK, OrderIds
        <4>2. /\ order[payment[t]] # None /\ order[payment[t]].status # "PENDING"
              /\ transfer[t] = [order |-> payment[t], amount |-> order[payment[t]].total]
              /\ \A x \in TxIds : payment[x] = payment[t] => x = t
          BY <4>1 DEF IInv, TableInv, PaymentSettlesOrder, Placed
        <4> QED BY <1>7, <4>1, <4>2
      <3> QED BY <3>1, <3>2
    <2>4. OneOrderPerCartItem'
      BY <1>0, <1>2, <1>7 DEF IInv, TableInv, OneOrderPerCartItem, Placed
    <2>5. PaidGrantsAccess'
      <3> SUFFICES ASSUME NEW p \in OrderIds, order'[p] # None,
                          order'[p].status = "PAID" \/ \E t \in TxIds : payment'[t] = p
                   PROVE  \/ p \in revoked
                          \/ <<order'[p].user, order'[p].course>> \in enrolment'
        BY <1>0 DEF PaidGrantsAccess, HasStatus, Placed, Settled
      <3>1. CASE p = o
        BY <1>0, <1>3, <1>4, <1>7, <3>1
      <3>2. CASE p # o
        BY <1>0, <1>7, <3>2 DEF IInv, TableInv, PaidGrantsAccess, HasStatus, Placed, Settled
      <3> QED BY <3>1, <3>2
    <2> QED BY <2>1, <2>2, <2>3, <2>4, <2>5 DEF TableInv
  <1>11. Evolves
    BY <1>0, <1>7, Bounds DEF Evolves, Placed
  <1>12. ASSUME NEW x \in Slots \ {s} PROVE req'[x] = req[x] /\ Spared(x)
    <2>1. Apart(s, x) /\ req'[x] = req[x]
      BY <1>8 DEF IInv, RequestInv, OnlyMoves
    <2>2. InPayTx(x) => r.tx # req[x].tx /\ o # req[x].order
      BY <1>1, <2>1 DEF Apart, r, o
    <2>3. InPayTx(x) => /\ payment'[req[x].tx] = 0
                        /\ \A t \in TxIds : payment'[t] # req[x].order
      <3>1. InPayTx(x) => /\ req[x].tx \in TxIds /\ payment[req[x].tx] = 0
                          /\ \A t \in TxIds : payment[t] # req[x].order
        BY Held
      <3> QED BY <1>7, <2>2, <3>1
    <2>4. InOrderTx(x) => order'[req[x].order] = None
      BY <1>2, <1>7, Held
    <2> QED BY <1>0, <2>1, <2>3, <2>4 DEF Spared
  <1>13. {s} \in SUBSET Slots
    OBVIOUS
  <1> QED BY <1>8, <1>9, <1>10, <1>11, <1>12, <1>13, TablesChange

-----------------------------------------------------------------------------
(* The invariant is inductive *)

LEMMA InitIInv == Init => IInv
  <1> SUFFICES ASSUME Init PROVE IInv
    OBVIOUS
  <1>0. /\ \A s \in Slots : req[s] = IdleReq
        /\ \A o \in OrderIds : order[o] = None /\ job[o].state = "none"
        /\ \A t \in TxIds : payment[t] = 0
    BY DEF Init, NoJob
  <1>1. TypeOK
    <2>1. req \in [Slots -> ReqRow]
      BY IdleTyped DEF Init
    <2>2. job \in [OrderIds -> [state : {"none", "delayed", "active"}, tries : 0..MaxTries]]
      BY BoundsAssumption DEF Init, NoJob
    <2>3. course \in [Courses -> [price : Prices, visible : BOOLEAN]]
      BY DEF Init
    <2> QED BY <2>1, <2>2, <2>3, BoundsAssumption DEF Init, TypeOK
  <1>2. ASSUME NEW s \in Slots PROVE RequestSound(s) /\ ~ InOrderTx(s) /\ ~ InPayTx(s)
    BY <1>0 DEF IdleReq, RequestSound, Shaped, OrderTxSound, PayTxSound, GrantSound,
                InOrderTx, InPayTx, Paying
  <1>3. RequestInv
    BY <1>2 DEF RequestInv, Apart
  <1>4. TableInv
    <2>1. IdsSound
      BY <1>0 DEF Init, IdsSound, Placed
    <2>2. PaidIsJustified /\ PaymentSettlesOrder /\ OneOrderPerCartItem /\ PaidGrantsAccess
      BY <1>0 DEF PaidIsJustified, PaymentSettlesOrder, OneOrderPerCartItem,
                  PaidGrantsAccess, HasStatus, Placed
    <2> QED BY <2>1, <2>2 DEF TableInv
  <1> QED BY <1>1, <1>3, <1>4 DEF IInv

LEMMA StutterStep == ASSUME IInv, UNCHANGED vars PROVE IInv'
  <1>1. TablesKept
    BY NothingWritten DEF vars, Tables, IInv, TypeOK
  <1> QED BY <1>1, NoRequestMoves DEF vars

LEMMA NextIInv == ASSUME IInv, [Next]_vars PROVE IInv'
  <1>1. ASSUME NEW s \in Slots, NewRequest(s) PROVE IInv'
    BY <1>1, CartCheckOrderStep, OrderReadCartStep, CancelReadStep, PayReceiveStep
    DEF NewRequest
  <1>2. ASSUME NEW s \in Slots, Continue(s) PROVE IInv'
    BY <1>2, CartCheckCourseStep, CartInsertStep, OrderTxBeginStep, OrderNotifyStep,
       OrderCommitStep, JobAddStep, EnrolFindStep, EnrolCreateStep, DeadlockVictimStep,
       CancelWriteStep, PayCreateStep, PayReadStep, PayUpdateStep, PayCommitStep,
       JobRemoveStep
    DEF Continue
  <1>3. ASSUME NEW o \in OrderIds, Worker(o) PROVE IInv'
    BY <1>3, JobStartStep, JobCancelStep DEF Worker
  <1>4. ASSUME Faulty PROVE IInv'
    BY <1>4, FaultStep, JobFailsStep DEF Faulty
  <1>5. ASSUME Environment PROVE IInv'
    BY <1>5, DeleteCartStep, BankTransferStep, EditCourseStep, TeacherEnrolStep,
       TeacherRevokeStep
    DEF Environment
  <1>6. ASSUME Quiescent \/ UNCHANGED vars PROVE IInv'
    BY <1>6, StutterStep DEF Quiescent
  <1> QED BY <1>1, <1>2, <1>3, <1>4, <1>5, <1>6 DEF Next

\* The inductive invariant holds in every reachable state.
THEOREM Invariant == Spec => []IInv
  <1>1. Init => IInv
    BY InitIInv
  <1>2. IInv /\ [Next]_vars => IInv'
    BY NextIInv
  <1> QED BY <1>1, <1>2, PTL DEF Spec

\* Rows and requests keep their shape.
THEOREM TypeCorrect == Spec => []TypeOK
  <1>1. IInv => TypeOK
    BY DEF IInv
  <1> QED BY <1>1, Invariant, PTL

\* No order is given away: whatever requests, transfers, cancellations, jobs
\* and faults interleave, a PAID order was free or has a recorded transfer of
\* exactly its total.
THEOREM NothingGivenAway == Spec => []PaidIsJustified
  <1>1. IInv => PaidIsJustified
    BY DEF IInv, TableInv
  <1> QED BY <1>1, Invariant, PTL

\* A payment row is the only one of its order, matches it, and never coexists
\* with a PENDING order.
THEOREM EachPaymentSettles == Spec => []PaymentSettlesOrder
  <1>1. IInv => PaymentSettlesOrder
    BY DEF IInv, TableInv
  <1> QED BY <1>1, Invariant, PTL

\* A cart item becomes at most one order.
THEOREM CartItemsOrderedOnce == Spec => []OneOrderPerCartItem
  <1>1. IInv => OneOrderPerCartItem
    BY DEF IInv, TableInv
  <1> QED BY <1>1, Invariant, PTL

\* Whoever has paid is enrolled, unless a teacher has undone it since.
THEOREM PayersAreEnrolled == Spec => []PaidGrantsAccess
  <1>1. IInv => PaidGrantsAccess
    BY DEF IInv, TableInv
  <1> QED BY <1>1, Invariant, PTL

-----------------------------------------------------------------------------
(* What customers are told *)

\* An order's id is in use once its customer has been told, while its transaction is still
\* open too, and who is about to tell has settled it.
NotifyInv ==
  /\ \A o \in notified : o < nextOrder /\ (Placed(o) => order[o].total = 0 \/ Settled(o))
  /\ \A x \in Slots : InOrderTx(x) /\ req[x].order \in notified => req[x].amount = 0
  /\ \A x \in Slots : req[x].pc = "removeJob" => Settled(req[x].order)

\* Orders are neither placed nor repriced, and what is settled stays so.
OrdersKept ==
  /\ nextOrder' \in 1..(MaxOrders + 1) /\ nextOrder <= nextOrder'
  /\ \A o \in OrderIds : Placed(o)' => Placed(o) /\ order'[o].total = order[o].total
  /\ \A o \in OrderIds : Settled(o) => Settled(o)'

\* A request gets no new order and does not set out to tell its customer.
Calm(x) ==
  /\ req'[x].pc = "removeJob" => req[x].pc = "removeJob" /\ req'[x].order = req[x].order
  /\ InOrderTx(x)' => /\ InOrderTx(x)
                      /\ req'[x].order = req[x].order /\ req'[x].amount = req[x].amount

LEMMA NotifyFrame ==
  ASSUME IInv, NotifyInv, UNCHANGED notified, OrdersKept, \A x \in Slots : Calm(x)
  PROVE  NotifyInv'
  <1>1. notified \subseteq OrderIds /\ nextOrder \in Int
    BY Bounds DEF IInv, TypeOK
  <1>2. ASSUME NEW o \in notified
        PROVE  o < nextOrder' /\ (Placed(o)' => order'[o].total = 0 \/ Settled(o)')
    BY <1>1 DEF NotifyInv, OrdersKept, OrderIds
  <1>3. \A x \in Slots : InOrderTx(x)' /\ req'[x].order \in notified => req'[x].amount = 0
    BY DEF NotifyInv, Calm
  <1>4. ASSUME NEW x \in Slots, req'[x].pc = "removeJob" PROVE Settled(req[x].order)'
    <2>1. req[x].pc = "removeJob" /\ req'[x].order = req[x].order /\ req[x].order \in OrderIds
      BY <1>4 DEF Calm, IInv, RequestInv, RequestSound, Shaped
    <2>2. \E t \in TxIds : payment'[t] = req[x].order
      BY <2>1 DEF NotifyInv, OrdersKept, Settled
    <2> QED BY <2>1, <2>2 DEF Settled
  <1> QED BY <1>2, <1>3, <1>4 DEF NotifyInv

LEMMA OrdersStay ==
  ASSUME IInv, UNCHANGED <<payment, nextOrder>>,
         \A o \in OrderIds : Placed(o)' => Placed(o) /\ order'[o].total = order[o].total
  PROVE  OrdersKept
  BY Bounds DEF OrdersKept, Settled

\* Only the request of slot s moves, and it stays calm.
LEMMA OthersCalm ==
  ASSUME IInv, NEW s \in Slots, NEW row, req' = [req EXCEPT ![s] = row],
         row.pc # "removeJob", row.pc \notin {"enrol", "grant", "commit"}
  PROVE  \A x \in Slots : Calm(x)
  BY DEF Calm, InOrderTx, IInv, TypeOK

LEMMA FinishCalm ==
  ASSUME IInv, NEW s \in Slots, Finish(s)
  PROVE  \A x \in Slots : Calm(x)
  BY DEF Calm, InOrderTx, Finish, IdleReq, IInv, TypeOK

\* A request goes on within its transaction, or to an await without one.
LEMMA SameCalm ==
  ASSUME IInv, NEW s \in Slots, OnlyMoves(s), req'[s].tx = req[s].tx,
         req'[s].order = req[s].order, req'[s].amount = req[s].amount,
         req'[s].pc # "removeJob",
         req'[s].pc \in {"enrol", "grant", "commit"} /\ req[s].tx = None
           => req[s].pc \in {"enrol", "grant"}
  PROVE  \A x \in Slots : Calm(x)
  BY DEF Calm, InOrderTx, OnlyMoves

LEMMA GotoCalm ==
  ASSUME IInv, NEW s \in Slots, NEW pc \in Pcs, Goto(s, pc), pc # "removeJob",
         pc \in {"enrol", "grant", "commit"} /\ req[s].tx = None
           => req[s].pc \in {"enrol", "grant"}
  PROVE  \A x \in Slots : Calm(x)
  BY GotoMoves, SameCalm

LEMMA NewRequestNotify ==
  ASSUME IInv, NotifyInv, NEW s \in Slots, NewRequest(s)
  PROVE  NotifyInv'
  <1>1. UNCHANGED <<notified, order, payment, nextOrder>>
    BY DEF NewRequest, CartCheckOrder, OrderReadCart, CancelRead, PayReceive
  <1>2. /\ req'[s].pc \notin {"removeJob", "enrol", "grant", "commit"}
        /\ \A x \in Slots \ {s} : req'[x] = req[x]
    <2> USE DEF IdleReq, IInv, TypeOK
    <2>1. CASE \E u \in Users, c \in Courses : CartCheckOrder(s, u, c)
      BY <2>1 DEF CartCheckOrder
    <2>2. CASE \E u \in Users, i \in CartIds, k \in Coupons \cup {None} :
                 OrderReadCart(s, u, i, k)
      BY <2>2 DEF OrderReadCart
    <2>3. CASE \E o \in OrderIds : CancelRead(s, o)
      BY <2>3 DEF CancelRead
    <2>4. CASE \E t \in TxIds : PayReceive(s, t)
      BY <2>4 DEF PayReceive
    <2> QED BY <2>1, <2>2, <2>3, <2>4 DEF NewRequest
  <1>3. \A x \in Slots : Calm(x)
    BY <1>2 DEF Calm, InOrderTx
  <1> QED BY <1>1, <1>3, OrdersStay, NotifyFrame DEF Placed

LEMMA OrderTxBeginNotify ==
  ASSUME IInv, NotifyInv, NEW s \in Slots, OrderTxBegin(s)
  PROVE  NotifyInv'
  <1>1. UNCHANGED <<notified, order, payment>>
    BY DEF OrderTxBegin
  <1>2. CASE Finish(s) /\ UNCHANGED nextOrder
    BY <1>1, <1>2, FinishCalm, OrdersStay, NotifyFrame DEF Placed
  <1>3. CASE /\ nextOrder' = nextOrder + 1 /\ nextOrder <= MaxOrders
             /\ req' = [req EXCEPT ![s].order = nextOrder, ![s].pc = AfterCreate(s)]
    <2>1. nextOrder \in Int /\ nextOrder' \in Int /\ notified \subseteq OrderIds
      BY <1>3, Bounds DEF IInv, TypeOK
    <2>2. /\ req'[s].order = nextOrder /\ req'[s].pc # "removeJob"
          /\ \A x \in Slots \ {s} : req'[x] = req[x]
      BY <1>3 DEF IInv, TypeOK, ReqRow, AfterCreate
    <2>3. \A o \in notified : o < nextOrder' /\ (Placed(o)' => order'[o].total = 0 \/ Settled(o)')
      BY <1>1, <1>3, <2>1 DEF NotifyInv, Placed, Settled, OrderIds
    <2>4. nextOrder \notin notified
      BY <2>1 DEF NotifyInv
    <2>5. \A x \in Slots : InOrderTx(x)' /\ req'[x].order \in notified => req'[x].amount = 0
      BY <2>2, <2>4 DEF NotifyInv, InOrderTx
    <2>6. \A x \in Slots : req'[x].pc = "removeJob" => Settled(req[x].order)'
      BY <1>1, <2>2 DEF NotifyInv, Settled
    <2> QED BY <1>1, <2>3, <2>5, <2>6 DEF NotifyInv
  <1> QED BY <1>2, <1>3 DEF OrderTxBegin

\* A free order's customer is told before the order is there.
LEMMA OrderNotifyNotify ==
  ASSUME IInv, NotifyInv, NEW s \in Slots, OrderNotify(s)
  PROVE  NotifyInv'
  <1>1. /\ InOrderTx(s) /\ req[s].pc = "enrol" /\ UNCHANGED <<order, payment, nextOrder>>
        /\ notified' = notified \cup {req[s].order} /\ Goto(s, "commit")
    BY DEF OrderNotify, InOrderTx, At
  <1>2. /\ req[s].order < nextOrder /\ ~ Placed(req[s].order) /\ req[s].amount = 0
    BY <1>1 DEF IInv, RequestInv, RequestSound, OrderTxSound
  <1>3. /\ req'[s].order = req[s].order /\ req'[s].amount = 0 /\ req'[s].pc = "commit"
        /\ \A x \in Slots \ {s} : req'[x] = req[x]
    BY <1>1, <1>2, GotoMoves DEF OnlyMoves, Pcs
  <1>4. \A o \in notified' : o < nextOrder' /\ (Placed(o)' => order'[o].total = 0 \/ Settled(o)')
    BY <1>1, <1>2 DEF NotifyInv, Placed, Settled
  <1>5. ASSUME NEW x \in Slots, InOrderTx(x)', req'[x].order \in notified'
        PROVE  req'[x].amount = 0
    <2>1. CASE x = s
      BY <1>3, <2>1
    <2>2. CASE x # s
      <3>1. InOrderTx(x) /\ req'[x] = req[x] /\ req[x].order # req[s].order
        BY <1>1, <1>3, <1>5, <2>2 DEF IInv, RequestInv, Apart, InOrderTx
      <3> QED BY <1>1, <1>5, <3>1 DEF NotifyInv
    <2> QED BY <2>1, <2>2
  <1>6. \A x \in Slots : req'[x].pc = "removeJob" => Settled(req[x].order)'
    BY <1>1, <1>3 DEF NotifyInv, Settled
  <1> QED BY <1>4, <1>5, <1>6 DEF NotifyInv

\* Two open transactions have two orders, so only its own order is placed: if its customer
\* has been told, it is free.
LEMMA OrderCommitNotify ==
  ASSUME IInv, NotifyInv, NEW s \in Slots, OrderCommit(s)
  PROVE  NotifyInv'
  <1>1. /\ InOrderTx(s) /\ UNCHANGED <<notified, payment, nextOrder>>
        /\ req[s].order \in OrderIds
        /\ order' = [order EXCEPT ![req[s].order] =
             [user |-> req[s].user, course |-> req[s].course, total |-> req[s].amount,
              cart |-> req[s].cart,
              status |-> IF req[s].amount = 0 THEN "PAID" ELSE "PENDING"]]
    BY Held DEF OrderCommit, At, InOrderTx, IInv, RequestInv, RequestSound, Shaped
  <1> DEFINE row == IF req[s].amount = 0 THEN IdleReq
                    ELSE [IdleReq EXCEPT !.pc = "addJob", !.order = req[s].order]
  <1>2. req' = [req EXCEPT ![s] = row] /\ row.pc \in {"idle", "addJob"}
    BY DEF OrderCommit, IdleReq
  <1>3. ASSUME NEW o \in notified
        PROVE  o < nextOrder' /\ (Placed(o)' => order'[o].total = 0 \/ Settled(o)')
    <2>1. o \in OrderIds /\ order \in [OrderIds -> OrderRow \cup {None}]
      BY DEF IInv, TypeOK
    <2>2. CASE o = req[s].order
      <3>1. req[s].amount = 0
        BY <1>1, <2>2 DEF NotifyInv
      <3>2. order'[o].total = 0
        BY <1>1, <2>1, <2>2, <3>1
      <3> QED BY <1>1, <3>2 DEF NotifyInv
    <2>3. CASE o # req[s].order
      <3>1. order'[o] = order[o]
        BY <1>1, <2>1, <2>3
      <3> QED BY <1>1, <3>1 DEF NotifyInv, Placed, Settled
    <2> QED BY <2>2, <2>3
  <1>4. \A x \in Slots : Calm(x)
    BY <1>2, OthersCalm
  <1>5. \A x \in Slots : InOrderTx(x)' /\ req'[x].order \in notified => req'[x].amount = 0
    BY <1>4 DEF NotifyInv, Calm
  <1>6. \A x \in Slots : req'[x].pc = "removeJob" => Settled(req[x].order)'
    BY <1>1, <1>4 DEF NotifyInv, Calm, Settled
  <1> QED BY <1>1, <1>3, <1>5, <1>6 DEF NotifyInv

LEMMA PayCommitNotify ==
  ASSUME IInv, NotifyInv, NEW s \in Slots, PayCommit(s)
  PROVE  NotifyInv'
  <1>1. /\ InPayTx(s) /\ UNCHANGED <<notified, nextOrder>>
        /\ order' = [order EXCEPT ![req[s].order].status = "PAID"]
        /\ payment' = [payment EXCEPT ![req[s].tx] = req[s].order]
        /\ req' = [req EXCEPT ![s] = [IdleReq EXCEPT !.pc = "removeJob",
                                                     !.order = req[s].order]]
    BY DEF PayCommit, At, InPayTx
  <1>2. /\ req[s].order \in OrderIds /\ req[s].tx \in TxIds /\ payment[req[s].tx] = 0
        /\ order[req[s].order] \in OrderRow
    BY <1>1, Held DEF IInv, TypeOK
  <1>3. /\ order \in [OrderIds -> OrderRow \cup {None}] /\ payment \in [TxIds -> 0..MaxOrders]
        /\ req \in [Slots -> ReqRow] /\ notified \subseteq OrderIds
    BY DEF IInv, TypeOK
  <1>4. \A o \in OrderIds : Settled(o) => Settled(o)'
    BY <1>1, <1>2, <1>3 DEF Settled, OrderIds
  <1>5. \E t \in TxIds : payment'[t] = req[s].order
    BY <1>1, <1>2, <1>3 DEF Settled
  <1>6. \A o \in OrderIds : Placed(o)' => Placed(o) /\ order'[o].total = order[o].total
    BY <1>1, <1>2, <1>3, NoneAssumption DEF Placed, OrderRow
  <1>7. \A o \in notified : o < nextOrder' /\ (Placed(o)' => order'[o].total = 0 \/ Settled(o)')
    BY <1>1, <1>3, <1>4, <1>6 DEF NotifyInv
  <1>8. \A x \in Slots : InOrderTx(x)' /\ req'[x].order \in notified => req'[x].amount = 0
    BY <1>1, <1>3 DEF NotifyInv, InOrderTx, IdleReq
  <1>9. ASSUME NEW x \in Slots, req'[x].pc = "removeJob" PROVE Settled(req[x].order)'
    <2>1. CASE x = s
      <3>1. req'[x].order = req[s].order
        BY <1>1, <1>3, <2>1 DEF IdleReq
      <3> QED BY <1>5, <3>1 DEF Settled
    <2>2. CASE x # s
      <3>1. req'[x] = req[x] /\ req[x].order \in OrderIds
        BY <1>1, <1>3, <1>9, <2>2 DEF IInv, RequestInv, RequestSound, Shaped
      <3>2. \E t \in TxIds : payment'[t] = req[x].order
        BY <1>4, <1>9, <3>1 DEF NotifyInv, Settled
      <3> QED BY <3>1, <3>2 DEF Settled
    <2> QED BY <2>1, <2>2
  <1> QED BY <1>1, <1>7, <1>8, <1>9 DEF NotifyInv

\* With or without the job removed, the customer of a settled order is told.
LEMMA TellingNotify ==
  ASSUME IInv, NotifyInv, NEW s \in Slots, JobRemove(s) \/ JobRemoveFails(s)
  PROVE  NotifyInv'
  <1>1. /\ req[s].pc = "removeJob" /\ Finish(s) /\ UNCHANGED <<order, payment, nextOrder>>
        /\ notified' = notified \cup {req[s].order}
    BY DEF JobRemove, JobRemoveFails, At
  <1>2. /\ Settled(req[s].order) /\ req[s].order \in OrderIds
        /\ Placed(req[s].order)
    BY <1>1 DEF NotifyInv, IInv, RequestInv, RequestSound, Shaped
  <1>3. req[s].order < nextOrder
    BY <1>2 DEF IInv, TableInv, IdsSound
  <1>4. \A o \in notified' : o < nextOrder' /\ (Placed(o)' => order'[o].total = 0 \/ Settled(o)')
    BY <1>1, <1>2, <1>3 DEF NotifyInv, Placed, Settled
  <1>5. \A x \in Slots : Calm(x)
    BY <1>1, FinishCalm
  <1>6. ASSUME NEW x \in Slots, InOrderTx(x)', req'[x].order \in notified'
        PROVE  req'[x].amount = 0
    <2>1. InOrderTx(x) /\ req'[x].order = req[x].order /\ req'[x].amount = req[x].amount
      BY <1>5, <1>6 DEF Calm
    <2>2. ~ Placed(req[x].order)
      BY <2>1 DEF IInv, RequestInv, RequestSound, OrderTxSound
    <2> QED BY <1>1, <1>2, <1>6, <2>1, <2>2 DEF NotifyInv
  <1>7. \A x \in Slots : req'[x].pc = "removeJob" => Settled(req[x].order)'
    BY <1>1, <1>5 DEF NotifyInv, Calm, Settled
  <1> QED BY <1>4, <1>6, <1>7 DEF NotifyInv

\* Requests that go on without touching orders or payments.
LEMMA CalmContinue ==
  ASSUME IInv, NEW s \in Slots,
         \/ CartCheckCourse(s) \/ CartInsert(s) \/ JobAdd(s) \/ EnrolFind(s)
         \/ EnrolCreate(s) \/ DeadlockVictim(s) \/ PayCreate(s) \/ PayRead(s)
         \/ PayUpdate(s) \/ RequestLost(s) \/ JobAddFails(s)
  PROVE  UNCHANGED <<notified, order, payment, nextOrder>> /\ \A x \in Slots : Calm(x)
  <1> DEFINE Same == UNCHANGED <<notified, order, payment, nextOrder>>
  <1>0. /\ req[s] \in ReqRow /\ req \in [Slots -> ReqRow] /\ Shaped(s)
        /\ {"cartInsert", "payRead", "enrol"} \subseteq Pcs
    BY DEF IInv, TypeOK, RequestInv, RequestSound, Pcs
  <1>1. CASE CartCheckCourse(s)
    BY <1>0, <1>1, GotoCalm, FinishCalm DEF CartCheckCourse
  <1>2. CASE CartInsert(s) \/ JobAdd(s) \/ DeadlockVictim(s) \/ RequestLost(s) \/ JobAddFails(s)
    BY <1>2, FinishCalm DEF CartInsert, JobAdd, DeadlockVictim, RequestLost, JobAddFails
  <1>3. CASE EnrolFind(s)
    <2>1. PICK r : /\ req' = [req EXCEPT ![s] = r]
                   /\ r.pc \in {"enrol", "grant"}
                   /\ r.tx = req[s].tx /\ r.order = req[s].order /\ r.amount = req[s].amount
      <3>1. PICK c \in req[s].todo :
              IF Enrolled(req[s].user, c)
              THEN req' = [req EXCEPT ![s].todo = @ \ {c}]
              ELSE req' = [req EXCEPT ![s].todo = @ \ {c}, ![s].cur = c, ![s].pc = "grant"]
        BY <1>3 DEF EnrolFind
      <3>2. CASE req' = [req EXCEPT ![s].todo = @ \ {c}]
        <4> WITNESS [req[s] EXCEPT !.todo = @ \ {c}]
        <4> QED BY <1>0, <1>3, <3>2 DEF EnrolFind, At, ReqRow
      <3>3. CASE req' = [req EXCEPT ![s].todo = @ \ {c}, ![s].cur = c, ![s].pc = "grant"]
        <4> WITNESS [req[s] EXCEPT !.todo = @ \ {c}, !.cur = c, !.pc = "grant"]
        <4> QED BY <1>0, <3>3 DEF ReqRow
      <3> QED BY <3>1, <3>2, <3>3
    <2>2. \A x \in Slots : Calm(x)
      BY <1>0, <1>3, <2>1 DEF Calm, InOrderTx, EnrolFind, At
    <2> QED BY <1>3, <2>2 DEF EnrolFind
  <1>4. CASE EnrolCreate(s)
    <2>1. CASE Finish(s)
      BY <1>4, <2>1, FinishCalm DEF EnrolCreate
    <2>2. CASE req' = [req EXCEPT ![s].granted = @ \cup {req[s].cur}, ![s].cur = None,
                                  ![s].pc = "enrol"]
      <3>1. /\ req'[s].pc = "enrol" /\ req'[s].tx = req[s].tx
            /\ req'[s].order = req[s].order /\ req'[s].amount = req[s].amount
            /\ \A x \in Slots \ {s} : req'[x] = req[x]
        BY <1>0, <2>2 DEF ReqRow
      <3> QED BY <1>4, <3>1 DEF Calm, InOrderTx, EnrolCreate, At
    <2> QED BY <1>4, <2>1, <2>2 DEF EnrolCreate
  <1>5. CASE PayCreate(s)
    BY <1>0, <1>5, GotoCalm, FinishCalm DEF PayCreate
  <1>6. CASE PayRead(s)
    <2>1. CASE Finish(s)
      BY <1>6, <2>1, FinishCalm DEF PayRead
    <2>2. CASE ~ Finish(s)
      <3>1. /\ req'[s].pc = "payUpdate" /\ \A x \in Slots \ {s} : req'[x] = req[x]
        BY <1>0, <1>6, <2>2 DEF PayRead, ReqRow
      <3> QED BY <1>6, <3>1 DEF Calm, InOrderTx, PayRead
    <2> QED BY <2>1, <2>2
  <1>7. CASE PayUpdate(s)
    <2>1. req[s].tx # None /\ Goto(s, "enrol")
      BY <1>0, <1>7 DEF PayUpdate, At, Shaped
    <2> QED BY <1>0, <1>7, <2>1, GotoCalm DEF PayUpdate
  <1> QED BY <1>1, <1>2, <1>3, <1>4, <1>5, <1>6, <1>7

LEMMA CancelledKept ==
  ASSUME IInv, NEW o \in OrderIds, Placed(o) \/ UNCHANGED order,
         order' = [order EXCEPT ![o].status = "CANCELLED"] \/ UNCHANGED order
  PROVE  \A p \in OrderIds : Placed(p)' => Placed(p) /\ order'[p].total = order[p].total
  <1>1. order \in [OrderIds -> OrderRow \cup {None}]
    BY DEF IInv, TypeOK
  <1> QED BY <1>1 DEF Placed, OrderRow

LEMMA ContinueNotify ==
  ASSUME IInv, NotifyInv, NEW s \in Slots, Continue(s)
  PROVE  NotifyInv'
  <1>1. CASE CancelWrite(s)
    <2>1. req[s].order \in OrderIds /\ Placed(req[s].order)
      BY <1>1 DEF CancelWrite, At, IInv, RequestInv, RequestSound, Shaped
    <2>2. \A p \in OrderIds : Placed(p)' => Placed(p) /\ order'[p].total = order[p].total
      BY <1>1, <2>1, CancelledKept DEF CancelWrite
    <2> QED BY <1>1, <2>2, FinishCalm, OrdersStay, NotifyFrame DEF CancelWrite
  <1>2. CASE \/ CartCheckCourse(s) \/ CartInsert(s) \/ JobAdd(s) \/ EnrolFind(s)
             \/ EnrolCreate(s) \/ DeadlockVictim(s) \/ PayCreate(s) \/ PayRead(s)
             \/ PayUpdate(s)
    BY <1>2, CalmContinue, OrdersStay, NotifyFrame DEF Placed
  <1> QED BY <1>1, <1>2, OrderTxBeginNotify, OrderNotifyNotify, OrderCommitNotify,
             PayCommitNotify, TellingNotify
          DEF Continue

LEMMA QuietNotify ==
  ASSUME IInv, NotifyInv,
         \/ \E o \in OrderIds : JobStart(o)
         \/ Environment \/ Quiescent \/ UNCHANGED vars
  PROVE  NotifyInv'
  <1>1. UNCHANGED <<notified, order, payment, nextOrder, req>>
    BY DEF JobStart, Environment, DeleteCart, BankTransfer, EditCourse, TeacherEnrol,
           TeacherRevoke, Quiescent, vars
  <1>2. \A x \in Slots : Calm(x)
    BY <1>1 DEF Calm, InOrderTx
  <1> QED BY <1>1, <1>2, OrdersStay, NotifyFrame DEF Placed

LEMMA JobNotify ==
  ASSUME IInv, NotifyInv, NEW o \in OrderIds, JobCancel(o) \/ JobFails(o)
  PROVE  NotifyInv'
  <1>1. /\ Placed(o) /\ UNCHANGED <<notified, payment, nextOrder, req>>
        /\ order' = [order EXCEPT ![o].status = "CANCELLED"] \/ UNCHANGED order
    BY DEF JobCancel, JobFails, IInv, TableInv, IdsSound
  <1>2. \A x \in Slots : Calm(x)
    BY <1>1 DEF Calm, InOrderTx
  <1> QED BY <1>1, <1>2, CancelledKept, OrdersStay, NotifyFrame

LEMMA NextNotify == ASSUME IInv, NotifyInv, [Next]_vars PROVE NotifyInv'
  <1>1. CASE \E o \in OrderIds : Worker(o)
    BY <1>1, QuietNotify, JobNotify DEF Worker
  <1>2. CASE Faulty
    <2>1. CASE \E s \in Slots : RequestLost(s) \/ JobAddFails(s)
      BY <2>1, CalmContinue, OrdersStay, NotifyFrame DEF Placed
    <2> QED BY <1>2, <2>1, TellingNotify, JobNotify DEF Faulty
  <1> QED BY <1>1, <1>2, NewRequestNotify, ContinueNotify, QuietNotify DEF Next

\* 'Payment received successfully' is only ever said of an order that was free or is
\* settled: although it is said while the order's transaction is open, no rollback, other
\* order or other payment comes between.
THEOREM ToldIsSettled == Spec => []NotifiedIsSettled
  <1>1. Init => NotifyInv
    BY DEF Init, NotifyInv, InOrderTx, IdleReq
  <1>2. IInv /\ NotifyInv /\ [Next]_vars => NotifyInv'
    BY NextNotify
  <1>3. NotifyInv => NotifiedIsSettled
    BY DEF NotifyInv, NotifiedIsSettled
  <1> QED BY <1>1, <1>2, <1>3, Invariant, PTL DEF Spec

-----------------------------------------------------------------------------
(* Checkout implements PurchaseLedger: the tables map to themselves and each *)
(* step is a ledger step or leaves them alone.                              *)

LedgerStep == [Ledger!Next]_(Ledger!ledger)

LEMMA LedgerKept ==
  ASSUME UNCHANGED <<cartItem, order, payment, enrolment, revoked, transfer>>
  PROVE  LedgerStep
  BY DEF LedgerStep, Ledger!ledger

LEMMA CartInsertLedger ==
  ASSUME IInv, NEW s \in Slots, CartInsert(s)
  PROVE  LedgerStep
  <1>1. CASE UNCHANGED <<cartItem, nextCart>>
    BY <1>1, LedgerKept DEF CartInsert
  <1>2. CASE ~ UNCHANGED <<cartItem, nextCart>>
    <2> DEFINE row == [user |-> req[s].user, course |-> req[s].course]
    <2>1. /\ nextCart <= MaxCarts /\ cartItem' = [cartItem EXCEPT ![nextCart] = row]
          /\ \A i \in CartIds : cartItem[i] # row
          /\ UNCHANGED <<order, payment, enrolment, revoked, transfer>>
      BY <1>2 DEF CartInsert
    <2>2. nextCart \in 1..MaxCarts /\ cartItem[nextCart] = None
      BY <2>1, Bounds, BoundsAssumption DEF IInv, TableInv, IdsSound, CartIds
    <2>3. req[s].user \in Users /\ req[s].course \in Courses
      BY DEF CartInsert, At, IInv, RequestInv, RequestSound, Shaped
    <2>4. Ledger!AddItem(nextCart, req[s].user, req[s].course)
      BY <2>1, <2>2 DEF Ledger!AddItem, CartIds
    <2> QED BY <2>2, <2>3, <2>4 DEF LedgerStep, Ledger!Next
  <1> QED BY <1>1, <1>2

LEMMA DeleteCartLedger ==
  ASSUME NEW i \in CartIds, DeleteCart(i)
  PROVE  LedgerStep
  <1>1. Ledger!DropItem(i)
    BY DEF DeleteCart, Ledger!DropItem
  <1> QED BY <1>1 DEF LedgerStep, Ledger!Next, CartIds

LEMMA OrderCommitLedger ==
  ASSUME IInv, NEW s \in Slots, OrderCommit(s)
  PROVE  LedgerStep
  <1> DEFINE r == req[s]
  <1>1. r.pc = "commit" /\ InOrderTx(s) /\ RequestSound(s) /\ r.amount \in Amounts
    BY DEF OrderCommit, At, IInv, TypeOK, RequestInv, RequestSound, Shaped, InOrderTx, ReqRow
  <1>2. /\ r.cart \in CartIds /\ cartItem[r.cart] # None
        /\ cartItem[r.cart] = [user |-> r.user, course |-> r.course]
        /\ r.order \in OrderIds /\ order[r.order] = None
    BY <1>1, Held
  <1>3. cartItem[r.cart].user = r.user /\ cartItem[r.cart].course = r.course
    BY <1>2
  <1>4. /\ order' = [order EXCEPT ![r.order] =
                       [user |-> r.user, course |-> r.course, total |-> r.amount,
                        cart |-> r.cart,
                        status |-> IF r.amount = 0 THEN "PAID" ELSE "PENDING"]]
        /\ cartItem' = [cartItem EXCEPT ![r.cart] = None]
        /\ enrolment' = enrolment \cup ({r.user} \X r.granted)
        /\ UNCHANGED <<payment, revoked, transfer>>
    BY DEF OrderCommit, GrantedPairs
  <1>5. CASE r.amount = 0
    <2>1. r.granted \in SUBSET (Children[r.course] \cup {r.course})
      BY <1>1 DEF RequestSound, GrantSound, Grantable
    <2>2. \/ r.course \in r.granted
          \/ <<r.user, r.course>> \in enrolment
          \/ r.order \in revoked
      BY <1>1, <1>5 DEF RequestSound, GrantSound
    <2>3. <<r.user, r.course>> \in enrolment' \/ r.order \in revoked
      BY <1>4, <2>2
    <2> HIDE DEF r
    <2>4. Ledger!Grant(r.order, r.user, r.course)
      BY <1>4, <2>1, <2>3 DEF Ledger!Grant
    <2>5. Ledger!Place(r.order, r.cart, r.amount)
      BY <1>2, <1>3, <1>4, <1>5, <2>4 DEF Ledger!Place
    <2> QED BY <1>1, <1>2, <2>5 DEF LedgerStep, Ledger!Next, CartIds, OrderIds
  <1>6. CASE r.amount # 0
    <2>1. r.granted = {}
      BY <1>1, <1>6 DEF RequestSound, GrantSound
    <2>2. enrolment' = enrolment
      BY <1>4, <2>1
    <2> HIDE DEF r
    <2>3. Ledger!Place(r.order, r.cart, r.amount)
      BY <1>2, <1>3, <1>4, <1>6, <2>2 DEF Ledger!Place
    <2> QED BY <1>1, <1>2, <2>3 DEF LedgerStep, Ledger!Next, CartIds, OrderIds
  <1> QED BY <1>5, <1>6

LEMMA PayCommitLedger ==
  ASSUME IInv, NEW s \in Slots, PayCommit(s)
  PROVE  LedgerStep
  <1> DEFINE r == req[s]
             o == req[s].order
  <1>1. /\ r.pc = "enrol" /\ r.tx # None /\ r.todo = {} /\ InPayTx(s) /\ Paying(s)
        /\ RequestSound(s)
    BY DEF PayCommit, At, IInv, RequestInv, InPayTx, Paying
  <1>2. /\ o \in OrderIds /\ r.tx \in TxIds /\ payment[r.tx] = 0 /\ order[o] # None
        /\ \A t \in TxIds : payment[t] # o
    BY <1>1, Held
  <1>3. /\ transfer[r.tx] = [order |-> o, amount |-> order[o].total]
        /\ order[o].total # 0 /\ r.user = order[o].user /\ r.course = order[o].course
    BY <1>1 DEF RequestSound, PayTxSound
  <1>4. order[o].status # "PAID"
    BY <1>2, <1>3 DEF IInv, TableInv, PaidIsJustified, HasStatus, Placed
  <1>5. /\ payment' = [payment EXCEPT ![r.tx] = o]
        /\ order' = [order EXCEPT ![o].status = "PAID"]
        /\ enrolment' = enrolment \cup ({r.user} \X r.granted)
        /\ UNCHANGED <<cartItem, revoked, transfer>>
    BY DEF PayCommit, GrantedPairs
  <1>6. r.granted \in SUBSET (Children[r.course] \cup {r.course})
    BY <1>1 DEF RequestSound, GrantSound, Grantable
  <1>7. \/ r.course \in r.granted
        \/ <<r.user, r.course>> \in enrolment
        \/ o \in revoked
    BY <1>1 DEF RequestSound, GrantSound
  <1>8. <<r.user, r.course>> \in enrolment' \/ o \in revoked
    BY <1>5, <1>7
  <1>9. transfer[r.tx] # None
    <2>1. transfer[r.tx] \in Transfer
      BY <1>2, <1>3 DEF IInv, TypeOK, OrderRow, Transfer
    <2> QED BY <2>1, NoneAssumption
  <1> HIDE DEF r, o
  <1>10. Ledger!Grant(o, order[o].user, order[o].course)
    BY <1>3, <1>5, <1>6, <1>8 DEF Ledger!Grant
  <1>11. Ledger!Settle(r.tx, o)
    BY <1>2, <1>3, <1>4, <1>5, <1>9, <1>10 DEF Ledger!Settle
  <1> QED BY <1>2, <1>11 DEF LedgerStep, Ledger!Next, OrderIds

LEMMA CancelLedger ==
  ASSUME NEW o \in OrderIds, Placed(o),
         order' = [order EXCEPT ![o].status = "CANCELLED"],
         UNCHANGED <<cartItem, payment, enrolment, revoked, transfer>>
  PROVE  LedgerStep
  <1>1. Ledger!Cancel(o)
    BY DEF Ledger!Cancel, Placed
  <1> QED BY <1>1 DEF LedgerStep, Ledger!Next, OrderIds

LEMMA BankTransferLedger ==
  ASSUME NEW t \in TxIds, NEW tr \in Transfer, BankTransfer(t, tr)
  PROVE  LedgerStep
  <1>1. /\ tr = [order |-> tr.order, amount |-> tr.amount]
        /\ tr.order \in OrderIds /\ tr.amount \in Amounts
    BY DEF Transfer
  <1>2. Ledger!Book(t, tr.order, tr.amount)
    BY <1>1 DEF BankTransfer, Ledger!Book
  <1> QED BY <1>1, <1>2 DEF LedgerStep, Ledger!Next, OrderIds

LEMMA TeacherLedger ==
  ASSUME NEW e \in Managed, TeacherEnrol(e) \/ TeacherRevoke(e)
  PROVE  LedgerStep
  <1>1. e \in Users \X Courses
    BY CatalogueAssumption
  <1>2. CASE TeacherEnrol(e)
    <2>1. Ledger!Enrol(e)
      BY <1>2 DEF TeacherEnrol, Ledger!Enrol
    <2> QED BY <1>1, <2>1 DEF LedgerStep, Ledger!Next
  <1>3. CASE TeacherRevoke(e)
    <2> DEFINE orders == {o \in OrderIds : Granted(o, e) \/ \E x \in Slots : Granting(x, o, e)}
    <2>1. Ledger!Revoke(e, orders)
      BY <1>3 DEF TeacherRevoke, Ledger!Revoke
    <2>2. orders \in SUBSET (1..MaxOrders)
      BY DEF OrderIds
    <2> HIDE DEF orders
    <2> QED BY <1>1, <2>1, <2>2 DEF LedgerStep, Ledger!Next
  <1> QED BY <1>2, <1>3

LEMMA NextLedger == ASSUME IInv, [Next]_vars PROVE LedgerStep
  <1>1. ASSUME NEW s \in Slots, NewRequest(s) PROVE LedgerStep
    BY <1>1, LedgerKept DEF NewRequest, CartCheckOrder, OrderReadCart, CancelRead, PayReceive
  <1>2. ASSUME NEW s \in Slots, Continue(s) PROVE LedgerStep
    <2>1. CASE CartInsert(s) \/ OrderCommit(s) \/ PayCommit(s)
      BY <2>1, CartInsertLedger, OrderCommitLedger, PayCommitLedger
    <2>2. CASE CancelWrite(s)
      <3>1. req[s].order \in OrderIds /\ Placed(req[s].order)
        BY <2>2 DEF CancelWrite, At, IInv, RequestInv, RequestSound, Shaped
      <3> QED BY <2>2, <3>1, CancelLedger DEF CancelWrite
    <2>3. CASE \/ CartCheckCourse(s) \/ OrderTxBegin(s) \/ OrderNotify(s) \/ JobAdd(s)
               \/ EnrolFind(s) \/ EnrolCreate(s) \/ DeadlockVictim(s)
      BY <2>3, LedgerKept DEF CartCheckCourse, OrderTxBegin, AfterCreate, OrderNotify, JobAdd,
                              EnrolFind, EnrolCreate, DeadlockVictim
    <2>4. CASE PayCreate(s) \/ PayRead(s) \/ PayUpdate(s) \/ JobRemove(s)
      BY <2>4, LedgerKept DEF PayCreate, PayRead, PayUpdate, JobRemove
    <2> QED BY <1>2, <2>1, <2>2, <2>3, <2>4 DEF Continue
  <1>3. ASSUME NEW o \in OrderIds, Worker(o) \/ JobFails(o) PROVE LedgerStep
    <2>1. CASE JobStart(o)
      BY <2>1, LedgerKept DEF JobStart
    <2>2. CASE JobCancel(o) \/ JobFails(o)
      <3>1. Placed(o)
        BY <2>2 DEF JobCancel, JobFails, IInv, TableInv, IdsSound
      <3> QED BY <2>2, <3>1, CancelLedger, LedgerKept DEF JobCancel, JobFails
    <2> QED BY <1>3, <2>1, <2>2 DEF Worker
  <1>4. ASSUME NEW s \in Slots, RequestLost(s) \/ JobAddFails(s) \/ JobRemoveFails(s)
        PROVE  LedgerStep
    BY <1>4, LedgerKept DEF RequestLost, JobAddFails, JobRemoveFails
  <1>5. ASSUME Environment PROVE LedgerStep
    BY <1>5, DeleteCartLedger, BankTransferLedger, TeacherLedger, LedgerKept
    DEF Environment, EditCourse
  <1>6. ASSUME Quiescent \/ UNCHANGED vars PROVE LedgerStep
    BY <1>6, LedgerKept DEF Quiescent, vars
  <1> QED BY <1>1, <1>2, <1>3, <1>4, <1>5, <1>6 DEF Next, Faulty

\* A purchase is atomic although its handler is not: every behaviour of
\* Checkout is one of PurchaseLedger.
THEOREM PurchasesAreAtomic == Spec => ImplementsLedger
  <1>1. Init => Ledger!Init
    BY DEF Init, Ledger!Init, CartIds, OrderIds
  <1>2. IInv /\ [Next]_vars => [Ledger!Next]_(Ledger!ledger)
    BY NextLedger DEF LedgerStep
  <1> QED BY <1>1, <1>2, Invariant, PTL DEF Spec, ImplementsLedger, Ledger!Spec

-----------------------------------------------------------------------------
(* Nobody waits for ever: the waits of the handlers, and who ends them.      *)

\* s needs a row, an index entry or an enrolment that x's transaction holds.
Blocks(x, s) ==
  \/ /\ At(s, "cartInsert")
     /\ \E i \in CartIds :
          cartItem[i] = [user |-> req[s].user, course |-> req[s].course] /\ HoldsCart(x, i)
  \/ At(s, "orderBegin") /\ HoldsCart(x, req[s].cart)
  \/ req[s].pc \in {"cancelWrite", "payUpdate"} /\ HoldsOrderRow(x, req[s].order)
  \/ /\ At(s, "payCreate") /\ InPayTx(x)
     /\ req[x].tx = req[s].tx \/ req[x].order = req[s].order
  \/ WaitsFor(s, x)
Blockers(s) == {x \in Slots : Blocks(x, s)}

\* A cycle of waits, as DeadlockVictim has it.
Cycle(W) ==
  \A x \in W : (\E y \in W : WaitsFor(x, y)) /\ (\E y \in W : WaitsFor(y, x))
InCycle(s) == \E W \in SUBSET Slots : s \in W /\ Cycle(W)

CanGoOn(s) == ~ At(s, "idle") /\ (Blockers(s) = {} \/ InCycle(s))

\* However many requests wait only for one another, one of them can go on.
NoStandstill ==
  \A W \in SUBSET Slots :
    /\ W # {}
    /\ \A s \in W : ~ At(s, "idle") /\ Blockers(s) \subseteq W
    => \E s \in W : CanGoOn(s)

\* A finite set of requests of which each waits for another has a cycle in it: the least
\* such set is one.
LEMMA CycleInside ==
  ASSUME NEW G, G \subseteq Slots, IsFiniteSet(G), G # {},
         \A x \in G : \E y \in G : WaitsFor(x, y)
  PROVE  \E W \in SUBSET G : W # {} /\ Cycle(W)
<1> DEFINE Waiting == {W \in SUBSET G : W # {} /\ \A x \in W : \E y \in W : WaitsFor(x, y)}
<1>1. IsWellFoundedOn(StrictSubsetOrdering(G), SUBSET G)
  BY FS_StrictSubsetOrderingWellFounded, FS_FiniteSubsetsOfFinite
<1>2. Waiting \subseteq SUBSET G /\ G \in Waiting  OBVIOUS
<1>3. PICK W \in Waiting : \A V \in Waiting : ~ (<<V, W>> \in StrictSubsetOrdering(G))
  <2> HIDE DEF Waiting
  <2> QED  BY <1>1, <1>2, WFMin, Zenon
<1>4. ASSUME NEW x \in W  PROVE \E y \in W : WaitsFor(y, x)
  <2> SUFFICES ASSUME \A y \in W : ~ WaitsFor(y, x)  PROVE FALSE
    OBVIOUS
  <2> DEFINE V == W \ {x}
  <2>1. PICK z \in W : WaitsFor(x, z)  BY <1>3
  <2>2. z # x  BY <2>1 DEF WaitsFor
  <2>3. \A y \in V : \E w \in V : WaitsFor(y, w)  BY <1>3
  <2>4. V \in Waiting  BY <2>2, <2>3
  <2>5. <<V, W>> \in StrictSubsetOrdering(G)  BY <2>4 DEF StrictSubsetOrdering
  <2> QED  BY <1>3, <2>4, <2>5
<1> QED  BY <1>3, <1>4 DEF Cycle

\* Who is waited for is in a transaction that goes on, or that waits itself.
LEMMA WhoBlocks ==
  ASSUME IInv, NEW s \in Slots, NEW x \in Slots, Blocks(x, s)
  PROVE  /\ req[x].pc \in {"payRead", "payUpdate", "enrol", "grant", "commit"}
         /\ At(s, "grant") => WaitsFor(s, x)
         /\ At(s, "grant") \/ At(s, "payUpdate") => req[x].pc # "payUpdate" /\ req[x].pc # "payRead"
<1>1. WaitsFor(s, x) => req[x].granted # {} /\ At(s, "grant")  BY DEF WaitsFor, At
<1>2. req[x].granted # {} => req[x].pc \in {"enrol", "grant", "commit"}
  BY DEF IInv, RequestInv, RequestSound, GrantSound
<1> QED  BY <1>1, <1>2 DEF Blocks, HoldsCart, HoldsOrderRow, InPayTx, At

LEMMA OneGoesOn ==
  ASSUME IInv, IsFiniteSet(Slots)  PROVE NoStandstill
<1> SUFFICES ASSUME NEW W \in SUBSET Slots, W # {},
                    \A s \in W : ~ At(s, "idle") /\ Blockers(s) \subseteq W,
                    \A s \in W : ~ CanGoOn(s)
             PROVE  FALSE
  BY DEF NoStandstill
<1> DEFINE G == {s \in W : At(s, "grant")}
<1>1. \A s \in W : \E x \in W : Blocks(x, s)  BY DEF CanGoOn, Blockers
<1>2. \A s \in W : req[s].pc \notin {"payRead", "enrol", "commit"}
  BY <1>1 DEF Blocks, WaitsFor, At
<1>3. \A s, x \in W : Blocks(x, s) => x \in G \/ At(x, "payUpdate")
  BY <1>2, WhoBlocks DEF At
<1>4. \A s, x \in W : Blocks(x, s) /\ (s \in G \/ At(s, "payUpdate")) => x \in G
  BY <1>3, WhoBlocks DEF At
<1>5. G # {}
  <2>1. PICK s \in W : TRUE  OBVIOUS
  <2>2. PICK x \in W : Blocks(x, s)  BY <1>1
  <2>3. PICK y \in W : Blocks(y, x)  BY <1>1
  <2> QED  BY <1>3, <1>4, <2>2, <2>3
<1>6. \A s \in G : \E x \in G : WaitsFor(s, x)
  BY <1>1, <1>4, WhoBlocks
<1>7. IsFiniteSet(G) /\ G \subseteq Slots  BY FS_Subset
<1> HIDE DEF G
<1>8. PICK V \in SUBSET G : V # {} /\ Cycle(V)  BY <1>5, <1>6, <1>7, CycleInside
<1>9. PICK s \in V : InCycle(s)  BY <1>7, <1>8 DEF InCycle
<1> QED  BY <1>9 DEF CanGoOn, G

\* Whatever locks carts, orders, payments and enrolments take, requests never all wait for
\* one another without one that can go on or that PostgreSQL aborts (payment.repo.ts
\* receiver, order.repo.ts createOrder).
THEOREM NeverAllWait ==
  ASSUME IsFiniteSet(Slots)  PROVE Spec => []NoStandstill
<1>1. IInv => NoStandstill  BY OneGoesOn
<1> QED  BY <1>1, Invariant, PTL

\* And these are all their waits: a request goes on only if nobody blocks it, or as the
\* victim of a cycle.
GoesOnAlone == \A s \in Slots : Continue(s) => CanGoOn(s)
LEMMA WaitsHeeded ==
  ASSUME IInv, NEW s \in Slots, Continue(s)  PROVE CanGoOn(s)
<1>1. CASE DeadlockVictim(s)
  <2>1. InCycle(s)  BY <1>1 DEF DeadlockVictim, InCycle, Cycle
  <2>2. At(s, "grant")  BY <2>1 DEF InCycle, Cycle, WaitsFor, At
  <2> QED  BY <2>1, <2>2 DEF CanGoOn, At
<1>2. CASE EnrolCreate(s)
  BY <1>2 DEF EnrolCreate, CanGoOn, Blockers, Blocks, At
<1>3. CASE ~ DeadlockVictim(s) /\ ~ EnrolCreate(s)
  BY <1>3 DEF Continue, CartCheckCourse, CartInsert, OrderTxBegin, OrderNotify, OrderCommit,
     JobAdd, EnrolFind, CancelWrite, PayCreate, PayRead, PayUpdate, PayCommit, JobRemove,
     CanGoOn, Blockers, Blocks, WaitsFor, CartLocked, OrderLocked, At
<1> QED  BY <1>1, <1>2, <1>3

THEOREM WaitsAreAll == Spec => [][GoesOnAlone]_vars
<1>1. IInv /\ [Next]_vars => GoesOnAlone  BY WaitsHeeded DEF GoesOnAlone
<1> QED  BY <1>1, Invariant, PTL DEF Spec

-----------------------------------------------------------------------------
(* No request goes round in circles: the steps it has left.                  *)

Ahead(pc) ==
  CASE pc = "idle" -> 0
    [] pc \in {"cartInsert", "addJob", "cancelWrite", "removeJob"} -> 1
    [] pc \in {"cartCourse", "commit"} -> 2
    [] pc = "enrol" -> 3
    [] pc \in {"orderBegin", "payUpdate", "grant"} -> 4
    [] pc = "payRead" -> 5
    [] pc = "payCreate" -> 6

\* At most two for every course it may have to grant.
ToGrant(r) == IF r.pc \in {"payCreate", "payRead"} THEN Courses ELSE r.todo
StepsLeft(r) == Ahead(r.pc) + 2 * Cardinality(ToGrant(r))

RunsDown ==
  \A s \in Slots :
    ~ At(s, "idle") => req'[s] = req[s] \/ StepsLeft(req'[s]) < StepsLeft(req[s])

LEMMA StepsCounted ==
  ASSUME IsFiniteSet(Courses), NEW r \in ReqRow
  PROVE  /\ IsFiniteSet(r.todo) /\ Cardinality(r.todo) \in Nat
         /\ Cardinality(Courses) \in Nat /\ Cardinality(r.todo) <= Cardinality(Courses)
         /\ Ahead(r.pc) \in Nat /\ StepsLeft(r) \in Nat
         /\ r.pc # "idle" => Ahead(r.pc) > 0
<1>1. r.todo \in SUBSET Courses /\ r.pc \in Pcs  BY DEF ReqRow
<1>2. IsFiniteSet(r.todo) /\ Cardinality(r.todo) <= Cardinality(Courses)
  BY <1>1, FS_Subset
<1>3. Cardinality(r.todo) \in Nat /\ Cardinality(Courses) \in Nat
  BY <1>2, FS_CardinalityType
<1>4. Ahead(r.pc) \in Nat /\ (r.pc # "idle" => Ahead(r.pc) > 0)
  BY <1>1 DEF Ahead, Pcs
<1> QED  BY <1>2, <1>3, <1>4 DEF StepsLeft, ToGrant

LEMMA EndsLower ==
  ASSUME IInv, IsFiniteSet(Courses), NEW s \in Slots, ~ At(s, "idle"), req'[s] = IdleReq
  PROVE  StepsLeft(req'[s]) < StepsLeft(req[s])
<1>1. StepsLeft(IdleReq) = 0
  BY FS_EmptySet DEF StepsLeft, ToGrant, IdleReq, Ahead
<1>2. req[s] \in ReqRow  BY DEF IInv, TypeOK
<1>3. StepsLeft(req[s]) > 0
  <2>1. /\ Ahead(req[s].pc) \in Nat /\ Ahead(req[s].pc) > 0
        /\ Cardinality(req[s].todo) \in Nat /\ Cardinality(Courses) \in Nat
    BY <1>2, StepsCounted DEF At
  <2> QED  BY <2>1 DEF StepsLeft, ToGrant
<1> QED  BY <1>1, <1>3

\* Going on with the same courses to grant.
LEMMA GotoLower ==
  ASSUME IInv, IsFiniteSet(Courses), NEW s \in Slots, NEW r \in ReqRow, req'[s] = r,
         Ahead(r.pc) < Ahead(req[s].pc), ToGrant(r) = ToGrant(req[s])
  PROVE  StepsLeft(req'[s]) < StepsLeft(req[s])
<1>1. req[s] \in ReqRow  BY DEF IInv, TypeOK
<1>2. /\ Ahead(r.pc) \in Nat /\ Ahead(req[s].pc) \in Nat
      /\ Cardinality(ToGrant(req[s])) \in Nat
  BY <1>1, StepsCounted DEF ToGrant
<1> QED  BY <1>2 DEF StepsLeft

LEMMA ContinueLower ==
  ASSUME IInv, IsFiniteSet(Courses), NEW s \in Slots, Continue(s)
  PROVE  /\ \A x \in Slots \ {s} : req'[x] = req[x]
         /\ ~ At(s, "idle") /\ StepsLeft(req'[s]) < StepsLeft(req[s])
<1>0. req \in [Slots -> ReqRow] /\ req[s] \in ReqRow  BY DEF IInv, TypeOK
<1> DEFINE Lower == /\ \A x \in Slots \ {s} : req'[x] = req[x]
                   /\ ~ At(s, "idle") /\ StepsLeft(req'[s]) < StepsLeft(req[s])
<1>1. ASSUME Finish(s), ~ At(s, "idle")  PROVE Lower
  <2>1. req'[s] = IdleReq /\ \A x \in Slots \ {s} : req'[x] = req[x]
    BY <1>0, <1>1 DEF Finish
  <2> QED  BY <1>1, <2>1, EndsLower
<1>2. ASSUME NEW pc \in Pcs, Goto(s, pc), Ahead(pc) < Ahead(req[s].pc), ~ At(s, "idle"),
             req[s].pc \in {"payCreate", "payRead"} <=> pc \in {"payCreate", "payRead"}
      PROVE  Lower
  <2> DEFINE r == [req[s] EXCEPT !.pc = pc]
  <2>1. r \in ReqRow /\ r.pc = pc /\ r.todo = req[s].todo  BY <1>0 DEF ReqRow
  <2>2. req'[s] = r /\ \A x \in Slots \ {s} : req'[x] = req[x]  BY <1>0, <1>2 DEF Goto
  <2>3. ToGrant(r) = ToGrant(req[s])  BY <1>2, <2>1 DEF ToGrant
  <2> HIDE DEF r
  <2> QED  BY <1>2, <2>1, <2>2, <2>3, GotoLower
<1>3. CASE CartCheckCourse(s)
  BY <1>1, <1>2, <1>3 DEF CartCheckCourse, At, Pcs, Ahead
<1>4. CASE CartInsert(s) \/ JobAdd(s) \/ CancelWrite(s) \/ JobRemove(s)
  BY <1>1, <1>4 DEF CartInsert, JobAdd, CancelWrite, JobRemove, At
<1>5. CASE OrderTxBegin(s)
  <2>1. At(s, "orderBegin")  BY <1>5 DEF OrderTxBegin
  <2>2. CASE Finish(s)  BY <1>1, <2>1, <2>2 DEF At
  <2>3. CASE req' = [req EXCEPT ![s].order = nextOrder, ![s].pc = AfterCreate(s)]
             /\ nextOrder <= MaxOrders
    <3> DEFINE r == [req[s] EXCEPT !.order = nextOrder, !.pc = AfterCreate(s)]
    <3>1. nextOrder \in 0..MaxOrders  BY <2>3, BoundsAssumption DEF IInv, TypeOK
    <3>2. /\ r \in ReqRow /\ r.pc \in {"enrol", "commit"} /\ r.todo = req[s].todo
      BY <1>0, <3>1 DEF ReqRow, AfterCreate, Pcs
    <3>3. req'[s] = r /\ \A x \in Slots \ {s} : req'[x] = req[x]  BY <1>0, <2>3
    <3> HIDE DEF r
    <3>4. ToGrant(r) = ToGrant(req[s]) /\ Ahead(r.pc) < Ahead(req[s].pc)
      BY <2>1, <3>2 DEF ToGrant, At, Ahead
    <3> QED  BY <2>1, <3>2, <3>3, <3>4, GotoLower DEF At
  <2> QED  BY <1>5, <2>2, <2>3 DEF OrderTxBegin
<1>6. CASE OrderNotify(s)
  BY <1>2, <1>6 DEF OrderNotify, At, Pcs, Ahead
<1>7. CASE OrderCommit(s) \/ PayCommit(s)
  <2>1. req'[s].todo = {} /\ req'[s].pc \in {"idle", "addJob", "removeJob"}
    <3> DEFINE add == [IdleReq EXCEPT !.pc = "addJob", !.order = req[s].order]
               remove == [IdleReq EXCEPT !.pc = "removeJob", !.order = req[s].order]
    <3>1. req'[s] = IdleReq \/ req'[s] = add \/ req'[s] = remove
      BY <1>0, <1>7 DEF OrderCommit, PayCommit
    <3>2. /\ IdleReq.todo = {} /\ IdleReq.pc = "idle"
          /\ add.todo = {} /\ add.pc = "addJob" /\ remove.todo = {} /\ remove.pc = "removeJob"
      BY DEF IdleReq
    <3> HIDE DEF add, remove
    <3> QED  BY <3>1, <3>2
  <2>2. StepsLeft(req'[s]) \in 0..1
    <3>1. ToGrant(req'[s]) = {} /\ Ahead(req'[s].pc) \in 0..1
      BY <2>1 DEF ToGrant, Ahead
    <3>2. Cardinality(ToGrant(req'[s])) = 0  BY <3>1, FS_EmptySet
    <3> QED  BY <3>1, <3>2 DEF StepsLeft
  <2>3. Ahead(req[s].pc) >= 2 /\ req[s].pc \in {"enrol", "commit"}
    BY <1>7 DEF OrderCommit, PayCommit, At, Ahead
  <2>4. StepsLeft(req[s]) >= 2 /\ StepsLeft(req[s]) \in Nat
    BY <1>0, <2>3, StepsCounted DEF StepsLeft, ToGrant
  <2>5. \A x \in Slots \ {s} : req'[x] = req[x]
    BY <1>0, <1>7 DEF OrderCommit, PayCommit
  <2> QED  BY <2>2, <2>3, <2>4, <2>5 DEF At
<1>8. CASE EnrolFind(s)
  <2>1. PICK c \in req[s].todo :
          \/ req' = [req EXCEPT ![s].todo = @ \ {c}]
          \/ req' = [req EXCEPT ![s].todo = @ \ {c}, ![s].cur = c, ![s].pc = "grant"]
    BY <1>8 DEF EnrolFind
  <2>2. /\ req'[s].todo = req[s].todo \ {c} /\ req'[s].pc \in {"enrol", "grant"}
        /\ \A x \in Slots \ {s} : req'[x] = req[x]
    <3>1. req[s].pc = "enrol"  BY <1>8 DEF EnrolFind, At
    <3> QED  BY <1>0, <2>1, <3>1 DEF ReqRow
  <2>3. req[s].pc = "enrol"  BY <1>8 DEF EnrolFind, At
  <2>4. /\ IsFiniteSet(req[s].todo) /\ Cardinality(req[s].todo) \in Nat
        /\ Cardinality(req[s].todo \ {c}) = Cardinality(req[s].todo) - 1
    BY <1>0, StepsCounted, FS_RemoveElement
  <2>5. StepsLeft(req[s]) = 3 + 2 * Cardinality(req[s].todo)
    BY <2>3 DEF StepsLeft, ToGrant, Ahead
  <2>6. StepsLeft(req'[s]) <= 4 + 2 * (Cardinality(req[s].todo) - 1)
    BY <2>2, <2>4 DEF StepsLeft, ToGrant, Ahead
  <2>7. StepsLeft(req'[s]) \in Int  BY <2>2, <2>4 DEF StepsLeft, ToGrant, Ahead
  <2> QED  BY <2>2, <2>3, <2>4, <2>5, <2>6, <2>7 DEF At
<1>9. CASE EnrolCreate(s)
  <2>1. req[s].pc = "grant"  BY <1>9 DEF EnrolCreate, At
  <2>2. CASE Finish(s)  BY <1>1, <2>1, <2>2 DEF At
  <2>3. CASE req' = [req EXCEPT ![s].granted = @ \cup {req[s].cur},
                                ![s].cur = None, ![s].pc = "enrol"]
    <3>1. /\ req'[s].todo = req[s].todo /\ req'[s].pc = "enrol"
          /\ \A x \in Slots \ {s} : req'[x] = req[x]
      BY <1>0, <2>3 DEF ReqRow
    <3>2. Cardinality(req[s].todo) \in Nat  BY <1>0, StepsCounted
    <3>3. StepsLeft(req[s]) = 4 + 2 * Cardinality(req[s].todo)
          /\ StepsLeft(req'[s]) = 3 + 2 * Cardinality(req[s].todo)
      BY <2>1, <3>1 DEF StepsLeft, ToGrant, Ahead
    <3> QED  BY <2>1, <3>1, <3>2, <3>3 DEF At
  <2> QED  BY <1>9, <2>2, <2>3 DEF EnrolCreate
<1>10. CASE DeadlockVictim(s)
  BY <1>1, <1>10 DEF DeadlockVictim, WaitsFor, At
<1>11. CASE PayCreate(s)
  BY <1>1, <1>2, <1>11 DEF PayCreate, At, Pcs, Ahead
<1>12. CASE PayRead(s)
  <2>1. req[s].pc = "payRead"  BY <1>12 DEF PayRead, At
  <2>2. CASE Finish(s)  BY <1>1, <2>1, <2>2 DEF At
  <2>3. CASE ~ Finish(s)
    <3> DEFINE row == order[req[s].order]
    <3>1. req' = [req EXCEPT ![s].user = row.user, ![s].course = row.course,
                             ![s].todo = CoursesToGrant(row.course), ![s].pc = "payUpdate"]
      BY <1>12, <2>3 DEF PayRead
    <3>2. /\ req'[s].todo = CoursesToGrant(row.course) /\ req'[s].pc = "payUpdate"
          /\ \A x \in Slots \ {s} : req'[x] = req[x]
      BY <1>0, <3>1 DEF ReqRow
    <3>3. row \in OrderRow
      <4>1. req[s].tx # None
        BY <2>1 DEF IInv, RequestInv, RequestSound, Shaped
      <4>2. req[s].order \in OrderIds /\ Placed(req[s].order)
        BY <2>1, <4>1 DEF IInv, RequestInv, RequestSound, PayTxSound, InPayTx
      <4> QED  BY <4>2 DEF IInv, TypeOK, Placed
    <3>4. req'[s].todo \in SUBSET Courses
      BY <3>2, <3>3, CatalogueAssumption DEF CoursesToGrant, VisibleChildren, OrderRow
    <3>5. /\ Cardinality(Courses) \in Nat /\ Cardinality(req'[s].todo) \in Nat
          /\ Cardinality(req'[s].todo) <= Cardinality(Courses)
      BY <3>4, FS_Subset, FS_CardinalityType
    <3>6. StepsLeft(req[s]) = 5 + 2 * Cardinality(Courses)
          /\ StepsLeft(req'[s]) = 4 + 2 * Cardinality(req'[s].todo)
      BY <2>1, <3>2 DEF StepsLeft, ToGrant, Ahead
    <3> QED  BY <2>1, <3>2, <3>5, <3>6 DEF At
  <2> QED  BY <2>2, <2>3
<1>13. CASE PayUpdate(s)
  BY <1>2, <1>13 DEF PayUpdate, At, Pcs, Ahead
<1> QED  BY <1>3, <1>4, <1>5, <1>6, <1>7, <1>8, <1>9, <1>10, <1>11, <1>12, <1>13 DEF Continue

LEMMA AllRunDown ==
  ASSUME IInv, IsFiniteSet(Courses), [Next]_vars  PROVE RunsDown
<1> SUFFICES ASSUME NEW x \in Slots, ~ At(x, "idle")
             PROVE  req'[x] = req[x] \/ StepsLeft(req'[x]) < StepsLeft(req[x])
  BY DEF RunsDown
<1>0. req \in [Slots -> ReqRow]  BY DEF IInv, TypeOK
<1>1. ASSUME NEW s \in Slots, Continue(s)
      PROVE  req'[x] = req[x] \/ StepsLeft(req'[x]) < StepsLeft(req[x])
  BY <1>1, ContinueLower
<1>2. ASSUME NEW s \in Slots, NewRequest(s)  PROVE req'[x] = req[x]
  BY <1>0, <1>2 DEF NewRequest, CartCheckOrder, OrderReadCart, CancelRead, PayReceive, At
<1>3. ASSUME NEW s \in Slots, Finish(s)
      PROVE  req'[x] = req[x] \/ StepsLeft(req'[x]) < StepsLeft(req[x])
  <2>1. req'[x] = req[x] \/ req'[x] = IdleReq  BY <1>0, <1>3 DEF Finish
  <2> QED  BY <2>1, EndsLower
<1>4. ASSUME Faulty  PROVE req'[x] = req[x] \/ StepsLeft(req'[x]) < StepsLeft(req[x])
  BY <1>3, <1>4 DEF Faulty, RequestLost, JobAddFails, JobRemoveFails, JobFails
<1>5. ASSUME NEW o \in OrderIds, Worker(o)  PROVE req'[x] = req[x]
  BY <1>5 DEF Worker, JobStart, JobCancel
<1>6. ASSUME Environment  PROVE req'[x] = req[x]
  BY <1>6 DEF Environment, DeleteCart, BankTransfer, EditCourse, TeacherEnrol, TeacherRevoke
<1>7. ASSUME UNCHANGED vars  PROVE req'[x] = req[x]
  BY <1>7 DEF vars
<1> QED  BY <1>1, <1>2, <1>4, <1>5, <1>6, <1>7 DEF Next, Quiescent

\* Every step of a request, one of its own or a fault, brings it nearer to its end, and no
\* other request takes it back: with NeverAllWait, what fairness turns into
\* RequestsTerminate.
THEOREM RequestsRunDown ==
  ASSUME IsFiniteSet(Courses)  PROVE Spec => [][RunsDown]_vars
<1>1. IInv /\ [Next]_vars => RunsDown  BY AllRunDown
<1> QED  BY <1>1, Invariant, PTL DEF Spec

=============================================================================

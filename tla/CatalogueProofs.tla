---------------------------- MODULE CatalogueProofs ----------------------------
(***************************************************************************)
(* Proofs about the catalogue for any courses, users, staff, requests, terms,  *)
(* coupons and bounds.                                                         *)
(***************************************************************************)
EXTENDS CatalogueService, FiniteSetTheorems, SequenceTheorems, TLAPS

-----------------------------------------------------------------------------
(* The inductive invariant *)

There(c) == c \in CourseIds /\ course[c] # None

\* The partial unique index on enrolments.
RowsUnique ==
  \A i, j \in EnrolmentIds :
    /\ LiveRow(i) /\ LiveRow(j)
    /\ enrolment[i].course = enrolment[j].course /\ enrolment[i].user = enrolment[j].user
    => i = j
RowsPlaced == \A i \in EnrolmentIds : enrolment[i] # None => There(enrolment[i].course)

RosterPcs == {"read", "readUsers", "readRoster", "sync"}

\* What a request refers to is there and its agent may edit it: courses never change
\* their owner or kind.
Refers(s) ==
  /\ At(s, "idle") => req[s] = IdleReq
  /\ ~ At(s, "idle") => req[s].agent \in Staff
  /\ req[s].pc \in RosterPcs \cup {"move", "entry", "expand", "reshape"} => There(req[s].course)
  /\ req[s].pc \in RosterPcs => Owns(req[s].agent, req[s].course)
  /\ req[s].pc \in {"move", "entry"} =>
       /\ req[s].row \in EnrolmentIds /\ req[s].user \in Users
       /\ There(req[s].from) /\ Owns(req[s].agent, req[s].from)
  /\ req[s].pc \in {"expand", "reshape"} => IsCombo(req[s].course)
  /\ \A c \in req[s].connect : There(c)
  /\ req[s].present \subseteq req[s].want
  /\ \A e, f \in req[s].seen : e.id = f.id => e = f

\* What an open transaction has written or locked is still as it was: its ids are
\* nobody's, whom it has added is not on the roster yet, whom it has dropped still is, and
\* so is the row it changes.
Holds(s) ==
  /\ ~ At(s, "sync") => req[s].added = {}
  /\ ~ At(s, "sync") /\ ~ At(s, "entry") => req[s].held = {}
  /\ \A e \in req[s].added : /\ enrolment[e.id] = None /\ e.user \in ToAdd(s)
                             /\ ~ Enrolled(s, e.user)
  /\ \A e, f \in req[s].added : e.id = f.id \/ e.user = f.user => e = f
  /\ At(s, "sync") => \A i \in req[s].held : \E e \in ToDrop(s) : e.id = i /\ AsRead(s, e)
  /\ At(s, "entry") => req[s].held = {req[s].row} /\ LiveRow(req[s].row)

\* The locks of two transactions.
Apart(s, x) ==
  /\ \A e \in req[s].added, f \in req[x].added :
       e.id # f.id /\ (req[s].course = req[x].course => e.user # f.user)
  /\ req[s].held \cap req[x].held = {}

\* What a new combo will be connected to has all that is below it.
Closed(s) ==
  At(s, "insertCombo") =>
    \A c, d \in CourseIds :
      c \in req[s].connect /\ <<c, d>> \in children => d \in req[s].connect

CatalogueInv ==
  /\ TypeOK /\ RowsUnique /\ RowsPlaced
  /\ \A s \in Slots : Refers(s) /\ Holds(s)
  /\ \A s, x \in Slots : s # x => Apart(s, x)
  /\ updated = {} => NestedInFull /\ \A s \in Slots : Closed(s)

-----------------------------------------------------------------------------
(* Frames *)

\* Courses stay, with their owners and kinds.
CoursesStay ==
  \A c \in CourseIds : course[c] # None =>
    /\ course'[c] # None /\ course'[c].owner = course[c].owner
    /\ course'[c].courseType = course[c].courseType

\* What request x has written in its transaction is left alone.
Spared(x) ==
  /\ \A e \in req[x].added : enrolment'[e.id] = None /\ ~ Enrolled(x, e.user)'
  /\ \A i \in req[x].held : enrolment'[i] = enrolment[i]

OnlyMoves(s) ==
  /\ req' \in [Slots -> ReqRow]
  /\ \A x \in Slots \ {s} : req'[x] = req[x]

LEMMA RefersStay ==
  ASSUME CatalogueInv, CoursesStay, NEW x \in Slots, req'[x] = req[x]
  PROVE  Refers(x)'
<1>1. Refers(x) /\ req[x] \in ReqRow  BY DEF CatalogueInv, TypeOK
<1>2. ASSUME NEW c, There(c)  PROVE There(c)'  BY <1>2 DEF There, CoursesStay
<1>3. ASSUME NEW c, NEW agent, There(c), Owns(agent, c)  PROVE Owns(agent, c)'
  BY <1>3 DEF There, Owns, CoursesStay
<1>4. ASSUME NEW c, There(c), IsCombo(c)  PROVE IsCombo(c)'
  BY <1>4 DEF There, IsCombo, CoursesStay
<1> QED  BY <1>1, <1>2, <1>3, <1>4 DEF Refers, At

LEMMA HoldsStay ==
  ASSUME CatalogueInv, NEW x \in Slots, req'[x] = req[x], Spared(x)
  PROVE  Holds(x)'
<1>1. Holds(x) /\ req[x] \in ReqRow  BY DEF CatalogueInv, TypeOK
<1>2. ToAdd(x)' = ToAdd(x) /\ ToDrop(x)' = ToDrop(x)  BY DEF ToAdd, ToDrop, SeenUsers
<1>3. ASSUME At(x, "sync"), NEW i \in req[x].held
      PROVE  \E e \in ToDrop(x)' : e.id = i /\ AsRead(x, e)'
  <2>1. PICK e \in ToDrop(x) : e.id = i /\ AsRead(x, e)  BY <1>1, <1>3 DEF Holds
  <2>2. AsRead(x, e)'  BY <2>1 DEF Spared, AsRead, LiveRow
  <2> QED  BY <1>2, <2>1, <2>2
<1>4. \A e \in req'[x].added : enrolment'[e.id] = None /\ ~ Enrolled(x, e.user)'
  BY DEF Spared
<1>5. At(x, "entry") => req[x].held = {req[x].row} /\ LiveRow(req[x].row)'
  BY <1>1 DEF Holds, Spared, LiveRow
<1>6. ToAdd(x)' = ToAdd(x) /\ \A e \in req[x].added : e.user \in ToAdd(x)
  BY <1>1, <1>2 DEF Holds
<1> QED  BY <1>1, <1>2, <1>3, <1>4, <1>5, <1>6 DEF Holds, At

LEMMA ApartStay ==
  ASSUME NEW x \in Slots, NEW y \in Slots, Apart(x, y), req'[x] = req[x], req'[y] = req[y]
  PROVE  Apart(x, y)'
BY DEF Apart

\* A request without a transaction is apart from all others.
LEMMA NoneApart ==
  ASSUME NEW x \in Slots, NEW y \in Slots, req'[x].added = {}, req'[x].held = {}
  PROVE  Apart(x, y)' /\ Apart(y, x)'
BY DEF Apart

LEMMA IdleTyped == IdleReq \in ReqRow
BY CatalogueAssumption DEF IdleReq, ReqRow, Pcs, Statuses

LEMMA IdleSound ==
  ASSUME NEW x \in Slots, req'[x] = IdleReq
  PROVE  Refers(x)' /\ Holds(x)' /\ Closed(x)'
BY DEF Refers, Holds, Closed, IdleReq, At, RosterPcs

\* One request moves at most, and the tables change so that the others' transactions
\* are spared.
LEMMA OneMoves ==
  ASSUME CatalogueInv, TypeOK', RowsUnique', RowsPlaced', CoursesStay, NEW moved \in SUBSET Slots,
         \A x \in Slots \ moved : req'[x] = req[x] /\ Spared(x),
         \A x \in moved : Refers(x)' /\ Holds(x)',
         \A x \in moved, y \in Slots \ moved : Apart(x, y)' /\ Apart(y, x)',
         \A x, y \in moved : x = y,
         updated' = {} => NestedInFull' /\ \A x \in Slots : Closed(x)'
  PROVE  CatalogueInv'
<1>1. ASSUME NEW x \in Slots  PROVE Refers(x)' /\ Holds(x)'
  BY RefersStay, HoldsStay
<1>2. ASSUME NEW x \in Slots, NEW y \in Slots, x # y  PROVE Apart(x, y)'
  <2>1. CASE x \notin moved /\ y \notin moved
    BY <1>2, <2>1, ApartStay DEF CatalogueInv
  <2>2. CASE x \in moved \/ y \in moved  BY <1>2, <2>2
  <2> QED  BY <2>1, <2>2
<1> QED  BY <1>1, <1>2 DEF CatalogueInv

\* Nothing below a combo changes.
LEMMA NestedStays ==
  ASSUME CatalogueInv, UNCHANGED <<children, updated>>,
         \A x \in Slots : req'[x] = req[x] \/ Closed(x)'
  PROVE  updated' = {} => NestedInFull' /\ \A x \in Slots : Closed(x)'
BY DEF CatalogueInv, NestedInFull, Closed, At

\* No table that transactions look at changes.
LEMMA RowsStay ==
  ASSUME CatalogueInv, UNCHANGED enrolment, CoursesStay
  PROVE  RowsUnique' /\ RowsPlaced' /\ \A x \in Slots : req'[x] = req[x] => Spared(x)
<1>1. RowsUnique'  BY DEF CatalogueInv, RowsUnique, LiveRow
<1>2. ASSUME NEW x \in Slots, req'[x] = req[x]  PROVE Spared(x)
  BY <1>2 DEF CatalogueInv, Holds, Spared, Enrolled, Students, Roster, LiveRow
<1>3. RowsPlaced'  BY DEF CatalogueInv, RowsPlaced, There, CoursesStay
<1> QED  BY <1>1, <1>2, <1>3

LEMMA SameCourses == ASSUME UNCHANGED course PROVE CoursesStay
BY DEF CoursesStay

LEMMA BeginTyped ==
  ASSUME TypeOK, Begin  PROVE edits' \in 0..MaxEdits
BY CatalogueAssumption DEF TypeOK, Begin

\* A request moves and no table changes.
LEMMA RequestMoves ==
  ASSUME CatalogueInv, UNCHANGED <<course, children, enrolment, active, coupon, updated>>,
         edits' \in 0..MaxEdits, NEW s \in Slots, OnlyMoves(s),
         Refers(s)', Holds(s)', Closed(s)' \/ ~ (updated = {}),
         \A x \in Slots \ {s} : Apart(s, x)' /\ Apart(x, s)'
  PROVE  CatalogueInv'
<1>1. TypeOK'  BY DEF CatalogueInv, TypeOK, OnlyMoves, IsCombo
<1>2. updated' = {} => NestedInFull' /\ \A x \in Slots : Closed(x)'
  BY DEF OnlyMoves, CatalogueInv, NestedInFull, Closed, At
<1> DEFINE moved == {s}
<1>3. /\ moved \in SUBSET Slots /\ \A x, y \in moved : x = y
      /\ \A x \in moved : Refers(x)' /\ Holds(x)'
      /\ \A x \in Slots \ moved : req'[x] = req[x] /\ Spared(x)
      /\ \A x \in moved, y \in Slots \ moved : Apart(x, y)' /\ Apart(y, x)'
  BY RowsStay, SameCourses DEF OnlyMoves
<1>4. CoursesStay /\ RowsUnique' /\ RowsPlaced'  BY RowsStay, SameCourses
<1> HIDE DEF moved
<1> QED  BY <1>1, <1>2, <1>3, <1>4, OneMoves

LEMMA FinishMoves ==
  ASSUME CatalogueInv, NEW s \in Slots, Finish(s)
  PROVE  OnlyMoves(s) /\ req'[s] = IdleReq
BY IdleTyped DEF CatalogueInv, TypeOK, Finish, OnlyMoves

\* A request may end where it is.
LEMMA FinishStep ==
  ASSUME CatalogueInv, UNCHANGED <<course, children, enrolment, active, coupon, updated>>,
         edits' \in 0..MaxEdits, NEW s \in Slots, Finish(s)
  PROVE  CatalogueInv'
<1>1. OnlyMoves(s) /\ req'[s] = IdleReq  BY FinishMoves
<1>2. \A x \in Slots \ {s} : Apart(s, x)' /\ Apart(x, s)'
  BY <1>1, NoneApart DEF IdleReq
<1> QED  BY <1>1, <1>2, IdleSound, RequestMoves

\* A request without a transaction goes on to another await without one.
LEMMA QuietMoves ==
  ASSUME CatalogueInv, UNCHANGED <<course, children, enrolment, active, coupon, updated>>,
         edits' \in 0..MaxEdits, NEW s \in Slots, NEW r \in ReqRow,
         req' = [req EXCEPT ![s] = r], r.added = {}, r.held = {}, r.pc # "entry",
         Refers(s)', Closed(s)' \/ ~ (updated = {})
  PROVE  CatalogueInv'
<1>1. OnlyMoves(s) /\ req'[s] = r  BY DEF CatalogueInv, TypeOK, OnlyMoves
<1>2. \A x \in Slots \ {s} : Apart(s, x)' /\ Apart(x, s)'  BY <1>1, NoneApart
<1>3. Holds(s)'  BY <1>1 DEF Holds, At
<1> QED  BY <1>1, <1>2, <1>3, RequestMoves

-----------------------------------------------------------------------------
(* The roster: steps that write no row *)

LEMMA RowTyped ==
  ASSUME CatalogueInv, NEW i \in EnrolmentIds, enrolment[i] # None
  PROVE  /\ enrolment[i] \in EnrolmentRow /\ enrolment[i].course \in CourseIds
         /\ enrolment[i].user \in Users /\ There(enrolment[i].course)
BY DEF CatalogueInv, TypeOK, EnrolmentRow, RowsPlaced

LEMMA SyncCheckStep ==
  ASSUME CatalogueInv, NEW s \in Slots, NEW agent \in Staff, NEW c \in CourseIds,
         NEW want \in RosterBodies, SyncCheck(s, agent, c, want)
  PROVE  CatalogueInv'
<1>1. req[s] = IdleReq  BY DEF CatalogueInv, SyncCheck, Refers
<1> DEFINE r == [IdleReq EXCEPT !.pc = "read", !.agent = agent, !.course = c, !.want = want]
<1>2. req' = [req EXCEPT ![s] = r]  BY <1>1 DEF SyncCheck
<1>3. /\ r.pc = "read" /\ r.agent = agent /\ r.course = c /\ r.row = 0 /\ r.user = None
      /\ r.from = 0 /\ r.want = want /\ r.present = {} /\ r.seen = {} /\ r.connect = {}
      /\ r.added = {} /\ r.held = {}
  BY DEF IdleReq
<1>4. r \in ReqRow
  <2>1. c \in 0..MaxCourses /\ want \in SUBSET Users
    BY CatalogueAssumption DEF CourseIds
  <2> QED  BY <2>1, IdleTyped DEF ReqRow, Pcs
<1> HIDE DEF r
<1>5. req'[s] = r  BY <1>2 DEF CatalogueInv, TypeOK
<1>6. There(c) /\ Owns(agent, c) /\ UNCHANGED course
  BY DEF SyncCheck, Syncable, LiveCourse, There, CatalogueFrame
<1>7. Refers(s)' /\ Closed(s)'
  BY <1>3, <1>5, <1>6 DEF Refers, Closed, At, RosterPcs, There, Owns
<1> QED  BY <1>2, <1>3, <1>4, <1>7, BeginTyped, QuietMoves
         DEF SyncCheck, CatalogueFrame, CatalogueInv

LEMMA ReadRosterStep ==
  ASSUME CatalogueInv, NEW s \in Slots, ReadRoster(s)
  PROVE  CatalogueInv'
<1> DEFINE seen == {[id |-> i, user |-> enrolment[i].user] :
                      i \in {j \in Roster(req[s].course) : enrolment[j].user \in active}}
           pc == IF At(s, "read") THEN "readUsers" ELSE "sync"
           r == [req[s] EXCEPT !.pc = pc, !.seen = seen]
<1>1. /\ req' = [req EXCEPT ![s] = r] /\ req[s].pc \in {"read", "readRoster"}
      /\ Refers(s) /\ Holds(s) /\ req[s] \in ReqRow
  BY DEF CatalogueInv, TypeOK, ReadRoster, At
<1>2. seen \subseteq Inserted /\ \A e, f \in seen : e.id = f.id => e = f
  BY RowTyped DEF Roster, LiveRow, Inserted
<1>3. r.pc \in {"readUsers", "sync"} /\ r.agent = req[s].agent /\ r.course = req[s].course
      /\ r.connect = req[s].connect /\ r.present = req[s].present
      /\ r.seen = seen /\ r.want = req[s].want
      /\ r.added = req[s].added /\ r.held = req[s].held
  BY <1>1 DEF ReqRow
<1>4. r \in ReqRow  BY <1>1, <1>2 DEF ReqRow, Pcs
<1> HIDE DEF r, seen, pc
<1>5. req'[s] = r  BY <1>1 DEF CatalogueInv, TypeOK
<1>6. req[s].added = {} /\ req[s].held = {} /\ UNCHANGED course
  BY <1>1 DEF Holds, At, ReadRoster, CatalogueFrame
<1>7. Refers(s)' /\ Closed(s)'
  BY <1>1, <1>2, <1>3, <1>5, <1>6 DEF Refers, Closed, At, RosterPcs, There, Owns
<1>8. /\ UNCHANGED <<course, children, enrolment, active, coupon, updated>>
      /\ edits' \in 0..MaxEdits
  BY DEF ReadRoster, CatalogueFrame, CatalogueInv, TypeOK
<1>9. r.added = {} /\ r.held = {} /\ r.pc # "entry"  BY <1>3, <1>6
<1> QED  BY <1>1, <1>4, <1>7, <1>8, <1>9, QuietMoves

LEMMA ReadUsersStep ==
  ASSUME CatalogueInv, NEW s \in Slots, ReadUsers(s)
  PROVE  CatalogueInv'
<1> DEFINE present == req[s].want \cap active
           pc == IF At(s, "read") THEN "readRoster" ELSE "sync"
           r == [req[s] EXCEPT !.pc = pc, !.present = present]
<1>1. /\ req' = [req EXCEPT ![s] = r] /\ req[s].pc \in {"read", "readUsers"}
      /\ Refers(s) /\ Holds(s) /\ req[s] \in ReqRow
  BY DEF CatalogueInv, TypeOK, ReadUsers, At
<1>2. present \subseteq Users /\ present \subseteq req[s].want
  BY DEF CatalogueInv, TypeOK
<1>3. r.pc \in {"readRoster", "sync"} /\ r.agent = req[s].agent /\ r.course = req[s].course
      /\ r.connect = req[s].connect /\ r.present = present
      /\ r.seen = req[s].seen /\ r.want = req[s].want
      /\ r.added = req[s].added /\ r.held = req[s].held
  BY <1>1 DEF ReqRow
<1>4. r \in ReqRow  BY <1>1, <1>2 DEF ReqRow, Pcs
<1> HIDE DEF r, present, pc
<1>5. req'[s] = r  BY <1>1 DEF CatalogueInv, TypeOK
<1>6. req[s].added = {} /\ req[s].held = {} /\ UNCHANGED course
  BY <1>1 DEF Holds, At, ReadUsers, CatalogueFrame
<1>7. Refers(s)' /\ Closed(s)'
  BY <1>1, <1>2, <1>3, <1>5, <1>6 DEF Refers, Closed, At, RosterPcs, There, Owns
<1>8. /\ UNCHANGED <<course, children, enrolment, active, coupon, updated>>
      /\ edits' \in 0..MaxEdits
  BY DEF ReadUsers, CatalogueFrame, CatalogueInv, TypeOK
<1>9. r.added = {} /\ r.held = {} /\ r.pc # "entry"  BY <1>3, <1>6
<1> QED  BY <1>1, <1>4, <1>7, <1>8, <1>9, QuietMoves

LEMMA UpdateEnrolmentStep ==
  ASSUME CatalogueInv, NEW s \in Slots, NEW agent \in Staff, NEW i \in EnrolmentIds,
         NEW u \in Users, NEW c \in CourseIds, NEW status \in Statuses,
         UpdateEnrolment(s, agent, i, u, c, status)
  PROVE  CatalogueInv'
<1>1. req[s] = IdleReq  BY DEF CatalogueInv, UpdateEnrolment, Refers
<1> DEFINE from == enrolment[i].course
           r == [IdleReq EXCEPT !.pc = "move", !.agent = agent, !.row = i, !.user = u,
                                !.course = c, !.status = status, !.from = from]
<1>2. req' = [req EXCEPT ![s] = r]  BY <1>1 DEF UpdateEnrolment
<1>3. /\ r.pc = "move" /\ r.agent = agent /\ r.course = c /\ r.row = i /\ r.user = u
      /\ r.from = from /\ r.want = {} /\ r.present = {} /\ r.seen = {} /\ r.connect = {}
      /\ r.added = {} /\ r.held = {}
  BY DEF IdleReq
<1>4. There(c) /\ There(from) /\ Owns(agent, from) /\ UNCHANGED course
  BY RowTyped
  DEF UpdateEnrolment, Movable, LiveRow, Syncable, LiveCourse, There, CatalogueFrame
<1>5. r \in ReqRow
  <2>1. c \in 0..MaxCourses /\ from \in 0..MaxCourses /\ i \in 0..MaxEnrolments
    BY <1>4, CatalogueAssumption DEF CourseIds, EnrolmentIds, There
  <2> HIDE DEF from
  <2> QED  BY <2>1, IdleTyped DEF ReqRow, Pcs, Statuses
<1> HIDE DEF r
<1>6. req'[s] = r  BY <1>2 DEF CatalogueInv, TypeOK
<1> HIDE DEF from
<1>7. Refers(s)' /\ Closed(s)'
  BY <1>3, <1>4, <1>6 DEF Refers, Closed, At, RosterPcs, There, Owns
<1> QED  BY <1>2, <1>3, <1>5, <1>7, BeginTyped, QuietMoves
         DEF UpdateEnrolment, CatalogueFrame, CatalogueInv

-----------------------------------------------------------------------------
(* ... and within a transaction *)

\* An update takes its row, which no other transaction has.
LEMMA LockRowStep ==
  ASSUME CatalogueInv, NEW s \in Slots, LockRow(s)
  PROVE  CatalogueInv'
<1>1. /\ At(s, "move") /\ ~ RowHeld(req[s].row) /\ req[s] \in ReqRow /\ Refers(s) /\ Holds(s)
      /\ UNCHANGED <<course, children, enrolment, active, coupon, updated, edits>>
      /\ edits' \in 0..MaxEdits /\ req \in [Slots -> ReqRow]
  BY DEF LockRow, CatalogueFrame, CatalogueInv, TypeOK
<1>2. CASE Finish(s)
  BY <1>1, <1>2, FinishStep
<1>3. CASE LiveRow(req[s].row) /\ req' = [req EXCEPT ![s].pc = "entry", ![s].held = {req[s].row}]
  <2> DEFINE held == {req[s].row}
             r == [req[s] EXCEPT !.pc = "entry", !.held = held]
  <2>1. held \in SUBSET EnrolmentIds /\ req' = [req EXCEPT ![s] = r]
    BY <1>1, <1>3 DEF LiveRow
  <2>2. /\ r \in ReqRow /\ r.pc = "entry" /\ r.held = held /\ r.added = req[s].added
        /\ r.agent = req[s].agent /\ r.course = req[s].course /\ r.row = req[s].row
        /\ r.user = req[s].user /\ r.from = req[s].from /\ r.connect = req[s].connect
        /\ r.present = req[s].present /\ r.want = req[s].want /\ r.seen = req[s].seen
    BY <1>1, <2>1 DEF ReqRow, Pcs
  <2> HIDE DEF r
  <2>3. req'[s] = r /\ OnlyMoves(s)
    BY <1>1, <2>1, <2>2 DEF OnlyMoves
  <2>4. Refers(s)' /\ Closed(s)'
    BY <1>1, <2>2, <2>3 DEF Refers, Closed, At, RosterPcs, There, Owns
  <2>5. req[s].added = {}
    BY <1>1 DEF Holds, At
  <2>6. Holds(s)'
    BY <1>1, <1>3, <2>2, <2>3, <2>5 DEF Holds, At, LiveRow
  <2>7. \A x \in Slots \ {s} : Apart(s, x)' /\ Apart(x, s)'
    BY <1>1, <2>2, <2>3, <2>5 DEF Apart, OnlyMoves, RowHeld
  <2> QED  BY <1>1, <2>3, <2>4, <2>6, <2>7, RequestMoves
<1> QED  BY <1>2, <1>3 DEF LockRow

LEMMA LeastNumber ==
  ASSUME NEW N, N \subseteq Nat, N # {}
  PROVE  \E m \in N : \A n \in N : m <= n
<1>1. PICK m \in N : \A n \in N : ~ (<<n, m>> \in OpToRel(<, Nat))
  BY NatLessThanWellFounded, WFMin, Zenon
<1>2. \A n \in N : n < m => <<n, m>> \in OpToRel(<, Nat)  BY Zenon DEF OpToRel
<1>3. \A n \in N : ~ (n < m)  BY <1>1, <1>2, Zenon
<1> QED  BY <1>3

LEMMA NewEnrolmentFree ==
  ASSUME FreeRows # {}  PROVE NewEnrolment \in FreeRows
<1>1. FreeRows \subseteq Nat  BY DEF FreeRows, EnrolmentIds
<1> QED  BY <1>1, LeastNumber DEF NewEnrolment

LEMMA NewCourseFree ==
  ASSUME FreeCourses # {}  PROVE NewCourse \in FreeCourses
<1>1. FreeCourses \subseteq Nat  BY DEF FreeCourses, CourseIds
<1> QED  BY <1>1, LeastNumber DEF NewCourse

\* A request in its transaction writes one more row and keeps what it carries.
Carries(s) ==
  /\ req'[s].pc = req[s].pc /\ req'[s].agent = req[s].agent
  /\ req'[s].course = req[s].course /\ req'[s].want = req[s].want
  /\ req'[s].seen = req[s].seen /\ req'[s].present = req[s].present
  /\ req'[s].connect = req[s].connect

LEMMA WritesMore ==
  ASSUME CatalogueInv, NEW s \in Slots, At(s, "sync"), Carries(s), UNCHANGED course
  PROVE  /\ Refers(s)' /\ Closed(s)' /\ At(s, "sync")'
         /\ ToAdd(s)' = ToAdd(s) /\ ToDrop(s)' = ToDrop(s)
<1>1. Refers(s)' /\ Closed(s)' /\ At(s, "sync")'
  BY DEF CatalogueInv, Carries, Refers, Closed, At, RosterPcs, There, Owns
<1>2. ToAdd(s)' = ToAdd(s) /\ ToDrop(s)' = ToDrop(s)
  BY DEF Carries, ToAdd, ToDrop, SeenUsers
<1> QED  BY <1>1, <1>2

LEMMA AddsMore ==
  ASSUME CatalogueInv, NEW s \in Slots, NEW added \in SUBSET Inserted,
         req' = [req EXCEPT ![s].added = added]
  PROVE  OnlyMoves(s) /\ Carries(s) /\ req'[s].added = added /\ req'[s].held = req[s].held
<1>1. req \in [Slots -> ReqRow]  BY DEF CatalogueInv, TypeOK
<1> QED  BY <1>1 DEF OnlyMoves, Carries, ReqRow

LEMMA DropsMore ==
  ASSUME CatalogueInv, NEW s \in Slots, NEW dropped \in SUBSET EnrolmentIds,
         req' = [req EXCEPT ![s].held = dropped]
  PROVE  OnlyMoves(s) /\ Carries(s) /\ req'[s].held = dropped /\ req'[s].added = req[s].added
<1>1. req \in [Slots -> ReqRow]  BY DEF CatalogueInv, TypeOK
<1> QED  BY <1>1 DEF OnlyMoves, Carries, ReqRow

LEMMA CreateStep ==
  ASSUME CatalogueInv, NEW s \in Slots, NEW u \in Users, Create(s, u)
  PROVE  CatalogueInv'
<1>1. CASE Finish(s)
  BY <1>1, FinishStep DEF Create, CatalogueFrame, CatalogueInv, TypeOK
<1>2. CASE ~ Finish(s)
  <2> DEFINE e == [id |-> NewEnrolment, user |-> u]
             added == req[s].added \cup {e}
  <2>1. /\ At(s, "sync") /\ u \in ToAdd(s) \ AddedUsers(s)
        /\ ~ EntryHeld(s, req[s].course, u) /\ ~ Enrolled(s, u) /\ FreeRows # {}
        /\ req' = [req EXCEPT ![s].added = added]
        /\ UNCHANGED <<course, children, enrolment, active, coupon, updated, edits>>
    BY <1>2 DEF Create, CatalogueFrame
  <2>2. NewEnrolment \in FreeRows /\ NewEnrolment \in EnrolmentIds
    BY <2>1, NewEnrolmentFree DEF FreeRows
  <2>3. /\ req[s] \in ReqRow /\ Holds(s)
        /\ added \in SUBSET Inserted /\ req[s].held \in SUBSET EnrolmentIds
    BY <2>2 DEF CatalogueInv, TypeOK, ReqRow, Inserted
  <2>4. /\ OnlyMoves(s) /\ Carries(s)
        /\ req'[s].added = added /\ req'[s].held = req[s].held
    BY <2>1, <2>3, AddsMore
  <2>5. /\ enrolment[e.id] = None /\ e.user = u
        /\ \A x \in Slots : \A f \in req[x].added : f.id # e.id
    BY <2>2 DEF FreeRows
  <2> HIDE DEF e, added
  <2>6. /\ OnlyMoves(s) /\ Refers(s)' /\ Closed(s)' /\ At(s, "sync")'
        /\ ToAdd(s)' = ToAdd(s) /\ ToDrop(s)' = ToDrop(s)
        /\ req'[s].course = req[s].course
        /\ req'[s].added = added /\ req'[s].held = req[s].held
    BY <2>1, <2>4, WritesMore DEF Carries
  <2>7. Holds(s)'
    <3>1. \A f \in added : /\ enrolment'[f.id] = None /\ f.user \in ToAdd(s)'
                           /\ ~ Enrolled(s, f.user)'
      BY <2>1, <2>3, <2>5, <2>6
      DEF Holds, added, Enrolled, Students, Roster, LiveRow
    <3>2. \A f, g \in added : f.id = g.id \/ f.user = g.user => f = g
      BY <2>1, <2>3, <2>5 DEF Holds, added, AddedUsers
    <3>3. \A i \in req'[s].held : \E f \in ToDrop(s)' : f.id = i /\ AsRead(s, f)'
      BY <2>1, <2>3, <2>6 DEF Holds, AsRead, LiveRow
    <3> QED  BY <2>6, <3>1, <3>2, <3>3 DEF Holds, At
  <2>8. ASSUME NEW x \in Slots \ {s}  PROVE Apart(s, x)' /\ Apart(x, s)'
    <3>1. Apart(s, x) /\ Apart(x, s) /\ req'[x] = req[x]
      BY <2>6 DEF CatalogueInv, OnlyMoves
    <3>2. ASSUME req[x].course = req[s].course, NEW f \in req[x].added  PROVE f.user # u
      BY <2>1, <3>2 DEF EntryHeld, EntryHeldBy, AddedUsers
    <3> QED  BY <2>5, <2>6, <3>1, <3>2 DEF Apart, added
  <2> QED  BY <2>1, <2>6, <2>7, <2>8, RequestMoves DEF CatalogueInv, TypeOK
<1> QED  BY <1>1, <1>2

LEMMA DropStep ==
  ASSUME CatalogueInv, NEW s \in Slots, NEW e \in Inserted, Drop(s, e)
  PROVE  CatalogueInv'
<1>1. CASE Finish(s)
  BY <1>1, FinishStep DEF Drop, CatalogueFrame, CatalogueInv, TypeOK
<1>2. CASE ~ Finish(s)
  <2> DEFINE dropped == req[s].held \cup {e.id}
  <2>1. /\ At(s, "sync") /\ e \in ToDrop(s) /\ ~ RowHeld(e.id) /\ AsRead(s, e)
        /\ req' = [req EXCEPT ![s].held = dropped]
        /\ UNCHANGED <<course, children, enrolment, active, coupon, updated, edits>>
    BY <1>2 DEF Drop, CatalogueFrame
  <2>3. /\ req[s] \in ReqRow /\ Holds(s)
        /\ req[s].added \in SUBSET Inserted /\ dropped \in SUBSET EnrolmentIds
    BY DEF CatalogueInv, TypeOK, ReqRow, Inserted
  <2> HIDE DEF dropped
  <2>4. /\ OnlyMoves(s) /\ Carries(s)
        /\ req'[s].added = req[s].added /\ req'[s].held = dropped
    BY <2>1, <2>3, DropsMore
  <2>6. /\ OnlyMoves(s) /\ Refers(s)' /\ Closed(s)' /\ At(s, "sync")'
        /\ ToAdd(s)' = ToAdd(s) /\ ToDrop(s)' = ToDrop(s)
        /\ req'[s].course = req[s].course
        /\ req'[s].added = req[s].added /\ req'[s].held = dropped
    BY <2>1, <2>4, WritesMore DEF Carries
  <2>7. Holds(s)'
    <3>1. \A f \in req'[s].added : /\ enrolment'[f.id] = None /\ f.user \in ToAdd(s)'
                                   /\ ~ Enrolled(s, f.user)'
      BY <2>1, <2>3, <2>6 DEF Holds, Enrolled, Students, Roster, LiveRow
    <3>2. \A f, g \in req'[s].added : f.id = g.id \/ f.user = g.user => f = g
      BY <2>3, <2>6 DEF Holds
    <3>3. \A i \in dropped : \E f \in ToDrop(s)' : f.id = i /\ AsRead(s, f)'
      <4>1. \A f \in ToDrop(s) : AsRead(s, f) => AsRead(s, f)'
        BY <2>1, <2>6 DEF AsRead, LiveRow
      <4>2. \A i \in dropped : \E f \in ToDrop(s) : f.id = i /\ AsRead(s, f)
        BY <2>1, <2>3 DEF Holds, dropped
      <4> QED  BY <2>6, <4>1, <4>2
    <3> QED  BY <2>6, <3>1, <3>2, <3>3 DEF Holds, At
  <2>8. ASSUME NEW x \in Slots \ {s}  PROVE Apart(s, x)' /\ Apart(x, s)'
    <3>1. Apart(s, x) /\ Apart(x, s) /\ req'[x] = req[x]
      BY <2>6 DEF CatalogueInv, OnlyMoves
    <3>2. e.id \notin req[x].held
      BY <2>1 DEF RowHeld
    <3> QED  BY <2>6, <3>1, <3>2 DEF Apart, dropped
  <2> QED  BY <2>1, <2>6, <2>7, <2>8, RequestMoves DEF CatalogueInv, TypeOK
<1> QED  BY <1>1, <1>2

-----------------------------------------------------------------------------
(* Steps that write tables *)

LEMMA TablesMove ==
  ASSUME CatalogueInv, TypeOK', RowsUnique', RowsPlaced', CoursesStay, UNCHANGED req,
         \A x \in Slots : Spared(x),
         updated' = {} => NestedInFull' /\ \A x \in Slots : Closed(x)'
  PROVE  CatalogueInv'
<1> DEFINE moved == {}
<1>1. moved \in SUBSET Slots /\ \A x \in Slots \ moved : req'[x] = req[x] /\ Spared(x)
  OBVIOUS
<1> QED  BY <1>1, OneMoves

\* A request ends, and others are spared.
LEMMA RequestEnds ==
  ASSUME CatalogueInv, TypeOK', RowsUnique', RowsPlaced', CoursesStay,
         NEW s \in Slots, Finish(s), \A x \in Slots \ {s} : Spared(x),
         updated' = {} => NestedInFull' /\ \A x \in Slots : Closed(x)'
  PROVE  CatalogueInv'
<1>1. OnlyMoves(s) /\ req'[s] = IdleReq  BY FinishMoves
<1>2. Refers(s)' /\ Holds(s)' /\ req'[s].added = {} /\ req'[s].held = {}
  BY <1>1, IdleSound DEF IdleReq
<1> DEFINE moved == {s}
<1>3. \A x \in moved, y \in Slots \ moved : Apart(x, y)' /\ Apart(y, x)'
  BY <1>2, NoneApart
<1>4. /\ moved \in SUBSET Slots /\ \A x, y \in moved : x = y
      /\ \A x \in moved : Refers(x)' /\ Holds(x)'
      /\ \A x \in Slots \ moved : req'[x] = req[x] /\ Spared(x)
  BY <1>1, <1>2 DEF OnlyMoves
<1> HIDE DEF moved
<1> QED  BY <1>3, <1>4, OneMoves

LEMMA EndNested ==
  ASSUME CatalogueInv, NEW s \in Slots, Finish(s), UNCHANGED <<children, updated>>
  PROVE  updated' = {} => NestedInFull' /\ \A x \in Slots : Closed(x)'
<1>1. OnlyMoves(s) /\ req'[s] = IdleReq  BY FinishMoves
<1> QED  BY <1>1, IdleSound, NestedStays DEF OnlyMoves

LEMMA RowsTyped ==
  ASSUME CatalogueInv, UNCHANGED <<course, children, coupon, updated>>,
         active' \subseteq Users, edits' \in 0..MaxEdits,
         enrolment' \in [EnrolmentIds -> EnrolmentRow \cup {None}],
         req' \in [Slots -> ReqRow]
  PROVE  TypeOK'
BY DEF CatalogueInv, TypeOK, IsCombo

\* What becomes of each row when a transaction commits.
Outcome(s) ==
  /\ enrolment' \in [EnrolmentIds -> EnrolmentRow \cup {None}]
  /\ \A i \in req[s].held :
       /\ i \in EnrolmentIds /\ LiveRow(i) /\ ~ LiveRow(i)' /\ enrolment'[i] # None
       /\ enrolment'[i].course = req[s].course /\ enrolment[i].course = req[s].course
  /\ \A e \in req[s].added :
       /\ e.id \in EnrolmentIds /\ enrolment[e.id] = None /\ LiveRow(e.id)'
       /\ enrolment'[e.id].course = req[s].course /\ enrolment'[e.id].user = e.user
  /\ \A i \in EnrolmentIds :
       \/ i \in req[s].held \/ \E e \in req[s].added : e.id = i
       \/ enrolment'[i] = enrolment[i] /\ (LiveRow(i)' <=> LiveRow(i))

LEMMA Committed ==
  ASSUME CatalogueInv, NEW s \in Slots, CommitSync(s)
  PROVE  Outcome(s)
<1>1. /\ Refers(s) /\ Holds(s) /\ At(s, "sync") /\ req[s] \in ReqRow
      /\ enrolment \in [EnrolmentIds -> EnrolmentRow \cup {None}]
  BY DEF CatalogueInv, TypeOK, CommitSync
<1>2. req[s].added \subseteq Inserted /\ req[s].held \subseteq EnrolmentIds
  BY <1>1 DEF ReqRow
<1>3. req[s].course \in CourseIds  BY <1>1 DEF Refers, At, RosterPcs, There
<1> DEFINE New(i) == [course |-> req[s].course, status |-> "ACTIVE", live |-> TRUE,
                      user |-> (CHOOSE e \in req[s].added : e.id = i).user]
<1>4. enrolment' = [i \in EnrolmentIds |->
         IF i \in req[s].held THEN [enrolment[i] EXCEPT !.live = FALSE]
         ELSE IF \E e \in req[s].added : e.id = i THEN New(i) ELSE enrolment[i]]
  BY DEF CommitSync
<1>5. ASSUME NEW e \in req[s].added
      PROVE  /\ e.id \in EnrolmentIds /\ e.user \in Users /\ enrolment[e.id] = None
             /\ e.id \notin req[s].held
             /\ New(e.id) = [course |-> req[s].course, status |-> "ACTIVE", live |-> TRUE,
                             user |-> e.user]
  <2>1. (CHOOSE f \in req[s].added : f.id = e.id) = e  BY <1>1 DEF Holds
  <2>2. e.id \in EnrolmentIds /\ e.user \in Users  BY <1>2 DEF Inserted
  <2>3. enrolment[e.id] = None /\ e.id \notin req[s].held
    BY <1>1 DEF Holds, AsRead, LiveRow
  <2> QED  BY <2>1, <2>2, <2>3
<1>6. ASSUME NEW i \in req[s].held
      PROVE  /\ LiveRow(i) /\ i \in EnrolmentIds /\ enrolment[i] \in EnrolmentRow
             /\ enrolment[i].course = req[s].course
  <2>1. PICK e \in ToDrop(s) : e.id = i /\ AsRead(s, e)  BY <1>1 DEF Holds
  <2>2. LiveRow(i) /\ enrolment[i].course = req[s].course  BY <2>1 DEF AsRead
  <2> QED  BY <1>1, <2>2 DEF LiveRow
<1>7. ASSUME NEW i \in EnrolmentIds, \E e \in req[s].added : e.id = i
      PROVE  New(i) \in EnrolmentRow
  BY <1>3, <1>5, <1>7 DEF EnrolmentRow, Statuses
<1> HIDE DEF New
<1>8. enrolment' \in [EnrolmentIds -> EnrolmentRow \cup {None}]
  BY <1>1, <1>4, <1>6, <1>7 DEF EnrolmentRow
<1>9. ASSUME NEW i \in req[s].held
      PROVE  ~ LiveRow(i)' /\ enrolment'[i] # None /\ enrolment'[i].course = req[s].course
  <2>1. enrolment'[i] = [enrolment[i] EXCEPT !.live = FALSE]  BY <1>4, <1>6
  <2> DEFINE row == enrolment[i]
  <2>2. row \in EnrolmentRow /\ row.course = req[s].course  BY <1>6
  <2> HIDE DEF row
  <2>3. [row EXCEPT !.live = FALSE] \in EnrolmentRow
        /\ [row EXCEPT !.live = FALSE].live = FALSE
        /\ [row EXCEPT !.live = FALSE].course = req[s].course
    BY <2>2 DEF EnrolmentRow
  <2> QED  BY <2>1, <2>3, NoneAssumption DEF LiveRow, row
<1>10. ASSUME NEW e \in req[s].added
       PROVE  /\ enrolment'[e.id].course = req[s].course /\ enrolment'[e.id].user = e.user
              /\ LiveRow(e.id)'
  <2>1. enrolment'[e.id] = New(e.id)  BY <1>4, <1>5
  <2>2. enrolment'[e.id] \in EnrolmentRow  BY <1>5, <1>7, <2>1
  <2>3. New(e.id) = [course |-> req[s].course, status |-> "ACTIVE", live |-> TRUE,
                     user |-> e.user]
        /\ e.id \in EnrolmentIds
    BY <1>5
  <2>4. /\ New(e.id).live /\ New(e.id).course = req[s].course /\ New(e.id).user = e.user
    BY <2>3
  <2> QED  BY <2>1, <2>2, <2>3, <2>4, NoneAssumption DEF LiveRow
<1>11. ASSUME NEW i \in EnrolmentIds, i \notin req[s].held,
              ~ \E e \in req[s].added : e.id = i
       PROVE  enrolment'[i] = enrolment[i] /\ (LiveRow(i)' <=> LiveRow(i))
  BY <1>4, <1>11 DEF LiveRow
<1> QED  BY <1>5, <1>6, <1>8, <1>9, <1>10, <1>11 DEF Outcome

LEMMA CommitSyncStep ==
  ASSUME CatalogueInv, NEW s \in Slots, CommitSync(s)
  PROVE  CatalogueInv'
<1> DEFINE New(i) == \E e \in req[s].added : e.id = i
           Old(i) == i \notin req[s].held /\ ~ New(i)
<1>0. Outcome(s)  BY Committed
<1>1. /\ Refers(s) /\ Holds(s) /\ At(s, "sync") /\ Finish(s) /\ OnlyMoves(s)
      /\ UNCHANGED <<course, children, active, coupon, updated, edits>>
  BY FinishMoves DEF CatalogueInv, CommitSync, CatalogueFrame
<1>2. TypeOK'
  BY <1>0, <1>1, RowsTyped DEF Outcome, CatalogueInv, TypeOK, OnlyMoves
<1>3. ASSUME NEW i \in EnrolmentIds, LiveRow(i)'
      PROVE  \/ New(i) /\ enrolment'[i].course = req[s].course
             \/ Old(i) /\ LiveRow(i) /\ enrolment'[i] = enrolment[i]
  BY <1>3, <1>0 DEF Outcome
<1>4. RowsUnique'
  <2> SUFFICES ASSUME NEW i \in EnrolmentIds, NEW j \in EnrolmentIds,
                      LiveRow(i)', LiveRow(j)',
                      enrolment'[i].course = enrolment'[j].course,
                      enrolment'[i].user = enrolment'[j].user
               PROVE  i = j
    BY DEF RowsUnique
  <2>1. CASE New(i) /\ New(j)
    <3>1. PICK e \in req[s].added, f \in req[s].added : e.id = i /\ f.id = j  BY <2>1
    <3>2. e.user = f.user  BY <3>1, <1>0 DEF Outcome
    <3> QED  BY <1>1, <3>1, <3>2 DEF Holds
  <2>2. ASSUME NEW k \in EnrolmentIds, NEW l \in EnrolmentIds, New(k),
               Old(l), LiveRow(l)', enrolment'[k].course = enrolment'[l].course,
               enrolment'[k].user = enrolment'[l].user
        PROVE  FALSE
    <3>1. PICK e \in req[s].added : e.id = k  BY <2>2
    <3>2. LiveRow(l) /\ enrolment[l].course = req[s].course /\ enrolment[l].user = e.user
      BY <1>3, <2>2, <3>1, <1>0 DEF Outcome
    <3>3. Enrolled(s, e.user)  BY <3>2 DEF Enrolled, Students, Roster
    <3> QED  BY <1>1, <3>3 DEF Holds
  <2>3. CASE Old(i) /\ Old(j)
    BY <1>3, <2>3 DEF CatalogueInv, RowsUnique
  <2> QED  BY <1>3, <2>1, <2>2, <2>3
<1>5. RowsPlaced'
  <2>1. There(req[s].course)  BY <1>1 DEF Refers, At, RosterPcs
  <2>2. \A c : There(c) => There(c)'  BY <1>1 DEF There
  <2> QED  BY <2>1, <2>2, <1>0 DEF RowsPlaced, CatalogueInv, Outcome
<1>6. ASSUME NEW x \in Slots \ {s}  PROVE Spared(x)
  <2>1. Holds(x) /\ Apart(s, x) /\ Apart(x, s) /\ req'[x] = req[x] /\ req[x] \in ReqRow
    BY <1>1 DEF CatalogueInv, TypeOK, OnlyMoves
  <2>2. ASSUME NEW e \in req[x].added
        PROVE  enrolment'[e.id] = None /\ ~ Enrolled(x, e.user)'
    <3>1. e.id \in EnrolmentIds /\ enrolment[e.id] = None /\ ~ Enrolled(x, e.user)
      BY <2>1 DEF Holds, ReqRow, Inserted
    <3>2. ~ New(e.id) /\ e.id \notin req[s].held
      BY <2>1, <3>1, <1>0 DEF Apart, LiveRow, Outcome
    <3>3. ASSUME Enrolled(x, e.user)'  PROVE FALSE
      <4>1. PICK j \in EnrolmentIds : /\ LiveRow(j)' /\ enrolment'[j].course = req[x].course
                                      /\ enrolment'[j].user = e.user
        BY <2>1, <3>3 DEF Enrolled, Students, Roster
      <4>2. CASE Old(j) /\ LiveRow(j) /\ enrolment'[j] = enrolment[j]
        BY <3>1, <4>1, <4>2 DEF Enrolled, Students, Roster
      <4>3. CASE New(j)
        <5>1. PICK f \in req[s].added : f.id = j  BY <4>3
        <5>2. f.user = e.user /\ req[s].course = req[x].course  BY <4>1, <5>1, <1>0 DEF Outcome
        <5> QED  BY <2>1, <5>1, <5>2 DEF Apart
      <4> QED  BY <1>3, <4>1, <4>2, <4>3
    <3> QED  BY <3>1, <3>2, <3>3, <1>0 DEF Outcome
  <2>3. ASSUME NEW i \in req[x].held  PROVE enrolment'[i] = enrolment[i]
    <3>1. i \in EnrolmentIds /\ LiveRow(i)  BY <2>1 DEF Holds, AsRead, LiveRow
    <3>2. i \notin req[s].held /\ ~ New(i)
      BY <2>1, <3>1, <1>0 DEF Apart, LiveRow, Outcome
    <3> QED  BY <3>1, <3>2, <1>0 DEF Outcome
  <2> QED  BY <2>2, <2>3 DEF Spared
<1> QED  BY <1>1, <1>2, <1>4, <1>5, <1>6, SameCourses, EndNested, RequestEnds

\* One row changes, which no other transaction has locked.
LEMMA OneRow ==
  ASSUME CatalogueInv, NEW i \in EnrolmentIds, enrolment[i] # None,
         NEW row \in EnrolmentRow, enrolment' = [enrolment EXCEPT ![i] = row],
         UNCHANGED <<course, children, active, coupon, updated>>,
         edits' \in 0..MaxEdits, req' \in [Slots -> ReqRow],
         There(row.course),
         row.live => \A j \in EnrolmentIds \ {i} :
           ~ (LiveRow(j) /\ enrolment[j].course = row.course /\ enrolment[j].user = row.user),
         NEW others \in SUBSET Slots,
         \A x \in others : req'[x] = req[x] /\ i \notin req[x].held,
         row.live => \A x \in others :
           ~ (req[x].course = row.course /\ row.user \in AddedUsers(x))
  PROVE  TypeOK' /\ RowsUnique' /\ RowsPlaced' /\ \A x \in others : Spared(x)
<1>0. enrolment \in [EnrolmentIds -> EnrolmentRow \cup {None}]  BY DEF CatalogueInv, TypeOK
<1>1. /\ enrolment'[i] = row
      /\ \A j \in EnrolmentIds \ {i} : enrolment'[j] = enrolment[j] /\ (LiveRow(j)' <=> LiveRow(j))
      /\ LiveRow(i)' => row.live
  BY <1>0 DEF LiveRow
<1>2. TypeOK'
  BY <1>0, RowsTyped DEF CatalogueInv, TypeOK
<1>3. RowsUnique'
  BY <1>1 DEF CatalogueInv, RowsUnique
<1>4. RowsPlaced'
  BY <1>1 DEF CatalogueInv, RowsPlaced, There
<1>5. ASSUME NEW x \in others  PROVE Spared(x)
  <2>1. Holds(x) /\ req[x] \in ReqRow /\ req'[x] = req[x]  BY DEF CatalogueInv, TypeOK
  <2>2. ASSUME NEW e \in req[x].added
        PROVE  enrolment'[e.id] = None /\ ~ Enrolled(x, e.user)'
    <3>1. e.id \in EnrolmentIds \ {i} /\ enrolment[e.id] = None /\ ~ Enrolled(x, e.user)
      BY <2>1 DEF Holds, ReqRow, Inserted
    <3>2. ASSUME Enrolled(x, e.user)'  PROVE FALSE
      <4>1. PICK j \in EnrolmentIds : /\ LiveRow(j)' /\ enrolment'[j].course = req[x].course
                                      /\ enrolment'[j].user = e.user
        BY <2>1, <3>2 DEF Enrolled, Students, Roster
      <4>2. CASE j # i
        BY <1>1, <3>1, <4>1, <4>2 DEF Enrolled, Students, Roster
      <4>3. CASE j = i
        BY <1>1, <3>1, <4>1, <4>3 DEF AddedUsers
      <4> QED  BY <4>2, <4>3
    <3> QED  BY <1>1, <3>1, <3>2
  <2>3. ASSUME NEW k \in req[x].held  PROVE enrolment'[k] = enrolment[k]
    <3>1. k \in EnrolmentIds \ {i}  BY <2>1 DEF ReqRow
    <3> QED  BY <1>1, <3>1
  <2> QED  BY <2>2, <2>3 DEF Spared
<1> QED  BY <1>2, <1>3, <1>4, <1>5

LEMMA WriteEnrolmentStep ==
  ASSUME CatalogueInv, NEW s \in Slots, WriteEnrolment(s)
  PROVE  CatalogueInv'
<1> DEFINE i == req[s].row
           row == [enrolment[i] EXCEPT !.course = req[s].course, !.user = req[s].user,
                                       !.status = req[s].status]
<1>1. /\ At(s, "entry") /\ ~ EntryHeld(s, req[s].course, req[s].user)
      /\ Finish(s) /\ OnlyMoves(s) /\ Refers(s) /\ Holds(s) /\ req[s] \in ReqRow
      /\ UNCHANGED <<course, children, active, coupon, updated, edits>>
  BY FinishMoves DEF WriteEnrolment, CatalogueFrame, CatalogueInv, TypeOK
<1>2. CASE UNCHANGED enrolment
  BY <1>1, <1>2, FinishStep DEF CatalogueInv, TypeOK
<1>3. CASE /\ ~ \E j \in Roster(req[s].course) \ {i} : enrolment[j].user = req[s].user
           /\ enrolment' = [enrolment EXCEPT ![i].course = req[s].course,
                                             ![i].user = req[s].user,
                                             ![i].status = req[s].status]
  <2>0. LiveRow(i) /\ req[s].held = {i}
    BY <1>1 DEF Holds
  <2>1. /\ i \in EnrolmentIds /\ enrolment[i] # None /\ req[s].user \in Users
        /\ There(req[s].course) /\ enrolment[i] \in EnrolmentRow
        /\ enrolment \in [EnrolmentIds -> EnrolmentRow \cup {None}]
    BY <1>1, <2>0, RowTyped DEF Refers, At, LiveRow, CatalogueInv, TypeOK
  <2>2. /\ row \in EnrolmentRow /\ row.course = req[s].course /\ row.user = req[s].user
        /\ enrolment' = [enrolment EXCEPT ![i] = row]
    BY <1>1, <1>3, <2>1 DEF EnrolmentRow, ReqRow, There
  <2> HIDE DEF row
  <2>3. \A j \in EnrolmentIds \ {i} :
          ~ (LiveRow(j) /\ enrolment[j].course = row.course /\ enrolment[j].user = row.user)
    BY <1>3, <2>2 DEF Roster
  <2> DEFINE others == Slots \ {s}
  <2>4. \A x \in others :
          ~ (req[x].course = row.course /\ row.user \in AddedUsers(x))
    BY <1>1, <2>2 DEF EntryHeld, EntryHeldBy
  <2>5. /\ others \in SUBSET Slots /\ req' \in [Slots -> ReqRow] /\ edits' \in 0..MaxEdits
        /\ \A x \in others : req'[x] = req[x] /\ i \notin req[x].held
    BY <1>1, <2>0 DEF OnlyMoves, CatalogueInv, TypeOK, Apart
  <2> HIDE DEF others, i
  <2>6. TypeOK' /\ RowsUnique' /\ RowsPlaced' /\ \A x \in others : Spared(x)
    BY <1>1, <2>1, <2>2, <2>3, <2>4, <2>5, OneRow
  <2> QED  BY <1>1, <2>6, SameCourses, EndNested, RequestEnds DEF others
<1> QED  BY <1>2, <1>3 DEF WriteEnrolment

LEMMA DeleteEnrolmentStep ==
  ASSUME CatalogueInv, NEW agent \in Staff, NEW i \in EnrolmentIds,
         DeleteEnrolment(agent, i)
  PROVE  CatalogueInv'
<1> DEFINE row == [enrolment[i] EXCEPT !.live = FALSE]
<1>1. /\ LiveRow(i) /\ ~ RowHeld(i) /\ UNCHANGED req /\ edits' \in 0..MaxEdits
      /\ UNCHANGED <<course, children, active, coupon, updated>>
  BY BeginTyped DEF DeleteEnrolment, CatalogueFrame, CatalogueInv
<1>2. /\ enrolment[i] # None /\ enrolment[i] \in EnrolmentRow /\ There(enrolment[i].course)
      /\ enrolment \in [EnrolmentIds -> EnrolmentRow \cup {None}] /\ req \in [Slots -> ReqRow]
  BY <1>1, RowTyped DEF LiveRow, CatalogueInv, TypeOK
<1>3. /\ row \in EnrolmentRow /\ row.course = enrolment[i].course /\ ~ row.live
      /\ enrolment' = [enrolment EXCEPT ![i] = row]
  BY <1>2 DEF EnrolmentRow, DeleteEnrolment
<1> HIDE DEF row
<1> DEFINE others == Slots
<1>4. others \in SUBSET Slots /\ \A x \in others : req'[x] = req[x] /\ i \notin req[x].held
  BY <1>1 DEF RowHeld
<1> HIDE DEF others
<1>5. TypeOK' /\ RowsUnique' /\ RowsPlaced' /\ \A x \in others : Spared(x)
  BY <1>1, <1>2, <1>3, <1>4, OneRow
<1>6. updated' = {} => NestedInFull' /\ \A x \in Slots : Closed(x)'
  BY <1>1, NestedStays
<1> QED  BY <1>1, <1>5, <1>6, SameCourses, TablesMove DEF others

LEMMA BuyStep ==
  ASSUME CatalogueInv, NEW u \in Users, NEW c \in CourseIds, Buy(u, c)
  PROVE  CatalogueInv'
<1> DEFINE i == NewEnrolment
           row == [course |-> c, user |-> u, status |-> "ACTIVE", live |-> TRUE]
<1>1. /\ c \notin FreeCourses /\ u \notin Students(c) /\ FreeRows # {} /\ UNCHANGED req
      /\ \A x \in Slots : ~ EntryHeldBy(x, c, u)
      /\ enrolment' = [enrolment EXCEPT ![i] = row] /\ edits' \in 0..MaxEdits
      /\ UNCHANGED <<course, children, active, coupon, updated>>
  BY BeginTyped DEF Buy, CatalogueFrame, CatalogueInv
<1>2. /\ i \in EnrolmentIds /\ enrolment[i] = None
      /\ \A x \in Slots : \A e \in req[x].added : e.id # i
  BY <1>1, NewEnrolmentFree DEF FreeRows
<1>3. /\ There(c) /\ row \in EnrolmentRow
      /\ row.course = c /\ row.user = u /\ row.live
      /\ enrolment \in [EnrolmentIds -> EnrolmentRow \cup {None}] /\ req \in [Slots -> ReqRow]
  BY <1>1 DEF FreeCourses, There, EnrolmentRow, Statuses, CatalogueInv, TypeOK
<1> HIDE DEF i, row
<1>4. /\ enrolment'[i] = row
      /\ \A j \in EnrolmentIds \ {i} : enrolment'[j] = enrolment[j] /\ (LiveRow(j)' <=> LiveRow(j))
  BY <1>1, <1>2, <1>3 DEF LiveRow
<1>5. TypeOK'
  BY <1>1, <1>3, RowsTyped DEF CatalogueInv, TypeOK
<1>6. \A j \in EnrolmentIds : ~ (LiveRow(j) /\ enrolment[j].course = c /\ enrolment[j].user = u)
  BY <1>1 DEF Students, Roster
<1>7. RowsUnique'
  BY <1>3, <1>4, <1>6 DEF CatalogueInv, RowsUnique
<1>8. RowsPlaced'
  BY <1>1, <1>3, <1>4 DEF CatalogueInv, RowsPlaced, There
<1>9. ASSUME NEW x \in Slots  PROVE Spared(x)
  <2>1. Holds(x) /\ req[x] \in ReqRow /\ req'[x] = req[x]  BY <1>1, <1>3 DEF CatalogueInv
  <2>2. ASSUME NEW e \in req[x].added
        PROVE  enrolment'[e.id] = None /\ ~ Enrolled(x, e.user)'
    <3>1. e.id \in EnrolmentIds \ {i} /\ enrolment[e.id] = None /\ ~ Enrolled(x, e.user)
      BY <1>2, <2>1 DEF Holds, ReqRow, Inserted
    <3>2. ASSUME Enrolled(x, e.user)'  PROVE FALSE
      <4>1. PICK j \in EnrolmentIds : /\ LiveRow(j)' /\ enrolment'[j].course = req[x].course
                                      /\ enrolment'[j].user = e.user
        BY <2>1, <3>2 DEF Enrolled, Students, Roster
      <4>2. CASE j # i
        BY <1>4, <3>1, <4>1, <4>2 DEF Enrolled, Students, Roster
      <4>3. CASE j = i
        BY <1>1, <1>3, <1>4, <3>1, <4>1, <4>3 DEF EntryHeldBy, AddedUsers
      <4> QED  BY <4>2, <4>3
    <3> QED  BY <1>4, <3>1, <3>2
  <2>3. ASSUME NEW k \in req[x].held  PROVE enrolment'[k] = enrolment[k]
    <3>1. k \in EnrolmentIds \ {i}  BY <1>2, <2>1 DEF Holds, AsRead, LiveRow
    <3> QED  BY <1>4, <3>1
  <2> QED  BY <2>2, <2>3 DEF Spared
<1>10. updated' = {} => NestedInFull' /\ \A x \in Slots : Closed(x)'
  BY <1>1, NestedStays
<1> QED  BY <1>1, <1>5, <1>7, <1>8, <1>9, <1>10, SameCourses, TablesMove

LEMMA SetActiveStep ==
  ASSUME CatalogueInv, NEW u \in Users, NEW on \in BOOLEAN, SetActive(u, on)
  PROVE  CatalogueInv'
<1>1. /\ UNCHANGED <<course, children, enrolment, coupon, req, updated>>
      /\ edits' \in 0..MaxEdits /\ active' \subseteq Users
  BY BeginTyped DEF SetActive, CatalogueInv, TypeOK
<1>2. TypeOK'  BY <1>1, RowsTyped DEF CatalogueInv, TypeOK
<1>3. RowsUnique' /\ RowsPlaced' /\ \A x \in Slots : Spared(x)
  BY <1>1, SameCourses, RowsStay
<1>4. updated' = {} => NestedInFull' /\ \A x \in Slots : Closed(x)'
  BY <1>1, NestedStays
<1> QED  BY <1>1, <1>2, <1>3, <1>4, SameCourses, TablesMove

-----------------------------------------------------------------------------
(* Combos and offers *)

\* Courses change, and are neither lost nor given away.
LEMMA CoursesMove ==
  ASSUME CatalogueInv, UNCHANGED <<children, enrolment, active, coupon, req, updated>>,
         edits' \in 0..MaxEdits, CoursesStay,
         course' \in [CourseIds -> CourseRow \cup {None}]
  PROVE  CatalogueInv'
<1>1. TypeOK'
  <2>1. \A p \in children' : /\ p \in CourseIds \X CourseIds
                             /\ course'[p[1]] # None /\ course'[p[2]] # None
                             /\ course'[p[1]].courseType = "COMBO"
    BY DEF CatalogueInv, TypeOK, CoursesStay, IsCombo
  <2> QED  BY <2>1 DEF CatalogueInv, TypeOK, IsCombo
<1>2. RowsUnique' /\ RowsPlaced' /\ \A x \in Slots : Spared(x)
  BY RowsStay
<1>3. updated' = {} => NestedInFull' /\ \A x \in Slots : Closed(x)'
  BY NestedStays
<1> QED  BY <1>1, <1>2, <1>3, TablesMove

\* What is inserted takes an id that is free.
LEMMA Inserts ==
  ASSUME CatalogueInv, FreeCourses # {}, NEW agent \in Staff, NEW terms \in Terms,
         NEW type \in {"SINGLE", "COMBO"}, Insert(agent, type, terms)
  PROVE  /\ CoursesStay /\ course' \in [CourseIds -> CourseRow \cup {None}]
         /\ NewCourse \in CourseIds /\ course[NewCourse] = None
         /\ course'[NewCourse] # None /\ course'[NewCourse].courseType = type
<1>1. NewCourse \in CourseIds /\ course[NewCourse] = None
  BY NewCourseFree DEF FreeCourses
<1> DEFINE row == [courseType |-> type, owner |-> agent, terms |-> terms, live |-> TRUE]
<1>2. row \in CourseRow /\ row.courseType = type  BY DEF CourseRow
<1>3. course \in [CourseIds -> CourseRow \cup {None}] /\ course' = [course EXCEPT ![NewCourse] = row]
  BY DEF CatalogueInv, TypeOK, Insert
<1> HIDE DEF row
<1> QED  BY <1>1, <1>2, <1>3, NoneAssumption DEF CoursesStay

\* What is written to a row keeps its owner and its kind.
LEMMA Rewrites ==
  ASSUME CatalogueInv, NEW c \in CourseIds, LiveCourse(c), NEW row \in CourseRow,
         course' = [course EXCEPT ![c] = row],
         row.owner = course[c].owner, row.courseType = course[c].courseType
  PROVE  CoursesStay /\ course' \in [CourseIds -> CourseRow \cup {None}]
<1>1. course \in [CourseIds -> CourseRow \cup {None}]  BY DEF CatalogueInv, TypeOK
<1> QED  BY <1>1, NoneAssumption DEF CoursesStay

LEMMA WithTerms ==
  ASSUME CatalogueInv, NEW c \in CourseIds, LiveCourse(c), NEW terms \in Terms,
         course' = [course EXCEPT ![c].terms = terms]
  PROVE  CoursesStay /\ course' \in [CourseIds -> CourseRow \cup {None}]
<1> DEFINE row == [course[c] EXCEPT !.terms = terms]
<1>1. course[c] \in CourseRow /\ course \in [CourseIds -> CourseRow \cup {None}]
  BY DEF CatalogueInv, TypeOK, LiveCourse
<1>2. row \in CourseRow /\ row.owner = course[c].owner /\ row.courseType = course[c].courseType
  BY <1>1 DEF CourseRow
<1>3. course' = [course EXCEPT ![c] = row]  BY <1>1
<1> HIDE DEF row
<1> QED  BY <1>2, <1>3, Rewrites

LEMMA SingleStep ==
  ASSUME CatalogueInv, NEW agent \in Staff,
         \/ CreateSingle(agent)
         \/ \E c \in CourseIds : UpdateSingle(agent, c) \/ DeleteCourse(agent, c)
  PROVE  CatalogueInv'
<1>1. /\ UNCHANGED <<children, enrolment, active, coupon, req, updated>>
      /\ edits' \in 0..MaxEdits
  BY BeginTyped DEF CreateSingle, UpdateSingle, DeleteCourse, ComboFrame, CatalogueInv
<1>2. CASE CreateSingle(agent)
  BY <1>1, <1>2, Inserts, CoursesMove DEF CreateSingle
<1>3. ASSUME NEW c \in CourseIds, UpdateSingle(agent, c)  PROVE CatalogueInv'
  BY <1>1, <1>3, WithTerms, CoursesMove DEF UpdateSingle
<1>4. ASSUME NEW c \in CourseIds, DeleteCourse(agent, c)  PROVE CatalogueInv'
  <2> DEFINE row == [course[c] EXCEPT !.live = FALSE]
  <2>1. course[c] \in CourseRow /\ course \in [CourseIds -> CourseRow \cup {None}]
        /\ LiveCourse(c)
    BY <1>4 DEF CatalogueInv, TypeOK, LiveCourse, DeleteCourse
  <2>2. row \in CourseRow /\ row.owner = course[c].owner /\ row.courseType = course[c].courseType
    BY <2>1 DEF CourseRow
  <2>3. course' = [course EXCEPT ![c] = row]  BY <1>4, <2>1 DEF DeleteCourse
  <2> HIDE DEF row
  <2> QED  BY <1>1, <2>1, <2>2, <2>3, Rewrites, CoursesMove
<1> QED  BY <1>2, <1>3, <1>4

\* What is below a combo is there, and a single has nothing below it.
LEMMA BelowThere ==
  ASSUME CatalogueInv, NEW c, NEW d, <<c, d>> \in children
  PROVE  /\ There(c) /\ There(d) /\ IsCombo(c)
BY DEF CatalogueInv, TypeOK, There

LEMMA CreateComboStep ==
  ASSUME CatalogueInv, NEW agent \in Staff, NEW s \in Slots, NEW ids \in ComboBodies,
         CreateCombo(s, agent, ids)
  PROVE  CatalogueInv'
<1>1. req[s] = IdleReq /\ \A c \in ids : LiveCourse(c)
  BY DEF CatalogueInv, CreateCombo, Refers
<1> DEFINE connect == WithChildren(ids)
           r == [IdleReq EXCEPT !.pc = "insertCombo", !.agent = agent, !.connect = connect]
<1>2. req' = [req EXCEPT ![s] = r]  BY <1>1 DEF CreateCombo
<1>3. \A c \in connect : There(c)
  BY <1>1, BelowThere DEF WithChildren, Below, CombosOf, LiveCourse, There
<1>4. connect \in SUBSET CourseIds  BY <1>3 DEF There
<1> HIDE DEF connect
<1>5. r \in ReqRow  BY <1>4, IdleTyped DEF ReqRow, Pcs
<1>6. /\ r.pc = "insertCombo" /\ r.agent = agent /\ r.connect = connect
      /\ r.want = {} /\ r.present = {} /\ r.seen = {} /\ r.added = {} /\ r.held = {}
  BY DEF IdleReq
<1> HIDE DEF r
<1>7. req'[s] = r /\ UNCHANGED <<course, children, enrolment, active, coupon, updated>>
  BY <1>2 DEF CatalogueInv, TypeOK, CreateCombo, ComboFrame
<1>8. Refers(s)'
  BY <1>3, <1>6, <1>7 DEF Refers, At, RosterPcs, There
<1>9. Closed(s)' \/ ~ (updated = {})
  <2> SUFFICES ASSUME updated = {}, NEW c \in CourseIds, NEW d \in CourseIds,
                      c \in connect, <<c, d>> \in children
               PROVE  d \in connect
    BY <1>6, <1>7 DEF Closed, At
  <2>1. NestedInFull /\ IsCombo(c)  BY BelowThere DEF CatalogueInv
  <2>2. CASE c \in ids
    BY <2>1, <2>2 DEF connect, WithChildren, CombosOf, Below
  <2>3. CASE c \notin ids
    <3>1. PICK k \in CombosOf(ids) : <<k, c>> \in children
      BY <2>3 DEF connect, WithChildren, Below
    <3>2. k \in CourseIds  BY <3>1, BelowThere DEF There
    <3>3. <<k, d>> \in children  BY <2>1, <3>1, <3>2 DEF NestedInFull
    <3> QED  BY <3>1, <3>3 DEF connect, WithChildren, Below
  <2> QED  BY <2>2, <2>3
<1> QED  BY <1>2, <1>5, <1>6, <1>7, <1>8, <1>9, BeginTyped, QuietMoves
         DEF CreateCombo, CatalogueInv

LEMMA UpdateComboStep ==
  ASSUME CatalogueInv, NEW agent \in Staff, NEW s \in Slots, NEW c \in CourseIds,
         NEW ids \in ComboBodies, UpdateCombo(s, agent, c, ids)
  PROVE  CatalogueInv'
<1>1. req[s] = IdleReq  BY DEF CatalogueInv, UpdateCombo, Refers
<1> DEFINE below == {x \in Below(c) : LiveCourse(x)}
           r == [IdleReq EXCEPT !.pc = "expand", !.agent = agent, !.course = c, !.ids = ids,
                                !.below = below]
<1>2. req' = [req EXCEPT ![s] = r]  BY <1>1 DEF UpdateCombo
<1>3. /\ below \in SUBSET CourseIds /\ ids \in SUBSET CourseIds /\ c \in 0..MaxCourses
  BY CatalogueAssumption DEF Below, CourseIds
<1> HIDE DEF below
<1>4. r \in ReqRow  BY <1>3, IdleTyped DEF ReqRow, Pcs
<1>5. /\ r.pc = "expand" /\ r.agent = agent /\ r.course = c /\ r.connect = {}
      /\ r.want = {} /\ r.present = {} /\ r.seen = {} /\ r.added = {} /\ r.held = {}
  BY DEF IdleReq
<1> HIDE DEF r
<1>6. req'[s] = r /\ UNCHANGED <<course, children, enrolment, active, coupon, updated>>
  BY <1>2 DEF CatalogueInv, TypeOK, UpdateCombo, ComboFrame
<1>7. There(c) /\ IsCombo(c)  BY DEF UpdateCombo, Reshapable, LiveCourse, There
<1>8. Refers(s)' /\ Closed(s)'
  BY <1>5, <1>6, <1>7 DEF Refers, Closed, At, RosterPcs, There, IsCombo
<1> QED  BY <1>2, <1>4, <1>5, <1>6, <1>8, BeginTyped, QuietMoves
         DEF UpdateCombo, CatalogueInv

LEMMA ExpandStep ==
  ASSUME CatalogueInv, NEW s \in Slots, Expand(s)
  PROVE  CatalogueInv'
<1>1. /\ Refers(s) /\ Holds(s) /\ req[s] \in ReqRow /\ req[s].pc = "expand"
      /\ UNCHANGED <<course, children, enrolment, active, coupon, updated>>
      /\ edits' \in 0..MaxEdits
  BY DEF CatalogueInv, TypeOK, Expand, At, ComboFrame
<1>2. CASE Finish(s)  BY <1>1, <1>2, FinishStep
<1>3. CASE /\ \A c \in req[s].ids : LiveCourse(c)
           /\ req' = [req EXCEPT ![s].pc = "reshape", ![s].connect = Expansion(req[s].ids)]
  <2> DEFINE connect == Expansion(req[s].ids)
             r == [req[s] EXCEPT !.pc = "reshape", !.connect = connect]
  <2>1. req' = [req EXCEPT ![s] = r]  BY <1>3
  <2>2. \A c \in connect : There(c)
    BY <1>3 DEF Expansion, Singles, LiveCourse, There
  <2>3. connect \in SUBSET CourseIds  BY <2>2 DEF There
  <2> HIDE DEF connect
  <2>4. r \in ReqRow  BY <1>1, <2>3 DEF ReqRow, Pcs
  <2>5. /\ r.pc = "reshape" /\ r.agent = req[s].agent /\ r.course = req[s].course
        /\ r.connect = connect /\ r.want = req[s].want /\ r.present = req[s].present
        /\ r.seen = req[s].seen
        /\ r.added = req[s].added /\ r.held = req[s].held
    BY <1>1 DEF ReqRow
  <2> HIDE DEF r
  <2>6. req'[s] = r  BY <2>1 DEF CatalogueInv, TypeOK
  <2>7. Refers(s)' /\ Closed(s)'
    BY <1>1, <2>2, <2>5, <2>6 DEF Refers, Closed, At, RosterPcs, There, IsCombo
  <2>8. r.added = {} /\ r.held = {} /\ r.pc # "entry"  BY <1>1, <2>5 DEF Holds, At
  <2> QED  BY <1>1, <2>1, <2>4, <2>7, <2>8, QuietMoves
<1> QED  BY <1>2, <1>3 DEF Expand

\* The relation changes between courses that are there, and the request ends.
LEMMA RelationMoves ==
  ASSUME CatalogueInv, UNCHANGED <<enrolment, active, coupon, edits>>, NEW s \in Slots,
         Finish(s), CoursesStay, course' \in [CourseIds -> CourseRow \cup {None}],
         \A p \in children' \ children :
           /\ p \in CourseIds \X CourseIds /\ course'[p[1]] # None /\ course'[p[2]] # None
           /\ course'[p[1]].courseType = "COMBO",
         updated' \subseteq CourseIds,
         updated' = {} => NestedInFull' /\ \A x \in Slots : Closed(x)'
  PROVE  CatalogueInv'
<1>1. \A p \in children' : /\ p \in CourseIds \X CourseIds
                           /\ course'[p[1]] # None /\ course'[p[2]] # None
                           /\ course'[p[1]].courseType = "COMBO"
  BY DEF CatalogueInv, TypeOK, CoursesStay, IsCombo
<1>2. OnlyMoves(s)  BY FinishMoves
<1>3. TypeOK'  BY <1>1, <1>2 DEF CatalogueInv, TypeOK, IsCombo, OnlyMoves
<1>4. RowsUnique' /\ RowsPlaced' /\ \A x \in Slots \ {s} : Spared(x)
  BY <1>2, RowsStay DEF OnlyMoves
<1> QED  BY <1>3, <1>4, RequestEnds

LEMMA InsertComboStep ==
  ASSUME CatalogueInv, NEW s \in Slots, InsertCombo(s)
  PROVE  CatalogueInv'
<1>1. /\ Refers(s) /\ At(s, "insertCombo") /\ Finish(s) /\ OnlyMoves(s) /\ req'[s] = IdleReq
      /\ UNCHANGED <<enrolment, active, coupon, updated, edits>> /\ req[s].agent \in Staff
  BY FinishMoves DEF CatalogueInv, InsertCombo, ComboFrame, Refers, At
<1>2. CASE UNCHANGED <<course, children>>
  BY <1>1, <1>2, FinishStep DEF CatalogueInv, TypeOK
<1>3. ASSUME FreeCourses # {}, NEW terms \in Terms, Insert(req[s].agent, "COMBO", terms),
             children' = children \cup ({NewCourse} \X req[s].connect)
      PROVE  CatalogueInv'
  <2> DEFINE n == NewCourse
  <2>1. /\ CoursesStay /\ course' \in [CourseIds -> CourseRow \cup {None}]
        /\ n \in CourseIds /\ course[n] = None
        /\ course'[n] # None /\ course'[n].courseType = "COMBO"
    BY <1>1, <1>3, Inserts
  <2>2. \A c \in req[s].connect : There(c) /\ course'[c] # None
    BY <1>1, <2>1 DEF Refers, There, CoursesStay
  <2>3. children' = children \cup ({n} \X req[s].connect)  BY <1>3
  <2> HIDE DEF n
  <2>4. \A p \in children' \ children :
          /\ p \in CourseIds \X CourseIds /\ course'[p[1]] # None /\ course'[p[2]] # None
          /\ course'[p[1]].courseType = "COMBO"
    BY <2>1, <2>2, <2>3 DEF There
  <2>5. ASSUME NEW c, NEW d, <<c, d>> \in children', There(c)
        PROVE  <<c, d>> \in children
    BY <2>1, <2>3, <2>5 DEF There
  <2>6. ASSUME updated = {}, NEW p \in CourseIds, NEW c \in CourseIds, NEW d \in CourseIds,
               <<p, c>> \in children', <<c, d>> \in children'
        PROVE  <<p, d>> \in children'
    <3>1. NestedInFull /\ Closed(s)  BY <2>6 DEF CatalogueInv
    <3>2. CASE <<p, c>> \in children
      <4>1. <<c, d>> \in children  BY <2>5, <2>6, <3>2, BelowThere
      <4>2. <<p, d>> \in children  BY <2>6, <3>1, <3>2, <4>1 DEF NestedInFull
      <4> QED  BY <2>3, <4>2
    <3>3. CASE p = n /\ c \in req[s].connect
      <4>1. <<c, d>> \in children  BY <2>2, <2>5, <2>6, <3>3
      <4> QED  BY <1>1, <2>3, <3>1, <3>3, <4>1 DEF Closed
    <3> QED  BY <2>3, <2>6, <3>2, <3>3
  <2>7. ASSUME updated = {}, NEW x \in Slots  PROVE Closed(x)'
    <3>1. CASE x = s  BY <1>1, <3>1, IdleSound
    <3>2. CASE x # s
      <4>1. req'[x] = req[x] /\ Closed(x) /\ Refers(x)
        BY <1>1, <2>7, <3>2 DEF OnlyMoves, CatalogueInv
      <4> QED  BY <2>5, <4>1 DEF Closed, Refers, At
    <3> QED  BY <3>1, <3>2
  <2>8. updated' = {} => NestedInFull' /\ \A x \in Slots : Closed(x)'
    BY <1>1, <2>6, <2>7 DEF NestedInFull
  <2>9. updated' \subseteq CourseIds  BY <1>1 DEF CatalogueInv, TypeOK
  <2> QED  BY <1>1, <2>1, <2>4, <2>8, <2>9, RelationMoves
<1> QED  BY <1>2, <1>3 DEF InsertCombo

LEMMA ReshapeStep ==
  ASSUME CatalogueInv, NEW s \in Slots, Reshape(s)
  PROVE  CatalogueInv'
<1> DEFINE c == req[s].course
<1>1. /\ Refers(s) /\ At(s, "reshape") /\ Finish(s)
      /\ UNCHANGED <<enrolment, active, coupon, edits>>
      /\ There(c) /\ IsCombo(c)
  BY DEF CatalogueInv, Reshape, ComboFrame, Refers, At
<1>2. CASE UNCHANGED <<course, children, updated>>
  BY <1>1, <1>2, FinishStep DEF CatalogueInv, TypeOK
<1>3. ASSUME LiveCourse(c), NEW terms \in Terms, course' = [course EXCEPT ![c].terms = terms],
             children' = (children \ Disconnected(s)) \cup Connected(s),
             updated' = updated \cup {c}
      PROVE  CatalogueInv'
  <2>1. CoursesStay /\ course' \in [CourseIds -> CourseRow \cup {None}]
    BY <1>1, <1>3, WithTerms DEF There
  <2>2. \A x \in req[s].connect \cup {c} : x \in CourseIds /\ course'[x] # None
    BY <1>1, <2>1 DEF Refers, There, CoursesStay
  <2>3. course'[c].courseType = "COMBO"
    BY <1>1, <2>1 DEF There, CoursesStay, IsCombo
  <2>4. \A p \in children' \ children :
          /\ p \in CourseIds \X CourseIds /\ course'[p[1]] # None /\ course'[p[2]] # None
          /\ course'[p[1]].courseType = "COMBO"
    BY <1>3, <2>2, <2>3 DEF Connected
  <2>5. updated' \subseteq CourseIds /\ updated' # {}
    BY <1>1, <1>3 DEF CatalogueInv, TypeOK, There
  <2> QED  BY <1>1, <2>1, <2>4, <2>5, RelationMoves
<1> QED  BY <1>2, <1>3 DEF Reshape

LEMMA OffersStep ==
  ASSUME CatalogueInv, StartOffers
  PROVE  CatalogueInv'
<1>1. /\ UNCHANGED <<course, children, enrolment, active, req, updated>>
      /\ edits' \in 0..MaxEdits
  BY BeginTyped
  DEF StartOffers, CreateCoupon, UpdateCoupon, DeleteCoupon, OfferFrame, CatalogueInv
<1>2. coupon' \in [CouponIds -> CouponRow \cup {None}]
  <2>1. coupon \in [CouponIds -> CouponRow \cup {None}]  BY DEF CatalogueInv, TypeOK
  <2>2. ASSUME NEW agent \in Staff, NEW offer \in Discounts, NEW usable \in BOOLEAN,
               CreateCoupon(agent, offer, usable)
        PROVE  coupon' \in [CouponIds -> CouponRow \cup {None}]
    BY <2>1, <2>2 DEF CreateCoupon, CouponRow
  <2>3. ASSUME NEW agent \in Staff, NEW k \in CouponIds, NEW offer \in Discounts,
               NEW usable \in BOOLEAN, UpdateCoupon(agent, k, offer, usable)
        PROVE  coupon' \in [CouponIds -> CouponRow \cup {None}]
    <3>1. coupon[k] \in CouponRow  BY <2>1, <2>3 DEF UpdateCoupon, Editable, LiveCoupon
    <3> QED  BY <2>1, <2>3, <3>1 DEF UpdateCoupon, CouponRow
  <2>4. ASSUME NEW agent \in Staff, NEW k \in CouponIds, DeleteCoupon(agent, k)
        PROVE  coupon' \in [CouponIds -> CouponRow \cup {None}]
    <3>1. coupon[k] \in CouponRow  BY <2>1, <2>4 DEF DeleteCoupon, Editable, LiveCoupon
    <3> QED  BY <2>1, <2>4, <3>1 DEF DeleteCoupon, CouponRow
  <2> QED  BY <2>2, <2>3, <2>4 DEF StartOffers
<1>3. TypeOK'  BY <1>1, <1>2 DEF CatalogueInv, TypeOK, IsCombo
<1>4. RowsUnique' /\ RowsPlaced' /\ \A x \in Slots : Spared(x)
  BY <1>1, SameCourses, RowsStay
<1>5. updated' = {} => NestedInFull' /\ \A x \in Slots : Closed(x)'
  BY <1>1, NestedStays
<1> QED  BY <1>1, <1>3, <1>4, <1>5, SameCourses, TablesMove

-----------------------------------------------------------------------------
(* The invariant is inductive *)

LEMMA AbortStep ==
  ASSUME CatalogueInv, NEW s \in Slots, Abort(s)
  PROVE  CatalogueInv'
BY FinishStep DEF Abort, CatalogueFrame, CatalogueInv, TypeOK

LEMMA CatalogueInit == Init => CatalogueInv
<1> SUFFICES ASSUME Init  PROVE CatalogueInv
  OBVIOUS
<1>1. \A s \in Slots : req[s] = IdleReq /\ req \in [Slots -> ReqRow]
  BY IdleTyped DEF Init
<1>2. course \in [CourseIds -> CourseRow \cup {None}]
  BY CatalogueAssumption DEF Init, CourseRow
<1>3. TypeOK
  BY <1>2, IdleTyped, CatalogueAssumption DEF Init, TypeOK
<1>4. RowsUnique /\ RowsPlaced
  BY DEF Init, RowsUnique, RowsPlaced, LiveRow
<1>5. ASSUME NEW s \in Slots  PROVE Refers(s) /\ Holds(s) /\ Closed(s)
  BY <1>1 DEF Refers, Holds, Closed, IdleReq, At, RosterPcs
<1>6. \A s, x \in Slots : Apart(s, x)
  BY <1>1 DEF Apart, IdleReq
<1>7. NestedInFull  BY DEF Init, NestedInFull
<1> QED  BY <1>3, <1>4, <1>5, <1>6, <1>7 DEF CatalogueInv

LEMMA CatalogueNext == ASSUME CatalogueInv, [Next]_vars PROVE CatalogueInv'
<1>1. CASE StartRoster
  BY <1>1, SyncCheckStep, UpdateEnrolmentStep, DeleteEnrolmentStep, BuyStep, SetActiveStep
  DEF StartRoster
<1>2. CASE StartCombos
  BY <1>2, SingleStep, CreateComboStep, UpdateComboStep DEF StartCombos
<1>3. CASE \E s \in Slots : Continue(s)
  BY <1>3, ReadRosterStep, ReadUsersStep, CreateStep, DropStep, CommitSyncStep, AbortStep,
     LockRowStep, WriteEnrolmentStep, InsertComboStep, ExpandStep, ReshapeStep
  DEF Continue, ContinueRoster, ContinueCombos
<1>4. CASE UNCHANGED vars
  <2>1. TypeOK'  BY <1>4 DEF vars, CatalogueInv, TypeOK, IsCombo
  <2>2. RowsUnique' /\ RowsPlaced' /\ \A x \in Slots : Spared(x)
    BY <1>4, SameCourses, RowsStay DEF vars
  <2>3. updated' = {} => NestedInFull' /\ \A x \in Slots : Closed(x)'
    BY <1>4, NestedStays DEF vars
  <2> QED  BY <1>4, <2>1, <2>2, <2>3, SameCourses, TablesMove DEF vars
<1> QED  BY <1>1, <1>2, <1>3, <1>4, OffersStep DEF Next, Quiescent

\* The inductive invariant: what open transactions have written is theirs and still as it
\* was, and no course has a student twice, whatever requests, purchases and blocked users
\* come between.
THEOREM CatalogueAlways == Spec => []CatalogueInv
<1>1. CatalogueInv /\ [Next]_vars => CatalogueInv'  BY CatalogueNext
<1> QED  BY <1>1, CatalogueInit, PTL DEF Spec

\* Rows and requests keep their types for any users, courses, requests and bounds.
THEOREM TypeCorrect == Spec => []TypeOK
<1>1. CatalogueInv => TypeOK  BY DEF CatalogueInv
<1> QED  BY <1>1, CatalogueAlways, PTL

\* Combos of combos are complete, as long as none is updated (course.repo.ts
\* createCourse).
THEOREM CombosComplete == Spec => []NestedInFull
<1>1. CatalogueInv => NestedInFull  BY DEF CatalogueInv, NestedInFull
<1> QED  BY <1>1, CatalogueAlways, PTL

-----------------------------------------------------------------------------
(* What a step may do to a roster *)

\* A request that begins is one that was idle.
LEMMA StartsOne ==
  ASSUME CatalogueInv, NEW x \in Slots, NEW agent \in Staff, NEW c \in CourseIds,
         \/ \E want \in RosterBodies : SyncCheck(x, agent, c, want)
         \/ \E i \in EnrolmentIds, u \in Users, status \in Statuses :
              UpdateEnrolment(x, agent, i, u, c, status)
         \/ \E ids \in ComboBodies : UpdateCombo(x, agent, c, ids)
  PROVE  At(x, "idle") /\ UNCHANGED enrolment /\ \A y \in Slots \ {x} : req'[y] = req[y]
<1>1. req \in [Slots -> ReqRow]  BY DEF CatalogueInv, TypeOK
<1>2. CASE \E want \in RosterBodies : SyncCheck(x, agent, c, want)
  BY <1>1, <1>2 DEF SyncCheck
<1>3. CASE \E i \in EnrolmentIds, u \in Users, status \in Statuses :
             UpdateEnrolment(x, agent, i, u, c, status)
  <2>1. PICK i \in EnrolmentIds, u \in Users, status \in Statuses :
               UpdateEnrolment(x, agent, i, u, c, status)
    BY <1>3
  <2>2. /\ At(x, "idle") /\ UNCHANGED enrolment
        /\ \E r : req' = [req EXCEPT ![x] = r]
    BY <2>1 DEF UpdateEnrolment
  <2> QED  BY <1>1, <2>2
<1>4. CASE \E ids \in ComboBodies : UpdateCombo(x, agent, c, ids)
  BY <1>1, <1>4 DEF UpdateCombo, ComboFrame
<1> QED  BY <1>2, <1>3, <1>4

\* A request that ends has ended by one of its own steps.
LEMMA WhoEnds ==
  ASSUME CatalogueInv, [Next]_vars, NEW s \in Slots, ~ At(s, "idle"), At(s, "idle")'
  PROVE  Continue(s)
<1>1. req \in [Slots -> ReqRow]  BY DEF CatalogueInv, TypeOK
<1>2. CASE StartRoster
  <2>1. ASSUME NEW x \in Slots, NEW agent \in Staff, NEW c \in CourseIds,
               \/ \E want \in RosterBodies : SyncCheck(x, agent, c, want)
               \/ \E i \in EnrolmentIds, u \in Users, status \in Statuses :
                    UpdateEnrolment(x, agent, i, u, c, status)
        PROVE  FALSE
    <3>1. x # s /\ req'[s] = req[s]
      BY <2>1, StartsOne
    <3> QED  BY <3>1 DEF At
  <2>2. UNCHANGED req => FALSE  BY DEF At
  <2> QED  BY <1>2, <2>1, <2>2 DEF StartRoster, DeleteEnrolment, Buy, SetActive
<1>3. CASE StartCombos
  <2>1. ASSUME NEW x \in Slots, NEW agent \in Staff, NEW ids \in ComboBodies,
               \/ CreateCombo(x, agent, ids)
               \/ \E c \in CourseIds : UpdateCombo(x, agent, c, ids)
        PROVE  FALSE
    <3>1. x # s /\ req'[s].pc = req[s].pc
      BY <1>1, <2>1 DEF CreateCombo, UpdateCombo, At
    <3> QED  BY <3>1 DEF At
  <2>2. UNCHANGED req => FALSE  BY DEF At
  <2> QED  BY <1>3, <2>1, <2>2
           DEF StartCombos, CreateSingle, UpdateSingle, DeleteCourse
<1>4. CASE StartOffers \/ Quiescent \/ UNCHANGED vars
  BY <1>4
  DEF StartOffers, CreateCoupon, UpdateCoupon, DeleteCoupon, OfferFrame, Quiescent, vars, At
<1>5. ASSUME NEW x \in Slots, Continue(x), x # s  PROVE FALSE
  <2>1. req'[s] = req[s]
    <3> USE <1>1, <1>5
    <3>1. ReadRoster(x) => req'[s] = req[s]  BY DEF ReadRoster
    <3>2. ReadUsers(x) => req'[s] = req[s]  BY DEF ReadUsers
    <3>3. (\E u \in Users : Create(x, u)) => req'[s] = req[s]  BY DEF Create, Finish
    <3>4. (\E e \in Inserted : Drop(x, e)) => req'[s] = req[s]  BY DEF Drop, Finish
    <3>5. CommitSync(x) \/ Abort(x) \/ LockRow(x) \/ WriteEnrolment(x) => req'[s] = req[s]
      BY DEF CommitSync, Abort, LockRow, WriteEnrolment, Finish
    <3>6. InsertCombo(x) \/ Reshape(x) => req'[s] = req[s]  BY DEF InsertCombo, Reshape, Finish
    <3>7. Expand(x) => req'[s] = req[s]  BY DEF Expand, Finish
    <3> QED  BY <3>1, <3>2, <3>3, <3>4, <3>5, <3>6, <3>7
             DEF Continue, ContinueRoster, ContinueCombos
  <2> QED  BY <2>1 DEF At
<1> QED  BY <1>2, <1>3, <1>4, <1>5 DEF Next

\* Of the steps that end a request two write enrolments.
LEMMA WhoWrites ==
  ASSUME CatalogueInv, [Next]_vars, NEW s \in Slots, ~ At(s, "idle"), At(s, "idle")',
         enrolment' # enrolment
  PROVE  CommitSync(s) \/ WriteEnrolment(s)
BY WhoEnds
DEF Continue, ContinueRoster, ContinueCombos, ReadRoster, ReadUsers, Create, Drop, Abort,
    LockRow, InsertCombo, Expand, Reshape, ComboFrame

SpareStep ==
  \A s \in Slots : Commits(s) =>
    \A c \in CourseIds :
      LET lost == Students(c) \ Students(c)'
          gained == Students(c)' \ Students(c)
      IN /\ c # req[s].course => lost = {} /\ gained = {}
         /\ lost \subseteq SeenUsers(s) \ req[s].want
         /\ gained \subseteq req[s].want

LEMMA SparesAll == ASSUME CatalogueInv, [Next]_vars PROVE SpareStep
<1> SUFFICES ASSUME NEW s \in Slots, Commits(s), NEW c \in CourseIds
             PROVE  /\ c # req[s].course =>
                         /\ Students(c) \ Students(c)' = {}
                         /\ Students(c)' \ Students(c) = {}
                    /\ Students(c) \ Students(c)' \subseteq SeenUsers(s) \ req[s].want
                    /\ Students(c)' \ Students(c) \subseteq req[s].want
  BY DEF SpareStep
<1>1. CommitSync(s)
  BY WhoWrites DEF Commits, At, WriteEnrolment
<1>2. Outcome(s) /\ Holds(s) /\ Refers(s) /\ At(s, "sync")
  BY <1>1, Committed DEF CatalogueInv, CommitSync
<1>3. ASSUME NEW u \in Students(c), u \notin Students(c)'
      PROVE  c = req[s].course /\ u \in SeenUsers(s) \ req[s].want
  <2>1. PICK i \in EnrolmentIds : LiveRow(i) /\ enrolment[i].course = c /\ enrolment[i].user = u
    BY <1>3 DEF Students, Roster
  <2>2. i \in req[s].held
    <3>1. ~ (LiveRow(i)' /\ enrolment'[i] = enrolment[i])
      BY <1>3, <2>1 DEF Students, Roster
    <3>2. ~ \E e \in req[s].added : e.id = i
      BY <1>2, <2>1 DEF Outcome, LiveRow
    <3> QED  BY <1>2, <2>1, <3>1, <3>2 DEF Outcome
  <2>3. PICK e \in ToDrop(s) : e.id = i /\ AsRead(s, e)  BY <1>2, <2>2 DEF Holds
  <2>4. e.user = u /\ c = req[s].course  BY <2>1, <2>3 DEF AsRead
  <2> QED  BY <2>3, <2>4 DEF ToDrop, SeenUsers
<1>4. ASSUME NEW u \in Students(c)', u \notin Students(c)
      PROVE  c = req[s].course /\ u \in req[s].want
  <2>1. PICK i \in EnrolmentIds : LiveRow(i)' /\ enrolment'[i].course = c /\ enrolment'[i].user = u
    BY <1>4 DEF Students, Roster
  <2>2. ~ (LiveRow(i) /\ enrolment'[i] = enrolment[i])
    BY <1>4, <2>1 DEF Students, Roster
  <2>3. PICK e \in req[s].added : e.id = i
    BY <1>2, <2>1, <2>2 DEF Outcome
  <2>4. e.user = u /\ c = req[s].course  BY <1>2, <2>1, <2>3 DEF Outcome
  <2>5. e.user \in req[s].want  BY <1>2, <2>3 DEF Holds, ToAdd, Refers
  <2> QED  BY <2>4, <2>5
<1> QED  BY <1>3, <1>4

\* A synchronisation takes off the roster only whom it has seen there and was not asked to
\* keep, and puts on it only whom it was asked to (student.repo.ts createCourseEnrollment).
THEOREM UnseenSpared == Spec => SyncSparesTheUnseen
<1>1. CatalogueInv /\ [Next]_vars => SpareStep  BY SparesAll
<1> QED  BY <1>1, CatalogueAlways, PTL DEF Spec, SyncSparesTheUnseen, SpareStep

RosterStep ==
  \A s \in Slots, c \in CourseIds :
    /\ At(s, "sync") /\ req[s].course = c /\ Written(s) /\ ReadsHold(s)
    /\ At(s, "idle")'
    => Students(c)' \cap active = req[s].want \cap active

LEMMA GivesRoster == ASSUME CatalogueInv, [Next]_vars PROVE RosterStep
<1> SUFFICES ASSUME NEW s \in Slots, NEW c \in CourseIds, At(s, "sync"), req[s].course = c,
                    Written(s), ReadsHold(s), At(s, "idle")'
             PROVE  Students(c)' \cap active = req[s].want \cap active
  BY DEF RosterStep
<1>0. Continue(s)  BY WhoEnds DEF At
<1>1. CommitSync(s)
  <2>1. ~ Abort(s)
    <3>1. ASSUME NEW x \in Slots, WaitsFor(s, x)  PROVE FALSE
      <4>1. \A e \in ToDrop(s) : e.id \in req[s].held  BY DEF Written
      <4>2. req[s].held \cap req[x].held = {}
        BY <3>1 DEF WaitsFor, CatalogueInv, Apart
      <4> QED  BY <3>1, <4>1, <4>2 DEF WaitsFor, Written, At
    <3> QED  BY <3>1 DEF Abort, Aborted
  <2>2. ~ \E u \in Users : Create(s, u)
    BY DEF Create, Written
  <2>3. ~ \E e \in Inserted : Drop(s, e)
    BY DEF Drop, Written
  <2> QED  BY <1>0, <2>1, <2>2, <2>3
           DEF Continue, ContinueRoster, ContinueCombos, ReadRoster, ReadUsers,
               LockRow, WriteEnrolment, InsertCombo, Expand, Reshape, At
<1>2. Outcome(s) /\ Holds(s) /\ Refers(s) /\ At(s, "sync")
  BY <1>1, Committed DEF CatalogueInv, CommitSync
<1>3. ASSUME NEW u \in Students(c)' \cap active  PROVE u \in req[s].want
  <2>1. PICK i \in EnrolmentIds : LiveRow(i)' /\ enrolment'[i].course = c /\ enrolment'[i].user = u
    BY DEF Students, Roster
  <2>2. CASE LiveRow(i) /\ enrolment'[i] = enrolment[i]
    <3>1. u \in Students(c)  BY <2>1, <2>2 DEF Students, Roster
    <3>2. PICK e \in req[s].seen : e.user = u  BY <3>1 DEF ReadsHold, SeenUsers
    <3>3. CASE u \notin req[s].want
      <4>1. e.id \in req[s].held  BY <3>2, <3>3 DEF Written, ToDrop
      <4>2. PICK f \in ToDrop(s) : f.id = e.id /\ AsRead(s, f)  BY <1>2, <4>1 DEF Holds
      <4>3. LiveRow(e.id) /\ enrolment[e.id].course = c /\ ~ LiveRow(e.id)'
        BY <1>2, <4>1 DEF Outcome
      <4>4. enrolment[e.id].user = u
        <5>1. e = f  BY <1>2, <3>2, <4>2 DEF Refers, ToDrop
        <5> QED  BY <3>2, <4>2, <5>1 DEF AsRead
      <4> QED  BY <2>1, <2>2, <4>3, <4>4 DEF CatalogueInv, RowsUnique, LiveRow
    <3> QED  BY <3>3
  <2>3. CASE \E e \in req[s].added : e.id = i
    <3>1. PICK e \in req[s].added : e.id = i  BY <2>3
    <3>2. e.user = u  BY <1>2, <2>1, <3>1 DEF Outcome
    <3> QED  BY <1>2, <3>1, <3>2 DEF Holds, ToAdd, Refers
  <2> QED  BY <1>2, <2>1, <2>2, <2>3 DEF Outcome
<1>4. ASSUME NEW u \in req[s].want \cap active  PROVE u \in Students(c)'
  <2>1. CASE u \in SeenUsers(s)
    <3>1. PICK i \in EnrolmentIds : LiveRow(i) /\ enrolment[i].course = c /\ enrolment[i].user = u
      BY <2>1 DEF ReadsHold, Students, Roster
    <3>2. i \notin req[s].held
      <4>1. ASSUME i \in req[s].held  PROVE FALSE
        <5>1. PICK e \in ToDrop(s) : e.id = i /\ AsRead(s, e)  BY <1>2, <4>1 DEF Holds
        <5>2. e.user = u  BY <3>1, <5>1 DEF AsRead
        <5> QED  BY <1>4, <5>1, <5>2 DEF ToDrop
      <4> QED  BY <4>1
    <3>3. ~ \E e \in req[s].added : e.id = i
      BY <1>2, <3>1 DEF Outcome, LiveRow
    <3>4. LiveRow(i)' /\ enrolment'[i] = enrolment[i]
      BY <1>2, <3>1, <3>2, <3>3 DEF Outcome
    <3> QED  BY <3>1, <3>4 DEF Students, Roster
  <2>2. CASE u \notin SeenUsers(s)
    <3>1. u \in AddedUsers(s)  BY <2>2 DEF ReadsHold, Written, ToAdd
    <3>2. PICK e \in req[s].added : e.user = u  BY <3>1 DEF AddedUsers
    <3> QED  BY <1>2, <3>2 DEF Outcome, Students, Roster
  <2> QED  BY <2>1, <2>2
<1> QED  BY <1>3, <1>4

\* If what it has read still holds, a synchronisation leaves the roster that was asked for.
THEOREM RosterAsAsked == Spec => SyncGivesTheRoster
<1>1. CatalogueInv /\ [Next]_vars => RosterStep  BY GivesRoster
<1> QED  BY <1>1, CatalogueAlways, PTL DEF Spec, SyncGivesTheRoster, RosterStep

EditStep ==
  \A s \in Slots, i \in EnrolmentIds :
    /\ ~ At(s, "idle") /\ At(s, "idle")' /\ LiveRow(i)
    /\ enrolment'[i] # enrolment[i]
    => \/ Owns(req[s].agent, enrolment[i].course)
       \/ At(s, "entry") /\ req[s].from # enrolment[i].course

LEMMA EditsOwn == ASSUME CatalogueInv, [Next]_vars PROVE EditStep
<1> SUFFICES ASSUME NEW s \in Slots, NEW i \in EnrolmentIds, ~ At(s, "idle"), At(s, "idle")',
                    LiveRow(i), enrolment'[i] # enrolment[i]
             PROVE  \/ Owns(req[s].agent, enrolment[i].course)
                    \/ At(s, "entry") /\ req[s].from # enrolment[i].course
  BY DEF EditStep
<1>1. Refers(s) /\ Holds(s)  BY DEF CatalogueInv
<1>2. CASE CommitSync(s)
  <2>1. Outcome(s) /\ At(s, "sync")  BY <1>2, Committed DEF CommitSync
  <2>2. i \in req[s].held  BY <2>1 DEF Outcome, LiveRow
  <2>3. enrolment[i].course = req[s].course  BY <2>1, <2>2 DEF Outcome
  <2> QED  BY <1>1, <2>1, <2>3 DEF Refers, At, RosterPcs
<1>3. CASE WriteEnrolment(s)
  <2>1. At(s, "entry")  BY <1>3 DEF WriteEnrolment
  <2> QED  BY <1>1, <2>1 DEF Refers, At
<1> QED  BY <1>2, <1>3, WhoWrites

\* A request changes a row of another's course only if the row has got there since it
\* looked (student.repo.ts updateCourseEnrollment).
THEOREM OwnersEdit == Spec => OwnersEditTheirs
<1>1. CatalogueInv /\ [Next]_vars => EditStep  BY EditsOwn
<1> QED  BY <1>1, CatalogueAlways, PTL DEF Spec, OwnersEditTheirs, EditStep

-----------------------------------------------------------------------------
(* Lists *)

LEMMA ListsHold == ASSUME TypeOK PROVE ListedIsEditable
<1> SUFFICES ASSUME NEW agent \in Staff
    PROVE  /\ ManagedCourses(agent, NoFilter) = {c \in CourseIds : ManagedDetail(agent, c)}
           /\ \A owner \in Staff, c \in CourseIds :
                c \in ManagedCourses(agent, [NoFilter EXCEPT !.owner = owner])
                  => Owns(agent, c)
                     /\ course[c].owner = IF agent \in Admins THEN owner ELSE agent
           /\ ManagedRows(agent, AllRows) = {i \in EnrolmentIds : RowDetail(agent, i)}
           /\ \A c \in CourseIds \ FreeCourses :
                ManagedRows(agent, [AllRows EXCEPT !.course = c]) =
                  IF Owns(agent, c) THEN Roster(c) ELSE {}
           /\ \A i \in EnrolmentIds, c \in CourseIds :
                Movable(agent, i, c) <=>
                  i \in ManagedRows(agent, AllRows) /\ c \in ManagedCourses(agent, NoFilter)
           /\ ManagedCoupons(agent) = {k \in CouponIds : CouponDetail(agent, k)}
           /\ ManagedCoupons(agent) = {k \in CouponIds : Editable(agent, k)}
  BY DEF ListedIsEditable
<1>1. ManagedCourses(agent, NoFilter) = {c \in CourseIds : ManagedDetail(agent, c)}
  BY DEF ManagedCourses, NoFilter, OfOwner, InPriceRange, ManagedDetail, Owns, CourseIds
<1>2. ASSUME NEW owner \in Staff, NEW c \in CourseIds,
             c \in ManagedCourses(agent, [NoFilter EXCEPT !.owner = owner])
      PROVE  Owns(agent, c) /\ course[c].owner = IF agent \in Admins THEN owner ELSE agent
  BY <1>2, NoneAssumption DEF ManagedCourses, NoFilter, OfOwner, Owns
<1>3. ManagedRows(agent, AllRows) = {i \in EnrolmentIds : RowDetail(agent, i)}
  BY DEF ManagedRows, AllRows, RowFilter, RowDetail
<1>4. ASSUME NEW c \in CourseIds
      PROVE  ManagedRows(agent, [AllRows EXCEPT !.course = c]) =
               IF Owns(agent, c) THEN Roster(c) ELSE {}
  <2>1. c # 0  BY DEF CourseIds
  <2> QED  BY <2>1 DEF ManagedRows, AllRows, RowFilter, Roster
<1>5. ASSUME NEW i \in EnrolmentIds, NEW c \in CourseIds
      PROVE  Movable(agent, i, c) <=>
               i \in ManagedRows(agent, AllRows) /\ c \in ManagedCourses(agent, NoFilter)
  BY <1>1, <1>3 DEF Movable, Syncable, RowDetail, ManagedDetail
<1>6. ManagedCoupons(agent) = {k \in CouponIds : CouponDetail(agent, k)}
  BY DEF ManagedCoupons, CouponDetail
<1>7. ManagedCoupons(agent) = {k \in CouponIds : Editable(agent, k)}
  BY DEF ManagedCoupons, Editable, LiveCoupon
<1> QED  BY <1>1, <1>2, <1>3, <1>4, <1>5, <1>6, <1>7

\* Lists, details and edits ask the same of an agent.
THEOREM ListsEditable == Spec => []ListedIsEditable
<1>1. CatalogueInv => ListedIsEditable  BY ListsHold DEF CatalogueInv
<1> QED  BY <1>1, CatalogueAlways, PTL

-----------------------------------------------------------------------------
(* Pages *)

\* Ranks number a finite set of ids.
LEMMA RankOnto ==
  ASSUME NEW S, S \subseteq Nat, IsFiniteSet(S)
  PROVE  /\ \A i \in S : Rank(i, S) \in 1..Cardinality(S)
         /\ \A i, j \in S : Rank(i, S) = Rank(j, S) => i = j
         /\ \A n \in 1..Cardinality(S) : \E i \in S : Rank(i, S) = n
<1> DEFINE Upto(i) == {j \in S : j <= i}
<1>1. \A i \in S : IsFiniteSet(Upto(i)) /\ Cardinality(Upto(i)) <= Cardinality(S)
  <2>1. \A i \in S : Upto(i) \in SUBSET S  OBVIOUS
  <2> QED  BY <2>1, FS_Subset
<1>2. \A i \in S : Cardinality(Upto(i)) \in Nat /\ Cardinality(Upto(i)) # 0
  <2>1. \A i \in S : i \in Upto(i)  OBVIOUS
  <2> HIDE DEF Upto
  <2> QED  BY <1>1, <2>1, FS_CardinalityType, FS_EmptySet
<1>3. ASSUME NEW i \in S, NEW j \in S, i < j
      PROVE  Cardinality(Upto(i)) # Cardinality(Upto(j))
  <2>1. \A x \in S : x <= i => x <= j  BY <1>3
  <2>2. Upto(i) \in SUBSET Upto(j)  BY <2>1
  <2>3. j \in Upto(j) /\ j \notin Upto(i)  BY <1>3
  <2> HIDE DEF Upto
  <2> QED  BY <1>1, <2>2, <2>3, FS_Subset
<1>4. Cardinality(S) \in Nat  BY FS_CardinalityType
<1>5. \A i \in S : Rank(i, S) \in 1..Cardinality(S)
  <2>1. \A i \in S : Rank(i, S) = Cardinality(Upto(i))  BY DEF Rank
  <2> HIDE DEF Upto
  <2> QED  BY <1>1, <1>2, <1>4, <2>1
<1>6. \A i, j \in S : Rank(i, S) = Rank(j, S) => i = j
  <2>1. \A i \in S : Rank(i, S) = Cardinality(Upto(i))  BY DEF Rank
  <2> HIDE DEF Upto
  <2>2. \A i, j \in S : i < j \/ j < i \/ i = j  OBVIOUS
  <2> QED  BY <1>3, <2>1, <2>2
<1> DEFINE f == [i \in S |-> Rank(i, S)]
<1>7. f \in Injection(S, 1..Cardinality(S))  BY <1>5, <1>6 DEF Injection, IsInjective
<1>8. IsFiniteSet(1..Cardinality(S)) /\ Cardinality(1..Cardinality(S)) = Cardinality(S)
  BY <1>4, FS_Interval
<1>9. f \in Surjection(S, 1..Cardinality(S))
  <2> HIDE DEF f
  <2> QED  BY <1>7, <1>8, FS_Injection
<1>10. \A n \in 1..Cardinality(S) : \E i \in S : Rank(i, S) = n
  BY <1>9 DEF Surjection
<1> QED  BY <1>5, <1>6, <1>10

\* Division by any divisor.
LEMMA DivideNat ==
  ASSUME NEW a \in Nat, NEW b \in Nat \ {0}
  PROVE  \E q \in Nat : q * b <= a /\ a < q * b + b /\ a \div b = q
<1> DEFINE N == {n \in Nat : a < n * b + b}
<1>1. a \in N
  <2>1. a * b >= a  OBVIOUS
  <2> QED  BY <2>1
<1>2. PICK q \in N : \A n \in N : q <= n  BY <1>1, LeastNumber
<1>3. q * b <= a
  <2>1. CASE q = 0  BY <2>1
  <2>2. CASE q # 0
    <3>1. q - 1 \in Nat /\ q - 1 \notin N  BY <1>2, <2>2
    <3>2. (q - 1) * b + b = q * b  OBVIOUS
    <3>3. q * b \in Int /\ (q - 1) * b \in Int  BY <1>2
    <3> QED  BY <3>1, <3>2, <3>3
  <2> QED  BY <2>1, <2>2
<1>4. q \in Nat /\ q * b \in Int /\ a < q * b + b  BY <1>2
<1> DEFINE r == a - q * b
<1>5. r \in Int /\ 0 <= r /\ r < b /\ a = q * b + r  BY <1>3, <1>4
<1> HIDE DEF r
<1>6. a \div b = q  BY <1>4, <1>5
<1> QED  BY <1>3, <1>4, <1>6


\* ... and quotients are unique.
LEMMA SameQuotient ==
  ASSUME NEW x \in Int, NEW y \in Int, NEW b \in Nat \ {0},
         NEW j \in 1..b, NEW k \in 1..b, x * b + j = y * b + k
  PROVE  x = y
<1>1. x * b \in Int /\ y * b \in Int  OBVIOUS
<1>2. ASSUME x < y  PROVE FALSE
  <2>1. (x + 1) * b <= y * b /\ (x + 1) * b = x * b + b  BY <1>2
  <2> QED  BY <1>1, <2>1
<1>3. ASSUME y < x  PROVE FALSE
  <2>1. (y + 1) * b <= x * b /\ (y + 1) * b = y * b + b  BY <1>3
  <2> QED  BY <1>1, <2>1
<1> QED  BY <1>2, <1>3

\* What is on a page, past the last one too.
Shows(list, page, limit, k) ==
  LET n == (page - 1) * limit + k
  IN  /\ n \in Nat \ {0}
      /\ k \in DOMAIN Page(list, page, limit) <=> n <= Len(list)
      /\ n <= Len(list) => Page(list, page, limit)[k] = list[n]

LEMMA OnPage ==
  ASSUME NEW list \in Seq(Nat), NEW page \in Nat \ {0}, NEW limit \in Nat \ {0},
         NEW k \in 1..limit
  PROVE  Shows(list, page, limit, k)
<1> DEFINE skip == (page - 1) * limit  last == Lesser(skip + limit, Len(list))
<1>1. skip \in Nat /\ page * limit = skip + limit  OBVIOUS
<1>2. Page(list, page, limit) = SubSeq(list, skip + 1, last)  BY <1>1 DEF Page
<1>3. Len(list) \in Nat  OBVIOUS
<1> HIDE DEF skip
<1>4. last \in Nat /\ last <= Len(list)  BY <1>1, <1>3 DEF Lesser
<1>5. k <= last - skip <=> skip + k <= Len(list)  BY <1>1, <1>3 DEF Lesser
<1>6. k \in 1..(last - skip) <=> skip + k <= Len(list)  BY <1>1, <1>4, <1>5
<1> HIDE DEF last
<1>7. k \in DOMAIN SubSeq(list, skip + 1, last) <=> k \in 1..(last - skip)
  BY <1>1, <1>4
<1>8. k \in 1..(last - skip) => SubSeq(list, skip + 1, last)[k] = list[skip + k]
  BY <1>1, <1>4
<1>9. skip + k \in Nat \ {0}  BY <1>1
<1> HIDE DEF Page
<1>10. /\ k \in DOMAIN Page(list, page, limit) <=> skip + k <= Len(list)
       /\ skip + k <= Len(list) => Page(list, page, limit)[k] = list[skip + k]
  BY <1>2, <1>6, <1>7, <1>8, Zenon
<1> QED  BY <1>9, <1>10 DEF skip, Shows

\* The n-th item is on one page, in one place.
LEMMA OnePlace ==
  ASSUME NEW limit \in Nat \ {0}, NEW n \in Nat \ {0}
  PROVE  /\ \E p \in Nat \ {0}, k \in 1..limit : (p - 1) * limit + k = n
         /\ \A p, q \in Nat \ {0}, j, k \in 1..limit :
              (p - 1) * limit + j = (q - 1) * limit + k => p = q /\ j = k
<1>1. \E p \in Nat \ {0}, k \in 1..limit : (p - 1) * limit + k = n
  <2>1. PICK q \in Nat : q * limit <= n - 1 /\ n - 1 < q * limit + limit
    <3>1. n - 1 \in Nat  OBVIOUS
    <3> QED  BY <3>1, DivideNat
  <2> DEFINE k == n - q * limit
  <2>2. q * limit \in Int  OBVIOUS
  <2>3. k \in 1..limit /\ q * limit + k = n  BY <2>1, <2>2
  <2>4. (q + 1) - 1 = q /\ q + 1 \in Nat \ {0}  OBVIOUS
  <2> QED  BY <2>3, <2>4
<1>2. ASSUME NEW p \in Nat \ {0}, NEW q \in Nat \ {0}, NEW j \in 1..limit, NEW k \in 1..limit,
             (p - 1) * limit + j = (q - 1) * limit + k
      PROVE  p = q /\ j = k
  <2>1. (p - 1) * limit \in Int /\ (q - 1) * limit \in Int  OBVIOUS
  <2>2. p - 1 = q - 1  BY <1>2, SameQuotient
  <2> QED  BY <1>2, <2>1, <2>2
<1> QED  BY <1>1, <1>2

LEMMA PagesNumber ==
  ASSUME NEW limit \in Nat \ {0}, NEW total \in Nat
  PROVE  TotalPages(total, limit) \in Nat
<1>1. total + limit - 1 \in Nat  OBVIOUS
<1> QED  BY <1>1, DivideNat DEF TotalPages

\* It is on an announced page, as soon as there are as many items as are counted.
LEMMA PageAnnounced ==
  ASSUME NEW limit \in Nat \ {0}, NEW p \in Nat \ {0}, NEW k \in 1..limit, NEW total \in Nat,
         (p - 1) * limit + k <= total
  PROVE  p \in 1..TotalPages(total, limit)
<1>1. PICK q \in Nat : /\ total + limit - 1 < q * limit + limit
                       /\ TotalPages(total, limit) = q
  BY DivideNat DEF TotalPages
<1>2. (p - 1) * limit \in Int /\ q * limit \in Int  OBVIOUS
<1>3. (p - 1) * limit + 1 <= q * limit + 0  BY <1>1, <1>2
<1>4. p - 1 < q
  <2> SUFFICES ASSUME q <= p - 1  PROVE FALSE  OBVIOUS
  <2>1. q * limit <= (p - 1) * limit  OBVIOUS
  <2> QED  BY <1>2, <1>3, <2>1
<1> QED  BY <1>1, <1>4

-----------------------------------------------------------------------------
(* The list of bought courses *)

LEMMA RowsFinite ==
  ASSUME NEW u, NEW q
  PROVE  /\ IsFiniteSet(BoughtRows(u, q)) /\ Cardinality(BoughtRows(u, q)) \in Nat
<1>1. IsFiniteSet(EnrolmentIds)
  <2>1. 1 \in Int /\ MaxEnrolments \in Int  BY CatalogueAssumption
  <2> QED  BY <2>1, FS_Interval DEF EnrolmentIds
<1>2. BoughtRows(u, q) \in SUBSET EnrolmentIds  BY DEF BoughtRows
<1> QED  BY <1>1, <1>2, FS_Subset, FS_CardinalityType

\* What a live enrolment of the customer's is in.
Enters(u, c) == Published(c) /\ u \in Students(c)

\* Which opens, or he is blocked there.
LEMMA EntersOrBlocked ==
  ASSUME CatalogueInv, NEW u \in Users, NEW c \in CourseIds
  PROVE  Enters(u, c) <=> CanAccessCourse(u, c) \/ Blocked(u, c)
<1>1. \A i \in Roster(c) : enrolment[i].status \in {"ACTIVE", "BLOCKED"}
  BY RowTyped DEF Roster, LiveRow, EnrolmentRow, Statuses
<1> QED  BY <1>1 DEF Enters, CanAccessCourse, Blocked, Students

\* Every course the customer is enrolled in, of the price asked for, is listed once.
LEMMA BoughtListed ==
  ASSUME CatalogueInv, NEW u \in Users, NEW q \in CourseQueries
  PROVE  LET list == Bought(u, q)
         IN  /\ list \in Seq(Nat)
             /\ \A m, n \in 1..Len(list) : list[m] = list[n] => m = n
             /\ \A c \in CourseIds :
                  (\E n \in 1..Len(list) : list[n] = c) <=>
                    Enters(u, c) /\ InPriceRange(c, q)
             /\ Len(list) = Cardinality(BoughtRows(u, q))
<1> DEFINE rows == BoughtRows(u, q)
           row(n) == CHOOSE i \in rows : Rank(i, rows) = n
           list == [n \in 1..Cardinality(rows) |-> enrolment[row(n)].course]
<1>1. rows \subseteq EnrolmentIds /\ rows \subseteq Nat
  BY DEF BoughtRows, EnrolmentIds
<1>2. IsFiniteSet(rows) /\ Cardinality(rows) \in Nat  BY RowsFinite
<1>3. \A n \in 1..Cardinality(rows) : row(n) \in rows /\ Rank(row(n), rows) = n
  BY <1>1, <1>2, RankOnto
<1>4. \A i \in rows : Rank(i, rows) \in 1..Cardinality(rows)
                     /\ row(Rank(i, rows)) = i
  BY <1>1, <1>2, <1>3, RankOnto
<1>5. \A i \in rows : /\ LiveRow(i) /\ enrolment[i].user = u
                      /\ enrolment[i].course \in CourseIds
  BY DEF BoughtRows, Published, LiveCourse
<1>6. \A i, j \in rows : enrolment[i].course = enrolment[j].course => i = j
  BY <1>1, <1>5 DEF CatalogueInv, RowsUnique
<1>7. Bought(u, q) = list  BY DEF Bought
<1>8. \A c \in CourseIds : (\E i \in rows : enrolment[i].course = c) <=>
                            Enters(u, c) /\ InPriceRange(c, q)
  BY DEF BoughtRows, Enters, Students, Roster
<1> HIDE DEF rows, row
<1>9. \A n \in 1..Cardinality(rows) : list[n] = enrolment[row(n)].course  OBVIOUS
<1>10. list \in Seq(Nat) /\ Len(list) = Cardinality(rows)
  <2>1. \A n \in 1..Cardinality(rows) : enrolment[row(n)].course \in Nat
    BY <1>3, <1>5 DEF CourseIds
  <2> QED  BY <1>2, <2>1
<1> HIDE DEF list
<1>11. \A m, n \in 1..Cardinality(rows) : list[m] = list[n] => m = n
  BY <1>3, <1>6, <1>9
<1>12. \A c \in CourseIds : (\E n \in 1..Cardinality(rows) : list[n] = c) <=>
                             \E i \in rows : enrolment[i].course = c
  BY <1>3, <1>4, <1>9
<1> QED  BY <1>7, <1>8, <1>10, <1>11, <1>12 DEF rows

\* The total counts at least what is listed.
LEMMA CountedListed ==
  ASSUME CatalogueInv, NEW u \in Users, NEW q \in CourseQueries, q.skipCourseId = 0
  PROVE  /\ Cardinality(BoughtCounted(u, q)) \in Nat
         /\ Cardinality(BoughtRows(u, q)) <= Cardinality(BoughtCounted(u, q))
<1> DEFINE rows == BoughtRows(u, q)  counted == BoughtCounted(u, q)
           f == [i \in rows |-> enrolment[i].course]
<1>1. IsFiniteSet(counted) /\ Cardinality(counted) \in Nat
  <2>1. IsFiniteSet(CourseIds)
    <3>1. 1 \in Int /\ MaxCourses \in Int  BY CatalogueAssumption
    <3> QED  BY <3>1, FS_Interval DEF CourseIds
  <2>2. counted \in SUBSET CourseIds  BY DEF BoughtCounted, PublicCourses
  <2> QED  BY <2>1, <2>2, FS_Subset, FS_CardinalityType
<1>2. \A i \in rows : enrolment[i].course \in counted
  BY DEF BoughtRows, BoughtCounted, PublicCourses, Published, LiveCourse, LiveRow, CourseIds
<1>3. \A i, j \in rows : enrolment[i].course = enrolment[j].course => i = j
  BY DEF CatalogueInv, RowsUnique, BoughtRows
<1> HIDE DEF rows, counted
<1>4. f \in Injection(rows, counted)  BY <1>2, <1>3 DEF Injection, IsInjective
<1> HIDE DEF f
<1>5. Cardinality(rows) <= Cardinality(counted)  BY <1>1, <1>4, FS_Injection
<1> QED  BY <1>1, <1>5 DEF rows, counted

LEMMA BoughtFound ==
  ASSUME CatalogueInv, NEW u \in Users, NEW q \in CourseQueries, q.skipCourseId = 0,
         NEW limit \in Nat \ {0}
  PROVE  FoundOnce(u, q, limit)
<1> DEFINE list == Bought(u, q)  total == Cardinality(BoughtCounted(u, q))
           last == TotalPages(total, limit)
<1> SUFFICES ASSUME NEW c \in CourseIds
             PROVE  Cardinality(Places(list, last, limit, c)) =
                      IF Enters(u, c) /\ InPriceRange(c, q) THEN 1 ELSE 0
  BY EntersOrBlocked DEF FoundOnce
<1>1. /\ list \in Seq(Nat) /\ Len(list) \in Nat
      /\ \A m, n \in 1..Len(list) : list[m] = list[n] => m = n
      /\ (\E n \in 1..Len(list) : list[n] = c) <=>
           Enters(u, c) /\ InPriceRange(c, q)
  BY BoughtListed
<1>2. total \in Nat /\ Len(list) <= total  BY BoughtListed, CountedListed
<1>3. \A x \in (1..last) \X (1..limit) :
        LET n == (x[1] - 1) * limit + x[2]
        IN  x \in Places(list, last, limit, c) <=> n \in 1..Len(list) /\ list[n] = c
  <2> SUFFICES ASSUME NEW p \in 1..last, NEW k \in 1..limit
               PROVE  <<p, k>> \in Places(list, last, limit, c) <=>
                        /\ (p - 1) * limit + k \in 1..Len(list)
                        /\ list[(p - 1) * limit + k] = c
    OBVIOUS
  <2> DEFINE n == (p - 1) * limit + k
  <2>1. <<p, k>> \in Places(list, last, limit, c) <=>
          k \in DOMAIN Page(list, p, limit) /\ Page(list, p, limit)[k] = c
    BY Zenon DEF Places
  <2>2. p \in Nat \ {0}  BY <1>2, PagesNumber
  <2>3. /\ n \in Nat \ {0}
        /\ k \in DOMAIN Page(list, p, limit) <=> n <= Len(list)
        /\ n <= Len(list) => Page(list, p, limit)[k] = list[n]
    <3> HIDE DEF list
    <3>1. list \in Seq(Nat) /\ limit \in Nat \ {0} /\ k \in 1..limit  BY <1>1
    <3>2. Shows(list, p, limit, k)  BY <2>2, <3>1, OnPage, Zenon
    <3> QED  BY <3>2, Zenon DEF n, Shows
  <2> HIDE DEF n, list
  <2>4. n \in 1..Len(list) <=> n <= Len(list)  BY <1>1, <2>3
  <2> QED  BY <2>1, <2>3, <2>4 DEF n
<1>4. Places(list, last, limit, c) \subseteq (1..last) \X (1..limit)  BY DEF Places
<1>5. ASSUME NEW x \in Places(list, last, limit, c), NEW y \in Places(list, last, limit, c)
      PROVE  x = y
  <2>1. PICK p \in 1..last, k \in 1..limit : x = <<p, k>>  BY <1>4
  <2>2. PICK r \in 1..last, j \in 1..limit : y = <<r, j>>  BY <1>4
  <2> DEFINE m == (p - 1) * limit + k  n == (r - 1) * limit + j
  <2>3. m \in 1..Len(list) /\ list[m] = c  BY <1>3, <2>1
  <2>4. n \in 1..Len(list) /\ list[n] = c  BY <1>3, <2>2
  <2>5. m = n  BY <1>1, <2>3, <2>4
  <2>6. p \in Nat \ {0} /\ r \in Nat \ {0}
    <3>1. last \in Nat  BY <1>2, PagesNumber
    <3> HIDE DEF last
    <3> QED  BY <3>1
  <2> QED  BY <2>1, <2>2, <2>5, <2>6, OnePlace
<1>6. (\E n \in 1..Len(list) : list[n] = c) <=> Places(list, last, limit, c) # {}
  <2>1. ASSUME NEW x \in Places(list, last, limit, c)
        PROVE  \E n \in 1..Len(list) : list[n] = c
    BY <1>3, <1>4
  <2>2. ASSUME NEW n \in 1..Len(list), list[n] = c
        PROVE  Places(list, last, limit, c) # {}
    <3>1. n \in Nat \ {0} /\ n <= total  BY <1>1, <1>2
    <3>2. PICK p \in Nat \ {0}, k \in 1..limit : (p - 1) * limit + k = n
      BY <3>1, OnePlace
    <3>3. p \in 1..last  BY <1>2, <3>1, <3>2, PageAnnounced
    <3>4. <<p, k>> \in Places(list, last, limit, c)  BY <1>3, <2>2, <3>2, <3>3
    <3> QED  BY <3>4
  <2> QED  BY <2>1, <2>2
<1>7. CASE Places(list, last, limit, c) = {}  BY <1>1, <1>6, <1>7, FS_EmptySet
<1>8. CASE Places(list, last, limit, c) # {}
  <2>1. PICK x : Places(list, last, limit, c) = {x}  BY <1>5, <1>8
  <2> QED  BY <1>1, <1>6, <1>8, <2>1, FS_Singleton
<1> QED  BY <1>7, <1>8

\* Whatever limits on the price and however long the pages, each course that opens is
\* found once, and what is found and does not open is a course in which he is blocked,
\* and found once as well (course.repo.ts listCourses, its raw query and its count;
\* canAccessCourse).
FoundAlways ==
  \A u \in Users, q \in CourseQueries, limit \in Nat \ {0} :
    q.skipCourseId = 0 => FoundOnce(u, q, limit)
THEOREM CoursesFound == Spec => []FoundAlways
<1>1. CatalogueInv => FoundAlways  BY BoughtFound DEF FoundAlways
<1> QED  BY <1>1, CatalogueAlways, PTL

\* In particular under an upper limit on the price and with pages of one or two.
THEOREM BoughtReachable == Spec => []BoughtIsReachable
<1>1. ASSUME FoundAlways  PROVE BoughtIsReachable
  <2> SUFFICES ASSUME NEW u \in Users, NEW limit \in 1..2,
                      NEW maxPrice \in {0} \cup {terms.price : terms \in Terms}
               PROVE  FoundOnce(u, [NoFilter EXCEPT !.maxPrice = maxPrice], limit)
    BY DEF BoughtIsReachable
  <2> DEFINE q == [NoFilter EXCEPT !.maxPrice = maxPrice]
  <2>1. maxPrice \in Nat  BY CatalogueAssumption DEF TermsBodies
  <2>2. q \in CourseQueries /\ q.skipCourseId = 0
    BY <2>1, CatalogueAssumption DEF CourseQueries, NoFilter
  <2>3. limit \in Nat \ {0}  OBVIOUS
  <2> HIDE DEF q
  <2>4. FoundOnce(u, q, limit)  BY <1>1, <2>2, <2>3 DEF FoundAlways
  <2> QED  BY <2>4 DEF q
<1> QED  BY <1>1, CoursesFound, PTL


-----------------------------------------------------------------------------
(* Edits of a roster as single steps *)

Entry(i) == <<enrolment[i].course, enrolment[i].user>>
On == {Entry(i) : i \in {j \in EnrolmentIds : LiveRow(j)}}

\* A synchronisation has its plan when both of its reads are done.
NoPlan == [course |-> 0, want |-> {}, present |-> {}, seen |-> {}]
PlanOf(s) ==
  IF At(s, "sync") THEN [course |-> req[s].course, want |-> req[s].want,
                         present |-> req[s].present, seen |-> SeenUsers(s)]
  ELSE NoPlan
Planned == [s \in Slots |-> PlanOf(s)]

R == INSTANCE RosterEdits
       WITH Editors <- Slots, Courses <- CourseIds, on <- On, plan <- Planned

RosterEdit == [R!Next]_(R!vars)

LEMMA OnEntries ==
  \A p : p \in On <=> \E i \in EnrolmentIds : LiveRow(i) /\ p = Entry(i)
BY DEF On

LEMMA PlansTyped ==
  ASSUME CatalogueInv, NEW s \in Slots, At(s, "sync")
  PROVE  /\ PlanOf(s) = [course |-> req[s].course, want |-> req[s].want,
                         present |-> req[s].present, seen |-> SeenUsers(s)]
         /\ PlanOf(s) \in R!Plans /\ PlanOf(s).present \subseteq PlanOf(s).want
         /\ PlanOf(s) # NoPlan /\ req[s].course \in CourseIds
<1>1. /\ req[s].want \subseteq Users /\ req[s].present \subseteq req[s].want
      /\ req[s].seen \subseteq Inserted /\ req[s].course \in CourseIds
  BY DEF CatalogueInv, TypeOK, ReqRow, Refers, At, RosterPcs, There
<1>2. SeenUsers(s) \subseteq Users
  BY <1>1 DEF SeenUsers, Inserted
<1>3. 0 \notin CourseIds
  BY DEF CourseIds
<1> DEFINE seen == SeenUsers(s)
<1>4. PlanOf(s) = [course |-> req[s].course, want |-> req[s].want,
                   present |-> req[s].present, seen |-> seen]
  BY DEF PlanOf
<1> HIDE DEF seen
<1>5. PlanOf(s).course = req[s].course /\ PlanOf(s).want = req[s].want
      /\ PlanOf(s).present = req[s].present /\ PlanOf(s).seen = seen
  BY <1>4
<1>6. PlanOf(s) # NoPlan
  BY <1>1, <1>3, <1>5 DEF NoPlan
<1>7. PlanOf(s) \in R!Plans
  BY <1>1, <1>2, <1>4 DEF R!Plans, seen
<1> QED  BY <1>1, <1>4, <1>5, <1>6, <1>7 DEF seen

LEMMA PlansMove ==
  ASSUME NEW s \in Slots, \A x \in Slots \ {s} : req'[x] = req[x]
  PROVE  Planned' = [Planned EXCEPT ![s] = PlanOf(s)']
<1>1. \A x \in Slots \ {s} : PlanOf(x)' = PlanOf(x)
  BY DEF PlanOf, At, SeenUsers
<1>2. ASSUME NEW x \in Slots
      PROVE  Planned'[x] = IF x = s THEN PlanOf(s)' ELSE Planned[x]
  BY <1>1 DEF Planned
<1> QED  BY <1>2 DEF Planned

\* A step of one request that writes no row: it has a new plan, or gives one up, or neither.
LEMMA NoRowWritten ==
  ASSUME CatalogueInv, CatalogueInv', UNCHANGED enrolment, NEW s \in Slots,
         \A x \in Slots \ {s} : req'[x] = req[x],
         PlanOf(s)' = PlanOf(s) \/ ~ At(s, "sync") \/ ~ At(s, "sync")'
  PROVE  RosterEdit
<1>1. On' = On
  BY DEF On, Entry, LiveRow
<1>2. Planned' = [Planned EXCEPT ![s] = PlanOf(s)']
  BY PlansMove
<1>3. Planned[s] = PlanOf(s) /\ R!NoPlan = NoPlan
  BY DEF Planned, NoPlan, R!NoPlan
<1>4. CASE PlanOf(s)' = PlanOf(s)
  <2>1. Planned' = Planned
    BY <1>2, <1>3, <1>4 DEF Planned
  <2> QED  BY <1>1, <2>1 DEF RosterEdit, R!vars
<1>5. CASE ~ At(s, "sync") /\ At(s, "sync")'
  <2>1. PlanOf(s)' \in R!Plans /\ PlanOf(s)'.present \subseteq PlanOf(s)'.want
    <3>1. /\ req'[s].want \subseteq Users /\ req'[s].present \subseteq req'[s].want
          /\ req'[s].seen \subseteq Inserted /\ req'[s].course \in CourseIds
      BY <1>5 DEF CatalogueInv, TypeOK, ReqRow, Refers, At, RosterPcs, There
    <3>2. SeenUsers(s)' \subseteq Users
      BY <3>1 DEF SeenUsers, Inserted
    <3> DEFINE seen == SeenUsers(s)'
    <3>3. PlanOf(s)' = [course |-> req'[s].course, want |-> req'[s].want,
                        present |-> req'[s].present, seen |-> seen]
      BY <1>5 DEF PlanOf
    <3>4. seen \subseteq Users
      BY <3>2
    <3> HIDE DEF seen
    <3> QED  BY <3>1, <3>3, <3>4 DEF R!Plans
  <2>2. PlanOf(s) = NoPlan
    BY <1>5 DEF PlanOf
  <2>3. R!Draft(s, PlanOf(s)')
    BY <1>1, <1>2, <1>3, <2>1, <2>2 DEF R!Draft
  <2> QED  BY <2>1, <2>3 DEF RosterEdit, R!Next
<1>6. CASE At(s, "sync") /\ ~ At(s, "sync")'
  <2>1. PlanOf(s)' = NoPlan /\ PlanOf(s) # NoPlan
    BY <1>6, PlansTyped DEF PlanOf, NoPlan
  <2>2. R!GiveUp(s)
    BY <1>1, <1>2, <1>3, <2>1 DEF R!GiveUp
  <2> QED  BY <2>2 DEF RosterEdit, R!Next
<1>7. CASE ~ At(s, "sync") /\ ~ At(s, "sync")'
  BY <1>4, <1>7 DEF PlanOf, NoPlan
<1> QED  BY <1>4, <1>5, <1>6, <1>7

\* A step that moves no request.
LEMMA PlansRest ==
  ASSUME UNCHANGED req  PROVE UNCHANGED Planned
BY DEF Planned, PlanOf, At, SeenUsers

\* All of the plan is carried out at the commit: whom it drops was there until then, whom
\* it adds was not.
LEMMA CommitEdits ==
  ASSUME CatalogueInv, CatalogueInv', NEW s \in Slots, CommitSync(s)
  PROVE  RosterEdit
<1>1. /\ Outcome(s) /\ Holds(s) /\ Refers(s) /\ At(s, "sync") /\ Written(s)
      /\ OnlyMoves(s) /\ req'[s] = IdleReq
  BY Committed, FinishMoves DEF CommitSync, CatalogueInv
<1> DEFINE c == req[s].course
           add == ToAdd(s)
           drop == SeenUsers(s) \ req[s].want
           p == PlanOf(s)
<1>2. /\ p.course = c /\ p.want = req[s].want /\ p.present = req[s].present
      /\ p.seen = SeenUsers(s) /\ p # NoPlan /\ Planned[s] = p
  BY <1>1, PlansTyped DEF Planned
<1>3. R!ToAdd(p) = {c} \X add /\ R!ToDrop(p) = {c} \X drop
  BY <1>2 DEF R!ToAdd, R!ToDrop, R!Entries, ToAdd
<1>4. Planned' = [Planned EXCEPT ![s] = R!NoPlan]
  <2>1. PlanOf(s)' = R!NoPlan
    BY <1>1 DEF PlanOf, At, IdleReq, NoPlan, R!NoPlan
  <2> QED  BY <1>1, <2>1, PlansMove DEF OnlyMoves
<1>5. \A u \in drop : \E i \in req[s].held : Entry(i) = <<c, u>>
  <2>1. ASSUME NEW u \in drop  PROVE \E i \in req[s].held : Entry(i) = <<c, u>>
    <3>1. PICK e \in ToDrop(s) : e.user = u
      BY DEF SeenUsers, ToDrop
    <3>2. e.id \in req[s].held
      BY <1>1, <3>1 DEF Written
    <3>3. PICK f \in ToDrop(s) : f.id = e.id /\ AsRead(s, f)
      BY <1>1, <3>2 DEF Holds
    <3>4. f = e
      BY <1>1, <3>3 DEF Refers, ToDrop
    <3> QED  BY <3>1, <3>2, <3>3, <3>4 DEF AsRead, Entry
  <2> QED  BY <2>1
<1>6. ASSUME NEW i \in req[s].held  PROVE \E u \in drop : Entry(i) = <<c, u>>
  <2>1. PICK e \in ToDrop(s) : e.id = i /\ AsRead(s, e)
    BY <1>1 DEF Holds
  <2> QED  BY <2>1 DEF ToDrop, SeenUsers, AsRead, Entry
<1>7. \A u : u \in add <=> \E e \in req[s].added : e.user = u
  BY <1>1 DEF Written, AddedUsers
<1>8. R!Fits(p)
  <2>1. {c} \X drop \subseteq On
    <3>1. ASSUME NEW u \in drop  PROVE <<c, u>> \in On
      BY <1>1, <1>5, OnEntries DEF Outcome
    <3> QED  BY <3>1
  <2>2. ({c} \X add) \cap On = {}
    <3>1. ASSUME NEW u \in add, <<c, u>> \in On  PROVE FALSE
      <4>1. Enrolled(s, u)
        BY <3>1, OnEntries DEF Enrolled, Students, Roster, Entry
      <4> QED  BY <1>1, <1>7, <3>1, <4>1 DEF Holds
    <3> QED  BY <3>1
  <2> QED  BY <1>3, <2>1, <2>2 DEF R!Fits
<1>9. On' = (On \ ({c} \X drop)) \cup ({c} \X add)
  <2>1. ASSUME NEW q, q \in On'
        PROVE  q \in (On \ ({c} \X drop)) \cup ({c} \X add)
    <3>1. PICK i \in EnrolmentIds : LiveRow(i)' /\ q = Entry(i)'
      BY <2>1 DEF On
    <3>2. CASE \E e \in req[s].added : e.id = i
      BY <1>1, <1>7, <3>1, <3>2 DEF Outcome, Entry
    <3>3. CASE /\ enrolment'[i] = enrolment[i] /\ LiveRow(i) /\ i \notin req[s].held
      <4>1. q = Entry(i) /\ q \in On
        BY <3>1, <3>3, OnEntries DEF Entry
      <4>2. ASSUME q \in {c} \X drop  PROVE FALSE
        <5>1. PICK j \in req[s].held : Entry(j) = q
          BY <1>5, <4>2
        <5>2. j = i
          BY <1>1, <3>3, <4>1, <5>1 DEF CatalogueInv, RowsUnique, Outcome, Entry
        <5> QED  BY <3>3, <5>2
      <4> QED  BY <4>1, <4>2
    <3>4. i \notin req[s].held
      BY <1>1, <3>1 DEF Outcome
    <3> QED  BY <1>1, <3>1, <3>2, <3>3, <3>4 DEF Outcome
  <2>2. ASSUME NEW q \in On, q \notin {c} \X drop  PROVE q \in On'
    <3>1. PICK i \in EnrolmentIds : LiveRow(i) /\ q = Entry(i)
      BY OnEntries
    <3>2. i \notin req[s].held
      BY <1>6, <2>2, <3>1
    <3>3. ~ \E e \in req[s].added : e.id = i
      BY <1>1, <3>1 DEF Outcome, LiveRow
    <3>4. enrolment'[i] = enrolment[i] /\ LiveRow(i)'
      BY <1>1, <3>1, <3>2, <3>3 DEF Outcome
    <3> QED  BY <3>1, <3>4 DEF On, Entry
  <2>3. ASSUME NEW u \in add  PROVE <<c, u>> \in On'
    <3>1. PICK e \in req[s].added : e.user = u
      BY <1>7
    <3>2. e.id \in EnrolmentIds /\ LiveRow(e.id)' /\ Entry(e.id)' = <<c, u>>
      BY <1>1, <3>1 DEF Outcome, Entry
    <3> QED  BY <3>2 DEF On
  <2> QED  BY <2>1, <2>2, <2>3
<1>10. R!CarryOut(s)
  <2> HIDE DEF c, add, drop, p
  <2>1. Planned[s] # R!NoPlan
    BY <1>2 DEF NoPlan, R!NoPlan
  <2> QED  BY <1>2, <1>3, <1>4, <1>8, <1>9, <2>1 DEF R!CarryOut
<1> QED  BY <1>10 DEF RosterEdit, R!Next

\* What becomes of the entries when one row is written: no other row has its entry.
Live(i) == IF LiveRow(i) THEN {Entry(i)} ELSE {}

LEMMA OneEntry ==
  ASSUME CatalogueInv, CatalogueInv', NEW i \in EnrolmentIds,
         \A j \in EnrolmentIds \ {i} : enrolment'[j] = enrolment[j]
  PROVE  /\ On' = (On \ Live(i)) \cup Live(i)' /\ Live(i) \subseteq On
         /\ Live(i)' \cap (On \ Live(i)) = {}
<1>1. \A j \in EnrolmentIds \ {i} : Entry(j)' = Entry(j) /\ (LiveRow(j)' <=> LiveRow(j))
  BY DEF Entry, LiveRow
<1>2. \A j, k \in EnrolmentIds : LiveRow(j) /\ LiveRow(k) /\ Entry(j) = Entry(k) => j = k
  BY DEF CatalogueInv, RowsUnique, Entry
<1>3. \A j, k \in EnrolmentIds :
        LiveRow(j)' /\ LiveRow(k)' /\ Entry(j)' = Entry(k)' => j = k
  BY DEF CatalogueInv, RowsUnique, Entry
<1>4. \A p : p \in On' <=> \E j \in EnrolmentIds : LiveRow(j)' /\ p = Entry(j)'
  BY DEF On
<1>5. ASSUME NEW p  PROVE p \in On' <=> p \in (On \ Live(i)) \cup Live(i)'
  BY <1>1, <1>2, <1>4, OnEntries DEF Live
<1>6. ASSUME NEW p \in Live(i)'  PROVE p \notin On \ Live(i)
  <2>1. LiveRow(i)' /\ p = Entry(i)'
    BY <1>6 DEF Live
  <2>2. ASSUME NEW j \in EnrolmentIds, LiveRow(j), p = Entry(j)  PROVE p \in Live(i)
    BY <1>1, <1>3, <2>1, <2>2 DEF Live
  <2> QED  BY <2>2, OnEntries
<1>7. Live(i) \subseteq On
  BY OnEntries DEF Live
<1> QED  BY <1>5, <1>6, <1>7

LEMMA EntryTyped ==
  ASSUME CatalogueInv, NEW i \in EnrolmentIds, LiveRow(i)
  PROVE  Entry(i) \in CourseIds \X Users
BY RowTyped DEF Entry, LiveRow

LEMMA PurchaseEdits ==
  ASSUME CatalogueInv, CatalogueInv', NEW u \in Users, NEW c \in CourseIds, Buy(u, c)
  PROVE  RosterEdit
<1> DEFINE p == <<c, u>>
           row == [course |-> c, user |-> u, status |-> "ACTIVE", live |-> TRUE]
<1>0. NewEnrolment \in EnrolmentIds /\ enrolment[NewEnrolment] = None
  BY NewEnrolmentFree DEF Buy, FreeRows
<1> PICK i \in EnrolmentIds : i = NewEnrolment
  BY <1>0
<1>1. /\ enrolment[i] = None /\ UNCHANGED req
      /\ enrolment' = [enrolment EXCEPT ![i] = row]
      /\ enrolment \in [EnrolmentIds -> EnrolmentRow \cup {None}]
  BY <1>0 DEF Buy, CatalogueInv, TypeOK
<1>2. row \in EnrolmentRow /\ row.course = c /\ row.user = u /\ row.live
  BY DEF EnrolmentRow, Statuses
<1> HIDE DEF row
<1>3. row # None
  BY <1>2, NoneAssumption
<1>4. enrolment'[i] = row /\ \A j \in EnrolmentIds \ {i} : enrolment'[j] = enrolment[j]
  BY <1>1
<1>5. Live(i) = {} /\ Live(i)' = {p}
  <2>1. ~ LiveRow(i)
    BY <1>1 DEF LiveRow
  <2>2. LiveRow(i)' /\ Entry(i)' = p
    BY <1>1, <1>2, <1>3, <1>4 DEF LiveRow, Entry
  <2> QED  BY <2>1, <2>2 DEF Live
<1>6. /\ On' = (On \ Live(i)) \cup Live(i)' /\ Live(i)' \cap (On \ Live(i)) = {}
  BY <1>1, <1>4, OneEntry
<1>7. R!Enrol(p)
  BY <1>1, <1>5, <1>6, PlansRest DEF R!Enrol
<1> QED  BY <1>7 DEF RosterEdit, R!Next

LEMMA RemovalEdits ==
  ASSUME CatalogueInv, CatalogueInv', NEW agent \in Staff, NEW i \in EnrolmentIds,
         DeleteEnrolment(agent, i)
  PROVE  RosterEdit
<1>1. /\ LiveRow(i) /\ UNCHANGED req /\ ~ LiveRow(i)'
      /\ \A j \in EnrolmentIds \ {i} : enrolment'[j] = enrolment[j]
  BY RowTyped DEF DeleteEnrolment, CatalogueInv, TypeOK, LiveRow, EnrolmentRow
<1>2. Live(i) = {Entry(i)} /\ Live(i)' = {}
  BY <1>1 DEF Live
<1>3. On' = (On \ Live(i)) \cup Live(i)' /\ Live(i) \subseteq On
  BY <1>1, OneEntry
<1>4. R!Remove(Entry(i)) /\ Entry(i) \in CourseIds \X Users
  BY <1>1, <1>2, <1>3, PlansRest, EntryTyped DEF R!Remove
<1> QED  BY <1>4 DEF RosterEdit, R!Next

\* A change of one row moves its entry, or writes nothing.
LEMMA MoveEdits ==
  ASSUME CatalogueInv, CatalogueInv', NEW s \in Slots, WriteEnrolment(s)
  PROVE  RosterEdit
<1>1. /\ At(s, "entry") /\ OnlyMoves(s) /\ req'[s] = IdleReq
      /\ req[s].row \in EnrolmentIds /\ LiveRow(req[s].row) /\ req[s].status \in Statuses
  BY FinishMoves DEF WriteEnrolment, CatalogueInv, TypeOK, ReqRow, Refers, Holds, At
<1> PICK i \in EnrolmentIds : i = req[s].row
  BY <1>1
<1> DEFINE row == [enrolment[i] EXCEPT !.course = req[s].course, !.user = req[s].user,
                                       !.status = req[s].status]
<1>2. ~ At(s, "sync") /\ ~ At(s, "sync")' /\ \A x \in Slots \ {s} : req'[x] = req[x]
  BY <1>1 DEF At, IdleReq, OnlyMoves
<1>3. CASE UNCHANGED enrolment
  BY <1>2, <1>3, NoRowWritten
<1>4. CASE enrolment' = [enrolment EXCEPT ![i].course = req[s].course,
                                          ![i].user = req[s].user,
                                          ![i].status = req[s].status]
  <2>1. /\ i \in EnrolmentIds /\ enrolment[i] \in EnrolmentRow /\ enrolment[i].live
        /\ req[s].user \in Users /\ req[s].course \in CourseIds
        /\ enrolment \in [EnrolmentIds -> EnrolmentRow \cup {None}]
    BY <1>1, RowTyped DEF Refers, At, There, LiveRow, CatalogueInv, TypeOK
  <2>2. /\ enrolment' = [enrolment EXCEPT ![i] = row]
        /\ row \in EnrolmentRow /\ row.live
        /\ row.course \in CourseIds /\ row.user \in Users
    BY <1>1, <1>4, <2>1 DEF EnrolmentRow
  <2> HIDE DEF row
  <2>3. /\ enrolment'[i] = row /\ LiveRow(i)'
        /\ \A j \in EnrolmentIds \ {i} : enrolment'[j] = enrolment[j]
    <3>1. enrolment'[i] = row /\ \A j \in EnrolmentIds \ {i} : enrolment'[j] = enrolment[j]
      BY <2>1, <2>2
    <3>2. row # None
      BY <2>2, NoneAssumption
    <3> QED  BY <2>1, <2>2, <3>1, <3>2 DEF LiveRow
  <2>4. Live(i) = {Entry(i)} /\ Live(i)' = {Entry(i)'}
    BY <1>1, <2>3 DEF Live
  <2>5. /\ On' = (On \ Live(i)) \cup Live(i)' /\ Live(i) \subseteq On
        /\ Live(i)' \cap (On \ Live(i)) = {}
    BY <2>1, <2>3, OneEntry
  <2>6. UNCHANGED Planned
    <3>1. Planned' = [Planned EXCEPT ![s] = PlanOf(s)'] /\ PlanOf(s)' = PlanOf(s)
      BY <1>2, PlansMove DEF PlanOf
    <3> QED  BY <3>1 DEF Planned
  <2> DEFINE p == Entry(i)
             q == Entry(i)'
  <2>7. p \in CourseIds \X Users /\ q \in CourseIds \X Users
    <3>1. p \in CourseIds \X Users
      BY <1>1, <2>1, EntryTyped
    <3>2. q \in CourseIds \X Users
      BY <2>2, <2>3 DEF Entry
    <3> QED  BY <3>1, <3>2
  <2> HIDE DEF p, q
  <2>8. R!Move(p, q)
    BY <2>4, <2>5, <2>6 DEF R!Move, p, q
  <2> QED  BY <2>7, <2>8 DEF RosterEdit, R!Next
<1> QED  BY <1>3, <1>4 DEF WriteEnrolment

\* The steps of a request that write no enrolment: a synchronisation keeps what it has
\* read while its transaction is open.
LEMMA LockingEdits ==
  ASSUME CatalogueInv, CatalogueInv', NEW s \in Slots, LockRow(s)
  PROVE  RosterEdit
<1>1. UNCHANGED enrolment /\ ~ At(s, "sync") /\ \A x \in Slots \ {s} : req'[x] = req[x]
  BY DEF LockRow, Finish, At, CatalogueInv, TypeOK
<1> QED  BY <1>1, NoRowWritten

LEMMA ReadingEdits ==
  ASSUME CatalogueInv, CatalogueInv', NEW s \in Slots, ReadRoster(s) \/ ReadUsers(s)
  PROVE  RosterEdit
<1>1. UNCHANGED enrolment /\ ~ At(s, "sync") /\ \A x \in Slots \ {s} : req'[x] = req[x]
  BY DEF ReadRoster, ReadUsers, At, CatalogueInv, TypeOK
<1> QED  BY <1>1, NoRowWritten

LEMMA EndingEdits ==
  ASSUME CatalogueInv, CatalogueInv', UNCHANGED enrolment, NEW s \in Slots, Finish(s)
  PROVE  RosterEdit
<1>1. ~ At(s, "sync")' /\ \A x \in Slots \ {s} : req'[x] = req[x]
  BY FinishMoves DEF OnlyMoves, At, IdleReq
<1> QED  BY <1>1, NoRowWritten

LEMMA CarryingEdits ==
  ASSUME CatalogueInv, CatalogueInv', UNCHANGED enrolment, NEW s \in Slots,
         OnlyMoves(s), Carries(s)
  PROVE  RosterEdit
<1>1. PlanOf(s)' = PlanOf(s) /\ \A x \in Slots \ {s} : req'[x] = req[x]
  BY DEF Carries, PlanOf, At, SeenUsers, OnlyMoves
<1> QED  BY <1>1, NoRowWritten

LEMMA WritingEdits ==
  ASSUME CatalogueInv, CatalogueInv', NEW s \in Slots,
         (\E u \in Users : Create(s, u)) \/ (\E e \in Inserted : Drop(s, e))
  PROVE  RosterEdit
<1>1. UNCHANGED enrolment
  BY DEF Create, Drop
<1>2. CASE Finish(s)
  BY <1>1, <1>2, EndingEdits
<1>3. CASE ~ Finish(s) /\ \E u \in Users : Create(s, u)
  <2>1. PICK u \in Users : Create(s, u)
    BY <1>3
  <2> DEFINE added == req[s].added \cup {[id |-> NewEnrolment, user |-> u]}
  <2>2. FreeRows # {} /\ req' = [req EXCEPT ![s].added = added]
    BY <1>3, <2>1 DEF Create
  <2>3. added \in SUBSET Inserted
    BY <2>2, NewEnrolmentFree DEF FreeRows, CatalogueInv, TypeOK, ReqRow, Inserted
  <2> HIDE DEF added
  <2> QED  BY <1>1, <2>2, <2>3, AddsMore, CarryingEdits
<1>4. CASE ~ Finish(s) /\ \E e \in Inserted : Drop(s, e)
  <2>1. PICK e \in Inserted : Drop(s, e)
    BY <1>4
  <2> DEFINE dropped == req[s].held \cup {e.id}
  <2>2. req' = [req EXCEPT ![s].held = dropped]
    BY <1>4, <2>1 DEF Drop
  <2>3. dropped \in SUBSET EnrolmentIds
    BY <2>1 DEF CatalogueInv, TypeOK, ReqRow, Inserted
  <2> HIDE DEF dropped
  <2> QED  BY <1>1, <2>2, <2>3, DropsMore, CarryingEdits
<1> QED  BY <1>2, <1>3, <1>4

LEMMA ComboEdits ==
  ASSUME CatalogueInv, CatalogueInv', NEW s \in Slots, ContinueCombos(s)
  PROVE  RosterEdit
<1>1. UNCHANGED enrolment /\ ~ At(s, "sync")
  BY DEF ContinueCombos, InsertCombo, Expand, Reshape, At, ComboFrame
<1>2. \A x \in Slots \ {s} : req'[x] = req[x]
  <2>1. CASE Finish(s)
    BY <2>1, FinishMoves DEF OnlyMoves
  <2>2. CASE Expand(s)
    BY <2>2, <2>1 DEF Expand, CatalogueInv, TypeOK
  <2> QED  BY <2>1, <2>2 DEF ContinueCombos, InsertCombo, Reshape
<1> QED  BY <1>1, <1>2, NoRowWritten

\* A request that begins has no plan.
LEMMA StartEdits ==
  ASSUME CatalogueInv, CatalogueInv', NEW s \in Slots, NEW agent \in Staff,
         NEW c \in CourseIds,
         \/ \E want \in RosterBodies : SyncCheck(s, agent, c, want)
         \/ \E i \in EnrolmentIds, u \in Users, status \in Statuses :
              UpdateEnrolment(s, agent, i, u, c, status)
         \/ \E ids \in ComboBodies : UpdateCombo(s, agent, c, ids)
  PROVE  RosterEdit
<1>1. UNCHANGED enrolment /\ ~ At(s, "sync") /\ \A x \in Slots \ {s} : req'[x] = req[x]
  BY StartsOne DEF At
<1> QED  BY <1>1, NoRowWritten

LEMMA CreateComboEdits ==
  ASSUME CatalogueInv, CatalogueInv', NEW s \in Slots, NEW agent \in Staff,
         NEW ids \in ComboBodies, CreateCombo(s, agent, ids)
  PROVE  RosterEdit
<1>1. UNCHANGED enrolment /\ ~ At(s, "sync") /\ \A x \in Slots \ {s} : req'[x] = req[x]
  BY DEF CreateCombo, At, ComboFrame, CatalogueInv, TypeOK
<1> QED  BY <1>1, NoRowWritten

\* What moves neither a request nor a row is no edit of a roster.
LEMMA NoEdit ==
  ASSUME UNCHANGED <<req, enrolment>>
  PROVE  RosterEdit
<1>1. UNCHANGED On
  BY DEF On, Entry, LiveRow
<1> QED  BY <1>1, PlansRest DEF RosterEdit, R!vars

LEMMA EditsInit == Init => R!Init
<1> SUFFICES ASSUME Init  PROVE R!Init
  OBVIOUS
<1>1. On = {}
  BY DEF Init, On, LiveRow
<1>2. \A s \in Slots : PlanOf(s) = R!NoPlan
  BY DEF Init, PlanOf, At, IdleReq, NoPlan, R!NoPlan
<1> QED  BY <1>1, <1>2 DEF R!Init, Planned

LEMMA EditsNext ==
  ASSUME CatalogueInv, CatalogueInv', [Next]_vars
  PROVE  RosterEdit
<1>1. CASE StartRoster
  <2>1. (\E u \in Users, on \in BOOLEAN : SetActive(u, on)) => RosterEdit
    BY NoEdit DEF SetActive
  <2> QED  BY <1>1, <2>1, StartEdits, RemovalEdits, PurchaseEdits DEF StartRoster
<1>2. CASE StartCombos
  <2>1. ASSUME NEW agent \in Staff,
               \/ CreateSingle(agent)
               \/ \E c \in CourseIds : UpdateSingle(agent, c) \/ DeleteCourse(agent, c)
        PROVE  RosterEdit
    BY <2>1, NoEdit DEF CreateSingle, UpdateSingle, DeleteCourse, ComboFrame
  <2> QED  BY <1>2, <2>1, StartEdits, CreateComboEdits DEF StartCombos
<1>3. CASE StartOffers
  BY <1>3, NoEdit DEF StartOffers, CreateCoupon, UpdateCoupon, DeleteCoupon, OfferFrame
<1>4. CASE \E s \in Slots : Continue(s)
  <2>1. PICK s \in Slots : Continue(s)
    BY <1>4
  <2>2. Abort(s) => RosterEdit
    BY EndingEdits DEF Abort
  <2> QED  BY <2>1, <2>2, ReadingEdits, LockingEdits, WritingEdits, CommitEdits, MoveEdits, ComboEdits
           DEF Continue, ContinueRoster
<1>5. CASE Quiescent \/ UNCHANGED vars
  BY <1>5, NoEdit DEF Quiescent, vars
<1> QED  BY <1>1, <1>2, <1>3, <1>4, <1>5 DEF Next

\* Every purchase, removal, move and synchronisation edits the roster as one step, whatever
\* others do between its reads, its writes and its commit: a synchronisation carries out all
\* that follows from what it has read, or nothing (student.repo.ts createCourseEnrollment).
THEOREM EditsAreAtomic == Spec => R!Spec
<1>1. CatalogueInv /\ CatalogueInv' /\ [Next]_vars => [R!Next]_(R!vars)
  BY EditsNext DEF RosterEdit
<1> QED  BY <1>1, EditsInit, CatalogueAlways, PTL DEF Spec, R!Spec

-----------------------------------------------------------------------------
(* No edit waits for ever: whom it waits for, and the steps it has left.     *)

\* x's transaction holds a row or an entry that s needs.
Blocks(x, s) == WaitsFor(s, x) \/ (At(s, "move") /\ req[s].row \in req[x].held)
Blockers(s) == {x \in Slots : Blocks(x, s)}

\* The statements s has left to send, and those it could send now.
Adding(s) == ToAdd(s) \ AddedUsers(s)
Dropping(s) == {e \in ToDrop(s) : e.id \notin req[s].held}
Sendable(s) ==
  \/ \E u \in Adding(s) : ~ EntryHeld(s, req[s].course, u)
  \/ Adding(s) = {} /\ \E e \in Dropping(s) : ~ RowHeld(e.id)

\* A request stands still only in its transaction, or before it has its row.
CanGoOn(s) ==
  /\ ~ At(s, "idle")
  /\ At(s, "sync") => Written(s) \/ Aborted(s) \/ Sendable(s)
  /\ At(s, "move") => ~ RowHeld(req[s].row)
  /\ At(s, "entry") => Aborted(s) \/ ~ EntryHeld(s, req[s].course, req[s].user)

\* However many requests wait only for one another, one of them can go on.
NoStandstill ==
  \A W \in SUBSET Slots :
    /\ W # {}
    /\ \A s \in W : ~ At(s, "idle") /\ Blockers(s) \subseteq W
    => \E s \in W : CanGoOn(s)

Cycle(W) ==
  \A x \in W : (\E y \in W : WaitsFor(x, y)) /\ (\E y \in W : WaitsFor(y, x))

\* The least set of requests of which each waits for another is a cycle.
LEMMA CycleInside ==
  ASSUME NEW G, G \subseteq Slots, IsFiniteSet(G), G # {},
         \A x \in G : \E y \in G : WaitsFor(x, y)
  PROVE  \E W \in SUBSET G : W # {} /\ Cycle(W)
<1> DEFINE Waiting == {W \in SUBSET G : W # {} /\ \A x \in W : \E y \in W : WaitsFor(x, y)}
<1>1. IsWellFoundedOn(StrictSubsetOrdering(G), SUBSET G)
  BY FS_StrictSubsetOrderingWellFounded, FS_FiniteSubsetsOfFinite
<1>2. Waiting \subseteq SUBSET G /\ G \in Waiting
  OBVIOUS
<1>3. PICK W \in Waiting : \A V \in Waiting : ~ (<<V, W>> \in StrictSubsetOrdering(G))
  <2> HIDE DEF Waiting
  <2> QED  BY <1>1, <1>2, WFMin, Zenon
<1>4. ASSUME NEW x \in W, \A y \in W : ~ WaitsFor(y, x)
      PROVE  FALSE
  <2> DEFINE V == W \ {x}
  <2>1. PICK z \in W : WaitsFor(x, z)
    BY <1>3
  <2>2. z # x
    BY <2>1 DEF WaitsFor
  <2>3. V \in Waiting
    BY <1>3, <1>4, <2>2
  <2>4. <<V, W>> \in StrictSubsetOrdering(G)
    BY <2>3 DEF StrictSubsetOrdering
  <2> QED  BY <1>3, <2>3, <2>4
<1> QED  BY <1>3, <1>4 DEF Cycle

\* A transaction that can neither send a statement nor commit waits for another one.
LEMMA StuckWaits ==
  ASSUME CatalogueInv, NEW s \in Slots, At(s, "sync") \/ At(s, "entry"), ~ CanGoOn(s)
  PROVE  \E x \in Slots : WaitsFor(s, x)
<1>1. Holds(s)
  BY DEF CatalogueInv
<1>2. CASE At(s, "entry")
  BY <1>2 DEF CanGoOn, At, EntryHeld, WaitsFor
<1>3. CASE At(s, "sync") /\ Adding(s) # {}
  <2>1. PICK u \in Adding(s) : TRUE
    BY <1>3
  <2>2. PICK x \in Slots \ {s} : EntryHeldBy(x, req[s].course, u)
    BY <1>3, <2>1 DEF CanGoOn, At, Sendable, EntryHeld
  <2> QED  BY <1>3, <2>1, <2>2 DEF WaitsFor, Adding
<1>4. CASE At(s, "sync") /\ Adding(s) = {}
  <2>1. ToAdd(s) = AddedUsers(s)
    BY <1>1, <1>4 DEF Adding, AddedUsers, Holds
  <2>2. req[s].held \subseteq {e.id : e \in ToDrop(s)}
    BY <1>1, <1>4 DEF Holds
  <2>3. ~ Written(s) /\ ~ Sendable(s)
    BY <1>4 DEF CanGoOn, At
  <2>4. PICK e \in Dropping(s) : TRUE
    BY <2>1, <2>2, <2>3 DEF Written, Dropping
  <2>5. PICK x \in Slots : e.id \in req[x].held
    BY <1>4, <2>3, <2>4 DEF Sendable, RowHeld
  <2>6. x # s
    BY <2>4, <2>5 DEF Dropping
  <2> QED  BY <1>4, <2>1, <2>4, <2>5, <2>6 DEF Dropping, WaitsFor
<1> QED  BY <1>2, <1>3, <1>4

\* Who is waited for has a transaction.
LEMMA HoldersHold ==
  ASSUME CatalogueInv, NEW s \in Slots, NEW x \in Slots, Blocks(x, s)
  PROVE  At(x, "sync") \/ At(x, "entry")
<1>1. req[x].added # {} \/ req[x].held # {}
  BY DEF Blocks, WaitsFor, EntryHeldBy, AddedUsers
<1> QED  BY <1>1 DEF CatalogueInv, Holds

LEMMA OneGoesOn ==
  ASSUME CatalogueInv, IsFiniteSet(Slots)  PROVE NoStandstill
<1> SUFFICES ASSUME NEW W \in SUBSET Slots, W # {},
                    \A s \in W : ~ At(s, "idle") /\ Blockers(s) \subseteq W,
                    \A s \in W : ~ CanGoOn(s)
             PROVE  FALSE
  BY DEF NoStandstill
<1> DEFINE G == {s \in W : At(s, "sync") \/ At(s, "entry")}
<1>1. ASSUME NEW s \in W, s \notin G  PROVE G # {}
  <2>1. At(s, "move") /\ RowHeld(req[s].row)
    BY <1>1 DEF CanGoOn
  <2>2. PICK x \in Slots : Blocks(x, s)
    BY <2>1 DEF RowHeld, Blocks
  <2> QED  BY <2>2, HoldersHold DEF Blockers
<1>2. ASSUME NEW s \in G  PROVE \E x \in G : WaitsFor(s, x)
  <2>1. PICK x \in Slots : WaitsFor(s, x)
    BY <1>2, StuckWaits
  <2>2. Blocks(x, s)
    BY <2>1 DEF Blocks
  <2> QED  BY <2>1, <2>2, HoldersHold DEF Blockers
<1>3. G # {}
  BY <1>1
<1>4. IsFiniteSet(G) /\ G \subseteq Slots
  BY FS_Subset
<1> HIDE DEF G
<1>5. PICK V \in SUBSET G : V # {} /\ Cycle(V)
  BY <1>2, <1>3, <1>4, CycleInside
<1>6. PICK s \in V : Aborted(s)
  BY <1>4, <1>5 DEF Aborted, Cycle
<1> QED  BY <1>6 DEF CanGoOn, At, G, Aborted, WaitsFor

\* Requests on the rosters never all wait for one another's rows and entries without one
\* that can go on, or that PostgreSQL aborts (student.repo.ts createCourseEnrollment,
\* updateCourseEnrollment).
THEOREM NeverAllWait ==
  ASSUME IsFiniteSet(Slots)  PROVE Spec => []NoStandstill
<1>1. CatalogueInv => NoStandstill
  BY OneGoesOn
<1> QED  BY <1>1, CatalogueAlways, PTL

\* And these are all the waits: a request takes a step only when nothing holds it up.
GoesOnAlone == \A s \in Slots : Continue(s) => CanGoOn(s)

LEMMA WaitsHeeded ==
  ASSUME CatalogueInv, NEW s \in Slots, Continue(s)  PROVE CanGoOn(s)
<1>1. CASE \E u \in Users : Create(s, u)
  BY <1>1 DEF Create, CanGoOn, Sendable, Adding, At
<1>2. CASE \E e \in Inserted : Drop(s, e)
  BY <1>2 DEF Drop, CanGoOn, Sendable, Adding, Dropping, At
<1>3. CASE Abort(s)
  <2>1. At(s, "sync") \/ At(s, "entry")
    BY <1>3 DEF Abort, Aborted, WaitsFor
  <2> QED  BY <1>3, <2>1 DEF Abort, CanGoOn, At
<1>4. CASE CommitSync(s) \/ LockRow(s) \/ WriteEnrolment(s)
  BY <1>4 DEF CommitSync, LockRow, WriteEnrolment, CanGoOn, At
<1>5. CASE ReadRoster(s) \/ ReadUsers(s) \/ ContinueCombos(s)
  BY <1>5 DEF ReadRoster, ReadUsers, ContinueCombos, InsertCombo, Expand, Reshape, CanGoOn, At
<1> QED  BY <1>1, <1>2, <1>3, <1>4, <1>5 DEF Continue, ContinueRoster

THEOREM WaitsAreAll ==
  Spec => [][GoesOnAlone]_vars
<1>1. CatalogueInv /\ [Next]_vars => GoesOnAlone
  BY WaitsHeeded DEF GoesOnAlone
<1> QED  BY <1>1, CatalogueAlways, PTL DEF Spec

-----------------------------------------------------------------------------
(* No edit goes round in circles.                                            *)

AddsLeft(r) == (r.present \ {e.user : e \in r.seen}) \ {e.user : e \in r.added}
DropsLeft(r) == {e \in r.seen : e.user \notin r.want /\ e.id \notin r.held}

\* Until its reads are done, a synchronisation may have to add or drop anybody.
Adds(r) == IF r.pc \in RosterPcs \ {"sync"} THEN Users
           ELSE IF r.pc = "sync" THEN AddsLeft(r) ELSE {}
Drops(r) == IF r.pc \in RosterPcs \ {"sync"} THEN Inserted
            ELSE IF r.pc = "sync" THEN DropsLeft(r) ELSE {}
Ahead(pc) ==
  CASE pc = "idle" -> 0
    [] pc \in {"sync", "entry", "insertCombo", "reshape"} -> 1
    [] pc \in {"readUsers", "readRoster", "move", "expand"} -> 2
    [] pc = "read" -> 3
StepsLeft(r) == Ahead(r.pc) + Cardinality(Adds(r)) + Cardinality(Drops(r))

RunsDown ==
  \A s \in Slots :
    ~ At(s, "idle") => req'[s] = req[s] \/ StepsLeft(req'[s]) < StepsLeft(req[s])

LEMMA StepsCounted ==
  ASSUME IsFiniteSet(Users), NEW r \in ReqRow
  PROVE  /\ IsFiniteSet(Users) /\ IsFiniteSet(Inserted)
         /\ IsFiniteSet(Adds(r)) /\ Adds(r) \subseteq Users
         /\ IsFiniteSet(Drops(r)) /\ Drops(r) \subseteq Inserted
         /\ Cardinality(Adds(r)) \in Nat /\ Cardinality(Drops(r)) \in Nat
         /\ Ahead(r.pc) \in Nat /\ (r.pc # "idle" => Ahead(r.pc) > 0)
<1>1. IsFiniteSet(Inserted)
  <2>1. IsFiniteSet(EnrolmentIds \X Users)
    <3>1. IsFiniteSet(EnrolmentIds)
      <4>1. 1 \in Int /\ MaxEnrolments \in Int
        BY CatalogueAssumption
      <4>2. IsFiniteSet(1..MaxEnrolments)
        BY <4>1, FS_Interval
      <4> QED  BY <4>2 DEF EnrolmentIds
    <3> QED  BY <3>1, FS_Product
  <2> DEFINE f == [p \in EnrolmentIds \X Users |-> [id |-> p[1], user |-> p[2]]]
  <2>2. f \in Surjection(EnrolmentIds \X Users, Inserted)
    <3>1. ASSUME NEW p \in EnrolmentIds \X Users  PROVE f[p] \in Inserted
      BY DEF Inserted
    <3>2. ASSUME NEW e \in Inserted  PROVE \E p \in EnrolmentIds \X Users : f[p] = e
      <4>1. <<e.id, e.user>> \in EnrolmentIds \X Users /\ f[<<e.id, e.user>>] = e
        BY DEF Inserted
      <4> QED  BY <4>1
    <3> QED  BY <3>1, <3>2 DEF Surjection
  <2> QED  BY <2>1, <2>2, FS_Surjection
<1>2. Adds(r) \subseteq Users /\ Drops(r) \subseteq Inserted
  BY DEF Adds, AddsLeft, Drops, DropsLeft, ReqRow
<1>3. IsFiniteSet(Adds(r)) /\ IsFiniteSet(Drops(r))
  BY <1>1, <1>2, FS_Subset
<1>4. Cardinality(Adds(r)) \in Nat /\ Cardinality(Drops(r)) \in Nat
  BY <1>3, FS_CardinalityType
<1>5. Ahead(r.pc) \in Nat /\ (r.pc # "idle" => Ahead(r.pc) > 0)
  BY DEF ReqRow, Pcs, Ahead
<1> QED  BY <1>1, <1>2, <1>3, <1>4, <1>5

LEMMA EndsLower ==
  ASSUME IsFiniteSet(Users), NEW r \in ReqRow, r.pc # "idle"
  PROVE  StepsLeft(IdleReq) < StepsLeft(r)
<1>1. StepsLeft(IdleReq) = 0
  BY FS_EmptySet DEF StepsLeft, Adds, Drops, IdleReq, Ahead, RosterPcs
<1> QED  BY <1>1, StepsCounted DEF StepsLeft

\* A step nearer the end, with no more to write.
LEMMA FewerLeft ==
  ASSUME IsFiniteSet(Users), NEW q \in ReqRow, NEW r \in ReqRow,
         Adds(q) \subseteq Adds(r), Drops(q) \subseteq Drops(r), Ahead(q.pc) <= Ahead(r.pc),
         Ahead(q.pc) < Ahead(r.pc) \/ Adds(q) # Adds(r) \/ Drops(q) # Drops(r)
  PROVE  StepsLeft(q) < StepsLeft(r)
<1>1. /\ Cardinality(Adds(q)) <= Cardinality(Adds(r))
      /\ Cardinality(Adds(q)) = Cardinality(Adds(r)) => Adds(q) = Adds(r)
  BY StepsCounted, FS_Subset
<1>2. /\ Cardinality(Drops(q)) <= Cardinality(Drops(r))
      /\ Cardinality(Drops(q)) = Cardinality(Drops(r)) => Drops(q) = Drops(r)
  BY StepsCounted, FS_Subset
<1>3. /\ Cardinality(Adds(q)) \in Nat /\ Cardinality(Drops(q)) \in Nat /\ Ahead(q.pc) \in Nat
      /\ Cardinality(Adds(r)) \in Nat /\ Cardinality(Drops(r)) \in Nat /\ Ahead(r.pc) \in Nat
  BY StepsCounted
<1>4. \/ Ahead(q.pc) < Ahead(r.pc) \/ Cardinality(Adds(q)) < Cardinality(Adds(r))
      \/ Cardinality(Drops(q)) < Cardinality(Drops(r))
  BY <1>1, <1>2, <1>3
<1> DEFINE a == Ahead(q.pc)  b == Cardinality(Adds(q))  c == Cardinality(Drops(q))
           x == Ahead(r.pc)  y == Cardinality(Adds(r))  z == Cardinality(Drops(r))
<1>5. /\ a \in Nat /\ b \in Nat /\ c \in Nat /\ x \in Nat /\ y \in Nat /\ z \in Nat
      /\ a <= x /\ b <= y /\ c <= z /\ (a < x \/ b < y \/ c < z)
      /\ StepsLeft(q) = a + b + c /\ StepsLeft(r) = x + y + z
  BY <1>1, <1>2, <1>3, <1>4 DEF StepsLeft
<1> HIDE DEF a, b, c, x, y, z
<1> QED  BY <1>5

LEMMA ContinueLower ==
  ASSUME CatalogueInv, CatalogueInv', IsFiniteSet(Users), NEW s \in Slots, Continue(s)
  PROVE  /\ \A x \in Slots \ {s} : req'[x] = req[x]
         /\ ~ At(s, "idle") => StepsLeft(req'[s]) < StepsLeft(req[s])
<1> DEFINE Others == \A x \in Slots \ {s} : req'[x] = req[x]
           Lower == ~ At(s, "idle") => StepsLeft(req'[s]) < StepsLeft(req[s])
           r == req[s]
           q == req'[s]
<1>1. r \in ReqRow /\ q \in ReqRow /\ req \in [Slots -> ReqRow] /\ Refers(s) /\ Holds(s)
  BY DEF CatalogueInv, TypeOK
<1>2. CASE Finish(s)
  <2>1. q = IdleReq /\ Others
    BY <1>2, FinishMoves DEF OnlyMoves
  <2> QED  BY <1>1, <2>1, EndsLower DEF At
<1>3. CASE ReadRoster(s) \/ ReadUsers(s)
  <2>1. /\ Others
        /\ \/ r.pc = "read" /\ q.pc \in {"readUsers", "readRoster"}
           \/ r.pc \in {"readUsers", "readRoster"} /\ q.pc = "sync"
    <3> DEFINE seen == {[id |-> i, user |-> enrolment[i].user] :
                          i \in {j \in Roster(r.course) : enrolment[j].user \in active}}
               roster == [r EXCEPT !.pc = IF At(s, "read") THEN "readUsers" ELSE "sync",
                                   !.seen = seen]
               present == r.want \cap active
               users == [r EXCEPT !.pc = IF At(s, "read") THEN "readRoster" ELSE "sync",
                                  !.present = present]
    <3>1. r.pc \in {"read", "readUsers", "readRoster"}
      BY <1>3 DEF ReadRoster, ReadUsers, At
    <3>2. \/ req' = [req EXCEPT ![s] = roster] \/ req' = [req EXCEPT ![s] = users]
      BY <1>1, <1>3 DEF ReadRoster, ReadUsers
    <3>3. /\ roster.pc = (IF r.pc = "read" THEN "readUsers" ELSE "sync")
          /\ users.pc = (IF r.pc = "read" THEN "readRoster" ELSE "sync")
      BY <1>1 DEF ReqRow, At
    <3> HIDE DEF roster, users
    <3>4. Others /\ q \in {roster, users}
      BY <1>1, <3>2
    <3> QED  BY <3>1, <3>3, <3>4
  <2>2. Adds(r) = Users /\ Drops(r) = Inserted /\ Ahead(q.pc) < Ahead(r.pc)
    BY <2>1 DEF Adds, Drops, RosterPcs, Ahead
  <2>3. /\ Adds(q) \subseteq Users /\ Drops(q) \subseteq Inserted
        /\ Ahead(q.pc) \in Nat /\ Ahead(r.pc) \in Nat
    BY <1>1, StepsCounted
  <2> HIDE DEF r, q
  <2> QED  BY <1>1, <2>1, <2>2, <2>3, FewerLeft DEF r, q
<1>4. CASE ~ Finish(s) /\ \E u \in Users : Create(s, u)
  <2>1. PICK u \in Users : Create(s, u) /\ ~ Finish(s)
    BY <1>4
  <2> DEFINE e == [id |-> NewEnrolment, user |-> u]
             added == r.added \cup {e}
  <2>2. /\ FreeRows # {} /\ req' = [req EXCEPT ![s].added = added] /\ At(s, "sync")
        /\ u \in ToAdd(s) \ AddedUsers(s)
    BY <2>1 DEF Create
  <2>3. added \in SUBSET Inserted
    BY <2>2, NewEnrolmentFree DEF FreeRows, CatalogueInv, TypeOK, ReqRow, Inserted
  <2>4. e.user = u /\ e \in added /\ r.added \subseteq added
    OBVIOUS
  <2> HIDE DEF added, e
  <2>5. Others /\ Carries(s) /\ q.added = added /\ q.held = r.held
    BY <2>2, <2>3, AddsMore DEF OnlyMoves
  <2>6. u \in Adds(r) /\ u \notin Adds(q)
    BY <2>2, <2>4, <2>5 DEF Carries, At, RosterPcs, Adds, AddsLeft, ToAdd, SeenUsers, AddedUsers
  <2>7. Adds(q) \subseteq Adds(r) /\ Drops(q) = Drops(r) /\ Ahead(q.pc) = Ahead(r.pc)
    BY <2>2, <2>4, <2>5
    DEF Carries, At, RosterPcs, Adds, AddsLeft, Drops, DropsLeft
  <2>8. Ahead(q.pc) \in Nat
    BY <1>1, StepsCounted
  <2> HIDE DEF r, q
  <2> QED  BY <1>1, <2>5, <2>6, <2>7, <2>8, FewerLeft DEF r, q
<1>5. CASE ~ Finish(s) /\ \E e \in Inserted : Drop(s, e)
  <2>1. PICK e \in Inserted : Drop(s, e) /\ ~ Finish(s)
    BY <1>5
  <2> DEFINE dropped == r.held \cup {e.id}
  <2>2. /\ req' = [req EXCEPT ![s].held = dropped] /\ At(s, "sync")
        /\ e \in ToDrop(s) /\ e.id \notin r.held
    BY <2>1 DEF Drop
  <2>3. dropped \in SUBSET EnrolmentIds
    BY <2>1 DEF CatalogueInv, TypeOK, ReqRow, Inserted
  <2>4. e.id \in dropped /\ r.held \subseteq dropped
    OBVIOUS
  <2> HIDE DEF dropped
  <2>5. Others /\ Carries(s) /\ q.held = dropped /\ q.added = r.added
    BY <2>2, <2>3, DropsMore DEF OnlyMoves
  <2>6. e \in Drops(r) /\ e \notin Drops(q)
    BY <2>2, <2>4, <2>5 DEF Carries, At, RosterPcs, Drops, DropsLeft, ToDrop
  <2>7. Drops(q) \subseteq Drops(r) /\ Adds(q) = Adds(r) /\ Ahead(q.pc) = Ahead(r.pc)
    BY <2>2, <2>4, <2>5
    DEF Carries, At, RosterPcs, Adds, AddsLeft, Drops, DropsLeft
  <2>8. Ahead(q.pc) \in Nat
    BY <1>1, StepsCounted
  <2> HIDE DEF r, q
  <2> QED  BY <1>1, <2>5, <2>6, <2>7, <2>8, FewerLeft DEF r, q
<1>6. CASE ~ Finish(s) /\ (Expand(s) \/ LockRow(s))
  <2>1. Others /\ \/ r.pc = "expand" /\ q.pc = "reshape"
                  \/ r.pc = "move" /\ q.pc = "entry"
    <3> DEFINE connect == Expansion(r.ids)
               held == {r.row}
               there == [r EXCEPT !.pc = "reshape", !.connect = connect]
               locked == [r EXCEPT !.pc = "entry", !.held = held]
    <3>1. \/ r.pc = "expand" /\ req' = [req EXCEPT ![s] = there]
          \/ r.pc = "move" /\ req' = [req EXCEPT ![s] = locked]
      BY <1>1, <1>6 DEF Expand, LockRow, At
    <3>2. there.pc = "reshape" /\ locked.pc = "entry"
      BY <1>1 DEF ReqRow
    <3> HIDE DEF there, locked
    <3> QED  BY <1>1, <3>1, <3>2
  <2>2. Adds(q) = {} /\ Drops(q) = {} /\ Ahead(q.pc) < Ahead(r.pc)
    BY <2>1 DEF Adds, Drops, RosterPcs, Ahead
  <2>3. Ahead(q.pc) \in Nat /\ Ahead(r.pc) \in Nat
    BY <1>1, StepsCounted
  <2> HIDE DEF r, q
  <2> QED  BY <1>1, <2>1, <2>2, <2>3, FewerLeft DEF r, q
<1> QED  BY <1>2, <1>3, <1>4, <1>5, <1>6
         DEF Continue, ContinueRoster, ContinueCombos, CommitSync, Abort, LockRow,
             WriteEnrolment, InsertCombo, Reshape

\* Whatever step is taken, a request that is under way stays or has fewer steps left:
\* with NeverAllWait, what fairness turns into the end of every edit.
THEOREM EditsRunDown ==
  ASSUME IsFiniteSet(Users)  PROVE Spec => [][RunsDown]_vars
<1>1. ASSUME CatalogueInv, CatalogueInv', [Next]_vars  PROVE RunsDown
  <2>1. CASE \E s \in Slots : Continue(s)
    BY <1>1, <2>1, ContinueLower DEF RunsDown
  <2>2. CASE StartRoster \/ StartCombos
    <3>1. ASSUME NEW s \in Slots, At(s, "idle"), \A x \in Slots \ {s} : req'[x] = req[x]
          PROVE  RunsDown
      BY <3>1 DEF RunsDown
    <3>2. req \in [Slots -> ReqRow]
      BY <1>1 DEF CatalogueInv, TypeOK
    <3>3. ASSUME NEW s \in Slots, NEW agent \in Staff, NEW c \in CourseIds,
                 \/ \E want \in RosterBodies : SyncCheck(s, agent, c, want)
                 \/ \E i \in EnrolmentIds, u \in Users, status \in Statuses :
                      UpdateEnrolment(s, agent, i, u, c, status)
                 \/ \E ids \in ComboBodies : UpdateCombo(s, agent, c, ids)
          PROVE  RunsDown
      BY <1>1, <3>1, <3>3, StartsOne
    <3>4. ASSUME NEW s \in Slots, NEW agent \in Staff, NEW ids \in ComboBodies,
                 CreateCombo(s, agent, ids)
          PROVE  RunsDown
      BY <3>1, <3>2, <3>4 DEF CreateCombo
    <3>5. UNCHANGED req => RunsDown
      BY DEF RunsDown
    <3> QED  BY <2>2, <3>3, <3>4, <3>5 
             DEF StartRoster, StartCombos, DeleteEnrolment, Buy, SetActive, CreateSingle,
                 UpdateSingle, DeleteCourse
  <2>3. CASE StartOffers \/ Quiescent \/ UNCHANGED vars
    BY <2>3 DEF StartOffers, CreateCoupon, UpdateCoupon, DeleteCoupon, OfferFrame, Quiescent,
                vars, RunsDown
  <2> QED  BY <1>1, <2>1, <2>2, <2>3 DEF Next
<1> QED  BY <1>1, CatalogueAlways, PTL DEF Spec
=============================================================================

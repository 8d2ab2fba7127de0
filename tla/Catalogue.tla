------------------------------- MODULE Catalogue -------------------------------
(***************************************************************************)
(* The tables that the owners of courses edit: courses and the relation of   *)
(* combos to their children, enrolments, and coupons.  Roster, Combos and     *)
(* Offers are the handlers; CatalogueService puts them together.              *)
(***************************************************************************)
EXTENDS Integers, FiniteSets

CONSTANTS
  Slots,             \* requests in progress at once
  Users,             \* customers
  Staff, Admins,     \* who edits; the admins among them edit everybody's rows
  Terms,             \* what a course may cost and whether it is shown
  Discounts,         \* what a coupon may take off: [type, discount]
  RosterBodies,      \* bound: the lists of users a synchronisation may be sent
  ComboBodies,       \* bound: the lists of courses a combo may be sent
  SeededCourses,     \* the single courses there are at first, by id
  None,              \* no row, nothing read
  MaxCourses, MaxEnrolments, MaxCoupons, MaxEdits  \* bounds: ids, requests

CourseIds == 1..MaxCourses
EnrolmentIds == 1..MaxEnrolments
CouponIds == 1..MaxCoupons

\* What the schemas of the bodies let through, into Int columns.
TermsBodies == [price : Nat, discount : 0..100, isDraft : BOOLEAN]
OfferBodies == [type : {"PERCENT"}, discount : 0..100]
               \cup [type : {"FIXED"}, discount : Nat]

ASSUME CatalogueAssumption ==
  /\ MaxCourses \in Nat /\ MaxEnrolments \in Nat /\ MaxCoupons \in Nat
  /\ MaxEdits \in Nat /\ Admins \subseteq Staff
  /\ Terms \subseteq TermsBodies /\ Discounts \subseteq OfferBodies
  /\ RosterBodies \subseteq SUBSET Users /\ ComboBodies \subseteq SUBSET CourseIds
  /\ DOMAIN SeededCourses \subseteq CourseIds
  /\ SeededCourses \in [DOMAIN SeededCourses -> [owner : Staff, terms : Terms]]

CourseRow == [courseType : {"SINGLE", "COMBO"}, owner : Staff, terms : Terms,
              live : BOOLEAN]
Statuses == {"ACTIVE", "BLOCKED"}
EnrolmentRow == [course : CourseIds, user : Users, status : Statuses, live : BOOLEAN]
\* `usable`: active, and now is between its dates.
CouponRow == [owner : Staff, offer : Discounts, usable : BOOLEAN, live : BOOLEAN]

ASSUME NoneAssumption ==
  None \notin CourseRow \cup EnrolmentRow \cup CouponRow \cup Staff

VARIABLES
  course,      \* Course rows by id, deleted ones included
  children,    \* the relation ComboCourses: pairs of a combo and a child
  enrolment,   \* CourseEnrollment rows by id, deleted ones included
  active,      \* the users who are neither blocked nor deleted
  coupon,      \* Coupon rows by id
  req,         \* requests in progress
  updated,     \* history: the combos whose children have been updated
  edits        \* requests so far, at most MaxEdits

vars == <<course, children, enrolment, active, coupon, req, updated, edits>>

Pcs == {"idle", "read", "readUsers", "readRoster", "sync", "move",
        "entry", "insertCombo", "expand", "reshape"}

Inserted == [id : EnrolmentIds, user : Users]

\* The request's agent and body (a course, a row, a user, a status, the users or
\* courses wanted); `from`, the course a row was of; what it has read (rows and users,
\* or a combo's children and what it is to be connected to); what its open
\* transaction has added, and the rows it has locked to drop or change.
ReqRow == [pc : Pcs, agent : Staff \cup {None}, course : 0..MaxCourses,
           row : 0..MaxEnrolments, user : Users \cup {None}, from : 0..MaxCourses,
           status : Statuses, want : SUBSET Users, ids : SUBSET CourseIds,
           seen : SUBSET Inserted, present : SUBSET Users,
           below : SUBSET CourseIds, connect : SUBSET CourseIds,
           added : SUBSET Inserted, held : SUBSET EnrolmentIds]

IdleReq == [pc |-> "idle", agent |-> None, course |-> 0, row |-> 0, user |-> None,
            from |-> 0, status |-> "ACTIVE", want |-> {}, ids |-> {}, seen |-> {}, present |-> {},
            below |-> {}, connect |-> {}, added |-> {}, held |-> {}]

Init ==
  /\ course = [c \in CourseIds |->
       IF c \in DOMAIN SeededCourses
       THEN [courseType |-> "SINGLE", owner |-> SeededCourses[c].owner,
             terms |-> SeededCourses[c].terms, live |-> TRUE]
       ELSE None]
  /\ children = {} /\ enrolment = [i \in EnrolmentIds |-> None]
  /\ active = Users /\ coupon = [k \in CouponIds |-> None]
  /\ req = [s \in Slots |-> IdleReq]
  /\ updated = {} /\ edits = 0

-----------------------------------------------------------------------------
Lesser(x, y) == IF x < y THEN x ELSE y
At(s, pc) == req[s].pc = pc
Finish(s) == req' = [req EXCEPT ![s] = IdleReq]
Begin == edits < MaxEdits /\ edits' = edits + 1

LiveCourse(c) == c \in CourseIds /\ course[c] # None /\ course[c].live
Published(c) == LiveCourse(c) /\ ~ course[c].terms.isDraft
\* The filter createdById, which admins are spared.
Owns(agent, c) == agent \in Admins \/ course[c].owner = agent

LiveRow(i) == i \in EnrolmentIds /\ enrolment[i] # None /\ enrolment[i].live
Roster(c) == {i \in EnrolmentIds : LiveRow(i) /\ enrolment[i].course = c}
Students(c) == {enrolment[i].user : i \in Roster(c)}

\* Rows take the next id; past a bound the request is dropped.
FreeCourses == {c \in CourseIds : course[c] = None}
NewCourse == CHOOSE c \in FreeCourses : \A x \in FreeCourses : c <= x
=============================================================================

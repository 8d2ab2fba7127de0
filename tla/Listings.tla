-------------------------------- MODULE Listings --------------------------------
(***************************************************************************)
(* What the lists and the details of the catalogue show to whom: courses to   *)
(* customers and to their owners, the list of bought courses with its raw     *)
(* query, enrolments and coupons to agents, and the pages of a list.           *)
(* Searches by words and by kind of coupon are left out.                        *)
(***************************************************************************)
EXTENDS Catalogue, Sequences

\* Limits on the price and a course to leave out, 0 where there is none; the owner and
\* whether drafts or published courses are asked for, None where it does not matter.
CourseQueries == [minPrice : Nat, maxPrice : Nat, skipCourseId : 0..MaxCourses,
                  owner : Staff \cup {None}, isDraft : BOOLEAN \cup {None}]
NoFilter == [minPrice |-> 0, maxPrice |-> 0, skipCourseId |-> 0, owner |-> None,
             isDraft |-> None]
RowQueries == [course : 0..MaxCourses, user : Users \cup {None}]
AllRows == [course |-> 0, user |-> None]

InPriceRange(c, q) ==
  /\ q.minPrice = 0 \/ course[c].terms.price >= q.minPrice
  /\ q.maxPrice = 0 \/ course[c].terms.price <= q.maxPrice

\* generateFilter: the owner asked for counts for admins alone.
OfOwnerAsked(agent, c, q) ==  \* mutant: it counts for everybody
  IF q.owner # None THEN course[c].owner = q.owner
  ELSE agent \in Admins \/ course[c].owner = agent
OfOwner(agent, c, q) ==
  IF agent \in Admins THEN q.owner = None \/ course[c].owner = q.owner
  ELSE course[c].owner = agent

ManagedCourses(agent, q) ==
  {c \in CourseIds : /\ LiveCourse(c) /\ OfOwner(agent, c, q) /\ InPriceRange(c, q)
                     /\ q.isDraft \in {None, course[c].terms.isDraft}
                     /\ c # q.skipCourseId}
PublicCourses(q) ==
  {c \in CourseIds : Published(c) /\ InPriceRange(c, q) /\ c # q.skipCourseId}

\* The list of bought courses joins live enrolments; its total counts courses with any
\* enrolment of the customer.  The list does not leave a course out, the total does.
BoughtRows(u, q) ==
  {i \in EnrolmentIds : /\ LiveRow(i) /\ enrolment[i].user = u
                        /\ Published(enrolment[i].course)
                        /\ InPriceRange(enrolment[i].course, q)}
BoughtCounted(u, q) ==
  {c \in PublicCourses(q) :
     \E i \in EnrolmentIds : enrolment[i] # None /\ enrolment[i].user = u
                             /\ enrolment[i].course = c}
\* In order of enrolment: the n-th course is that of the row of rank n.
Rank(i, rows) == Cardinality({j \in rows : j <= i})
Bought(u, q) ==
  LET rows == BoughtRows(u, q)
  IN [n \in 1..Cardinality(rows) |->
        enrolment[CHOOSE i \in rows : Rank(i, rows) = n].course]

\* skip and take, and Math.ceil.
Page(list, page, limit) ==
  SubSeq(list, (page - 1) * limit + 1, Lesser(page * limit, Len(list)))
FullPages(total, limit) == total \div limit  \* mutant: the last page is lost
TotalPages(total, limit) == (total + limit - 1) \div limit

\* getDetailForAdmin; canAccessCourse for a customer.
ManagedDetail(agent, c) == LiveCourse(c) /\ Owns(agent, c)
CanAccessCourse(u, c) ==
  Published(c) /\ \E i \in Roster(c) : enrolment[i].user = u /\ enrolment[i].status = "ACTIVE"

\* listStudents and getStudentDetail: rows of deleted courses too.
RowFilter(i, q) ==
  q.course \in {0, enrolment[i].course} /\ q.user \in {None, enrolment[i].user}
ManagedRows(agent, q) ==
  {i \in EnrolmentIds : LiveRow(i) /\ Owns(agent, enrolment[i].course) /\ RowFilter(i, q)}
RowDetail(agent, i) == LiveRow(i) /\ Owns(agent, enrolment[i].course)

\* getCoupons and getCoupon.
ManagedCoupons(agent) ==
  {k \in CouponIds : /\ coupon[k] # None /\ coupon[k].live
                     /\ agent \in Admins \/ coupon[k].owner = agent}
CouponDetail(agent, k) ==
  /\ coupon[k] # None /\ coupon[k].live
  /\ agent \in Admins \/ coupon[k].owner = agent
=============================================================================

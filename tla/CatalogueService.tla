--------------------------- MODULE CatalogueService ---------------------------
(***************************************************************************)
(* The roster, the combos, the offers and the lists of one catalogue.         *)
(***************************************************************************)
EXTENDS Roster, Combos, Offers, Listings
LOCAL INSTANCE Doubles

Continue(s) == ContinueRoster(s) \/ ContinueCombos(s)

\* MaxEdits bounds the model, not the service: past it, no behaviour need go on.
Quiescent == edits = MaxEdits /\ UNCHANGED vars

Next ==
  \/ StartRoster \/ StartCombos \/ StartOffers
  \/ \E s \in Slots : Continue(s)
  \/ Quiescent

Spec == Init /\ [][Next]_vars

\* Node runs on whatever request can run on.
FairSpec == Spec /\ \A s \in Slots : WF_vars(Continue(s))

-----------------------------------------------------------------------------
(* Properties *)

\* Rows and requests have their shape; only combos have children, and both exist.
TypeOK ==
  /\ course \in [CourseIds -> CourseRow \cup {None}]
  /\ \A p \in children : /\ p \in CourseIds \X CourseIds
                         /\ course[p[1]] # None /\ course[p[2]] # None
                         /\ IsCombo(p[1])
  /\ enrolment \in [EnrolmentIds -> EnrolmentRow \cup {None}]
  /\ active \subseteq Users /\ updated \subseteq CourseIds
  /\ coupon \in [CouponIds -> CouponRow \cup {None}]
  /\ req \in [Slots -> ReqRow] /\ edits \in 0..MaxEdits

Commits(s) == At(s, "sync") /\ At(s, "idle")' /\ enrolment' # enrolment

\* A synchronisation takes a student off the roster only if it has seen that very
\* student there and was not asked to keep him, and puts on it only whom it was
\* asked to: a purchase or a move by somebody else in between is left alone
\* (student.repo.ts createCourseEnrollment).
SyncSparesTheUnseen ==
  [][\A s \in Slots : Commits(s) =>
       \A c \in CourseIds :
         LET lost == Students(c) \ Students(c)'
             gained == Students(c)' \ Students(c)
         IN /\ c # req[s].course => lost = {} /\ gained = {}
            /\ lost \subseteq SeenUsers(s) \ req[s].want
            /\ gained \subseteq req[s].want]_vars

\* If all it has read still holds, the roster is the one asked for, as far as its
\* students are neither blocked nor deleted.
ReadsHold(s) ==
  /\ SeenUsers(s) = Students(req[s].course) \cap active
  /\ req[s].present = req[s].want \cap active
SyncGivesTheRoster ==
  [][\A s \in Slots, c \in CourseIds :
       /\ At(s, "sync") /\ req[s].course = c /\ Written(s) /\ ReadsHold(s)
       /\ At(s, "idle")'
       => Students(c)' \cap active = req[s].want \cap active]_vars

\* A teacher's request changes a row of another's course only if the row has got
\* there since the request looked (student.repo.ts updateCourseEnrollment).
OwnersEditTheirs ==
  [][\A s \in Slots, i \in EnrolmentIds :
       /\ ~ At(s, "idle") /\ At(s, "idle")' /\ LiveRow(i)
       /\ enrolment'[i] # enrolment[i]
       => \/ Owns(req[s].agent, enrolment[i].course)
          \/ At(s, "entry") /\ req[s].from # enrolment[i].course]_vars

\* Who buys a combo is enrolled in its children, one level down
\* (payment.repo.ts:111): as long as no combo has been updated, that is all there
\* is below, however combos of combos were created.
NestedInFull ==
  updated = {} =>
    \A p, c, d \in CourseIds :
      <<p, c>> \in children /\ <<c, d>> \in children => <<p, d>> \in children

\* The price less the discount shown, and the charge: one formula divides before it
\* subtracts, the other after.
Difference(x, y) == IF Smaller(x, y) THEN Less(y, x) ELSE Less(x, y)
InQuarters(terms, offer) ==
  /\ terms.discount % 25 = 0
  /\ offer.type = "PERCENT" => offer.discount % 25 = 0
AgreeOn(terms, offer) ==
  LET off == Difference(Plus(TotalPrice(terms, offer), DiscountAmount(terms, offer)),
                        CoursePrice(terms))
  IN /\ \A e \in off : e < -10
     /\ InQuarters(terms, offer) => off = {}
Agreed == [terms \in Terms, offer \in Discounts |-> AgreeOn(terms, offer)]

\* A coupon that validateCoupon shows a discount of is accepted by createOrder, and the
\* charge is the price less that discount, to less than a thousandth: to the last digit
\* if all percentages are quarters, not otherwise (100000 at 34% is shown as 66000 and
\* charged as 65999.99999999999: coupon.repo.ts:117, helpers.ts:88).
PreviewIsCharged ==
  \A k \in CouponIds, c \in CourseIds :
    Validated(k, c) => Accepted(k, c) /\ Agreed[course[c].terms, coupon[k].offer]

\* An agent is listed, and shown in detail, just what he may edit, whatever owner he
\* asks for.
ListedIsEditable ==
  \A agent \in Staff :
    /\ ManagedCourses(agent, NoFilter) = {c \in CourseIds : ManagedDetail(agent, c)}
    /\ \A owner \in Staff, c \in CourseIds :
         c \in ManagedCourses(agent, [NoFilter EXCEPT !.owner = owner])
           => Owns(agent, c) /\ course[c].owner = IF agent \in Admins THEN owner ELSE agent
    /\ ManagedRows(agent, AllRows) = {i \in EnrolmentIds : RowDetail(agent, i)}
    /\ \A c \in CourseIds \ FreeCourses :
         ManagedRows(agent, [AllRows EXCEPT !.course = c]) =
           IF Owns(agent, c) THEN Roster(c) ELSE {}
    /\ \A i \in EnrolmentIds, c \in CourseIds :
         Movable(agent, i, c) <=>
           i \in ManagedRows(agent, AllRows) /\ c \in ManagedCourses(agent, NoFilter)
    /\ ManagedCoupons(agent) = {k \in CouponIds : CouponDetail(agent, k)}
    /\ ManagedCoupons(agent) = {k \in CouponIds : Editable(agent, k)}

\* Page and place on so many pages of a list where a course is.
Places(list, pages, limit, c) ==
  {x \in (1..pages) \X (1..limit) :
     LET page == Page(list, x[1], limit)
     IN x[2] \in DOMAIN page /\ page[x[2]] = c}
Blocked(u, c) ==
  Published(c) /\ \E i \in Roster(c) : enrolment[i].user = u /\ enrolment[i].status = "BLOCKED"
FoundOnce(u, q, limit) ==
  LET list == Bought(u, q)
      pages == TotalPages(Cardinality(BoughtCounted(u, q)), limit)
  IN \A c \in CourseIds :
       LET found == Cardinality(Places(list, pages, limit, c))
       IN /\ CanAccessCourse(u, c) /\ InPriceRange(c, q) => found = 1
          /\ found # 0 => /\ found = 1 /\ InPriceRange(c, q)
                          /\ CanAccessCourse(u, c) \/ Blocked(u, c)

\* Up to the last page that the list of bought courses announces, a customer finds every
\* course that opens for him, of the price asked for, once; and no other one but those
\* in which he is blocked, also once, which do not open (course.repo.ts:296 looks at no
\* status, :847 does): however his enrolments have been moved, blocked, removed and
\* made again.
BoughtIsReachable ==
  \A u \in Users, maxPrice \in {0} \cup {terms.price : terms \in Terms}, limit \in 1..2 :
    FoundOnce(u, [NoFilter EXCEPT !.maxPrice = maxPrice], limit)

\* Every request ends, also when two of them, synchronisations or changes of a row, wait for
\* one another's rows and index entries (student.repo.ts:317, :415).
EditsEnd == \A s \in Slots : ~ At(s, "idle") ~> At(s, "idle")
=============================================================================

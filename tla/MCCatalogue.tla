------------------------------ MODULE MCCatalogue ------------------------------
(* Instances of CatalogueService for TLC. *)
EXTENDS CatalogueService

CONSTANTS a, t, u1, u2, s1, s2

\* A price that doubles round differently in the two formulas, and a lower one, also of
\* drafts, that is exact; a percentage, and a discount above the lower price.
OnSale == [price |-> 100000, discount |-> 34, isDraft |-> FALSE]
Cheap == [price |-> 29, discount |-> 25, isDraft |-> FALSE]
MCTerms == {OnSale, Cheap, [Cheap EXCEPT !.isDraft = TRUE]}
MCDiscounts == {[type |-> "FIXED", discount |-> 66000], [type |-> "PERCENT", discount |-> 50]}

\* A teacher's course and the admin's.
MCSeededCourses == << [owner |-> t, terms |-> OnSale],
                      [owner |-> a, terms |-> Cheap] >>

\* As Node computes them.
ASSUME KnownAmounts ==
  LET none == [type |-> "PERCENT", discount |-> 0]
  IN /\ CoursePrice(OnSale) = {4, 6, 7, 8, 16}                        \* 66000
     /\ TotalPrice(OnSale, none) = (-36..3) \cup {6, 7, 8, 16}        \* 65999.99999999999

\* More amounts: both formulas round alike, and the largest price an Int holds.
ASSUME OtherAmounts ==
  \A terms \in {[OnSale EXCEPT !.price = 299000, !.discount = 15],
                [OnSale EXCEPT !.price = 2147483647, !.discount = 7]},
     offer \in {[type |-> "PERCENT", discount |-> 29], [type |-> "PERCENT", discount |-> 50],
                [type |-> "FIXED", discount |-> 2], [type |-> "FIXED", discount |-> 66000]} :
    AgreeOn(terms, offer)

\* Two lists of students of which one has more; a combo of the singles, and one of a
\* single and the first combo.
MCRosterBodies == {{u1}, {u1, u2}}
MCComboBodies == {{1, 2}, {2, 3}}
=============================================================================

-------------------------------- MODULE Offers --------------------------------
(***************************************************************************)
(* Coupons as their owners edit them, what validateCoupon tells a customer of *)
(* one, and what createOrder charges: two functions of the same price and      *)
(* discounts, each with the roundings of its own formula.                      *)
(***************************************************************************)
EXTENDS Catalogue
LOCAL INSTANCE Doubles

OfferFrame == <<course, children, enrolment, active, req, updated>>

FreeCoupons == {k \in CouponIds : coupon[k] = None}
NewCoupon == CHOOSE k \in FreeCoupons : \A x \in FreeCoupons : k <= x

CreateCoupon(agent, offer, usable) ==
  /\ Begin /\ FreeCoupons # {}
  /\ coupon' = [coupon EXCEPT ![NewCoupon] =
       [owner |-> agent, offer |-> offer, usable |-> usable, live |-> TRUE]]
  /\ UNCHANGED OfferFrame

LiveCoupon(k) == coupon[k] # None /\ coupon[k].live
Editable(agent, k) == LiveCoupon(k) /\ (agent \in Admins \/ coupon[k].owner = agent)

UpdateCoupon(agent, k, offer, usable) ==
  /\ Begin /\ Editable(agent, k)
  /\ coupon' = [coupon EXCEPT ![k].offer = offer, ![k].usable = usable]
  /\ UNCHANGED OfferFrame

DeleteCoupon(agent, k) ==
  /\ Begin /\ Editable(agent, k)
  /\ coupon' = [coupon EXCEPT ![k].live = FALSE]
  /\ UNCHANGED OfferFrame

StartOffers ==
  \E agent \in Staff :
    \/ \E offer \in Discounts, usable \in BOOLEAN :
         \/ CreateCoupon(agent, offer, usable)
         \/ \E k \in CouponIds : UpdateCoupon(agent, k, offer, usable)
    \/ \E k \in CouponIds : DeleteCoupon(agent, k)

-----------------------------------------------------------------------------
\* A coupon is for the courses of its owner, an admin's for all.
Applies(k, c) == coupon[k].owner \in Admins \/ coupon[k].owner = course[c].owner

\* validateCoupon
Validated(k, c) == LiveCoupon(k) /\ coupon[k].usable /\ Published(c) /\ Applies(k, c)
CoursePrice(terms) == Times(OfNat(terms.price), Over(OfNat(100 - terms.discount), 100))
DiscountUncut(terms, offer) ==  \* mutant: without Math.min
  IF offer.type = "PERCENT"
  THEN Over(Times(CoursePrice(terms), OfNat(offer.discount)), 100)
  ELSE OfNat(offer.discount)
DiscountAmount(terms, offer) ==
  LET price == CoursePrice(terms)  discount == OfNat(offer.discount)
  IN IF offer.type = "PERCENT" THEN Over(Times(price, discount), 100)
     ELSE IF Smaller(discount, price) THEN discount ELSE price

\* createOrder: it looks neither at the coupon's deletion nor at the course's.
Accepted(k, c) == coupon[k] # None /\ coupon[k].usable /\ course[c] # None /\ Applies(k, c)

\* getTotalPrice
Reduced(price, percent) == Times(price, Minus(OfNat(1), Over(OfNat(percent), 100)))
TotalPrice(terms, offer) ==
  LET price == Reduced(OfNat(terms.price), terms.discount)
      discount == OfNat(offer.discount)
  IN IF offer.type = "PERCENT" THEN Reduced(price, offer.discount)
     ELSE IF Smaller(price, discount) THEN {} ELSE Minus(price, discount)
=============================================================================

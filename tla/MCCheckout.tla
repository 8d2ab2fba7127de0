----------------------------- MODULE MCCheckout -----------------------------
(* Instances of Checkout for TLC. *)
EXTENDS Checkout, TLC

CONSTANTS A, B, K, L, t1, t2, s1, s2, free

\* K and L are combos of A and B, as far as those are among the Courses.
MCChildren == [c \in Courses |-> IF c \in {K, L} THEN Courses \cap {A, B} ELSE {}]
MCPrices == {2}
FreePrices == {0}
MCPricesEdited == {1, 2}
MCAmounts == {0, 2}
MCAmountsEdited == {0, 1, 2}

\* The coupon `free` takes everything off.
MCTotalPrice == [pk \in Prices \X (Coupons \cup {None}) |->
                   IF pk[2] = None THEN pk[1] ELSE 0]
MCCouponFor == Coupons \X Courses
MCManaged == Users \X {A}
NoManaged == {}

SymSlots == Permutations(Slots)
SymTxSlots == Permutations(Slots) \cup Permutations(TxIds)
=============================================================================

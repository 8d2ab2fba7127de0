-------------------------------- MODULE Doubles --------------------------------
(***************************************************************************)
(* External: the arithmetic of JavaScript's numbers, IEEE 754 doubles, as far *)
(* as amounts need it.  A number, never negative here, is the set of the       *)
(* exponents of the powers of two that it is the sum of: {} is 0, {0, 2} is 5, *)
(* {-1} is a half.  Exponents stay far from the ends of a double's range.      *)
(***************************************************************************)
EXTENDS Integers, FiniteSets
LOCAL INSTANCE FiniteSetsExt

Bit(x, e) == IF e \in x THEN 1 ELSE 0
OfNat(n) == {e \in 0..30 : (n \div 2^e) % 2 = 1}
Smaller(x, y) == x # y /\ Max((x \ y) \cup (y \ x)) \in y

\* The number with count[e] times 2^e, for whole counts, negative ones too.
Carried(count, low, high) ==
  LET carry[e \in low..high] ==
        IF e = low THEN 0 ELSE (count[e - 1] + carry[e - 1]) \div 2
  IN {e \in low..high : (count[e] + carry[e]) % 2 = 1}

-----------------------------------------------------------------------------
(* Exactly *)

Plus(x, y) ==
  IF x \cup y = {} THEN {}
  ELSE LET low == Min(x \cup y)  high == Max(x \cup y) + 1
       IN Carried([e \in low..high |-> Bit(x, e) + Bit(y, e)], low, high)

\* for y that is not above x
Less(x, y) ==
  IF x = {} THEN {}
  ELSE LET low == Min(x \cup y)  high == Max(x)
       IN Carried([e \in low..high |-> Bit(x, e) - Bit(y, e)], low, high)

Product(x, y) ==
  IF x = {} \/ y = {} THEN {}
  ELSE LET low == Min(x) + Min(y)  high == Max(x) + Max(y) + 1
       IN Carried([e \in low..high |-> Cardinality({f \in x : e - f \in y})], low, high)

\* The quotient of a double and a number up to 100, as far down as rounding looks: below,
\* one digit stands for all that follow.
Quotient(x, n) ==
  IF x = {} THEN {}
  ELSE LET high == Max(x)  low == high - 64
           rest[e \in low..high + 1] ==
             IF e > high THEN 0 ELSE (2 * rest[e + 1] + Bit(x, e)) % n
       IN {e \in low..high : 2 * rest[e + 1] + Bit(x, e) >= n}
          \cup (IF rest[low] = 0 THEN {} ELSE {low - 1})

-----------------------------------------------------------------------------
(* Rounded to 53 digits, and between two to the even one *)

Rounded(x) ==
  IF x = {} \/ Max(x) - Min(x) <= 52 THEN x
  ELSE LET last == Max(x) - 52
           kept == {e \in x : e >= last}
           up == last - 1 \in x /\ (last \in x \/ \E e \in x : e < last - 1)
       IN IF up THEN Plus(kept, {last}) ELSE kept

Times(x, y) == Rounded(Product(x, y))
Minus(x, y) == Rounded(Less(x, y))
Over(x, n) == Rounded(Quotient(x, n))
=============================================================================

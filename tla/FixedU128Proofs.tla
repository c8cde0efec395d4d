--------------------------- MODULE FixedU128Proofs ---------------------------
(***************************************************************************)
(* What the provers need to know about fixed-point arithmetic: results are *)
(* natural numbers, and rounding is always downwards.                      *)
(***************************************************************************)
EXTENDS FixedU128, TLAPS

(* Division with remainder: the quotient is a natural number and the       *)
(* product with the divisor does not exceed the dividend.                  *)
LEMMA DivFloor ==
  ASSUME NEW n \in Nat, NEW d \in Nat \ {0}
  PROVE  /\ n \div d \in Nat
         /\ (n \div d) * d <= n
         /\ n < (n \div d + 1) * d
  OBVIOUS

(* A product of naturals is a natural. *)
LEMMA MulNat ==
  ASSUME NEW m \in Nat, NEW n \in Nat
  PROVE  m * n \in Nat
  OBVIOUS

(* Multiplication by a natural keeps an inequality. *)
LEMMA MulMono ==
  ASSUME NEW m \in Nat, NEW n \in Nat, NEW k \in Nat, m <= n
  PROVE  m * k <= n * k
  OBVIOUS

(* A positive factor can be cancelled. *)
LEMMA MulCancel ==
  ASSUME NEW m \in Nat, NEW n \in Nat, NEW k \in Nat \ {0}, m * k <= n * k
  PROVE  m <= n
  OBVIOUS

(* saturating_mul_int of natural arguments is a natural number. *)
LEMMA MulIntNat ==
  ASSUME NEW r \in Nat, NEW n \in Nat
  PROVE  MulInt(r, n) \in Nat
  BY MulNat, DivFloor, OneAssumption DEF MulInt

(* checked_from_rational is a natural number for a positive denominator. *)
LEMMA FromRationalNat ==
  ASSUME NEW n \in Nat, NEW d \in Nat \ {0}
  PROVE  FromRational(n, d) \in Nat
  BY MulNat, DivFloor, OneAssumption DEF FromRational

LEMMA MulFixedNat ==
  ASSUME NEW a \in Nat, NEW b \in Nat
  PROVE  MulFixed(a, b) \in Nat
  BY MulNat, DivFloor, OneAssumption DEF MulFixed

(* Scaling x by the ratio g / n, rounded twice, never exceeds the exact    *)
(* value.                                                                  *)
LEMMA ScaledDown ==
  ASSUME NEW g \in Nat, NEW n \in Nat \ {0}, NEW x \in Nat
  PROVE  MulInt(FromRational(g, n), x) * n <= g * x
<1> DEFINE q == FromRational(g, n)
           r == MulInt(q, x)
<1>1. q \in Nat /\ r \in Nat
  BY FromRationalNat, MulIntNat
<1>2. q * n <= g * One
  BY MulNat, DivFloor, OneAssumption DEF FromRational
<1>3. r * One <= q * x
  BY <1>1, MulNat, DivFloor, OneAssumption DEF MulInt
<1> HIDE DEF q, r
<1>4. (r * One) * n <= (q * x) * n
  BY <1>1, <1>3, MulMono, MulNat, OneAssumption
<1>5. (q * n) * x <= (g * One) * x
  BY <1>1, <1>2, MulMono, MulNat, OneAssumption
<1>6. (q * x) * n = (q * n) * x /\ (r * One) * n = (r * n) * One
      /\ (g * One) * x = (g * x) * One
  BY <1>1, OneAssumption
<1>7. (r * n) * One <= (g * x) * One
  BY <1>1, <1>4, <1>5, <1>6, MulNat, OneAssumption
<1>8. r * n <= g * x
  BY <1>1, <1>7, MulCancel, MulNat, OneAssumption
<1> QED
  BY <1>8 DEF r, q
=============================================================================

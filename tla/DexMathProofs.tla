---------------------------- MODULE DexMathProofs ----------------------------
(***************************************************************************)
(* The price formulas of the DEX satisfy the constant-product check that   *)
(* get_target_amounts and get_supply_amounts make on their result, for     *)
(* every fee below one and every pool.  The check can therefore never      *)
(* reject a swap; it is there for defence only.                            *)
(***************************************************************************)
EXTENDS DexMath, FixedU128Proofs

Fee == FeeDenominator - FeeNumerator

(* the share of the supply that is traded is positive and at most all of it *)
LEMMA FeeNat == Fee \in Nat \ {0} /\ Fee <= FeeDenominator /\ FeeDenominator \in Nat \ {0}
  BY FeeAssumption DEF Fee

(* The target is a natural number, below the target pool when there is one, *)
(* and its product with the denominator is at most the numerator.           *)
LEMMA TargetBounds ==
  ASSUME NEW sp \in Nat, NEW tp \in Nat, NEW s \in Nat
  PROVE  LET t == get_target_amount(sp, tp, s)
         IN /\ t \in Nat
            /\ t <= tp
            /\ t # 0 => t < tp /\ s # 0 /\ sp # 0
            /\ t # 0 => t * (sp * FeeDenominator + s * Fee) <= (s * Fee) * tp
<1> DEFINE t == get_target_amount(sp, tp, s)
           w == s * Fee
           d == sp * FeeDenominator + w
<1>1. CASE s = 0 \/ sp = 0 \/ tp = 0
  BY <1>1 DEF get_target_amount
<1>2. CASE ~(s = 0 \/ sp = 0 \/ tp = 0)
  <2>1. w \in Nat /\ sp * FeeDenominator \in Nat \ {0}
    BY <1>2, FeeNat, MulNat
  <2>2. d \in Nat \ {0} /\ d > w
    BY <2>1
  <2>3. t = (w * tp) \div d
    BY <1>2 DEF get_target_amount, Fee
  <2> HIDE DEF w, d, t
  <2>4. w * tp \in Nat
    BY <2>1, MulNat
  <2>5. t \in Nat /\ t * d <= w * tp
    BY <2>2, <2>3, <2>4, DivFloor
  <2>6. t < tp
    <3> SUFFICES ASSUME tp <= t PROVE FALSE
      BY <2>5
    <3>1. tp * d <= t * d
      BY <2>2, <2>5, MulMono
    <3>2. w * tp < d * tp
      BY <1>2, <2>1, <2>2
    <3> QED
      BY <2>1, <2>2, <2>4, <2>5, <3>1, <3>2
  <2> QED
    BY <1>2, <2>5, <2>6 DEF d, w, t
<1> QED
  BY <1>1, <1>2

(* get_target_amount never lowers the product of the pools: the ensure! on *)
(* the invariant in get_target_amounts cannot fail.                        *)
THEOREM TargetKeepsInvariant ==
  ASSUME NEW sp \in Nat, NEW tp \in Nat, NEW s \in Nat
  PROVE  InvariantHolds(sp, tp, s, get_target_amount(sp, tp, s))
<1> DEFINE t == get_target_amount(sp, tp, s)
<1>1. t \in Nat /\ t <= tp /\ (t # 0 => t * (sp * FeeDenominator + s * Fee) <= (s * Fee) * tp)
  BY TargetBounds
<1> HIDE DEF t
<1> SUFFICES (sp + s) * (tp - t) >= sp * tp
  BY <1>1 DEF InvariantHolds, Monus, t
<1>2. CASE t = 0
  <2>1. sp * tp <= (sp + s) * tp
    BY MulMono
  <2> QED
    BY <1>2, <2>1
<1>3. CASE t # 0
  <2> DEFINE r == tp - t
  <2>1. r \in Nat /\ tp = t + r
    BY <1>1
  <2> HIDE DEF r
  <2>2. t * (sp * FeeDenominator) + t * (s * Fee) <= (s * Fee) * t + (s * Fee) * r
    BY <1>1, <1>3, <2>1, FeeNat
  <2>3. (t * sp) * FeeDenominator <= (s * r) * Fee
    BY <1>1, <2>1, <2>2, FeeNat
  <2>4. (s * r) * Fee <= (s * r) * FeeDenominator
    BY <2>1, FeeNat, MulNat, MulMono
  <2>5. t * sp <= s * r
    BY <1>1, <2>1, <2>3, <2>4, FeeNat, MulNat, MulCancel
  <2>6. (sp + s) * r = sp * r + s * r /\ sp * tp = sp * r + t * sp
    BY <1>1, <2>1
  <2> QED
    BY <1>1, <2>1, <2>5, <2>6, MulNat DEF r
<1> QED
  BY <1>2, <1>3

(* get_supply_amount, rounded up, never lowers the product of the pools. *)
THEOREM SupplyKeepsInvariant ==
  ASSUME NEW sp \in Nat, NEW tp \in Nat, NEW t \in Nat, get_supply_amount(sp, tp, t) # 0
  PROVE  /\ get_supply_amount(sp, tp, t) \in Nat
         /\ InvariantHolds(sp, tp, get_supply_amount(sp, tp, t), t)
<1> DEFINE s == get_supply_amount(sp, tp, t)
           r == tp - t
           q == (sp * t * FeeDenominator) \div (r * Fee)
<1>1. t # 0 /\ sp # 0 /\ t < tp
  BY DEF get_supply_amount
<1>2. s = q + 1
  BY <1>1 DEF get_supply_amount, Fee
<1>3. r \in Nat \ {0} /\ tp = t + r
  BY <1>1
<1>4. r * Fee \in Nat \ {0} /\ sp * t * FeeDenominator \in Nat
  BY <1>3, FeeNat, MulNat
<1>5. q \in Nat /\ sp * t * FeeDenominator < (q + 1) * (r * Fee)
  BY <1>4, DivFloor
<1> HIDE DEF s, r, q
<1>6. (sp * t) * Fee <= (sp * t) * FeeDenominator
  BY FeeNat, MulNat, MulMono
<1>7. (sp * t) * Fee <= (s * r) * Fee
  BY <1>2, <1>3, <1>5, <1>6, FeeNat, MulNat
<1>8. sp * t <= s * r
  BY <1>2, <1>3, <1>5, <1>7, FeeNat, MulNat, MulCancel
<1>9. (sp + s) * r = sp * r + s * r /\ sp * tp = sp * t + sp * r
  BY <1>2, <1>3, <1>5
<1>10. (sp + s) * r >= sp * tp
  BY <1>2, <1>3, <1>5, <1>8, <1>9, MulNat
<1> QED
  BY <1>1, <1>2, <1>5, <1>10 DEF InvariantHolds, Monus, s, r
=============================================================================

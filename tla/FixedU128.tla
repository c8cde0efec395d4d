------------------------------ MODULE FixedU128 ------------------------------
(***************************************************************************)
(* The fixed-point numbers of the runtime: Price, ExchangeRate, Ratio and  *)
(* Rate are all FixedU128 (modules/support/src/lib.rs).  A fixed-point     *)
(* number is represented by its inner integer; One is the inner value of   *)
(* 1 (10^18 in the runtime, a small number in the models).  Every          *)
(* conversion rounds towards zero, as sp-arithmetic does.  The amounts of  *)
(* the models stay far below 2^128, so saturation never happens.           *)
(***************************************************************************)
EXTENDS Integers

CONSTANT One

ASSUME OneAssumption == One \in Nat \ {0}

(* r.saturating_mul_int(n) and r.checked_mul_int(n) *)
MulInt(r, n) == (r * n) \div One

(* FixedU128::checked_from_rational(n, d); None when d = 0 is left to the caller *)
FromRational(n, d) == (n * One) \div d

(* a.saturating_mul(b) of two fixed-point numbers *)
MulFixed(a, b) == (a * b) \div One

(* r.saturating_mul_acc_int(n) = n + r * n *)
MulAccInt(r, n) == n + MulInt(r, n)

Least(a, b) == IF a <= b THEN a ELSE b

Greatest(a, b) == IF a >= b THEN a ELSE b

(* a.saturating_sub(b) of unsigned integers *)
Monus(a, b) == IF a >= b THEN a - b ELSE 0
=============================================================================

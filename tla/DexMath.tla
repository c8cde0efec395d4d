------------------------------- MODULE DexMath -------------------------------
(***************************************************************************)
(* The constant-product price formulas of module_dex, for one pool.  Used  *)
(* by the DEX itself (module Dex) and by the CDP treasury's swaps.         *)
(* A result of 0 stands for the error the code returns instead.            *)
(***************************************************************************)
EXTENDS FixedU128

CONSTANTS FeeNumerator, FeeDenominator   \* GetExchangeFee

ASSUME FeeAssumption ==
  /\ FeeNumerator \in Nat /\ FeeDenominator \in Nat \ {0}
  /\ FeeNumerator < FeeDenominator

get_target_amount(supplyPool, targetPool, supply) ==
  IF supply = 0 \/ supplyPool = 0 \/ targetPool = 0 THEN 0
  ELSE LET withFee == supply * (FeeDenominator - FeeNumerator)
       IN (withFee * targetPool) \div (supplyPool * FeeDenominator + withFee)

get_supply_amount(supplyPool, targetPool, target) ==
  IF target = 0 \/ supplyPool = 0 \/ target >= targetPool THEN 0
  ELSE (supplyPool * target * FeeDenominator)
         \div ((targetPool - target) * (FeeDenominator - FeeNumerator)) + 1

(* the ensure! on k = x * y after the swap *)
InvariantHolds(supplyPool, targetPool, supply, target) ==
  (supplyPool + supply) * Monus(targetPool, target) >= supplyPool * targetPool

(* price_impact <= limit; a limit of 0 stands for None *)
WithinImpact(target, targetPool, limit) ==
  limit = 0 \/ FromRational(target, targetPool) <= limit

(* One hop of get_target_amounts and of get_supply_amounts: 0 on any error *)
TargetOf(supplyPool, targetPool, supply, limit) ==
  LET target == get_target_amount(supplyPool, targetPool, supply)
  IN IF /\ supplyPool # 0 /\ targetPool # 0
        /\ InvariantHolds(supplyPool, targetPool, supply, target)
        /\ WithinImpact(target, targetPool, limit)
     THEN target ELSE 0

SupplyOf(supplyPool, targetPool, target, limit) ==
  LET supply == get_supply_amount(supplyPool, targetPool, target)
  IN IF /\ supplyPool # 0 /\ targetPool # 0
        /\ InvariantHolds(supplyPool, targetPool, supply, target)
        /\ WithinImpact(target, targetPool, limit)
     THEN supply ELSE 0
=============================================================================

---------------------------- MODULE LiquidityPool ----------------------------
(***************************************************************************)
(* What a pool of the DEX promises its liquidity providers, without saying *)
(* how amounts are computed: x and y are the two sides, shares the number  *)
(* of liquidity shares issued.                                             *)
(***************************************************************************)
EXTENDS Integers

VARIABLES x, y, shares

poolVars == <<x, y, shares>>

Init == x = 0 /\ y = 0 /\ shares = 0

(* Nobody holds a share, so there is no claim to keep. *)
Open == shares = 0 /\ shares' > 0

(* Shares are issued or redeemed: what one share is worth of either side   *)
(* does not fall, and the last share takes everything with it.             *)
Reshare ==
  /\ shares > 0 /\ shares' # shares
  /\ x' * shares >= x * shares' /\ y' * shares >= y * shares'
  /\ shares' = 0 => x' = 0 /\ y' = 0

(* A trade leaves the shares alone and does not lower the product. *)
Trade == shares' = shares /\ x' * y' >= x * y

Next == Open \/ Reshare \/ Trade

Spec == Init /\ [][Next]_poolVars
=============================================================================

------------------------------ MODULE MCHonzon ------------------------------
(* Small instances of the Honzon protocol for TLC.  One = 4: rates, ratios *)
(* and prices are multiples of 1/4.                                        *)
EXTENDS Honzon, TLC

CONSTANTS u1, u2, dot, ksm

MCParams == [interest |-> 0, liquidationRatio |-> 6, liquidationPenalty |-> 2,
             requiredRatio |-> 6, maxTotalDebitValue |-> 4]

(* The users start alike and no constant of a symmetric model names one. *)
UserSymmetry == Permutations({u1, u2})

(* one collateral type *)
MCEndowment == [k \in {dot, Stable} \X {u1, u2} |-> 3]
MCPool == (dot :> [collateral |-> 2, stable |-> 5])
MCNoPool == (dot :> [collateral |-> 0, stable |-> 0])
MCAdjustments == {<<3, 2>>, <<3, 0>>, <<-3, 0>>, <<0, -2>>, <<0, 1>>}
MCOpenClose == {<<3, 2>>, <<-1, 0>>}
MCAuthPairs == {<<u1, u2>>, <<u1, u1>>}
MCPayInterest == {<<3, 2>>, <<0, -1>>}
MCTake == {<<3, 2>>}
MCAuctionAmounts == {<<2, 0>>, <<2, 1>>}

(* interest: rates with a fraction, and a rate that doubles every block so *)
(* that nothing is rounded                                                 *)
MCInterest == [MCParams EXCEPT !.interest = 1, !.maxTotalDebitValue = 8]
MCDoubling == [MCParams EXCEPT !.interest = 4]

(* governance may make every position of price 1 unsafe *)
MCParamChoices == {[MCInterest EXCEPT !.liquidationRatio = 8]}

(* two collateral types *)
MCEndowment2 == [k \in {dot, ksm, Stable} \X {u1, u2} |-> 3]
MCPool2 == [c \in {dot, ksm} |-> [collateral |-> 0, stable |-> 0]]

=============================================================================

--------------------------- MODULE MCStakingPool ---------------------------
EXTENDS StakingPool, TLC

CONSTANTS u1, u2

MCUsers1 == {u1}
MCUsers2 == {u1, u2}
UserSymmetry == Permutations(MCUsers2)

(* ratios in units of One = 1000: keep little free, unbond to the free pool *)
LittleFree == [maxFree |-> 200, minFree |-> 100, unbondToFree |-> 300, adjustment |-> 300]
AllBonded == [maxFree |-> 0, minFree |-> 0, unbondToFree |-> 0, adjustment |-> 0]
MCParams1 == {LittleFree}
MCParams2 == {LittleFree, AllBonded}
=============================================================================

-------------------------------- MODULE MCDex --------------------------------
(* Small instances of the DEX for TLC. *)
EXTENDS Dex, TLC

CONSTANTS u1, u2, dot

UserSymmetry == Permutations({u1, u2})

MCOnePair == {<<Stable, dot>>}
MCListings == {[min |-> <<1, 1>>, target |-> <<3, 4>>, notBefore |-> 2]}
MCOffers == {<<1, 2>>, <<3, 2>>, <<2, 0>>}
(* The last one comes back to the pool it started from. *)
MCPaths == {<<Stable, dot>>, <<dot, Stable>>, <<dot, Stable, dot>>}
=============================================================================

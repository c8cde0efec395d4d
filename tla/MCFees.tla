------------------------------- MODULE MCFees -------------------------------
(* Instances of Fees for TLC. *)
EXTENDS Fees, TLC

MCNative == "alice" :> 5 @@ "bob" :> 1 @@ "carol" :> 1 @@ Pot :> 1 @@ Treasury :> 1 @@ DexAccount :> 20
MCStable == "alice" :> 0 @@ "bob" :> 3 @@ "carol" :> 0 @@ DexAccount :> 20
MCMints == {[key |-> 1, who |-> "bob", amount |-> 1, nonce |-> 1]}
MCRotations == {[key |-> 1, new |-> 2]}
MCInvulnerables == {{"carol"}}
=============================================================================

------------------------------- MODULE MCEvm -------------------------------
(* Instances of Evm for TLC: a developer and a user, the contract the      *)
(* developer creates, the one that contract creates, a network contract.   *)
EXTENDS Evm, TLC

MCUsers == {"alice"}
MCContracts == {"c1", "c2", "n1"}
MCDerived == <<"c1", 1>> :> "c2"
MCSalted == "alice" :> "c1"
MCNetwork == <<"n1">>
MCCodes == {Empty, "token"}
MCCodeSize == Empty :> 0 @@ "token" :> 1
============================================================================

------------------------------ MODULE MCWorkers ------------------------------
(* The offchain workers on a small instance of the Honzon protocol. *)
EXTENDS MCHonzon, OffchainWorkers

MCCurrencyIds == <<dot>>
MCKeys == <<u1, u2>>
=============================================================================

---------------------------- MODULE RenVmBridge ----------------------------
(***************************************************************************)
(* ecosystem_renvm_bridge: RENBTC is minted against a signature of RenVM,  *)
(* in an unsigned extrinsic whose fee is charged afterwards, and burned to *)
(* be released on the other chain.  A signature is a statement and the key *)
(* that signed it; validate_unsigned runs again when a block is applied.   *)
(***************************************************************************)
EXTENDS TransactionPayment, Sequences, SequencesExt

CONSTANTS Mints,        \* signed mints: [key, who, amount, nonce]
          Rotations,    \* signed rotations: [key, new]
          GenesisKey, MintWeight, RotateWeight,
          MaxBurns      \* bound on NextBurnEventId

VARIABLES renKey,       \* RenVmPublicKey
          signatures,   \* Signatures
          renbtc,       \* BridgedTokenCurrency
          burnEvents    \* BurnEvents, amounts in order

renVars == <<renKey, signatures, renbtc, burnEvents>>

RenInit ==
  /\ renKey = GenesisKey /\ signatures = {}
  /\ renbtc = [u \in Users |-> 0] /\ burnEvents = <<>>

(* Mutant: a signature is not checked against the used ones. *)
ValidKeyOnly(sig) == sig.key = renKey

validate_unsigned(sig) == sig \notin signatures /\ sig.key = renKey

(* charge_fee; its failure is ignored, a swap it made for the fee stays *)
ChargeMintFee(who) ==
  LET fee == compute_fee(MintWeight, 0, TRUE)
      b == Charged(native, who, fee)
  IN /\ stable' = StableCharged(native, who, fee)
     /\ native' = IF CanWithdraw(b, who, fee) THEN DealWithFees(Withdraw(b, who, fee), fee) ELSE b

mint(sig) ==
  /\ tx = NoTx /\ ~Due /\ validate_unsigned(sig) /\ Fits(MintWeight)
  /\ renbtc' = [renbtc EXCEPT ![sig.who] = @ + sig.amount]
  /\ signatures' = signatures \cup {sig}
  /\ ChargeMintFee(sig.who) /\ consumed' = consumed + BaseWeight + MintWeight
  /\ UNCHANGED <<renKey, burnEvents, feeVars, taskVars, tx, block>>

rotate_key(sig) ==
  /\ tx = NoTx /\ ~Due /\ validate_unsigned(sig) /\ Fits(RotateWeight)
  /\ renKey' = sig.new /\ signatures' = signatures \cup {sig}
  /\ consumed' = consumed + BaseWeight + RotateWeight
  /\ UNCHANGED <<renbtc, burnEvents, native, stable, feeVars, taskVars, tx, block>>

burn(amount) ==
  /\ Dispatching /\ Len(burnEvents) < MaxBurns /\ renbtc[tx.who] >= amount
  /\ renbtc' = [renbtc EXCEPT ![tx.who] = @ - amount]
  /\ burnEvents' = Append(burnEvents, amount)
  /\ UNCHANGED <<renKey, signatures, native, stable, feeVars, taskVars, block, consumed>>
=============================================================================

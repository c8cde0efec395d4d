-------------------------------- MODULE Fees --------------------------------
(***************************************************************************)
(* Fees from the extrinsics that pay them to the collators they reward:    *)
(* transaction payment, calls scheduled from contracts, the RenVM bridge's *)
(* unsigned mints and collator selection share the native currency.        *)
(*                                                                         *)
(* A block notes its author, may rotate the session, runs the due tasks,   *)
(* then extrinsics, then updates the fee multiplier.                       *)
(***************************************************************************)
EXTENDS RenVmBridge, CollatorSelection

CONSTANTS NativeFunds, StableFunds   \* balances at genesis, by account

VARIABLE hook   \* "author", "session", then "calls"

otherVars == <<stable, feeVars, taskVars, block, consumed>>
vars == <<native, otherVars, tx, renVars, collatorVars, hook>>

Init ==
  /\ native = [free |-> NativeFunds, fee |-> [a \in Accounts |-> 0], bond |-> [a \in Accounts |-> 0],
               issuance |-> FoldSet(LAMBDA a, n : n + NativeFunds[a], 0, Accounts)]
  /\ stable = StableFunds /\ feeToken = [u \in Users |-> "none"] /\ multiplier = One
  /\ tx = NoTx /\ tasks = {} /\ nextId = 0 /\ block = 0 /\ consumed = 0
  /\ RenInit /\ CollatorInit /\ hook = "calls"

(* An extrinsic's call to collator selection, and governance's *)
Signed(action) == Dispatching /\ action /\ UNCHANGED <<otherVars, renVars>>
Governance(action) == tx = NoTx /\ action /\ UNCHANGED <<otherVars, tx, renVars>>

Payment ==
  \/ \E who \in Users, weight \in Weights, tip \in Tips : pre_dispatch(who, weight, tip)
  \/ \E used \in UsedWeights, pays \in BOOLEAN : post_dispatch(used, pays)
  \/ Remark
  \/ \E token \in {"native", "stable"} : set_default_fee_token(token)
  \/ \E to \in Users : SendAll(to)
  \/ \E from \in Users, weight \in Weights, delay \in Delays : Schedule(from, weight, delay)
  \/ \E task \in tasks : Cancel(task)
  \/ \E task \in tasks, delay \in Delays : Reschedule(task, delay)
  \/ \E task \in tasks, used \in UsedWeights, ok, sends \in BOOLEAN :
       scheduled_call(task, ok, used, sends)

Calls ==
  \/ Payment /\ UNCHANGED <<renVars, collatorVars>>
  \/ (\E sig \in Mints : mint(sig)) /\ UNCHANGED collatorVars
  \/ (\E sig \in Rotations : rotate_key(sig)) /\ UNCHANGED collatorVars
  \/ (\E amount \in {m.amount : m \in Mints} : burn(amount)) /\ UNCHANGED collatorVars
  \/ Signed(register_as_candidate(tx.who))
  \/ Signed(leave_intent(tx.who))
  \/ Governance(\E who \in Users : register_candidate(who))
  \/ Governance(\E new \in InvulnerableSets : set_invulnerables(new))
  \/ Governance(\E max \in 0 .. MaxCandidates : set_desired_candidates(max))
  \/ Governance(\E bond \in Bonds : set_candidacy_bond(bond))

NoteAuthor ==
  /\ hook = "author" /\ hook' = "session"
  /\ \E author \in validators : note_author(author)
  /\ UNCHANGED <<otherVars, tx, renVars>>

(* pallet_session: a session ends at any block (Period and Offset) *)
Session ==
  /\ hook = "session" /\ hook' = "calls"
  /\ RotateSession \/ UNCHANGED <<native, collatorVars>>
  /\ UNCHANGED <<otherVars, tx, renVars>>

EndBlock ==
  /\ hook = "calls" /\ hook' = "author" /\ on_finalize
  /\ UNCHANGED <<renVars, collatorVars>>

Next ==
  \/ hook = "calls" /\ Calls /\ UNCHANGED hook
  \/ NoteAuthor \/ Session \/ EndBlock

Spec == Init /\ [][Next]_vars
-----------------------------------------------------------------------------
(* No currency is lost or made by withdrawing, refunding, swapping,        *)
(* reserving and distributing fees: what the accounts hold and what the    *)
(* running extrinsic has paid is the total issuance.                       *)
IssuanceMatches == Held(native) + tx.fee = native.issuance

(* The fees of an account's pending scheduled calls are reserved, whatever *)
(* was scheduled, cancelled, moved and run in between, so that             *)
(* unreserve_and_charge_fee finds what reserve_fee put aside.              *)
TaskFeesReserved ==
  \A u \in Users :
    native.fee[u] >= FoldSet(LAMBDA t, n : n + t.fee, 0, {t \in tasks : t.from = u})

(* A bond is held only while its account is a candidate: it comes back     *)
(* with leave_intent and with the kick at the end of a session.            *)
BondsReturned == \A u \in Users : native.bond[u] > 0 => u \in candidates

(* RENBTC is minted once for a signature, and every unit is either held or *)
(* burned for release on the other chain.                                  *)
RenBacked ==
  FoldSet(LAMBDA u, n : n + renbtc[u], 0, Users) + FoldSeq(LAMBDA x, n : n + x, 0, burnEvents)
    = FoldSet(LAMBDA m, n : n + m.amount, 0, signatures \cap Mints)
=============================================================================

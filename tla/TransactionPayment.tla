------------------------- MODULE TransactionPayment -------------------------
(***************************************************************************)
(* module_transaction_payment: an extrinsic pays the fee of its declared   *)
(* weight before it runs, in the native currency or through the DEX, and   *)
(* gets back what it did not use; a call scheduled from a contract has its *)
(* fee reserved until it runs.  With it the schedule_call precompile,      *)
(* module_evm's scheduled_call and the runtime's DealWithFees.             *)
(*                                                                         *)
(* Of the currencies a fee can be swapped from, the stable currency stands *)
(* for all.  All extrinsics have one length.                               *)
(***************************************************************************)
EXTENDS NativeBalances, DexMath

CONSTANTS BaseWeight,                \* base_extrinsic
          LenFee,                    \* length fee of an extrinsic
          WeightFee,                 \* WeightToFee of one unit of weight
          MaxSlippageSwapWithDEX,
          MinMultiplier, Variability, TargetWeight, MaxWeight,   \* FeeMultiplierUpdate
          Weights, UsedWeights, Tips, Delays,   \* inputs tried
          MaxTasks, MaxBlock         \* bounds

ASSUME PaymentAssumption ==
  /\ BaseWeight \in Nat /\ LenFee \in Nat /\ WeightFee \in Nat /\ MinMultiplier \in Nat /\ Variability \in Nat
  /\ MaxSlippageSwapWithDEX \in Nat /\ TargetWeight \in Nat /\ MaxWeight \in Nat \ {0}
  /\ Weights \subseteq Nat /\ UsedWeights \subseteq Nat /\ Tips \subseteq Nat /\ Delays \subseteq Nat

VARIABLES stable,       \* the stable currency of users and of the DEX's pool
          feeToken,     \* DefaultFeeCurrencyId: "none", "native" or "stable"
          multiplier,   \* NextFeeMultiplier
          tx,           \* the extrinsic between pre_dispatch and post_dispatch
          tasks,        \* the scheduler's agenda, of scheduled_call tasks
          nextId,       \* EvmSchedulerNextID
          block, consumed   \* the block and the weight it used

feeVars == <<feeToken, multiplier>>
taskVars == <<tasks, nextId>>

NoTx == [who |-> "none", fee |-> 0, tip |-> 0, weight |-> 0, ran |-> TRUE]

weight_to_fee(weight) == WeightFee * Least(weight, MaxWeight)

(* inclusion fee and tip; an extrinsic with Pays::No owes the tip *)
compute_fee(weight, tip, pays) ==
  tip + (IF pays THEN weight_to_fee(BaseWeight) + LenFee + MulInt(multiplier, weight_to_fee(weight)) ELSE 0)

(* TargetedFeeAdjustment *)
NextMultiplier(stored) ==
  LET previous == Greatest(stored, MinMultiplier)
      weight == Least(consumed, MaxWeight)
      diff == FromRational(Greatest(weight, TargetWeight) - Least(weight, TargetWeight), MaxWeight)
      first == MulFixed(Variability, diff)
      second == MulFixed(MulFixed(Variability, Variability) \div 2, MulFixed(diff, diff))
  IN Greatest(MinMultiplier,
              IF weight >= TargetWeight THEN previous + MulFixed(first + second, previous)
                                        ELSE Monus(previous, MulFixed(Monus(first, second), previous)))

(***************************************************************************)
(* Fees come from the native balance or from a swap on the DEX.            *)
(***************************************************************************)
SwapCost(b, fee) == SupplyOf(stable[DexAccount], b.free[DexAccount], fee, MaxSlippageSwapWithDEX)
CanSwap(b, who, fee) == SwapCost(b, fee) \in 1 .. stable[who]

(* ensure_can_charge_fee tries the currencies in the account's order. *)
SwapsFor(b, who, fee) ==
  /\ feeToken[who] = "stable" \/ b.free[who] < fee
  /\ CanSwap(b, who, fee)

Charged(b, who, fee) ==
  IF SwapsFor(b, who, fee) THEN Transfer(b, DexAccount, who, fee) ELSE b
StableCharged(b, who, fee) ==
  IF SwapsFor(b, who, fee)
  THEN [stable EXCEPT ![who] = @ - SwapCost(b, fee), ![DexAccount] = @ + SwapCost(b, fee)]
  ELSE stable

(* DealWithFees: 80% to the treasury, the rest to the collators' pot *)
DealWithFees(b, n) ==
  LET first == (n * 80) \div 100 IN Resolve(Resolve(b, Treasury, first), Pot, n - first)

(* Mutant: the refund of an account that is gone is lost. *)
SettleLosesRefund(b, who, paid, refund) ==
  IF Alive(b, who) THEN DealWithFees([b EXCEPT !.free[who] = @ + refund], paid - refund)
                   ELSE DealWithFees(b, paid - refund)

(* deposit_into_existing and offset: a dead account gets no refund *)
Settle(b, who, paid, refund) ==
  IF Alive(b, who) THEN DealWithFees([b EXCEPT !.free[who] = @ + refund], paid - refund)
                   ELSE DealWithFees(b, paid)

(* frame_system: weight of the block *)
Fits(weight) == consumed + BaseWeight + weight <= MaxWeight

Due == \E task \in tasks : task.due <= block

(***************************************************************************)
(* The extrinsic's three steps, once the block's tasks have run.  An       *)
(* extrinsic that cannot pay is invalid and leaves no trace; one that does *)
(* not fit the block (frame_system's CheckWeight) waits for the next.      *)
(***************************************************************************)
pre_dispatch(who, weight, tip) ==
  LET fee == compute_fee(weight, tip, TRUE)
      b == Charged(native, who, fee)
  IN /\ tx = NoTx /\ ~Due /\ Fits(weight)
     /\ fee > 0 => CanWithdraw(b, who, fee)
     /\ native' = IF fee > 0 THEN Withdraw(b, who, fee) ELSE native
     /\ stable' = IF fee > 0 THEN StableCharged(native, who, fee) ELSE stable
     /\ tx' = [who |-> who, fee |-> fee, tip |-> tip, weight |-> weight, ran |-> FALSE]
     /\ UNCHANGED <<feeVars, taskVars, block, consumed>>

post_dispatch(used, pays) ==
  /\ tx # NoTx /\ tx.ran /\ used <= tx.weight
  /\ native' = IF tx.fee = 0 THEN native
               ELSE Settle(native, tx.who, tx.fee, Monus(tx.fee, compute_fee(used, tx.tip, pays)))
  /\ tx' = NoTx
  /\ consumed' = consumed + BaseWeight + used
  /\ UNCHANGED <<stable, feeVars, taskVars, block>>

(* The extrinsic's call runs once, between the two. *)
Dispatching == tx # NoTx /\ ~tx.ran /\ tx' = [tx EXCEPT !.ran = TRUE]

Remark == Dispatching /\ UNCHANGED <<native, stable, feeVars, taskVars, block, consumed>>

set_default_fee_token(token) ==
  /\ Dispatching
  /\ feeToken' = [feeToken EXCEPT ![tx.who] = token]
  /\ UNCHANGED <<native, stable, multiplier, taskVars, block, consumed>>

(* pallet_balances transfer of everything, external *)
SendAll(to) ==
  /\ Dispatching /\ native.free[tx.who] > 0 /\ CanTransfer(native, tx.who, to, native.free[tx.who], FALSE)
  /\ native' = Transfer(native, tx.who, to, native.free[tx.who])
  /\ UNCHANGED <<stable, feeVars, taskVars, block, consumed>>

(***************************************************************************)
(* The schedule_call precompile, called by a contract that the extrinsic   *)
(* runs: from is whatever account the contract names.                      *)
(***************************************************************************)
Schedule(from, weight, delay) ==
  LET fee == weight_to_fee(weight)
      b == Charged(native, from, fee)
  IN /\ Dispatching /\ nextId < MaxTasks /\ b.free[from] >= fee
     /\ native' = [b EXCEPT !.free[from] = @ - fee, !.fee[from] = @ + fee]
     /\ stable' = StableCharged(native, from, fee)
     /\ tasks' = tasks \cup {[id |-> nextId, from |-> from, fee |-> fee, weight |-> weight,
                              due |-> block + 1 + delay]}
     /\ nextId' = nextId + 1
     /\ UNCHANGED <<feeVars, block, consumed>>

(* Mutant: the whole named reserve is released. *)
UnreserveAll(b, who, fee) == [b EXCEPT !.free[who] = @ + b.fee[who], !.fee[who] = 0]

UnreserveFee(b, who, fee) ==
  LET n == Least(fee, b.fee[who]) IN [b EXCEPT !.free[who] = @ + n, !.fee[who] = @ - n]

Cancel(task) ==
  /\ Dispatching /\ task \in tasks
  /\ tasks' = tasks \ {task}
  /\ native' = UnreserveFee(native, task.from, task.fee)
  /\ UNCHANGED <<stable, feeVars, nextId, block, consumed>>

Reschedule(task, delay) ==
  /\ Dispatching /\ task \in tasks /\ task.due # block + 1 + delay
  /\ tasks' = (tasks \ {task}) \cup {[task EXCEPT !.due = block + 1 + delay]}
  /\ UNCHANGED <<native, stable, feeVars, nextId, block, consumed>>

(* scheduled_call, from the scheduler's on_initialize.  The contract may   *)
(* fail with an error, which rolls everything back, or run, use some of    *)
(* its gas, and send away what the account has.  A call that used all its  *)
(* gas drops the payment instead of distributing it.                       *)
scheduled_call(task, ok, used, sends) ==
  LET fee == weight_to_fee(task.weight)
      freed == UnreserveFee(native, task.from, fee)
      paid == Withdraw(freed, task.from, fee)
      ran == IF sends THEN Transfer(paid, task.from, Treasury, paid.free[task.from]) ELSE paid
      unused == Monus(task.weight, used)
  IN /\ tx = NoTx /\ task \in tasks /\ task.due <= block /\ used <= task.weight
     /\ tasks' = tasks \ {task}
     /\ native' = IF ~ok \/ ~CanWithdraw(freed, task.from, fee) THEN native
                  ELSE IF unused = 0 THEN [ran EXCEPT !.issuance = @ - fee]
                  ELSE Settle(ran, task.from, fee, weight_to_fee(unused))
     /\ UNCHANGED <<stable, feeVars, nextId, tx, block, consumed>>

on_finalize ==
  /\ tx = NoTx /\ ~Due /\ block < MaxBlock
  /\ multiplier' = NextMultiplier(multiplier)
  /\ block' = block + 1 /\ consumed' = 0
  /\ UNCHANGED <<native, stable, feeToken, taskVars, tx>>
=============================================================================

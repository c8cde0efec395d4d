-------------------------- MODULE EmergencyShutdown --------------------------
(***************************************************************************)
(* module_emergency_shutdown: governance freezes the system, waits until   *)
(* every position with debit is settled and every auction is over, then    *)
(* opens the redemption of stable currency for the treasury's collateral.  *)
(***************************************************************************)
EXTENDS CDPEngine

CONSTANT RefundAmounts   \* amounts holders redeem

ASSUME RefundAssumption == RefundAmounts \subseteq Nat

VARIABLE canRefund   \* CanRefund

emergency_shutdown ==
  /\ ~isShutdown
  /\ locked' = LockedAll
  /\ isShutdown' = TRUE
  /\ UNCHANGED <<oracle, tokenVars, treasuryVars, pool, loanVars, consumers, auctionVars,
                 now, engineVars, canRefund>>

(* mutant of open_collateral_refund: positions may still have debit *)
OpenRefundEarly ==
  /\ isShutdown
  /\ \A c \in Collaterals : totalCollateralInAuction[c] = 0
  /\ canRefund' = TRUE
  /\ UNCHANGED <<priceVars, tokenVars, treasuryVars, pool, loanVars, consumers, auctionVars,
                 now, isShutdown, engineVars>>

open_collateral_refund ==
  /\ isShutdown
  /\ \A c \in Collaterals : /\ totalCollateralInAuction[c] = 0
                            /\ totalPositions[c].debit = 0
  /\ canRefund' = TRUE
  /\ UNCHANGED <<priceVars, tokenVars, treasuryVars, pool, loanVars, consumers, auctionVars,
                 now, isShutdown, engineVars>>

(* what who receives of collateral c for amount of stable currency *)
RefundOf(c, amount) == MulInt(get_debit_proportion(amount), bal[<<c, TreasuryAccount>>])

refund_collaterals(who, amount) ==
  /\ canRefund
  /\ CanWithdraw(bal, Stable, who, amount)
  /\ \A c \in Collaterals :
       CanTransfer(bal, c, TreasuryAccount, who, RefundOf(c, amount))
  /\ bal' = [k \in Tokens \X Accounts |->
               IF k = <<Stable, who>> THEN bal[k] - amount
               ELSE IF k[1] = Stable THEN bal[k]
               ELSE IF k[2] = who THEN bal[k] + RefundOf(k[1], amount)
               ELSE IF k[2] = TreasuryAccount THEN bal[k] - RefundOf(k[1], amount)
               ELSE bal[k]]
  /\ issuance' = Burned(amount)
  /\ UNCHANGED <<priceVars, treasuryVars, pool, loanVars, consumers, auctionVars, now,
                 isShutdown, engineVars, canRefund>>
=============================================================================

---------------------------- MODULE HonzonProofs ----------------------------
(***************************************************************************)
(* The safety of the Honzon protocol for any number of users, collateral   *)
(* types, auctions and blocks, and any parameters.                         *)
(*                                                                         *)
(* The inductive invariant is HonzonInv of HonzonLoanProofs: the type      *)
(* invariant, the custody of collateral by the loans and the treasury      *)
(* accounts, the state of redemption, and the price bound of the reverse   *)
(* stage.  The lemmas on loans and auctions are in the modules this one    *)
(* extends; here are the other actions and the theorems.                   *)
(***************************************************************************)
EXTENDS HonzonAuctionProofs

(* A step that leaves positions, auctions and the collateral of the two    *)
(* module accounts alone (before redemption) and keeps the types.          *)
LEMMA QuietStep ==
  ASSUME HonzonInv, PricesTypeOK', EngineTypeOK',
         bal' \in Ledger, issuance' \in Nat, debitPool' \in Nat,
         auctionSize' \in [Collaterals -> Nat], pool' \in [Collaterals -> Pool],
         now' \in Nat, canRefund' = canRefund, isShutdown => isShutdown',
         isShutdown' \in BOOLEAN,
         authorization' \subseteq Users \X Collaterals \X Users, reserved' \in [Users -> Nat],
         phase' \in {"txs", "finalize", "initialize"}, pending' \subseteq Collaterals \cup {"offset"},
         \A d \in Collaterals : bal'[<<d, LoansAccount>>] = bal[<<d, LoansAccount>>],
         canRefund \/ \A d \in Collaterals : bal'[<<d, TreasuryAccount>>] = bal[<<d, TreasuryAccount>>],
         UNCHANGED <<loanVars, consumers, auctionVars>>
  PROVE  HonzonInv'
<1>1. UNCHANGED <<positions, totalPositions, loanShares, consumers, auctions, nextAuction,
                  totalCollateralInAuction, totalTargetInAuction>>
  BY Zenon DEF loanVars, auctionVars
<1>2. TreasuryTypeOK' /\ LoansTypeOK' /\ AuctionTypeOK'
  BY <1>1, Zenon DEF HonzonInv, TypeOK, TreasuryTypeOK, LoansTypeOK, AuctionTypeOK
<1>3. TypeOK'
  BY <1>2, Zenon DEF HonzonInv, TypeOK
<1>4. LoansCustody'
  BY <1>1, Zenon DEF HonzonInv, LoansCustody
<1>5. AuctionsCovered'
  BY <1>1, Zenon DEF HonzonInv, AuctionsCovered
<1>6. RefundMeansSettled'
  BY <1>1, Zenon DEF HonzonInv, RefundMeansSettled
<1>7. ReverseStagePrice'
  BY <1>1, Zenon DEF HonzonInv, ReverseStagePrice, WithinPrice
<1> QED
  BY <1>3, <1>4, <1>5, <1>6, <1>7, Zenon DEF HonzonInv

(* The calls that only touch authorizations. *)
LEMMA AuthorizationStep ==
  ASSUME HonzonInv, NEW from \in Users, NEW to \in Users,
         \/ \E c \in Collaterals : authorize(from, to, c) \/ unauthorize(from, to, c)
         \/ unauthorize_all(from)
  PROVE  HonzonInv'
<1>1. UNCHANGED <<protocolVars, priceVars, canRefund, blockVars>>
  BY Zenon DEF authorize, unauthorize, unauthorize_all
<1>2. UNCHANGED <<bal, issuance, debitPool, auctionSize, pool, loanVars, consumers, auctionVars,
                  now, isShutdown, debitExchangeRate, collateralParams, globalInterestRate,
                  oracle, locked, phase, pending, canRefund>>
  BY <1>1, Zenon DEF protocolVars, priceVars, blockVars, tokenVars, treasuryVars, engineVars, paramVars
<1>3. authorization' \subseteq Users \X Collaterals \X Users /\ reserved' \in [Users -> Nat]
  <2>1. ASSUME NEW c \in Collaterals, authorize(from, to, c)
        PROVE  authorization' \subseteq Users \X Collaterals \X Users /\ reserved' \in [Users -> Nat]
    BY <2>1 DEF HonzonInv, TypeOK, authorize
  <2>2. ASSUME NEW c \in Collaterals, unauthorize(from, to, c)
        PROVE  authorization' \subseteq Users \X Collaterals \X Users /\ reserved' \in [Users -> Nat]
    BY <2>2 DEF HonzonInv, TypeOK, unauthorize, Monus
  <2>3. CASE unauthorize_all(from)
    BY <2>3, Zenon DEF HonzonInv, TypeOK, unauthorize_all
  <2> QED
    BY <2>1, <2>2, <2>3, Zenon
<1>5. PricesTypeOK' /\ EngineTypeOK'
  BY <1>2, Zenon DEF HonzonInv, TypeOK, PricesTypeOK, EngineTypeOK
<1> QED
  BY <1>2, <1>3, <1>5, QuietStep, Zenon
  DEF HonzonInv, TypeOK, TreasuryTypeOK, AuctionTypeOK

(* New prices, locked or fed. *)
LEMMA UpdatePriceStep ==
  ASSUME HonzonInv, NEW c \in Collaterals, UpdatePrice(c)
  PROVE  HonzonInv'
<1>1. UNCHANGED <<bal, issuance, debitPool, auctionSize, pool, loanVars, consumers, auctionVars,
                  now, isShutdown, debitExchangeRate, collateralParams, globalInterestRate,
                  canRefund, authorization, reserved, phase, pending>>
  BY Zenon DEF UpdatePrice, protocolVars, authVars, blockVars, tokenVars, treasuryVars, engineVars,
         paramVars
<1>2. PricesTypeOK'
  BY Zenon DEF HonzonInv, TypeOK, PricesTypeOK, UpdatePrice, Feed, lock_price, unlock_price, LockPrice
<1>3. EngineTypeOK'
  BY <1>1, Zenon DEF HonzonInv, TypeOK, EngineTypeOK
<1> QED
  BY <1>1, <1>2, <1>3, QuietStep, Zenon DEF HonzonInv, TypeOK, TreasuryTypeOK, AuctionTypeOK

(* Governance sets the size of lots or the engine's parameters. *)
LEMMA GovernanceStep ==
  ASSUME HonzonInv, NEW c \in Collaterals, NEW size \in AuctionSizes,
         SetAuctionSize(c, size)
  PROVE  HonzonInv'
<1>1. UNCHANGED <<bal, issuance, debitPool, pool, loanVars, consumers, auctionVars,
                  now, isShutdown, debitExchangeRate, collateralParams, globalInterestRate,
                  oracle, locked, canRefund, authorization, reserved, phase, pending>>
  BY Zenon DEF SetAuctionSize, set_expected_collateral_auction_size, callFrame, auctionVars, authVars,
         blockVars, tokenVars, engineVars, paramVars, priceVars
<1>2. auctionSize' \in [Collaterals -> Nat]
  BY TreasuryAssumption, Zenon DEF HonzonInv, TypeOK, TreasuryTypeOK, SetAuctionSize,
     set_expected_collateral_auction_size
<1>3. PricesTypeOK' /\ EngineTypeOK'
  BY <1>1, Zenon DEF HonzonInv, TypeOK, PricesTypeOK, EngineTypeOK
<1> QED
  BY <1>1, <1>2, <1>3, QuietStep, Zenon DEF HonzonInv, TypeOK, TreasuryTypeOK, AuctionTypeOK

(* set_collateral_params and set_global_params change parameters only. *)
LEMMA SetParamsStep ==
  ASSUME HonzonInv, NEW c \in Collaterals, SetParams(c)
  PROVE  HonzonInv'
<1>1. UNCHANGED <<bal, issuance, debitPool, auctionSize, pool, loanVars, consumers, auctionVars,
                  now, isShutdown, debitExchangeRate,
                  oracle, locked, canRefund, authorization, reserved, phase, pending>>
  BY Zenon DEF SetParams, callFrame, treasuryVars, authVars, blockVars, tokenVars, priceVars
<1>2. EngineTypeOK'
  <2>1. collateralParams' \in [Collaterals -> RiskManagementParams] /\ globalInterestRate' \in Nat
    BY EngineAssumption, Zenon DEF HonzonInv, TypeOK, EngineTypeOK, SetParams, set_collateral_params,
       set_global_params
  <2> QED
    BY <1>1, <2>1, Zenon DEF HonzonInv, TypeOK, EngineTypeOK
<1>3. PricesTypeOK'
  BY <1>1, Zenon DEF HonzonInv, TypeOK, PricesTypeOK
<1> QED
  BY <1>1, <1>2, <1>3, QuietStep, Zenon DEF HonzonInv, TypeOK, TreasuryTypeOK, AuctionTypeOK

(* emergency_shutdown locks prices and changes nothing the invariant counts. *)
LEMMA ShutdownStep ==
  ASSUME HonzonInv, Shutdown
  PROVE  HonzonInv'
<1>1. UNCHANGED <<bal, issuance, debitPool, auctionSize, pool, loanVars, consumers, auctionVars,
                  now, debitExchangeRate, collateralParams, globalInterestRate,
                  oracle, canRefund, authorization, reserved, phase, pending>>
      /\ isShutdown' = TRUE
  BY Zenon DEF Shutdown, emergency_shutdown, treasuryVars, authVars, blockVars, tokenVars,
         engineVars, paramVars
<1>2. PricesTypeOK'
  BY <1>1, Zenon DEF HonzonInv, TypeOK, PricesTypeOK, Shutdown, emergency_shutdown, LockedAll, LockPrice
<1>3. EngineTypeOK'
  BY <1>1, Zenon DEF HonzonInv, TypeOK, EngineTypeOK
<1> QED
  BY <1>1, <1>2, <1>3, QuietStep, Zenon DEF HonzonInv, TypeOK, TreasuryTypeOK, AuctionTypeOK

(* open_collateral_refund opens redemption only when every position has    *)
(* been settled, every auction closed and no surplus is left.              *)
LEMMA OpenRefundStep ==
  ASSUME HonzonInv, OpenRefund
  PROVE  HonzonInv'
<1>1. UNCHANGED <<bal, issuance, debitPool, auctionSize, pool, positions, totalPositions,
                  loanShares, consumers, auctions, nextAuction, totalCollateralInAuction,
                  totalTargetInAuction, now, isShutdown, debitExchangeRate, collateralParams,
                  globalInterestRate, oracle, locked, authorization, reserved, phase, pending>>
      /\ canRefund' = TRUE /\ isShutdown
      /\ \A d \in Collaterals : totalPositions[d].debit = 0
  BY Zenon DEF OpenRefund, open_collateral_refund, treasuryVars, authVars, blockVars, tokenVars,
         engineVars, paramVars, priceVars, loanVars, auctionVars
<1>2. TypeOK'
  BY <1>1, Zenon DEF HonzonInv, TypeOK, PricesTypeOK, EngineTypeOK, TreasuryTypeOK, AuctionTypeOK,
     LoansTypeOK
<1>3. LoansCustody' /\ AuctionsCovered' /\ RefundMeansSettled' /\ ReverseStagePrice'
  BY <1>1, Zenon DEF HonzonInv, LoansCustody, AuctionsCovered, RefundMeansSettled, ReverseStagePrice,
     WithinPrice
<1> QED
  BY <1>2, <1>3, Zenon DEF HonzonInv

(* The hooks that only move the block on. *)
LEMMA BlockStep ==
  ASSUME HonzonInv, EndTxs \/ NextBlock
  PROVE  HonzonInv'
<1>1. UNCHANGED <<bal, issuance, debitPool, auctionSize, pool, loanVars, consumers, auctionVars,
                  isShutdown, debitExchangeRate, collateralParams, globalInterestRate,
                  oracle, locked, canRefund, authorization, reserved>>
  BY Zenon DEF EndTxs, NextBlock, protocolVars, treasuryVars, authVars, tokenVars, engineVars,
         paramVars, priceVars
<1>2. now' \in Nat
  BY DEF HonzonInv, TypeOK, AuctionTypeOK, EndTxs, NextBlock, protocolVars
<1>3. /\ phase' \in {"txs", "finalize", "initialize"}
      /\ pending' \subseteq Collaterals \cup {"offset"}
  BY Zenon DEF EndTxs, NextBlock
<1>4. PricesTypeOK' /\ EngineTypeOK'
  BY <1>1, Zenon DEF HonzonInv, TypeOK, PricesTypeOK, EngineTypeOK
<1> QED
  BY <1>1, <1>2, <1>3, <1>4, QuietStep, Zenon DEF HonzonInv, TypeOK, TreasuryTypeOK, AuctionTypeOK

(* A transfer of stable currency out of the treasury. *)
LEMMA ExtractSurplusStep ==
  ASSUME HonzonInv, NEW amount \in SurplusAmounts, ExtractSurplus(amount)
  PROVE  HonzonInv'
<1> DEFINE b == Transfer(bal, Stable, TreasuryAccount, GovAccount, amount)
<1>1. UNCHANGED <<issuance, debitPool, auctionSize, pool, loanVars, consumers, auctionVars,
                  now, isShutdown, debitExchangeRate, collateralParams, globalInterestRate,
                  oracle, locked, canRefund, authorization, reserved, phase, pending>>
      /\ bal' = b
      /\ CanTransfer(bal, Stable, TreasuryAccount, GovAccount, amount)
  BY Zenon DEF ExtractSurplus, extract_surplus_to_treasury, callFrame, auctionVars, treasuryVars,
         authVars, blockVars, engineVars, paramVars, priceVars
<1>2. bal \in Ledger /\ amount \in Nat
  BY TreasuryAssumption, Zenon DEF HonzonInv, TypeOK, TreasuryTypeOK
<1>3. b \in Ledger /\ \A d \in Collaterals, x \in Accounts : b[<<d, x>>] = bal[<<d, x>>]
  BY <1>1, <1>2, TransferCells, AccountsDiffer
<1> HIDE DEF b
<1>4. /\ bal' \in Ledger
      /\ \A d \in Collaterals : /\ bal'[<<d, LoansAccount>>] = bal[<<d, LoansAccount>>]
                                /\ bal'[<<d, TreasuryAccount>>] = bal[<<d, TreasuryAccount>>]
  BY <1>1, <1>3, AccountsDiffer, Zenon
<1>5. PricesTypeOK' /\ EngineTypeOK'
  BY <1>1, Zenon DEF HonzonInv, TypeOK, PricesTypeOK, EngineTypeOK
<1> QED
  BY <1>1, <1>4, <1>5, QuietStep, Zenon DEF HonzonInv, TypeOK, TreasuryTypeOK, AuctionTypeOK

(* The offset burns stable currency of the treasury. *)
LEMMA OffsetStep ==
  ASSUME HonzonInv, OffsetSurplusAndDebit
  PROVE  HonzonInv'
<1> DEFINE offset == Least(debitPool, surplus_pool)
           b == Withdraw(bal, Stable, TreasuryAccount, offset)
<1>1. UNCHANGED <<auctionSize, pool, loanVars, consumers, auctionVars,
                  now, isShutdown, debitExchangeRate, collateralParams, globalInterestRate,
                  oracle, locked, canRefund, authorization, reserved, phase>>
      /\ bal' = b /\ issuance' = Burned(offset) /\ debitPool' = debitPool - offset
      /\ pending' = {}
  BY Zenon DEF OffsetSurplusAndDebit, offset_surplus_and_debit, auctionVars, authVars,
         engineVars, paramVars, priceVars
<1>2. bal \in Ledger /\ debitPool \in Nat /\ issuance \in Nat
      /\ bal[<<Stable, TreasuryAccount>>] \in Nat
  BY AccountsDiffer, Zenon DEF HonzonInv, TypeOK, TreasuryTypeOK, Ledger
<1>3. offset \in Nat /\ offset <= debitPool /\ CanWithdraw(bal, Stable, TreasuryAccount, offset)
  BY <1>2 DEF Least, surplus_pool, CanWithdraw
<1> HIDE DEF offset
<1>4. b \in Ledger /\ \A d \in Collaterals, x \in Accounts : b[<<d, x>>] = bal[<<d, x>>]
  BY <1>2, <1>3, WithdrawCells, AccountsDiffer
<1> HIDE DEF b
<1>5. /\ bal' \in Ledger
      /\ \A d \in Collaterals : /\ bal'[<<d, LoansAccount>>] = bal[<<d, LoansAccount>>]
                                /\ bal'[<<d, TreasuryAccount>>] = bal[<<d, TreasuryAccount>>]
  BY <1>1, <1>4, AccountsDiffer, Zenon
<1>6. issuance' \in Nat /\ debitPool' \in Nat
  BY <1>1, <1>2, <1>3 DEF Burned, Monus
<1>7. PricesTypeOK' /\ EngineTypeOK'
  BY <1>1, Zenon DEF HonzonInv, TypeOK, PricesTypeOK, EngineTypeOK
<1> QED
  BY <1>1, <1>5, <1>6, <1>7, QuietStep, Zenon DEF HonzonInv, TypeOK, TreasuryTypeOK, AuctionTypeOK

(* The increment of a debit exchange rate is a natural number. *)
LEMMA RateIncrementNat ==
  ASSUME EngineTypeOK, NEW c \in Collaterals
  PROVE  RateIncrement(c) \in Nat
<1> DEFINE i == collateralParams[c].interest + globalInterestRate
           r == i + One
<1>1. debitExchangeRate[c] \in Nat /\ i \in Nat /\ r \in Nat /\ One \in Nat
  BY OneAssumption DEF EngineTypeOK, RiskManagementParams
<1> HIDE DEF r
<1>2. MulFixed(r, r) \in Nat
  BY <1>1, MulFixedNat, Zenon
<1>3. MulFixed(r, MulFixed(r, r)) \in Nat
  BY <1>1, <1>2, MulFixedNat, Zenon
<1>4. compound_interest_rate(i, SecsPerBlock) \in Nat
  BY <1>1, <1>2, <1>3 DEF compound_interest_rate, Monus, r
<1> QED
  BY <1>1, <1>4, MulFixedNat, Zenon DEF RateIncrement

(* Interest is deposited to the treasury in stable currency. *)
LEMMA InterestStep ==
  ASSUME HonzonInv, NEW c \in Collaterals, AccumulateInterest(c)
  PROVE  HonzonInv'
<1> DEFINE issued == MulInt(RateIncrement(c), get_debit_value(c, totalPositions[c].debit))
           b == Deposit(bal, Stable, TreasuryAccount, issued)
<1>1. UNCHANGED <<debitPool, auctionSize, pool, loanVars, consumers, auctionVars,
                  now, isShutdown, collateralParams, globalInterestRate,
                  oracle, locked, canRefund, authorization, reserved>>
      /\ \/ /\ bal' = b /\ issuance' = issuance + issued
            /\ debitExchangeRate' = [debitExchangeRate EXCEPT ![c] = @ + RateIncrement(c)]
         \/ UNCHANGED <<bal, issuance, debitExchangeRate>>
  BY Zenon DEF AccumulateInterest, accumulate_interest, authVars, tokenVars, treasuryVars, paramVars,
         priceVars
<1>2. bal \in Ledger /\ issuance \in Nat /\ EngineTypeOK /\ totalPositions[c].debit \in Nat
  BY Zenon DEF HonzonInv, TypeOK, TreasuryTypeOK, LoansTypeOK, Position
<1>3. RateIncrement(c) \in Nat
  BY <1>2, RateIncrementNat, Zenon
<1>4. issued \in Nat
  BY <1>2, <1>3, DebitValueNat, MulIntNat, Zenon
<1> HIDE DEF issued
<1>5. b \in Ledger /\ \A d \in Collaterals, x \in Accounts : b[<<d, x>>] = bal[<<d, x>>]
  BY <1>2, <1>4, StableDeposit, AccountsDiffer
<1> HIDE DEF b
<1>6. /\ bal' \in Ledger
      /\ \A d \in Collaterals : /\ bal'[<<d, LoansAccount>>] = bal[<<d, LoansAccount>>]
                                /\ bal'[<<d, TreasuryAccount>>] = bal[<<d, TreasuryAccount>>]
  BY <1>1, <1>2, <1>5, AccountsDiffer, Zenon
<1>7. issuance' \in Nat
  BY <1>1, <1>2, <1>4
<1>8. EngineTypeOK'
  <2>1. debitExchangeRate' \in [Collaterals -> Nat]
    BY <1>1, <1>2, <1>3 DEF EngineTypeOK
  <2> QED
    BY <1>1, <1>2, <2>1, Zenon DEF EngineTypeOK
<1>9. PricesTypeOK'
  BY <1>1, Zenon DEF HonzonInv, TypeOK, PricesTypeOK
<1>10. /\ phase' \in {"txs", "finalize", "initialize"}
       /\ pending' \subseteq Collaterals \cup {"offset"}
  BY Zenon DEF HonzonInv, TypeOK, AccumulateInterest
<1> QED
  BY <1>1, <1>6, <1>7, <1>8, <1>9, <1>10, QuietStep, Zenon
  DEF HonzonInv, TypeOK, TreasuryTypeOK, AuctionTypeOK

(* A trader's swap moves tokens between the trader and the DEX only. *)
LEMMA SwapStep ==
  ASSUME HonzonInv, NEW who \in Users, NEW c \in Collaterals, NEW t \in {c, Stable},
         NEW n \in Trades, Swap(who, c, t, n)
  PROVE  HonzonInv'
<1> DEFINE in == IF t = Stable THEN pool[c].stable ELSE pool[c].collateral
           out == IF t = Stable THEN pool[c].collateral ELSE pool[c].stable
           other == IF t = Stable THEN c ELSE Stable
           target == TargetOf(in, out, n, 0)
           b == Transfer(bal, t, who, DexAccount, n)
           b2 == Transfer(b, other, DexAccount, who, target)
           swapped == IF t = Stable
                      THEN [collateral |-> pool[c].collateral - target, stable |-> pool[c].stable + n]
                      ELSE [collateral |-> pool[c].collateral + n, stable |-> pool[c].stable - target]
<1>1. UNCHANGED <<issuance, debitPool, auctionSize, loanVars, consumers, auctionVars,
                  now, isShutdown, debitExchangeRate, collateralParams, globalInterestRate,
                  oracle, locked, canRefund, authorization, reserved, phase, pending>>
      /\ bal' = b2
      /\ pool' = [pool EXCEPT ![c] = swapped]
      /\ CanTransfer(bal, t, who, DexAccount, n)
      /\ CanTransfer(bal, other, DexAccount, who, target)
  BY Zenon DEF Swap, swap_with_exact_supply, callFrame, auctionVars, treasuryVars,
         authVars, blockVars, engineVars, paramVars, priceVars
<1>2. /\ bal \in Ledger /\ n \in Nat /\ pool \in [Collaterals -> Pool]
      /\ pool[c].collateral \in Nat /\ pool[c].stable \in Nat
      /\ t \in Tokens /\ other \in Tokens /\ who \in Accounts /\ t # other
  BY HonzonAssumption, AccountsDiffer, Zenon DEF HonzonInv, TypeOK, TreasuryTypeOK, Pool
<1>3. in \in Nat /\ out \in Nat
  BY <1>2, Zenon
<1>4. target \in Nat /\ target <= out
  BY <1>3, <1>2, TargetOfNat, Zenon
<1> HIDE DEF target
<1>5. pool' \in [Collaterals -> Pool]
  <2>1. swapped \in Pool
    BY <1>2, <1>4 DEF Pool
  <2> HIDE DEF swapped
  <2> QED
    BY <1>1, <1>2, <2>1, Zenon
<1> HIDE DEF other
<1>6. /\ b \in Ledger
      /\ \A u \in Tokens, x \in Accounts :
           /\ x # who /\ x # DexAccount => b[<<u, x>>] = bal[<<u, x>>]
           /\ u # t => b[<<u, x>>] = bal[<<u, x>>]
  BY <1>1, <1>2, TransferCells, AccountsDiffer
<1> HIDE DEF b
<1>7. CanTransfer(b, other, DexAccount, who, target)
  BY <1>1, <1>2, <1>6, AccountsDiffer, Zenon DEF CanTransfer
<1>8. /\ b2 \in Ledger
      /\ \A u \in Tokens, x \in Accounts : x # who /\ x # DexAccount => b2[<<u, x>>] = b[<<u, x>>]
  BY <1>2, <1>4, <1>6, <1>7, TransferCells, AccountsDiffer
<1> HIDE DEF b2
<1>9. /\ bal' \in Ledger
      /\ \A d \in Collaterals : /\ bal'[<<d, LoansAccount>>] = bal[<<d, LoansAccount>>]
                                /\ bal'[<<d, TreasuryAccount>>] = bal[<<d, TreasuryAccount>>]
  BY <1>1, <1>6, <1>8, AccountsDiffer
<1>10. PricesTypeOK' /\ EngineTypeOK'
  BY <1>1, Zenon DEF HonzonInv, TypeOK, PricesTypeOK, EngineTypeOK
<1> QED
  BY <1>1, <1>5, <1>9, <1>10, QuietStep, Zenon DEF HonzonInv, TypeOK, TreasuryTypeOK, AuctionTypeOK

(* What a redeemer receives: never more than the treasury holds in         *)
(* proportion to the stable currency redeemed.                             *)
LEMMA RefundOfBounds ==
  ASSUME TreasuryTypeOK, NEW c \in Collaterals, NEW amount \in Nat
  PROVE  /\ RefundOf(c, amount) \in Nat
         /\ RefundOf(c, amount) * issuance <= amount * bal[<<c, TreasuryAccount>>]
<1> DEFINE held == bal[<<c, TreasuryAccount>>]
<1>1. issuance \in Nat /\ held \in Nat
  BY AccountsDiffer, Zenon DEF TreasuryTypeOK, Ledger
<1> HIDE DEF held
<1>2. CASE issuance = 0
  <2>1. RefundOf(c, amount) = MulInt(0, held)
    BY <1>2, Zenon DEF RefundOf, get_debit_proportion, held
  <2>2. MulInt(0, held) \in Nat
    BY <1>1, MulIntNat, Zenon
  <2>3. amount * held \in Nat
    BY <1>1, MulNat, Zenon
  <2> QED
    BY <1>2, <2>1, <2>2, <2>3 DEF held
<1>3. CASE issuance # 0
  <2>1. RefundOf(c, amount) = MulInt(FromRational(amount, issuance), held)
    BY <1>3, Zenon DEF RefundOf, get_debit_proportion, held
  <2>2. FromRational(amount, issuance) \in Nat
    BY <1>1, <1>3, FromRationalNat, Zenon
  <2>3. MulInt(FromRational(amount, issuance), held) \in Nat
    BY <1>1, <2>2, MulIntNat, Zenon
  <2>4. MulInt(FromRational(amount, issuance), held) * issuance <= amount * held
    BY <1>1, <1>3, ScaledDown, Zenon
  <2> QED
    BY <2>1, <2>3, <2>4, Zenon DEF held
<1> QED
  BY <1>2, <1>3, Zenon

(* The ledger after a redemption. *)
LEMMA RefundCells ==
  ASSUME HonzonInv, NEW who \in Users, NEW amount \in RefundAmounts,
         refund_collaterals(who, amount)
  PROVE  /\ bal' \in Ledger
         /\ \A d \in Collaterals :
              /\ bal'[<<d, LoansAccount>>] = bal[<<d, LoansAccount>>]
              /\ bal'[<<d, TreasuryAccount>>] = bal[<<d, TreasuryAccount>>] - RefundOf(d, amount)
<1>1. /\ CanWithdraw(bal, Stable, who, amount)
      /\ \A d \in Collaterals : CanTransfer(bal, d, TreasuryAccount, who, RefundOf(d, amount))
      /\ bal' = [k \in Tokens \X Accounts |->
               IF k = <<Stable, who>> THEN bal[k] - amount
               ELSE IF k[1] = Stable THEN bal[k]
               ELSE IF k[2] = who THEN bal[k] + RefundOf(k[1], amount)
               ELSE IF k[2] = TreasuryAccount THEN bal[k] - RefundOf(k[1], amount)
               ELSE bal[k]]
  BY Zenon DEF refund_collaterals
<1>2. amount \in Nat /\ bal \in Ledger /\ TreasuryTypeOK
  BY RefundAssumption, Zenon DEF HonzonInv, TypeOK, TreasuryTypeOK
<1>3. \A d \in Collaterals : RefundOf(d, amount) \in Nat
  BY <1>2, RefundOfBounds, Zenon
<1>4. ASSUME NEW t \in Tokens, NEW x \in Accounts
      PROVE  bal'[<<t, x>>] \in Nat
  <2>1. bal[<<t, x>>] \in Nat
    BY <1>2, Zenon DEF Ledger
  <2>2. CASE t = Stable
    BY <1>1, <1>2, <2>1, <2>2 DEF CanWithdraw
  <2>3. CASE t # Stable
    <3>1. t \in Collaterals
      BY <2>3, Zenon DEF Tokens
    <3>2. RefundOf(t, amount) \in Nat /\ CanTransfer(bal, t, TreasuryAccount, who, RefundOf(t, amount))
      BY <1>1, <1>3, <3>1, Zenon
    <3> QED
      BY <1>1, <2>1, <2>3, <3>2, AccountsDiffer DEF CanTransfer
  <2> QED
    BY <2>2, <2>3, Zenon
<1>5. bal' \in Ledger
  <2>1. bal' = [k \in Tokens \X Accounts |-> bal'[k]]
    BY <1>1, Zenon
  <2>2. \A k \in Tokens \X Accounts : bal'[k] \in Nat
    BY <1>4
  <2> QED
    BY ONLY <2>1, <2>2, Zenon DEF Ledger
<1>6. ASSUME NEW d \in Collaterals
      PROVE  /\ bal'[<<d, LoansAccount>>] = bal[<<d, LoansAccount>>]
             /\ bal'[<<d, TreasuryAccount>>] = bal[<<d, TreasuryAccount>>] - RefundOf(d, amount)
  BY <1>1, AccountsDiffer, Zenon
<1> QED
  BY <1>5, <1>6, Zenon

(* refund_collaterals burns stable currency and pays out of the treasury. *)
LEMMA RefundStep ==
  ASSUME HonzonInv, NEW who \in Users, NEW amount \in RefundAmounts,
         RefundCollaterals(who, amount)
  PROVE  HonzonInv'
<1>1. UNCHANGED <<debitPool, auctionSize, pool, loanVars, consumers, auctionVars,
                  now, isShutdown, debitExchangeRate, collateralParams, globalInterestRate,
                  oracle, locked, canRefund, authorization, reserved, phase, pending>>
      /\ canRefund /\ issuance' = Burned(amount) /\ refund_collaterals(who, amount)
  BY Zenon DEF RefundCollaterals, refund_collaterals, treasuryVars,
         authVars, blockVars, engineVars, paramVars, priceVars
<1>2. issuance' \in Nat
  BY <1>1, RefundAssumption DEF HonzonInv, TypeOK, TreasuryTypeOK, Burned, Monus
<1>3. bal' \in Ledger /\ \A d \in Collaterals : bal'[<<d, LoansAccount>>] = bal[<<d, LoansAccount>>]
  BY <1>1, RefundCells, Zenon
<1>4. PricesTypeOK' /\ EngineTypeOK'
  BY <1>1, Zenon DEF HonzonInv, TypeOK, PricesTypeOK, EngineTypeOK
<1> QED
  BY <1>1, <1>2, <1>3, <1>4, QuietStep, Zenon DEF HonzonInv, TypeOK, TreasuryTypeOK, AuctionTypeOK

(* Governance auctions collateral of the treasury that is not in auction. *)
LEMMA AuctionCollateralStep ==
  ASSUME HonzonInv, NEW c \in Collaterals, NEW amount \in Nat, NEW target \in Nat,
         NEW split \in BOOLEAN, AuctionCollateral(c, amount, target, split)
  PROVE  HonzonInv'
<1>1. UNCHANGED <<bal, issuance, debitPool, auctionSize, pool, positions, totalPositions,
                  loanShares, now, isShutdown, debitExchangeRate, collateralParams,
                  globalInterestRate, oracle, locked, canRefund, authorization, reserved,
                  phase, pending>>
      /\ create_collateral_auctions(bal, c, amount, target, TreasuryAccount, split)
      /\ consumers' = AddRefs(consumers, TreasuryAccount, LotsMade(c, amount, split))
  BY Zenon DEF AuctionCollateral, auction_collateral, callFrame, tokenVars, treasuryVars, loanVars,
         authVars, blockVars, engineVars, paramVars, priceVars
<1>2. bal \in Ledger /\ TreasuryTypeOK /\ AuctionTypeOK /\ ReverseStagePrice
  BY Zenon DEF HonzonInv, TypeOK, TreasuryTypeOK
<1>3. /\ AuctionTypeOK'
      /\ totalCollateralInAuction' \in [Collaterals -> Nat]
      /\ LotsMade(c, amount, split) \in Nat
      /\ total_collaterals_not_in_auction(bal, c) >= amount
      /\ \A d \in Collaterals :
           totalCollateralInAuction'[d] =
             IF d = c THEN totalCollateralInAuction[d] + amount ELSE totalCollateralInAuction[d]
      /\ ReverseStagePrice'
  BY <1>1, <1>2, CreateAuctionsEffect
<1>4. LoansTypeOK'
  BY <1>1, <1>3, AccountsDiffer DEF HonzonInv, TypeOK, LoansTypeOK, AddRefs
<1>5. TypeOK'
  <2>1. TreasuryTypeOK' /\ PricesTypeOK' /\ EngineTypeOK'
    BY <1>1, <1>3, Zenon DEF HonzonInv, TypeOK, TreasuryTypeOK, PricesTypeOK, EngineTypeOK
  <2> QED
    BY <1>1, <1>3, <1>4, <2>1, Zenon DEF HonzonInv, TypeOK
<1>6. LoansCustody' /\ RefundMeansSettled'
  BY <1>1, Zenon DEF HonzonInv, LoansCustody, RefundMeansSettled
<1>7. AuctionsCovered'
  <2> SUFFICES ASSUME ~canRefund, NEW d \in Collaterals
               PROVE  totalCollateralInAuction'[d] <= bal[<<d, TreasuryAccount>>]
    BY <1>1, Zenon DEF AuctionsCovered
  <2>1. /\ totalCollateralInAuction[d] <= bal[<<d, TreasuryAccount>>]
        /\ totalCollateralInAuction[d] \in Nat /\ bal[<<d, TreasuryAccount>>] \in Nat
    BY AccountsDiffer, Zenon DEF HonzonInv, AuctionsCovered, TypeOK, TreasuryTypeOK, Ledger
  <2>2. d = c => bal[<<d, TreasuryAccount>>] - totalCollateralInAuction[d] >= amount
    BY <1>3, <2>1, Zenon DEF total_collaterals_not_in_auction, Monus
  <2> QED
    BY <1>3, <2>1, <2>2
<1> QED
  BY <1>3, <1>5, <1>6, <1>7, Zenon DEF HonzonInv

-----------------------------------------------------------------------------
(* The theorems. *)

(* A step that changes nothing keeps the invariant. *)
LEMMA StutterStep ==
  ASSUME HonzonInv, UNCHANGED vars
  PROVE  HonzonInv'
<1>1. UNCHANGED <<bal, issuance, debitPool, auctionSize, pool, loanVars, consumers, auctionVars,
                  now, isShutdown, debitExchangeRate, collateralParams, globalInterestRate,
                  oracle, locked, canRefund, authorization, reserved, phase, pending>>
  BY Zenon DEF vars, priceVars, tokenVars, treasuryVars, engineVars, paramVars, authVars, blockVars
<1>2. PricesTypeOK' /\ EngineTypeOK'
  BY <1>1, Zenon DEF HonzonInv, TypeOK, PricesTypeOK, EngineTypeOK
<1> QED
  BY <1>1, <1>2, QuietStep, Zenon DEF HonzonInv, TypeOK, TreasuryTypeOK, AuctionTypeOK

(* Genesis satisfies the invariant. *)
LEMMA InitInv == Init => HonzonInv
<1> SUFFICES ASSUME Init PROVE HonzonInv
  OBVIOUS
<1> USE DEF Init
<1>1. \A t \in Tokens, a \in Accounts : GenesisBalance(t, a) \in Nat
  BY HonzonAssumption, Zenon DEF GenesisBalance, Tokens, Pool
<1>2. bal \in Ledger
  BY <1>1, Zenon DEF Ledger
<1>3. \A d \in Collaterals : /\ bal[<<d, LoansAccount>>] = 0
                             /\ bal[<<d, TreasuryAccount>>] \in Nat
  BY <1>1, AccountsDiffer, Zenon DEF GenesisBalance
<1>4. PricesTypeOK /\ EngineTypeOK
  BY HonzonAssumption, Zenon DEF PricesTypeOK, EngineTypeOK
<1>5. TreasuryTypeOK
  BY <1>2, HonzonAssumption, TreasuryAssumption, Zenon DEF TreasuryTypeOK
<1>6. LoansTypeOK
  BY DEF LoansTypeOK, ZeroPosition, Position
<1>7. AuctionTypeOK /\ DOMAIN auctions = {}
  BY Zenon DEF AuctionTypeOK
<1>8. TypeOK
  BY <1>4, <1>5, <1>6, <1>7, Zenon DEF TypeOK
<1>9. LoansCustody
  BY <1>3, Zenon DEF LoansCustody, ZeroPosition
<1>10. AuctionsCovered
  <2>1. \A d \in Collaterals : totalCollateralInAuction[d] = 0
    OBVIOUS
  <2>2. ASSUME NEW d \in Collaterals
        PROVE  totalCollateralInAuction[d] <= bal[<<d, TreasuryAccount>>]
    <3>1. bal[<<d, TreasuryAccount>>] \in Nat
      BY <1>3, Zenon
    <3>2. totalCollateralInAuction[d] = 0
      BY <2>1, Zenon
    <3> HIDE DEF Init
    <3> QED
      BY <3>1, <3>2
  <2> QED
    BY <2>2, Zenon DEF AuctionsCovered
<1>11. RefundMeansSettled /\ ReverseStagePrice
  BY <1>7, Zenon DEF RefundMeansSettled, ReverseStagePrice
<1> QED
  BY <1>8, <1>9, <1>10, <1>11, Zenon DEF HonzonInv

(* Every call and every hook keeps the invariant. *)
LEMMA NextInv == HonzonInv /\ [Next]_vars => HonzonInv'
<1> SUFFICES ASSUME HonzonInv, [Next]_vars PROVE HonzonInv'
  OBVIOUS
<1>1. ASSUME NEW who \in Users, NEW c \in Collaterals, NEW a \in Adjustments,
             adjust_loan(who, c, a[1], a[2])
      PROVE  HonzonInv'
  BY <1>1, AdjustLoanStep, HonzonAssumption, Zenon
<1>2. ASSUME NEW who \in Users, NEW c \in Collaterals, close_loan_has_debit_by_dex(who, c)
      PROVE  HonzonInv'
  BY <1>2, CloseByDexStep, Zenon
<1>3. ASSUME NEW a \in AuthPairs, NEW c \in Collaterals, transfer_loan_from(a[2], a[1], c)
      PROVE  HonzonInv'
  BY <1>3, TransferLoanStep, HonzonAssumption, Zenon
<1>4. ASSUME NEW a \in AuthPairs,
             \/ \E c \in Collaterals : authorize(a[1], a[2], c) \/ unauthorize(a[1], a[2], c)
             \/ unauthorize_all(a[1])
      PROVE  HonzonInv'
  BY <1>4, AuthorizationStep, HonzonAssumption, Zenon
<1>6. ASSUME NEW c \in Collaterals, NEW who \in Users, Liquidate(c, who) \/ Settle(c, who)
      PROVE  HonzonInv'
  BY <1>6, LiquidateStep, SettleStep, Zenon
<1>7. ASSUME NEW who \in Users, NEW id \in DOMAIN auctions, NEW price \in BidPrices,
             Bid(who, id, price)
      PROVE  HonzonInv'
  BY <1>7, BidStep, AuctionAssumption, Zenon
<1>8. ASSUME NEW id \in DOMAIN auctions, Cancel(id) \/ AuctionEnd(id)
      PROVE  HonzonInv'
  BY <1>8, CancelStep, AuctionEndStep, Zenon
<1>9. ASSUME NEW who \in Users, NEW c \in Collaterals, NEW t \in {c, Stable}, NEW n \in Trades,
             Swap(who, c, t, n)
      PROVE  HonzonInv'
  BY <1>9, SwapStep, Zenon
<1>10. ASSUME NEW who \in Users, NEW amount \in RefundAmounts, RefundCollaterals(who, amount)
       PROVE  HonzonInv'
  BY <1>10, RefundStep, Zenon
<1>11. ASSUME NEW c \in Collaterals, NEW a \in AuctionAmounts, NEW split \in BOOLEAN,
              AuctionCollateral(c, a[1], a[2], split)
       PROVE  HonzonInv'
  BY <1>11, AuctionCollateralStep, TreasuryAssumption, Zenon
<1>12. ASSUME NEW amount \in SurplusAmounts, ExtractSurplus(amount)
       PROVE  HonzonInv'
  BY <1>12, ExtractSurplusStep, Zenon
<1>13. ASSUME NEW c \in Collaterals, NEW size \in AuctionSizes, SetAuctionSize(c, size)
       PROVE  HonzonInv'
  BY <1>13, GovernanceStep, Zenon
<1>14. ASSUME NEW c \in Collaterals, SetParams(c) \/ UpdatePrice(c) \/ AccumulateInterest(c)
       PROVE  HonzonInv'
  BY <1>14, SetParamsStep, UpdatePriceStep, InterestStep, Zenon
<1>15. ASSUME Shutdown \/ OpenRefund \/ EndTxs \/ NextBlock \/ OffsetSurplusAndDebit
       PROVE  HonzonInv'
  BY <1>15, ShutdownStep, OpenRefundStep, BlockStep, OffsetStep, Zenon
<1>16. CASE UNCHANGED vars
  BY <1>16, StutterStep, Zenon
<1>17. CASE Hooks
  BY <1>8, <1>14, <1>15, <1>17, Zenon DEF Hooks
<1> QED
  BY <1>1, <1>2, <1>3, <1>4, <1>6, <1>7, <1>8, <1>9, <1>10, <1>11, <1>12, <1>13, <1>14,
     <1>15, <1>16, <1>17 DEF Next

(* Every reachable state satisfies the inductive invariant. *)
THEOREM Invariance == Spec => []HonzonInv
  BY InitInv, NextInv, PTL DEF Spec

(* Types: no balance, debt, position or auction ever leaves its range (no  *)
(* subtraction in a handler goes below zero).                              *)
THEOREM TypeCorrect == Spec => []TypeOK
<1>1. HonzonInv => TypeOK
  BY Zenon DEF HonzonInv
<1> QED
  BY <1>1, Invariance, PTL

(* The loans account holds exactly the collateral booked to positions. *)
THEOREM CustodyHolds == Spec => []LoansCustody
<1>1. HonzonInv => LoansCustody
  BY Zenon DEF HonzonInv
<1> QED
  BY <1>1, Invariance, PTL

(* Until redemption opens, the treasury holds all collateral in auction. *)
THEOREM CoverHolds == Spec => []AuctionsCovered
<1>1. HonzonInv => AuctionsCovered
  BY Zenon DEF HonzonInv
<1> QED
  BY <1>1, Invariance, PTL

(* Once redemption is open no debit is left and none comes back. *)
THEOREM RefundSettled == Spec => []RefundMeansSettled
<1>1. HonzonInv => RefundMeansSettled
  BY Zenon DEF HonzonInv
<1> QED
  BY <1>1, Invariance, PTL

(* A reverse-stage auction never pays more than the bid price implies. *)
THEOREM ReversePriceHolds == Spec => []ReverseStagePrice
<1>1. HonzonInv => ReverseStagePrice
  BY Zenon DEF HonzonInv
<1> QED
  BY <1>1, Invariance, PTL

-----------------------------------------------------------------------------
(* Action properties. *)

(* After shutdown adjust_loan accepts no debit adjustment, the other calls *)
(* on positions are refused and settle only takes debit off.               *)
LEMMA DebitStep ==
  ASSUME HonzonInv, [Next]_vars, isShutdown, NEW k \in Collaterals \X Users
  PROVE  positions'[k].debit <= positions[k].debit
<1>1. LoansTypeOK /\ positions[k].debit \in Nat
  BY Zenon DEF HonzonInv, TypeOK, LoansTypeOK, Position
<1>2. ASSUME NEW who \in Users, NEW c \in Collaterals, NEW a \in Adjustments,
             adjust_loan(who, c, a[1], a[2])
      PROVE  positions'[k].debit <= positions[k].debit
  <2>1. a[1] \in Int /\ a[2] = 0 /\ update_loan(who, c, a[1], a[2], 0)
    BY <1>2, HonzonAssumption, Zenon DEF adjust_loan, adjust_position
  <2>2. positions'[k].debit = IF k = <<c, who>> THEN positions[k].debit + a[2]
                                                ELSE positions[k].debit
    <3>1. a[2] \in Int /\ 0 \in Int
      BY ONLY <2>1
    <3> QED
      BY <1>1, <2>1, <3>1, UpdateLoanDebits, Zenon
  <2> QED
    BY <1>1, <2>1, <2>2
<1>3. ASSUME NEW c \in Collaterals, NEW who \in Users, Settle(c, who)
      PROVE  positions'[k].debit <= positions[k].debit
  <2> DEFINE p == positions[<<c, who>>]
             taken == Least(MulInt(StablePriceIn(c), get_debit_value(c, p.debit)), p.collateral)
  <2>1. p.debit \in Nat /\ p.collateral \in Nat
    BY <1>1, Zenon DEF LoansTypeOK, Position
  <2>2. get_price(c) # NoPrice /\ update_loan(who, c, -taken, -p.debit, 0)
    BY <1>3, Zenon DEF Settle, settle
  <2>3. taken \in Int
    <3>1. get_debit_value(c, p.debit) \in Nat /\ StablePriceIn(c) \in Nat
      BY <2>1, <2>2, PriceNat, DebitValueNat, Zenon DEF HonzonInv, TypeOK
    <3>2. MulInt(StablePriceIn(c), get_debit_value(c, p.debit)) \in Nat
      BY <3>1, MulIntNat, Zenon
    <3> QED
      BY <2>1, <3>2 DEF Least
  <2> HIDE DEF p, taken
  <2>4. positions'[k].debit = IF k = <<c, who>> THEN positions[k].debit + (-p.debit)
                                                ELSE positions[k].debit
    <3>1. -taken \in Int /\ -p.debit \in Int /\ 0 \in Int
      BY <2>1, <2>3
    <3> QED
      BY <1>1, <2>2, <3>1, UpdateLoanDebits, Zenon
  <2> QED
    BY <1>1, <2>1, <2>4
<1>4. ASSUME UNCHANGED positions
      PROVE  positions'[k].debit <= positions[k].debit
  BY <1>1, <1>4
<1>5. CASE Hooks
  BY <1>4, <1>5, Zenon DEF Hooks, EndTxs, AuctionEnd, Dealt, DexTakes, CloseAuction, OffsetSurplusAndDebit,
     NextBlock, AccumulateInterest, accumulate_interest, protocolVars, loanVars
<1>6. ASSUME NEW a \in AuthPairs, NEW c \in Collaterals,
             \/ transfer_loan_from(a[2], a[1], c) \/ authorize(a[1], a[2], c)
             \/ unauthorize(a[1], a[2], c)
      PROVE  positions'[k].debit <= positions[k].debit
  BY <1>4, <1>6, Zenon DEF transfer_loan_from, authorize, unauthorize, protocolVars, loanVars
<1>7. ASSUME NEW a \in AuthPairs, unauthorize_all(a[1])
      PROVE  positions'[k].debit <= positions[k].debit
  BY <1>4, <1>7, Zenon DEF unauthorize_all, protocolVars, loanVars
<1>8. ASSUME NEW c \in Collaterals, NEW who \in Users,
             close_loan_has_debit_by_dex(who, c) \/ Liquidate(c, who)
      PROVE  positions'[k].debit <= positions[k].debit
  BY <1>8, Zenon DEF close_loan_has_debit_by_dex, Liquidate, liquidate
<1>9. ASSUME NEW id \in DOMAIN auctions, Cancel(id) \/ \E who \in Users, price \in BidPrices : Bid(who, id, price)
      PROVE  positions'[k].debit <= positions[k].debit
  BY <1>4, <1>9, Zenon DEF Cancel, cancel, CloseAuction, Bid, bid, loanVars
<1>10. ASSUME NEW who \in Users, NEW c \in Collaterals, NEW t \in Tokens, NEW n \in Trades,
              Swap(who, c, t, n)
       PROVE  positions'[k].debit <= positions[k].debit
  BY <1>4, <1>10, Zenon DEF Swap, loanVars
<1>11. ASSUME NEW who \in Users, NEW amount \in RefundAmounts, RefundCollaterals(who, amount)
       PROVE  positions'[k].debit <= positions[k].debit
  BY <1>4, <1>11, Zenon DEF RefundCollaterals, refund_collaterals, loanVars
<1>12. ASSUME NEW c \in Collaterals, NEW a \in AuctionAmounts, NEW split \in BOOLEAN,
              AuctionCollateral(c, a[1], a[2], split)
       PROVE  positions'[k].debit <= positions[k].debit
  BY <1>4, <1>12, Zenon DEF AuctionCollateral, auction_collateral, loanVars
<1>13. ASSUME NEW amount \in SurplusAmounts, ExtractSurplus(amount)
       PROVE  positions'[k].debit <= positions[k].debit
  BY <1>4, <1>13, Zenon DEF ExtractSurplus, loanVars
<1>14. ASSUME NEW c \in Collaterals,
              \/ \E size \in AuctionSizes : SetAuctionSize(c, size)
              \/ SetParams(c) \/ UpdatePrice(c)
       PROVE  positions'[k].debit <= positions[k].debit
  BY <1>4, <1>14, Zenon DEF SetAuctionSize, SetParams, UpdatePrice, protocolVars, loanVars
<1>15. CASE Shutdown \/ OpenRefund \/ UNCHANGED vars
  BY <1>4, <1>15, Zenon DEF Shutdown, emergency_shutdown, OpenRefund, open_collateral_refund, vars, loanVars
<1> QED
  BY <1>2, <1>3, <1>5, <1>6, <1>7, <1>8, <1>9, <1>10, <1>11, <1>12, <1>13, <1>14, <1>15 DEF Next

(* After shutdown no position's debit grows. *)
THEOREM DebitFrozen == Spec => NoNewDebit
<1>1. HonzonInv /\ [Next]_vars =>
        [isShutdown => \A k \in Collaterals \X Users :
                         positions'[k].debit <= positions[k].debit]_vars
  BY DebitStep, Zenon
<1> QED
  BY <1>1, Invariance, PTL DEF Spec, NoNewDebit

(* While redemption is open only a redemption and the treasury's offset    *)
(* lower the issuance of stable currency.                                  *)
LEMMA IssuanceFalls ==
  ASSUME HonzonInv, [Next]_vars, canRefund, issuance' < issuance,
         \A who \in Users, amount \in RefundAmounts : ~RefundCollaterals(who, amount)
  PROVE  OffsetSurplusAndDebit
<1>1. isShutdown /\ issuance \in Nat
  BY Zenon DEF HonzonInv, RefundMeansSettled, TypeOK, TreasuryTypeOK
<1>2. ~(UNCHANGED issuance)
  BY <1>1
<1>3. ASSUME NEW n \in Nat PROVE issuance' # issuance + n
  BY <1>1
<1>4. ASSUME NEW who \in Users, NEW c \in Collaterals, NEW a \in Adjustments,
             adjust_loan(who, c, a[1], a[2])
      PROVE  FALSE
  <2>1. a[2] = 0 /\ issuance' = issuance + get_debit_value(c, 0)
    BY <1>1, <1>4, HonzonAssumption DEF adjust_loan, adjust_position
  <2> QED
    BY <1>3, <2>1, DebitValueNat, Zenon DEF HonzonInv, TypeOK
<1>5. ASSUME NEW id \in DOMAIN auctions, Cancel(id)
      PROVE  FALSE
  <2>1. auctions[id].bid \in Nat
    BY AuctionFields, Zenon
  <2> QED
    BY <1>2, <1>3, <1>5, <2>1, Zenon DEF Cancel, cancel
<1>6. ASSUME NEW id \in DOMAIN auctions, AuctionEnd(id)
      PROVE  FALSE
  <2>1. CASE Dealt(id)
    BY <1>2, <2>1, Zenon DEF Dealt
  <2>2. CASE DexTakes(id)
    <3> DEFINE a == auctions[id]
               pays == DexPays(a)
               extra == IF in_reverse_stage(a, pays) THEN pays - a.target ELSE 0
    <3>1. a.currency \in Collaterals /\ a.amount \in Nat /\ a.bid \in Nat /\ a.target \in Nat
      BY AuctionFields, Zenon
    <3>2. pays # 0 /\ issuance' = issuance + (a.bid + extra)
      BY <2>2, Zenon DEF DexTakes
    <3>3. pays = SwapExactToStable(bal, a.currency, a.amount)
      BY <3>2, Zenon DEF DexPays
    <3>4. bal \in Ledger /\ TreasuryTypeOK
      BY Zenon DEF HonzonInv, TypeOK, TreasuryTypeOK
    <3>5. pays \in Nat
      BY <3>1, <3>2, <3>3, <3>4, SwapExactToStableBounds, Zenon
    <3> HIDE DEF a, pays
    <3>6. a.bid + extra \in Nat
      BY <3>1, <3>5 DEF in_reverse_stage
    <3> QED
      BY <1>3, <3>2, <3>6, Zenon
  <2> QED
    BY <1>6, <2>1, <2>2, Zenon DEF AuctionEnd
<1>7. ASSUME NEW c \in Collaterals, AccumulateInterest(c)
      PROVE  FALSE
  BY <1>1, <1>2, <1>7, Zenon DEF AccumulateInterest, accumulate_interest, tokenVars
<1>8. CASE Hooks
  BY <1>2, <1>6, <1>7, <1>8, Zenon DEF Hooks, EndTxs, NextBlock, protocolVars, tokenVars
<1>9. ASSUME NEW a \in AuthPairs, NEW c \in Collaterals,
             \/ transfer_loan_from(a[2], a[1], c) \/ authorize(a[1], a[2], c)
             \/ unauthorize(a[1], a[2], c)
      PROVE  FALSE
  BY <1>1, <1>2, <1>9, Zenon DEF transfer_loan_from, authorize, unauthorize, protocolVars, tokenVars
<1>10. ASSUME NEW a \in AuthPairs, unauthorize_all(a[1])
       PROVE  FALSE
  BY <1>2, <1>10, Zenon DEF unauthorize_all, protocolVars, tokenVars
<1>11. ASSUME NEW c \in Collaterals, NEW who \in Users,
             close_loan_has_debit_by_dex(who, c) \/ Liquidate(c, who) \/ Settle(c, who)
       PROVE  FALSE
  BY <1>1, <1>2, <1>11, Zenon DEF close_loan_has_debit_by_dex, Liquidate, liquidate, Settle, settle
<1>12. ASSUME NEW id \in DOMAIN auctions, NEW who \in Users, NEW price \in BidPrices,
              Bid(who, id, price)
       PROVE  FALSE
  BY <1>2, <1>12, Zenon DEF Bid, bid
<1>13. ASSUME NEW who \in Users, NEW c \in Collaterals, NEW t \in Tokens, NEW n \in Trades,
              Swap(who, c, t, n)
       PROVE  FALSE
  BY <1>2, <1>13, Zenon DEF Swap, swap_with_exact_supply
<1>14. ASSUME NEW c \in Collaterals, NEW a \in AuctionAmounts, NEW split \in BOOLEAN,
              AuctionCollateral(c, a[1], a[2], split)
       PROVE  FALSE
  BY <1>2, <1>14, Zenon DEF AuctionCollateral, auction_collateral, tokenVars
<1>15. ASSUME NEW amount \in SurplusAmounts, ExtractSurplus(amount)
       PROVE  FALSE
  BY <1>2, <1>15, Zenon DEF ExtractSurplus, extract_surplus_to_treasury
<1>16. ASSUME NEW c \in Collaterals,
              \/ \E size \in AuctionSizes : SetAuctionSize(c, size)
              \/ SetParams(c) \/ UpdatePrice(c)
       PROVE  FALSE
  BY <1>2, <1>16, Zenon DEF SetAuctionSize, set_expected_collateral_auction_size, SetParams,
     UpdatePrice, protocolVars, tokenVars
<1>17. ~(Shutdown \/ OpenRefund \/ UNCHANGED vars)
  BY <1>2, Zenon DEF Shutdown, emergency_shutdown, OpenRefund, open_collateral_refund, vars, tokenVars
<1> QED
  BY <1>4, <1>5, <1>8, <1>9, <1>10, <1>11, <1>12, <1>13, <1>14, <1>15, <1>16, <1>17 DEF Next

(* Paying out r of held for n of iss units of stable currency. *)
LEMMA ProportionKept ==
  ASSUME NEW held \in Nat, NEW iss \in Nat, NEW n \in Nat, NEW r \in Nat,
         r <= held, r * iss <= n * held
  PROVE  (held - r) * iss >= held * Monus(iss, n)
<1>1. CASE n <= iss
  <2>1. Monus(iss, n) = iss - n
    BY <1>1, Zenon DEF Monus
  <2>2. (held - r) * iss = held * iss - r * iss
    OBVIOUS
  <2>3. held * (iss - n) = held * iss - n * held
    OBVIOUS
  <2>4. held * iss \in Nat /\ r * iss \in Nat /\ n * held \in Nat
    BY MulNat, Zenon
  <2> QED
    BY <2>1, <2>2, <2>3, <2>4
<1>2. CASE n > iss
  <2>1. Monus(iss, n) = 0
    BY <1>2 DEF Monus
  <2>2. held * 0 = 0
    OBVIOUS
  <2>3. (held - r) \in Nat
    OBVIOUS
  <2>4. (held - r) * iss \in Nat
    BY <2>3, MulNat, Zenon
  <2> QED
    BY <2>1, <2>2, <2>4
<1> QED
  BY <1>1, <1>2

(* A redemption keeps the treasury's holding per unit outstanding. *)
LEMMA RedemptionStep ==
  ASSUME HonzonInv, [Next]_vars, canRefund, issuance' < issuance, NEW c \in Collaterals
  PROVE  bal'[<<c, TreasuryAccount>>] * issuance >= bal[<<c, TreasuryAccount>>] * issuance'
<1> DEFINE held == bal[<<c, TreasuryAccount>>]
<1>1. /\ TreasuryTypeOK /\ issuance \in Nat /\ held \in Nat /\ debitPool \in Nat
      /\ bal[<<Stable, TreasuryAccount>>] \in Nat /\ bal \in Ledger
  BY AccountsDiffer, Zenon DEF HonzonInv, TypeOK, TreasuryTypeOK, Ledger
<1>2. ASSUME NEW who \in Users, NEW amount \in RefundAmounts, RefundCollaterals(who, amount)
      PROVE  bal'[<<c, TreasuryAccount>>] * issuance >= bal[<<c, TreasuryAccount>>] * issuance'
  <2> DEFINE r == RefundOf(c, amount)
  <2>1. refund_collaterals(who, amount) /\ issuance' = Monus(issuance, amount)
    BY <1>2, Zenon DEF RefundCollaterals, refund_collaterals, Burned
  <2>2. bal' \in Ledger /\ bal'[<<c, TreasuryAccount>>] = held - r
    BY <2>1, RefundCells, Zenon
  <2>3. amount \in Nat
    BY RefundAssumption, Zenon
  <2>4. r \in Nat /\ r * issuance <= amount * held
    BY <1>1, <2>3, RefundOfBounds, Zenon
  <2> HIDE DEF r, held
  <2>5. held - r \in Nat
    BY <2>2, AccountsDiffer, Zenon DEF Ledger
  <2>6. r <= held
    BY <1>1, <2>4, <2>5
  <2>7. (held - r) * issuance >= held * Monus(issuance, amount)
    BY <1>1, <2>3, <2>4, <2>6, ProportionKept, Zenon
  <2> QED
    BY <2>1, <2>2, <2>7, Zenon DEF held
<1>3. CASE \A who \in Users, amount \in RefundAmounts : ~RefundCollaterals(who, amount)
  <2> DEFINE offset == Least(debitPool, surplus_pool)
             b == Withdraw(bal, Stable, TreasuryAccount, offset)
  <2>1. OffsetSurplusAndDebit
    BY <1>3, IssuanceFalls, Zenon
  <2>2. bal' = b /\ issuance' = Monus(issuance, offset)
    BY <2>1, Zenon DEF OffsetSurplusAndDebit, offset_surplus_and_debit, Burned
  <2>3. offset \in Nat /\ CanWithdraw(bal, Stable, TreasuryAccount, offset)
    BY <1>1 DEF Least, surplus_pool, CanWithdraw
  <2> HIDE DEF offset
  <2>4. b[<<c, TreasuryAccount>>] = held
    BY <1>1, <2>3, WithdrawCells, AccountsDiffer
  <2>5. 0 * issuance <= offset * held
    BY <1>1, <2>3, MulNat
  <2> HIDE DEF b, held
  <2>6. (held - 0) * issuance >= held * Monus(issuance, offset)
    BY <1>1, <2>3, <2>5, ProportionKept
  <2> QED
    BY <1>1, <2>2, <2>4, <2>6 DEF held
<1> QED
  BY <1>2, <1>3, Zenon

(* Redeeming never lowers what a unit still outstanding stands for, of any *)
(* collateral type.                                                        *)
THEOREM RedemptionIsFair == Spec => RedemptionFair
<1>1. HonzonInv /\ [Next]_vars =>
        [(canRefund /\ issuance' < issuance) =>
           \A c \in Collaterals :
             bal'[<<c, TreasuryAccount>>] * issuance >= bal[<<c, TreasuryAccount>>] * issuance']_vars
  BY RedemptionStep, Zenon
<1> QED
  BY <1>1, Invariance, PTL DEF Spec, RedemptionFair
=============================================================================

----------------------------- MODULE CDPTreasury -----------------------------
(***************************************************************************)
(* module_cdp_treasury: the debit pool (bad debt of the system), the       *)
(* surplus pool (stable currency of the treasury's account), the           *)
(* collateral it holds, and how confiscated collateral is cut into lots.   *)
(* TotalCollateralInAuction belongs to the auction manager; the treasury   *)
(* only reads it.                                                          *)
(***************************************************************************)
EXTENDS Prices, DexMath

CONSTANTS MaxAuctionsCount,   \* most lots one confiscation is cut into
          AuctionSizes,       \* values governance gives expected_collateral_auction_size
          SurplusAmounts,     \* amounts governance extracts
          AuctionAmounts      \* <<amount, target>> governance auctions

ASSUME TreasuryAssumption ==
  /\ MaxAuctionsCount \in Nat
  /\ AuctionSizes \subseteq Nat /\ SurplusAmounts \subseteq Nat
  /\ AuctionAmounts \subseteq Nat \X Nat

VARIABLES bal,                        \* bal[<<t, a>>]: free balances
          issuance,                   \* total issuance of the stable currency
          debitPool,                  \* DebitPool
          auctionSize,                \* ExpectedCollateralAuctionSize
          totalCollateralInAuction,   \* of the auction manager
          pool                        \* the DEX's liquidity in (c, stable)

tokenVars == <<bal, issuance>>
treasuryVars == <<debitPool, auctionSize>>

Pool == [collateral : Nat, stable : Nat]

TreasuryTypeOK ==
  /\ bal \in Ledger /\ issuance \in Nat
  /\ debitPool \in Nat
  /\ auctionSize \in [Collaterals -> Nat]
  /\ totalCollateralInAuction \in [Collaterals -> Nat]
  /\ pool \in [Collaterals -> Pool]

(* the issuance of the stable currency after a withdraw; it never saturates *)
Burned(n) == Monus(issuance, n)

surplus_pool == bal[<<Stable, TreasuryAccount>>]

(* mutant of total_collaterals_not_in_auction: all the treasury holds *)
AllCollaterals(b, c) == b[<<c, TreasuryAccount>>]

(* on the ledger b, which may already hold a confiscated collateral *)
total_collaterals_not_in_auction(b, c) ==
  Monus(b[<<c, TreasuryAccount>>], totalCollateralInAuction[c])

(* mutant of get_debit_proportion: rounds up *)
DebitProportionRoundedUp(amount) ==
  IF issuance = 0 THEN 0 ELSE (amount * One + issuance - 1) \div issuance

get_debit_proportion(amount) ==
  IF issuance = 0 THEN 0 ELSE FromRational(amount, issuance)

(* swap_collateral_to_exact_stable with collateral that is not in auction: *)
(* the supply the DEX takes, 0 when the call returns an error              *)
SwapToExactStable(b, c, maxSupply, target, limit) ==
  LET supply == SupplyOf(pool[c].collateral, pool[c].stable, target, limit)
  IN IF /\ total_collaterals_not_in_auction(b, c) >= maxSupply /\ supply <= maxSupply
        /\ CanTransfer(b, Stable, DexAccount, TreasuryAccount, target)
     THEN supply ELSE 0

(* swap_exact_collateral_to_stable with collateral in auction: the stable  *)
(* currency the DEX pays, 0 when the call returns an error                 *)
SwapExactToStable(b, c, supply) ==
  LET target == TargetOf(pool[c].collateral, pool[c].stable, supply, 0)
  IN IF /\ b[<<c, TreasuryAccount>>] >= supply /\ totalCollateralInAuction[c] >= supply
        /\ CanTransfer(b, Stable, DexAccount, TreasuryAccount, target)
     THEN target ELSE 0

(* the ledger and the pool after the treasury swapped *)
SwapLedger(b, c, supply, target) ==
  Transfer(Transfer(b, c, TreasuryAccount, DexAccount, supply),
           Stable, DexAccount, TreasuryAccount, target)

SwapPool(c, supply, target) ==
  [pool EXCEPT ![c] = [collateral |-> @.collateral + supply,
                       stable |-> Monus(@.stable, target)]]

(* A trader swaps amount of token t of pool c against the other one. *)
swap_with_exact_supply(who, c, t, amount) ==
  LET p      == pool[c]
      in     == IF t = Stable THEN p.stable ELSE p.collateral
      out    == IF t = Stable THEN p.collateral ELSE p.stable
      other  == IF t = Stable THEN c ELSE Stable
      target == TargetOf(in, out, amount, 0)
  IN /\ target # 0
     /\ CanTransfer(bal, t, who, DexAccount, amount)
     /\ CanTransfer(bal, other, DexAccount, who, target)
     /\ bal' = Transfer(Transfer(bal, t, who, DexAccount, amount),
                        other, DexAccount, who, target)
     /\ pool' = [pool EXCEPT ![c] =
                   IF t = Stable
                   THEN [collateral |-> @.collateral - target, stable |-> @.stable + amount]
                   ELSE [collateral |-> @.collateral + amount, stable |-> @.stable - target]]
     /\ UNCHANGED <<issuance, treasuryVars, totalCollateralInAuction>>

-----------------------------------------------------------------------------
(* create_collateral_auctions: how many lots, and what lot i holds.  The   *)
(* loop runs until no collateral is left, so a zero amount makes no lot.   *)

LotsCount(c, amount, split) ==
  IF ~split \/ MaxAuctionsCount = 0 \/ auctionSize[c] = 0 \/ amount <= auctionSize[c]
  THEN 1
  ELSE Least((amount + auctionSize[c] - 1) \div auctionSize[c], MaxAuctionsCount)

Lot(n, i, amount, target) ==
  LET averageAmount == amount \div n
      averageTarget == target \div n
  IN IF i = n
     THEN [amount |-> amount - (n - 1) * averageAmount,
           target |-> target - (n - 1) * averageTarget]
     ELSE [amount |-> averageAmount, target |-> averageTarget]

-----------------------------------------------------------------------------
(* extract_surplus_to_treasury *)
extract_surplus_to_treasury(amount) ==
  /\ CanTransfer(bal, Stable, TreasuryAccount, GovAccount, amount)
  /\ bal' = Transfer(bal, Stable, TreasuryAccount, GovAccount, amount)
  /\ UNCHANGED <<issuance, treasuryVars, totalCollateralInAuction, pool>>

set_expected_collateral_auction_size(c, size) ==
  /\ auctionSize' = [auctionSize EXCEPT ![c] = size]
  /\ UNCHANGED <<tokenVars, debitPool, totalCollateralInAuction, pool>>

(* mutant of offset_surplus_and_debit: the debit pool keeps the offset *)
OffsetKeepsDebit ==
  LET offset == Least(debitPool, surplus_pool)
  IN /\ bal' = Withdraw(bal, Stable, TreasuryAccount, offset)
     /\ issuance' = Burned(offset)
     /\ UNCHANGED <<treasuryVars, totalCollateralInAuction, pool>>

(* on_finalize: burn what the debit pool and the surplus pool share *)
offset_surplus_and_debit ==
  LET offset == Least(debitPool, surplus_pool)
  IN /\ bal' = Withdraw(bal, Stable, TreasuryAccount, offset)
     /\ issuance' = Burned(offset)
     /\ debitPool' = debitPool - offset
     /\ UNCHANGED <<auctionSize, totalCollateralInAuction, pool>>
=============================================================================

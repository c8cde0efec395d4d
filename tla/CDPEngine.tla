------------------------------ MODULE CDPEngine ------------------------------
(***************************************************************************)
(* module_cdp_engine: the risk checks on positions, interest, liquidation  *)
(* of unsafe positions and settlement of positions after shutdown.  Debit  *)
(* is counted in debit units; one unit is worth debitExchangeRate[c] of    *)
(* stable currency.  A parameter that is None in the code has its default  *)
(* here, and a required_collateral_ratio of 0 stands for None.             *)
(***************************************************************************)
EXTENDS AuctionManager

CONSTANTS MinimumDebitValue,        \* in stable currency
          MaxSlippageSwapWithDEX,   \* Ratio
          SecsPerBlock,             \* seconds between two on_initialize
          ParamChoices,             \* values governance gives collateral_params
          GlobalRates,              \* values governance gives the global interest rate
          MaxRate                   \* bound on a debit exchange rate

RiskManagementParams ==
  [interest : Nat, liquidationRatio : Nat, liquidationPenalty : Nat,
   requiredRatio : Nat, maxTotalDebitValue : Nat]

ASSUME EngineAssumption ==
  /\ MinimumDebitValue \in Nat /\ MaxSlippageSwapWithDEX \in Nat \ {0}
  /\ MaxRate \in Nat
  /\ ParamChoices \subseteq RiskManagementParams /\ GlobalRates \subseteq Nat

VARIABLES debitExchangeRate,   \* DebitExchangeRate[c]
          collateralParams,    \* CollateralParams[c]
          globalInterestRate   \* GlobalInterestRatePerSec

paramVars == <<collateralParams, globalInterestRate>>
engineVars == <<debitExchangeRate, paramVars>>

EngineTypeOK ==
  /\ debitExchangeRate \in [Collaterals -> Nat]
  /\ collateralParams \in [Collaterals -> RiskManagementParams]
  /\ globalInterestRate \in Nat

(* DebitExchangeRateConvertor, get_debit_value and get_bad_debt_value *)
get_debit_value(c, debit) == MulInt(debitExchangeRate[c], debit)

(* calculate_collateral_ratio >= ratio; the ratio of a debit without value *)
(* is Rate::max_value()                                                    *)
RatioAtLeast(c, p, ratio) ==
  LET value == get_debit_value(c, p.debit)
  IN value = 0 \/ FromRational(MulInt(get_price(c), p.collateral), value) >= ratio

is_cdp_unsafe(c, p) ==
  get_price(c) # NoPrice /\ ~RatioAtLeast(c, p, collateralParams[c].liquidationRatio)

check_position_valid(c, p) ==
  p.debit # 0 =>
    /\ get_price(c) # NoPrice
    /\ RatioAtLeast(c, p, collateralParams[c].requiredRatio)
    /\ RatioAtLeast(c, p, collateralParams[c].liquidationRatio)
    /\ get_debit_value(c, p.debit) >= MinimumDebitValue

check_debit_cap(c, totalDebit) ==
  get_debit_value(c, totalDebit) <= collateralParams[c].maxTotalDebitValue

-----------------------------------------------------------------------------
(* Loans::adjust_position with the engine as its risk manager *)
adjust_position(who, c, dc, dd) ==
  LET value == get_debit_value(c, IF dd < 0 THEN -dd ELSE dd)
      moved == IF dc >= 0 THEN Transfer(bal, c, who, LoansAccount, dc)
                          ELSE Transfer(bal, c, LoansAccount, who, -dc)
  IN /\ update_loan(who, c, dc, dd, 0)
     /\ IF dc >= 0 THEN CanTransfer(bal, c, who, LoansAccount, dc)
                   ELSE CanTransfer(bal, c, LoansAccount, who, -dc)
     /\ dd > 0 => check_debit_cap(c, totalPositions[c].debit + dd)
     /\ dd < 0 => CanWithdraw(moved, Stable, who, value)
     /\ check_position_valid(c, Adjusted(positions[<<c, who>>], dc, dd))
     /\ bal' = IF dd >= 0 THEN Deposit(moved, Stable, who, value)
                          ELSE Withdraw(moved, Stable, who, value)
     /\ issuance' = IF dd >= 0 THEN issuance + value ELSE Burned(value)
     /\ UNCHANGED <<treasuryVars, pool, auctionVars, now, isShutdown, engineVars>>

(* Loans::transfer_loan *)
transfer_loan(from, to, c) ==
  LET p == positions[<<c, from>>]
  IN /\ check_position_valid(c, Adjusted(positions[<<c, to>>], p.collateral, p.debit))
     /\ TransferPosition(from, to, c)
     /\ UNCHANGED <<tokenVars, treasuryVars, pool, auctionVars, now, isShutdown, engineVars>>

(* mutant of Confiscated: booked but not transferred *)
ConfiscatedOnBooks(c, collateral) == bal

(* confiscate_collateral_and_debit on the ledger: the treasury's bad debt *)
(* grows by the value of the debit (see the uses)                         *)
Confiscated(c, collateral) == Transfer(bal, c, LoansAccount, TreasuryAccount, collateral)

CanConfiscate(c, collateral) == CanTransfer(bal, c, LoansAccount, TreasuryAccount, collateral)

(* The treasury bought `target` of stable currency for `supply` of the     *)
(* confiscated collateral of p and returns the rest to the owner.          *)
ExchangeConfiscated(who, c, p, supply, target) ==
  LET b    == SwapLedger(Confiscated(c, p.collateral), c, supply, target)
      rest == p.collateral - supply
  IN /\ CanTransfer(b, c, TreasuryAccount, who, rest)
     /\ bal' = Transfer(b, c, TreasuryAccount, who, rest)
     /\ pool' = SwapPool(c, supply, target)
     /\ update_loan(who, c, -p.collateral, -p.debit, 0)
     /\ UNCHANGED auctionVars

close_cdp_has_debit_by_dex(who, c) ==
  LET p      == positions[<<c, who>>]
      value  == get_debit_value(c, p.debit)
      supply == SwapToExactStable(Confiscated(c, p.collateral), c, p.collateral, value, 0)
  IN /\ p.debit # 0
     /\ ~is_cdp_unsafe(c, p)
     /\ CanConfiscate(c, p.collateral)
     /\ supply # 0
     /\ debitPool' = debitPool + value
     /\ ExchangeConfiscated(who, c, p, supply, value)
     /\ UNCHANGED <<issuance, auctionSize, now, isShutdown, engineVars>>

(* liquidate_unsafe_cdp: swap with the DEX within the slippage limit, or *)
(* else auction the collateral                                           *)
LiquidationTarget(c, p) ==
  MulAccInt(collateralParams[c].liquidationPenalty, get_debit_value(c, p.debit))

LiquidationSupply(c, p) ==
  SwapToExactStable(Confiscated(c, p.collateral), c, p.collateral,
                    LiquidationTarget(c, p), MaxSlippageSwapWithDEX)

liquidate_unsafe_cdp(who, c) ==
  LET p      == positions[<<c, who>>]
      supply == LiquidationSupply(c, p)
      b      == Confiscated(c, p.collateral)
  IN /\ is_cdp_unsafe(c, p)
     /\ CanConfiscate(c, p.collateral)
     /\ debitPool' = debitPool + get_debit_value(c, p.debit)
     /\ \/ /\ supply # 0
           /\ ExchangeConfiscated(who, c, p, supply, LiquidationTarget(c, p))
        \/ /\ supply = 0
           /\ create_collateral_auctions(b, c, p.collateral, LiquidationTarget(c, p), who, TRUE)
           /\ update_loan(who, c, -p.collateral, -p.debit, LotsMade(c, p.collateral, TRUE))
           /\ bal' = b
           /\ UNCHANGED pool
     /\ UNCHANGED <<issuance, auctionSize, now, isShutdown, engineVars>>

liquidate(c, who) ==
  /\ ~isShutdown
  /\ liquidate_unsafe_cdp(who, c)

(* settle_cdp_has_debit: after shutdown, collateral of the debit's value  *)
(* at the settlement price goes to the treasury, the rest stays           *)
settle(c, who) ==
  LET p     == positions[<<c, who>>]
      value == get_debit_value(c, p.debit)
      taken == Least(MulInt(StablePriceIn(c), value), p.collateral)
  IN /\ isShutdown
     /\ p.debit # 0
     /\ get_price(c) # NoPrice
     /\ CanConfiscate(c, taken)
     /\ bal' = Confiscated(c, taken)
     /\ debitPool' = debitPool + value
     /\ update_loan(who, c, -taken, -p.debit, 0)
     /\ UNCHANGED <<issuance, auctionSize, pool, auctionVars, now, isShutdown, engineVars>>

-----------------------------------------------------------------------------
(* accumulate_interest, for one collateral type of the loop.               *)
(* saturating_pow squares and multiplies; blocks are a few seconds apart.  *)
ASSUME SecsAssumption == SecsPerBlock \in 0 .. 3

compound_interest_rate(rate, secs) ==
  LET r      == rate + One
      square == MulFixed(r, r)
      power  == IF secs = 0 THEN One
                ELSE IF secs = 1 THEN r
                ELSE IF secs = 2 THEN square
                ELSE MulFixed(r, square)
  IN Monus(power, One)

RateIncrement(c) ==
  MulFixed(debitExchangeRate[c],
           compound_interest_rate(collateralParams[c].interest + globalInterestRate, SecsPerBlock))

accumulate_interest(c) ==
  LET rate       == compound_interest_rate(collateralParams[c].interest + globalInterestRate,
                                           SecsPerBlock)
      totalDebit == totalPositions[c].debit
      issued     == MulInt(RateIncrement(c), get_debit_value(c, totalDebit))
  IN /\ IF ~isShutdown /\ rate # 0 /\ totalDebit # 0
        THEN /\ debitExchangeRate[c] + RateIncrement(c) <= MaxRate     \* bound
             /\ bal' = Deposit(bal, Stable, TreasuryAccount, issued)
             /\ issuance' = issuance + issued
             /\ debitExchangeRate' = [debitExchangeRate EXCEPT ![c] = @ + RateIncrement(c)]
        ELSE UNCHANGED <<tokenVars, debitExchangeRate>>
     /\ UNCHANGED <<treasuryVars, pool, loanVars, consumers, auctionVars, now, isShutdown,
                    paramVars>>

set_collateral_params(c) ==
  /\ \E params \in ParamChoices : collateralParams' = [collateralParams EXCEPT ![c] = params]
  /\ UNCHANGED globalInterestRate

set_global_params ==
  /\ \E rate \in GlobalRates : globalInterestRate' = rate
  /\ UNCHANGED collateralParams
=============================================================================

----------------------------- MODULE Currencies -----------------------------
(***************************************************************************)
(* The token operations every pallet uses through module_currencies        *)
(* (MultiCurrency).  Handlers of several pallets change several balances   *)
(* in one transaction, so an operation is a function from a ledger b (free *)
(* balance by token and account) to a ledger, beside the condition under   *)
(* which the code returns Ok.  Existential deposits and locks are left     *)
(* out.                                                                    *)
(***************************************************************************)
EXTENDS FixedU128

CONSTANTS Users,        \* signed accounts
          Collaterals   \* CollateralCurrencyIds

Stable == "AUSD"                    \* GetStableCurrencyId
LoansAccount == "loans"             \* module account of module_loans
TreasuryAccount == "cdp_treasury"   \* module account of module_cdp_treasury
DexAccount == "dex"                 \* module account of module_dex
GovAccount == "treasury"            \* T::TreasuryAccount, the council's treasury

ModuleAccounts == {LoansAccount, TreasuryAccount, DexAccount, GovAccount}
Accounts == Users \cup ModuleAccounts
Tokens == Collaterals \cup {Stable}

(* Module accounts are derived from pallet ids, no key pair signs for them; *)
(* the stable currency is not a collateral type.                            *)
ASSUME AccountsAssumption ==
  /\ Users \cap (ModuleAccounts \cup {"nobody"}) = {}
  /\ Stable \notin Collaterals /\ "offset" \notin Collaterals

Ledger == [Tokens \X Accounts -> Nat]

(* mutant of CanTransfer: the balance is not checked *)
CanTransferUnchecked(b, t, from, to, n) == TRUE

(* MultiCurrency::transfer: nothing to do for a zero amount or to oneself *)
CanTransfer(b, t, from, to, n) == n = 0 \/ from = to \/ b[<<t, from>>] >= n

Transfer(b, t, from, to, n) ==
  IF from = to THEN b
  ELSE [[b EXCEPT ![<<t, from>>] = @ - n] EXCEPT ![<<t, to>>] = @ + n]

(* MultiCurrency::deposit and ::withdraw; the caller also moves the issuance *)
Deposit(b, t, who, n) == [b EXCEPT ![<<t, who>>] = @ + n]

CanWithdraw(b, t, who, n) == b[<<t, who>>] >= n

Withdraw(b, t, who, n) == [b EXCEPT ![<<t, who>>] = @ - n]
=============================================================================

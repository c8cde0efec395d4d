--------------------------- MODULE NativeBalances ---------------------------
(***************************************************************************)
(* The native currency as the pallets use it (pallet_balances, Currency    *)
(* and NamedReservableCurrency): an operation is a function from a ledger  *)
(* to a ledger, beside the condition under which the code returns Ok.      *)
(* Withdrawn amounts that are not yet settled are in no account.           *)
(***************************************************************************)
EXTENDS Integers, FiniteSets, FiniteSetsExt

CONSTANTS Users, ExistentialDeposit

Pot == "collator_pot"       \* account_id() of module_collator_selection
Treasury == "treasury"      \* TreasuryAccount
DexAccount == "dex"         \* module account of module_dex
Accounts == Users \cup {Pot, Treasury, DexAccount}

ASSUME BalancesAssumption ==
  ExistentialDeposit \in Nat \ {0} /\ Users \cap {Pot, Treasury, DexAccount} = {}

VARIABLE native   \* free balances, the two named reserves, TotalIssuance

TotalBalance(b, a) == b.free[a] + b.fee[a] + b.bond[a]
Alive(b, a) == TotalBalance(b, a) > 0

(* An account that falls below the existential deposit is reaped: the dust *)
(* leaves the issuance.                                                    *)
Reaped(b, a) ==
  IF TotalBalance(b, a) >= ExistentialDeposit THEN b
  ELSE [b EXCEPT !.free[a] = 0, !.issuance = @ - b.free[a]]

(* withdraw, ExistenceRequirement::KeepAlive *)
CanWithdraw(b, a, n) == b.free[a] >= n /\ TotalBalance(b, a) - n >= ExistentialDeposit
Withdraw(b, a, n) == [b EXCEPT !.free[a] = @ - n]

(* deposit_creating and resolve_creating: what a dead account cannot hold is burned *)
Resolve(b, a, n) ==
  IF Alive(b, a) \/ n >= ExistentialDeposit THEN [b EXCEPT !.free[a] = @ + n]
                                            ELSE [b EXCEPT !.issuance = @ - n]

CanTransfer(b, from, to, n, keepAlive) ==
  n = 0 \/ from = to
    \/ /\ b.free[from] >= n /\ TotalBalance(b, to) + n >= ExistentialDeposit
       /\ keepAlive => TotalBalance(b, from) - n >= ExistentialDeposit
Transfer(b, from, to, n) ==
  IF from = to THEN b ELSE Reaped([b EXCEPT !.free[from] = @ - n, !.free[to] = @ + n], from)

(* What the accounts hold. *)
Held(b) == FoldSet(LAMBDA a, n : n + TotalBalance(b, a), 0, Accounts)
=============================================================================

-------------------------- MODULE CurrenciesProofs --------------------------
(***************************************************************************)
(* What the token operations do to a ledger: the result is a ledger again  *)
(* (no balance below zero) and only the balances named change.             *)
(***************************************************************************)
EXTENDS Currencies, FixedU128Proofs

(* A transfer the code accepts, cell by cell. *)
LEMMA TransferCells ==
  ASSUME NEW b \in Ledger, NEW t \in Tokens, NEW from \in Accounts, NEW to \in Accounts,
         NEW n \in Nat, CanTransfer(b, t, from, to, n)
  PROVE  /\ Transfer(b, t, from, to, n) \in Ledger
         /\ \A u \in Tokens, a \in Accounts :
              Transfer(b, t, from, to, n)[<<u, a>>] =
                IF u # t \/ from = to THEN b[<<u, a>>]
                ELSE IF a = from THEN b[<<u, a>>] - n
                ELSE IF a = to THEN b[<<u, a>>] + n
                ELSE b[<<u, a>>]
<1>1. CASE from = to
  BY <1>1 DEF Transfer
<1>2. CASE from # to
  <2>1. b[<<t, from>>] >= n
    BY <1>2 DEF CanTransfer, Ledger
  <2> QED
    BY <1>2, <2>1 DEF Transfer, Ledger
<1> QED
  BY <1>1, <1>2

(* A deposit. *)
LEMMA DepositCells ==
  ASSUME NEW b \in Ledger, NEW t \in Tokens, NEW who \in Accounts, NEW n \in Nat
  PROVE  /\ Deposit(b, t, who, n) \in Ledger
         /\ \A u \in Tokens, a \in Accounts :
              Deposit(b, t, who, n)[<<u, a>>] = IF u = t /\ a = who THEN b[<<u, a>>] + n ELSE b[<<u, a>>]
  BY DEF Deposit, Ledger

(* A withdrawal the code accepts. *)
LEMMA WithdrawCells ==
  ASSUME NEW b \in Ledger, NEW t \in Tokens, NEW who \in Accounts, NEW n \in Nat,
         CanWithdraw(b, t, who, n)
  PROVE  /\ Withdraw(b, t, who, n) \in Ledger
         /\ \A u \in Tokens, a \in Accounts :
              Withdraw(b, t, who, n)[<<u, a>>] = IF u = t /\ a = who THEN b[<<u, a>>] - n ELSE b[<<u, a>>]
  BY DEF Withdraw, CanWithdraw, Ledger

(* The module accounts differ from each other and from every user. *)
LEMMA AccountsDiffer ==
  /\ LoansAccount \in Accounts /\ TreasuryAccount \in Accounts
  /\ DexAccount \in Accounts /\ GovAccount \in Accounts
  /\ Stable \in Tokens /\ Collaterals \subseteq Tokens /\ Users \subseteq Accounts
  /\ LoansAccount # TreasuryAccount /\ LoansAccount # DexAccount
  /\ LoansAccount # GovAccount /\ TreasuryAccount # DexAccount
  /\ TreasuryAccount # GovAccount
  /\ \A u \in Users : u # LoansAccount /\ u # TreasuryAccount /\ u # DexAccount /\ u # GovAccount
  /\ \A c \in Collaterals : c # Stable
  BY AccountsAssumption
  DEF LoansAccount, TreasuryAccount, DexAccount, GovAccount, Accounts, ModuleAccounts, Tokens, Stable
=============================================================================

-------------------------------- MODULE Loans --------------------------------
(***************************************************************************)
(* module_loans: the collateralized debit positions, their totals, the     *)
(* consumer references that keep an account with a position alive, and     *)
(* the shares of the loans incentive pool, set by the OnUpdateLoan hook of *)
(* module_incentives.  The operators give the new value of one variable    *)
(* after update_loan; the engine's handlers combine them with the ledger.  *)
(***************************************************************************)
EXTENDS CDPTreasury

VARIABLES positions,        \* positions[<<c, who>>]
          totalPositions,   \* totalPositions[c]
          loanShares,       \* orml_rewards share of who in LoansIncentive(c)
          consumers         \* frame_system consumer references

loanVars == <<positions, totalPositions, loanShares>>

Position == [collateral : Nat, debit : Nat]
ZeroPosition == [collateral |-> 0, debit |-> 0]

LoansTypeOK ==
  /\ positions \in [Collaterals \X Users -> Position]
  /\ totalPositions \in [Collaterals -> Position]
  /\ loanShares \in [Collaterals \X Users -> Nat]
  /\ consumers \in [Accounts -> Int]

(* a position after the signed adjustments dc and dd *)
Adjusted(p, dc, dd) == [collateral |-> p.collateral + dc, debit |-> p.debit + dd]

(* the checked_add / checked_sub of update_loan succeed *)
CanAdjust(p, dc, dd) == p.collateral + dc >= 0 /\ p.debit + dd >= 0

(* n consumer references more for who (inc_consumers, dec_consumers) *)
AddRefs(refs, who, n) == [refs EXCEPT ![who] = @ + n]

(* mutant of RefChange: a position that becomes empty keeps its reference *)
RefKept(p, q) == IF p = ZeroPosition THEN 1 ELSE 0

(* change of who's consumer references when a position goes from p to q *)
RefChange(p, q) ==
  (IF p = ZeroPosition THEN 1 ELSE 0) - (IF q = ZeroPosition THEN 1 ELSE 0)

(* OnUpdateLoan::happened: set_share(previous debit +- adjustment) *)
ShareAfter(share, previous, dd) ==
  IF dd = 0 THEN share
  ELSE IF dd > 0 THEN previous + dd
  ELSE Monus(previous, -dd)

(* mutant of update_loan: TotalPositions is not updated *)
UpdateWithoutTotal(who, c, dc, dd, refs) ==
  LET p == positions[<<c, who>>]
      q == Adjusted(p, dc, dd)
  IN /\ CanAdjust(p, dc, dd)
     /\ positions' = [positions EXCEPT ![<<c, who>>] = q]
     /\ loanShares' = [loanShares EXCEPT ![<<c, who>>] = ShareAfter(@, p.debit, dd)]
     /\ consumers' = AddRefs(consumers, who, RefChange(p, q) + refs)
     /\ UNCHANGED totalPositions

(* update_loan; refs is what the rest of the handler adds to consumers *)
update_loan(who, c, dc, dd, refs) ==
  LET p == positions[<<c, who>>]
      q == Adjusted(p, dc, dd)
  IN /\ CanAdjust(p, dc, dd)
     /\ CanAdjust(totalPositions[c], dc, dd)
     /\ positions' = [positions EXCEPT ![<<c, who>>] = q]
     /\ totalPositions' = [totalPositions EXCEPT ![c] = Adjusted(@, dc, dd)]
     /\ loanShares' = [loanShares EXCEPT ![<<c, who>>] = ShareAfter(@, p.debit, dd)]
     /\ consumers' = AddRefs(consumers, who, RefChange(p, q) + refs)

(* transfer_loan runs update_loan for `from` and then for `to`; here both  *)
(* positions are read first, which is the same for two different accounts  *)
MovePosition(from, to, c) ==
  LET p == positions[<<c, from>>]
      q == positions[<<c, to>>]
      r == Adjusted(q, p.collateral, p.debit)
  IN /\ positions' = [positions EXCEPT ![<<c, from>>] = ZeroPosition, ![<<c, to>>] = r]
     /\ loanShares' = [loanShares EXCEPT ![<<c, from>>] = ShareAfter(@, p.debit, -p.debit),
                                         ![<<c, to>>] = ShareAfter(@, q.debit, p.debit)]
     /\ consumers' = AddRefs(AddRefs(consumers, from, RefChange(p, ZeroPosition)),
                             to, RefChange(q, r))
     /\ UNCHANGED totalPositions

(* For an account that transfers to itself the second update_loan restores *)
(* what the first took.                                                    *)
TransferPosition(from, to, c) ==
  IF from = to THEN UNCHANGED <<loanVars, consumers>> ELSE MovePosition(from, to, c)
=============================================================================

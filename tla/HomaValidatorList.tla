-------------------------- MODULE HomaValidatorList --------------------------
(***************************************************************************)
(* module_homa_validator_list: accounts lock liquid currency as guarantee  *)
(* for validators of the relay chain, which is slashed with them.  Every   *)
(* change of a guarantee also changes the account's lock, the validator's  *)
(* backing and the account's share in the validator's allowance pool,      *)
(* where it pays out.                                                      *)
(***************************************************************************)
EXTENDS Incentives

CONSTANTS MinBondAmount, GuaranteeDuration,
          LiquidRate,     \* LiquidStakingExchangeRateProvider
          Amounts, FreezeSets,
          SlashSets,      \* inputs tried; a slash is a sequence of [validator, amount]
          MaxBlock

VARIABLES guarantees,     \* by validator and guarantor; total 0: no entry
          totalLocked,    \* TotalLockedByGuarantor and the lock it sets
          backings,       \* ValidatorBackings
          now             \* block number

guaranteeVars == <<guarantees, totalLocked, backings>>

NoUnbonding == [amount |-> 0, until |-> 0]
NoGuarantee == [total |-> 0, bonded |-> 0, unbonding |-> NoUnbonding]

GuaranteeInit ==
  /\ guarantees = [v \in Validators |-> [u \in Users |-> NoGuarantee]]
  /\ totalLocked = [u \in Users |-> 0]
  /\ backings = [v \in Validators |-> [total_insurance |-> 0, is_frozen |-> FALSE]]
  /\ now = 0

(* The pallet's state as one record, for a slash that runs through many. *)
State == [books |-> books, guarantees |-> guarantees, totalLocked |-> totalLocked, backings |-> backings]
Becomes(s) ==
  /\ books' = s.books /\ guarantees' = s.guarantees
  /\ totalLocked' = s.totalLocked /\ backings' = s.backings

Unbonding(amount, until) == IF amount = 0 THEN NoUnbonding ELSE [amount |-> amount, until |-> until]

consolidate_unbonding(g) ==
  IF g.unbonding # NoUnbonding /\ g.unbonding.until <= now THEN [g EXCEPT !.unbonding = NoUnbonding] ELSE g

RebondGuarantee(g, amount) ==
  LET n == Least(amount, g.unbonding.amount) IN
  [g EXCEPT !.bonded = @ + n, !.unbonding = Unbonding(@.amount - n, @.until)]

(* mutant of SlashGuarantee: what is left to slash is not taken from the unbonding part *)
SlashBondedOnly(g, amount) ==
  [g EXCEPT !.bonded = Monus(@, amount), !.total = Monus(@, amount)]

(* The bonded part first, then the unbonding one. *)
SlashGuarantee(g, amount) ==
  LET rest == Monus(amount, g.bonded) IN
  [total |-> Monus(g.total, amount), bonded |-> Monus(g.bonded, amount),
   unbonding |-> IF rest = 0 THEN g.unbonding
                 ELSE Unbonding(Monus(g.unbonding.amount, rest), g.unbonding.until)]

update_guarantee(s, who, v, g) ==
  LET old == s.guarantees[v][who].total
      pool == <<"HomaValidatorAllowance", v>>
  IN [books |-> IF g.total > old THEN add_share(s.books, who, pool, g.total - old)
                ELSE remove_share(s.books, who, pool, old - g.total),
      guarantees |-> [s.guarantees EXCEPT ![v][who] = IF g.total = 0 THEN NoGuarantee ELSE g],
      totalLocked |-> [s.totalLocked EXCEPT ![who] = Monus(@ + g.total, old)],
      backings |-> [s.backings EXCEPT ![v].total_insurance = Monus(@ + g.total, old)]]

bond(who, v, amount) ==
  LET n == Least(amount, Monus(books.tokens["liquid"][who], totalLocked[who]))
      g == guarantees[v][who]
  IN /\ n > 0 /\ g.bonded + n >= MinBondAmount
     /\ Becomes(update_guarantee(State, who, v, [g EXCEPT !.total = @ + n, !.bonded = @ + n]))
     /\ UNCHANGED <<now, parameterVars>>

unbond(who, v, amount) ==
  LET g == guarantees[v][who]
      n == Least(amount, g.bonded)
  IN /\ n > 0 /\ g.unbonding = NoUnbonding
     /\ g.bonded = n \/ g.bonded - n >= MinBondAmount
     /\ Becomes(update_guarantee(State, who, v,
                  [g EXCEPT !.bonded = @ - n, !.unbonding = Unbonding(n, now + GuaranteeDuration)]))
     /\ UNCHANGED <<now, parameterVars>>

rebond(who, v, amount) ==
  /\ guarantees[v][who].unbonding # NoUnbonding /\ amount > 0
  /\ Becomes(update_guarantee(State, who, v, RebondGuarantee(guarantees[v][who], amount)))
  /\ UNCHANGED <<now, parameterVars>>

withdraw_unbonded(who, v) ==
  LET g == consolidate_unbonding(guarantees[v][who]) IN
  /\ ~backings[v].is_frozen
  /\ Becomes(update_guarantee(State, who, v, [g EXCEPT !.total = g.bonded + g.unbonding.amount]))
  /\ UNCHANGED <<now, parameterVars>>

SetFrozen(vs, frozen) ==
  /\ backings' = [v \in Validators |-> IF v \in vs THEN [backings[v] EXCEPT !.is_frozen = frozen] ELSE backings[v]]
  /\ UNCHANGED <<books, guarantees, totalLocked, now, parameterVars>>
freeze(vs) == SetFrozen(vs, TRUE)
thaw(vs) == SetFrozen(vs, FALSE)

(* One guarantor's part of a slash; the currency gives what it has. *)
SlashGuarantor(s, who, v, insurance, loss) ==
  LET should == MulInt(FromRational(s.guarantees[v][who].total, insurance), loss)
      actual == Least(should, s.books.tokens["liquid"][who])
      taken == [s EXCEPT !.books.tokens["liquid"][who] = @ - actual]
  IN update_guarantee(taken, who, v, SlashGuarantee(s.guarantees[v][who], actual))

SlashValidator(s, slash) ==
  LET v == slash.validator
      insurance == s.backings[v].total_insurance
      loss == Least(MulInt(FromRational(One, LiquidRate), slash.amount), insurance)
      guarantors == {u \in Users : s.guarantees[v][u].total > 0}
  IN FoldSet(LAMBDA u, t : SlashGuarantor(t, u, v, insurance, loss), s, guarantors)

slash(slashes) ==
  /\ Becomes(FoldSet(LAMBDA i, s : SlashValidator(s, slashes[i]), State, DOMAIN slashes))
  /\ UNCHANGED <<now, parameterVars>>

(* orml_tokens transfer; locks overlap, the largest one counts *)
TransferLiquid(from, to, n, locked) ==
  /\ CanMove(books, "liquid", from, n) /\ books.tokens["liquid"][from] - n >= locked
  /\ books' = Move(books, "liquid", from, to, n)
  /\ UNCHANGED <<guaranteeVars, now, parameterVars>>

NextBlock ==
  /\ now < MaxBlock /\ now' = now + 1
  /\ UNCHANGED <<books, guaranteeVars, parameterVars>>
-----------------------------------------------------------------------------
(* The four records of a guarantee agree through bonding, unbonding,       *)
(* rebonding, withdrawal and slashes of any part: what an account locks is *)
(* what it guarantees and owns, a validator's backing is the sum of its    *)
(* guarantees, and each guarantee is the account's share in the            *)
(* validator's allowance.                                                  *)
GuaranteesAgree ==
  /\ \A u \in Users :
       /\ totalLocked[u] = FoldSet(LAMBDA v, n : n + guarantees[v][u].total, 0, Validators)
       /\ totalLocked[u] <= books.tokens["liquid"][u]
  /\ \A v \in Validators :
       /\ backings[v].total_insurance = FoldSet(LAMBDA u, n : n + guarantees[v][u].total, 0, Users)
       /\ \A u \in Users :
            LET g == guarantees[v][u] IN
            /\ g.total = g.bonded + g.unbonding.amount
            /\ g.total = books.accounts[<<"HomaValidatorAllowance", v>>][u].share
=============================================================================

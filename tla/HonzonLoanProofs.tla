-------------------------- MODULE HonzonLoanProofs --------------------------
(***************************************************************************)
(* Lemmas on the operators of the Honzon protocol, its inductive invariant *)
(* HonzonInv, and one lemma for every action on a loan: the action keeps   *)
(* the invariant.                                                          *)
(***************************************************************************)
EXTENDS Honzon, CurrenciesProofs, DexMathProofs

(* Prices and their reciprocals are natural numbers. *)
LEMMA PriceNat ==
  ASSUME PricesTypeOK, NEW c \in Collaterals
  PROVE  /\ get_price(c) \in Nat
         /\ get_price(c) # NoPrice => StablePriceIn(c) \in Nat
<1>1. FeedPrices \cup {NoPrice} \subseteq Nat
  BY FeedPricesAssumption DEF NoPrice
<1>2. oracle[c] \in FeedPrices \cup {NoPrice} /\ locked[c] \in FeedPrices \cup {NoPrice}
  BY Zenon DEF PricesTypeOK
<1>3. get_price(c) \in Nat
  BY <1>1, <1>2, Zenon DEF get_price
<1>4. One * One \in Nat
  BY MulNat, OneAssumption, Zenon
<1> QED
  BY <1>3, <1>4, DivFloor, Zenon DEF StablePriceIn, NoPrice

(* The value of a debit is a natural number. *)
LEMMA DebitValueNat ==
  ASSUME EngineTypeOK, NEW c \in Collaterals, NEW n \in Nat
  PROVE  get_debit_value(c, n) \in Nat
<1>1. debitExchangeRate[c] \in Nat
  BY Zenon DEF EngineTypeOK
<1> QED
  BY <1>1, MulIntNat, Zenon DEF get_debit_value

(* A hop of a swap yields a natural number, and a target within the pool. *)
LEMMA TargetOfNat ==
  ASSUME NEW sp \in Nat, NEW tp \in Nat, NEW s \in Nat, NEW limit \in Nat
  PROVE  /\ TargetOf(sp, tp, s, limit) \in Nat
         /\ TargetOf(sp, tp, s, limit) <= tp
  BY TargetBounds DEF TargetOf

(* The supply a hop of a swap asks for is a natural number. *)
LEMMA SupplyOfNat ==
  ASSUME NEW sp \in Nat, NEW tp \in Nat, NEW t \in Nat, NEW limit \in Nat
  PROVE  SupplyOf(sp, tp, t, limit) \in Nat
  BY SupplyKeepsInvariant DEF SupplyOf

(* The treasury's swaps: what they return when they do not fail. *)
LEMMA SwapToExactStableBounds ==
  ASSUME TreasuryTypeOK, NEW b \in Ledger, NEW c \in Collaterals,
         NEW maxSupply \in Nat, NEW target \in Nat, NEW limit \in Nat
  PROVE  LET supply == SwapToExactStable(b, c, maxSupply, target, limit)
         IN /\ supply \in Nat
            /\ supply # 0 => /\ supply <= maxSupply
                             /\ maxSupply <= total_collaterals_not_in_auction(b, c)
                             /\ CanTransfer(b, Stable, DexAccount, TreasuryAccount, target)
<1>1. pool[c].collateral \in Nat /\ pool[c].stable \in Nat
  BY Zenon DEF TreasuryTypeOK, Pool
<1> QED
  BY <1>1, SupplyOfNat, Zenon DEF SwapToExactStable

(* A swap of collateral for stable currency only happens when the treasury *)
(* holds the collateral and the DEX the stable currency.                   *)
LEMMA SwapExactToStableBounds ==
  ASSUME TreasuryTypeOK, NEW b \in Ledger, NEW c \in Collaterals, NEW supply \in Nat
  PROVE  LET target == SwapExactToStable(b, c, supply)
         IN /\ target \in Nat
            /\ target # 0 => /\ b[<<c, TreasuryAccount>>] >= supply
                             /\ CanTransfer(b, Stable, DexAccount, TreasuryAccount, target)
<1>1. pool[c].collateral \in Nat /\ pool[c].stable \in Nat
  BY Zenon DEF TreasuryTypeOK, Pool
<1> QED
  BY <1>1, TargetOfNat, Zenon DEF SwapExactToStable

(* The treasury swaps supply of collateral c for target of stable currency. *)
LEMMA SwapLedgerCells ==
  ASSUME NEW b \in Ledger, NEW c \in Collaterals, NEW supply \in Nat, NEW target \in Nat,
         b[<<c, TreasuryAccount>>] >= supply,
         CanTransfer(b, Stable, DexAccount, TreasuryAccount, target)
  PROVE  /\ SwapLedger(b, c, supply, target) \in Ledger
         /\ \A d \in Collaterals, a \in Accounts :
              SwapLedger(b, c, supply, target)[<<d, a>>] =
                IF d # c THEN b[<<d, a>>]
                ELSE IF a = TreasuryAccount THEN b[<<d, a>>] - supply
                ELSE IF a = DexAccount THEN b[<<d, a>>] + supply
                ELSE b[<<d, a>>]
<1> DEFINE b1 == Transfer(b, c, TreasuryAccount, DexAccount, supply)
<1>1. CanTransfer(b, c, TreasuryAccount, DexAccount, supply)
  BY Zenon DEF CanTransfer
<1>2. /\ b1 \in Ledger
      /\ \A u \in Tokens, a \in Accounts :
           b1[<<u, a>>] = IF u # c THEN b[<<u, a>>]
                          ELSE IF a = TreasuryAccount THEN b[<<u, a>>] - supply
                          ELSE IF a = DexAccount THEN b[<<u, a>>] + supply
                          ELSE b[<<u, a>>]
  BY <1>1, TransferCells, AccountsDiffer
<1> HIDE DEF b1
<1>3. CanTransfer(b1, Stable, DexAccount, TreasuryAccount, target)
  BY <1>2, AccountsDiffer, Zenon DEF CanTransfer
<1> QED
  BY <1>2, <1>3, TransferCells, AccountsDiffer DEF SwapLedger, b1

(* A swap of the treasury leaves a pool of natural numbers. *)
LEMMA SwapPoolType ==
  ASSUME TreasuryTypeOK, NEW c \in Collaterals, NEW supply \in Nat, NEW target \in Nat
  PROVE  SwapPool(c, supply, target) \in [Collaterals -> Pool]
  BY DEF TreasuryTypeOK, Pool, SwapPool, Monus

-----------------------------------------------------------------------------
(* Loans and auctions. *)

(* update_loan changes one position and the totals by the adjustments. *)
LEMMA UpdateLoanEffect ==
  ASSUME LoansTypeOK, NEW who \in Users, NEW c \in Collaterals,
         NEW dc \in Int, NEW dd \in Int, NEW refs \in Int, update_loan(who, c, dc, dd, refs)
  PROVE  /\ LoansTypeOK'
         /\ \A d \in Collaterals :
              /\ totalPositions'[d].collateral =
                   IF d = c THEN totalPositions[d].collateral + dc ELSE totalPositions[d].collateral
              /\ totalPositions'[d].debit =
                   IF d = c THEN totalPositions[d].debit + dd ELSE totalPositions[d].debit
         /\ \A k \in Collaterals \X Users :
              positions'[k].debit = IF k = <<c, who>> THEN positions[k].debit + dd
                                                      ELSE positions[k].debit
<1> DEFINE p == positions[<<c, who>>]
           q == Adjusted(p, dc, dd)
           t == totalPositions[c]
<1>1. p \in Position /\ t \in Position /\ loanShares[<<c, who>>] \in Nat
  BY Zenon DEF LoansTypeOK
<1>2. q \in Position /\ Adjusted(t, dc, dd) \in Position
      /\ q.debit = p.debit + dd /\ Adjusted(t, dc, dd).collateral = t.collateral + dc
      /\ Adjusted(t, dc, dd).debit = t.debit + dd
  BY <1>1 DEF update_loan, CanAdjust, Adjusted, Position
<1>3. ShareAfter(loanShares[<<c, who>>], p.debit, dd) \in Nat
  BY <1>1 DEF ShareAfter, Monus, Position
<1>4. RefChange(p, q) + refs \in Int
  BY DEF RefChange
<1>5. /\ positions' = [positions EXCEPT ![<<c, who>>] = q]
      /\ totalPositions' = [totalPositions EXCEPT ![c] = Adjusted(t, dc, dd)]
      /\ loanShares' = [loanShares EXCEPT ![<<c, who>>] =
                          ShareAfter(loanShares[<<c, who>>], p.debit, dd)]
      /\ consumers' = [consumers EXCEPT ![who] = consumers[who] + (RefChange(p, q) + refs)]
  BY Zenon DEF update_loan, AddRefs
<1> HIDE DEF p, q, t
<1>6. positions' \in [Collaterals \X Users -> Position]
  BY <1>2, <1>5, Zenon DEF LoansTypeOK
<1>7. totalPositions' \in [Collaterals -> Position]
  BY <1>2, <1>5, Zenon DEF LoansTypeOK
<1>8. loanShares' \in [Collaterals \X Users -> Nat]
  BY <1>3, <1>5, Zenon DEF LoansTypeOK
<1>9. consumers' \in [Accounts -> Int]
  BY <1>4, <1>5, AccountsDiffer DEF LoansTypeOK
<1>10. LoansTypeOK'
  BY <1>6, <1>7, <1>8, <1>9, Zenon DEF LoansTypeOK
<1>11. \A d \in Collaterals : totalPositions'[d] = IF d = c THEN Adjusted(t, dc, dd)
                                                          ELSE totalPositions[d]
  BY <1>5, Zenon DEF LoansTypeOK
<1>12. \A k \in Collaterals \X Users : positions'[k] = IF k = <<c, who>> THEN q ELSE positions[k]
  BY <1>5, Zenon DEF LoansTypeOK
<1> QED
  BY <1>2, <1>10, <1>11, <1>12, Zenon DEF p, t

(* update_loan adds the adjustments to the totals of one collateral. *)
LEMMA UpdateLoanTotals ==
  ASSUME LoansTypeOK, NEW who \in Users, NEW c \in Collaterals,
         NEW dc \in Int, NEW dd \in Int, NEW refs \in Int, update_loan(who, c, dc, dd, refs),
         NEW d \in Collaterals
  PROVE  /\ totalPositions'[d].collateral =
              IF d = c THEN totalPositions[d].collateral + dc ELSE totalPositions[d].collateral
         /\ totalPositions'[d].debit =
              IF d = c THEN totalPositions[d].debit + dd ELSE totalPositions[d].debit
  BY UpdateLoanEffect

(* update_loan adds the debit adjustment to one position. *)
LEMMA UpdateLoanDebits ==
  ASSUME LoansTypeOK, NEW who \in Users, NEW c \in Collaterals,
         NEW dc \in Int, NEW dd \in Int, NEW refs \in Int, update_loan(who, c, dc, dd, refs),
         NEW k \in Collaterals \X Users
  PROVE  positions'[k].debit = IF k = <<c, who>> THEN positions[k].debit + dd
                                                 ELSE positions[k].debit
<1>1. \A j \in Collaterals \X Users :
        positions'[j].debit = IF j = <<c, who>> THEN positions[j].debit + dd
                                                ELSE positions[j].debit
  BY UpdateLoanEffect
<1> QED
  BY <1>1, Zenon

(* Depositing stable currency leaves the collateral alone. *)
LEMMA StableDeposit ==
  ASSUME NEW b \in Ledger, NEW who \in Accounts, NEW n \in Nat
  PROVE  /\ Deposit(b, Stable, who, n) \in Ledger
         /\ \A d \in Collaterals, a \in Accounts :
              Deposit(b, Stable, who, n)[<<d, a>>] = b[<<d, a>>]
  BY DepositCells, AccountsDiffer

(* transfer_loan moves a position and leaves the totals alone. *)
LEMMA TransferPositionEffect ==
  ASSUME LoansTypeOK, NEW from \in Users, NEW to \in Users, NEW c \in Collaterals,
         TransferPosition(from, to, c)
  PROVE  LoansTypeOK' /\ totalPositions' = totalPositions
<1> DEFINE p == positions[<<c, from>>]
           q == positions[<<c, to>>]
           r == Adjusted(q, p.collateral, p.debit)
<1>1. CASE from = to
  BY <1>1, Zenon DEF TransferPosition, loanVars, LoansTypeOK
<1>2. CASE from # to
  <2>1. p \in Position /\ q \in Position /\ ZeroPosition \in Position
    BY Zenon DEF LoansTypeOK, Position, ZeroPosition
  <2>2. r \in Position
    BY <2>1 DEF Position, Adjusted
  <2>3. /\ ShareAfter(loanShares[<<c, from>>], p.debit, -p.debit) \in Nat
        /\ ShareAfter(loanShares[<<c, to>>], q.debit, p.debit) \in Nat
    BY <2>1 DEF ShareAfter, Monus, Position, LoansTypeOK
  <2>4. RefChange(p, ZeroPosition) \in Int /\ RefChange(q, r) \in Int
    BY DEF RefChange
  <2>5. positions' \in [Collaterals \X Users -> Position]
    BY <1>2, <2>1, <2>2, Zenon DEF TransferPosition, MovePosition, LoansTypeOK
  <2>6. loanShares' \in [Collaterals \X Users -> Nat]
    BY <1>2, <2>3, Zenon DEF TransferPosition, MovePosition, LoansTypeOK
  <2>7. consumers' \in [Accounts -> Int]
    BY <1>2, <2>4, AccountsDiffer DEF TransferPosition, MovePosition, LoansTypeOK, AddRefs
  <2> QED
    BY <1>2, <2>5, <2>6, <2>7, Zenon DEF TransferPosition, MovePosition, LoansTypeOK
<1> QED
  BY <1>1, <1>2, Zenon

(* A confiscation of a positive amount is cut into at least one lot. *)
LEMMA LotsCountPositive ==
  ASSUME TreasuryTypeOK, NEW c \in Collaterals, NEW amount \in Nat, NEW split \in BOOLEAN
  PROVE  LotsCount(c, amount, split) \in Nat \ {0}
<1> DEFINE size == auctionSize[c]
<1>1. size \in Nat /\ MaxAuctionsCount \in Nat
  BY TreasuryAssumption, Zenon DEF TreasuryTypeOK
<1>2. CASE ~split \/ MaxAuctionsCount = 0 \/ size = 0 \/ amount <= size
  BY <1>2 DEF LotsCount
<1>3. CASE ~(~split \/ MaxAuctionsCount = 0 \/ size = 0 \/ amount <= size)
  <2>1. size \in Nat \ {0} /\ amount + size - 1 \in Nat /\ amount + size - 1 >= size
    BY <1>1, <1>3
  <2>2. (amount + size - 1) \div size \in Nat \ {0}
    BY <2>1, DivFloor
  <2> QED
    BY <1>1, <1>3, <2>2, Zenon DEF LotsCount, Least
<1> QED
  BY <1>2, <1>3, Zenon

(* The lots of a confiscation are natural numbers and add up to it. *)
LEMMA LotsAddUp ==
  ASSUME NEW n \in Nat \ {0}, NEW x \in Nat
  PROVE  /\ x \div n \in Nat
         /\ x - (n - 1) * (x \div n) \in Nat
         /\ (n - 1) * (x \div n) + (x - (n - 1) * (x \div n)) = x
<1>1. x \div n \in Nat /\ (x \div n) * n <= x
  BY DivFloor, Zenon
<1> DEFINE q == x \div n
<1> HIDE DEF q
<1>2. q \in Nat /\ q * n <= x
  BY <1>1, Zenon DEF q
<1>3. (n - 1) * q \in Nat /\ (n - 1) * q = q * n - q
  BY <1>2, MulNat
<1> QED
  BY <1>2, <1>3 DEF q

(* create_collateral_auctions puts exactly `amount` of c into auction, and *)
(* only collateral that is not in auction yet.                             *)
LEMMA CreateAuctionsEffect ==
  ASSUME TreasuryTypeOK, AuctionTypeOK, NEW b \in Ledger, NEW c \in Collaterals,
         NEW amount \in Nat, NEW target \in Nat, NEW receiver \in Users \cup {TreasuryAccount},
         NEW split \in BOOLEAN, UNCHANGED <<now, isShutdown>>,
         create_collateral_auctions(b, c, amount, target, receiver, split)
  PROVE  /\ AuctionTypeOK'
         /\ totalCollateralInAuction' \in [Collaterals -> Nat]
         /\ LotsMade(c, amount, split) \in Nat
         /\ total_collaterals_not_in_auction(b, c) >= amount
         /\ \A d \in Collaterals :
              totalCollateralInAuction'[d] =
                IF d = c THEN totalCollateralInAuction[d] + amount ELSE totalCollateralInAuction[d]
         /\ ReverseStagePrice => ReverseStagePrice'
<1> DEFINE n == LotsMade(c, amount, split)
           ids == nextAuction .. (nextAuction + n - 1)
           lot(i) == Lot(n, i - nextAuction + 1, amount, target)
           new(i) == [recipient |-> receiver, currency |-> c, initial |-> lot(i).amount,
                      amount |-> lot(i).amount, target |-> lot(i).target, start |-> now,
                      bidder |-> Nobody, bid |-> 0, end |-> 0]
           lots(first, last) == IF n = 0 THEN 0 ELSE (n - 1) * first + last
<1>1. n \in Nat /\ (n = 0 <=> amount = 0) /\ nextAuction \in Nat /\ now \in Nat
  BY LotsCountPositive, Zenon DEF LotsMade, AuctionTypeOK
<1>2. /\ total_collaterals_not_in_auction(b, c) >= amount
      /\ auctions' = [i \in DOMAIN auctions \cup ids |-> IF i \in ids THEN new(i) ELSE auctions[i]]
      /\ nextAuction' = nextAuction + n
      /\ totalCollateralInAuction' =
           [totalCollateralInAuction EXCEPT ![c] = totalCollateralInAuction[c]
              + lots(Lot(n, 0, amount, target).amount, Lot(n, n, amount, target).amount)]
      /\ totalTargetInAuction' = totalTargetInAuction
              + lots(Lot(n, 0, amount, target).target, Lot(n, n, amount, target).target)
  BY Zenon DEF create_collateral_auctions
<1> HIDE DEF n
<1>3. ASSUME NEW i \in ids
      PROVE  /\ new(i) \in Auction
             /\ WithinPrice(new(i))
  <2>1. n # 0 /\ i \in Nat
    BY <1>1
  <2>2. lot(i).amount \in Nat /\ lot(i).target \in Nat
    BY <1>1, <2>1, LotsAddUp, Zenon DEF Lot
  <2> HIDE DEF lot
  <2>3. new(i) \in Auction
    BY <1>1, <2>2, Zenon DEF Auction
  <2>4. WithinPrice(new(i))
    BY <2>2 DEF WithinPrice, Greatest
  <2> QED
    BY <2>3, <2>4, Zenon
<1>4. lots(Lot(n, 0, amount, target).amount, Lot(n, n, amount, target).amount) = amount
  <2>1. CASE n = 0
    BY <1>1, <2>1, Zenon
  <2>2. CASE n # 0
    BY <1>1, <2>2, LotsAddUp, Zenon DEF Lot
  <2> QED
    BY <2>1, <2>2, Zenon
<1>5. lots(Lot(n, 0, amount, target).target, Lot(n, n, amount, target).target) \in Nat
  <2>1. CASE n = 0
    BY <2>1, Zenon
  <2>2. CASE n # 0
    BY <1>1, <2>2, LotsAddUp, Zenon DEF Lot
  <2> QED
    BY <2>1, <2>2, Zenon
<1> HIDE DEF new, lots
<1>6. ids \subseteq Nat
  BY <1>1
<1>7. AuctionTypeOK'
  <2>1. DOMAIN auctions' \in SUBSET Nat /\ auctions' \in [DOMAIN auctions' -> Auction]
    BY <1>2, <1>3, <1>6, Zenon DEF AuctionTypeOK
  <2>2. nextAuction' \in Nat /\ totalTargetInAuction' \in Nat
    BY <1>1, <1>2, <1>5 DEF AuctionTypeOK
  <2> QED
    BY <2>1, <2>2, Zenon DEF AuctionTypeOK
<1>8. /\ totalCollateralInAuction' \in [Collaterals -> Nat]
      /\ \A d \in Collaterals :
           totalCollateralInAuction'[d] =
             IF d = c THEN totalCollateralInAuction[d] + amount ELSE totalCollateralInAuction[d]
  BY <1>2, <1>4 DEF TreasuryTypeOK
<1>9. ReverseStagePrice => ReverseStagePrice'
  BY <1>2, <1>3, Zenon DEF ReverseStagePrice
<1> QED
  BY <1>1, <1>2, <1>7, <1>8, <1>9, Zenon DEF n

(* Closing an auction removes it, takes its amount off the total in        *)
(* auction and leaves everything but the ledger typed.                     *)
LEMMA CloseAuctionEffect ==
  ASSUME TypeOK, NEW id \in DOMAIN auctions, CloseAuction(id)
  PROVE  /\ AuctionTypeOK' /\ LoansTypeOK'
         /\ totalPositions' = totalPositions /\ positions' = positions
         /\ totalCollateralInAuction' \in [Collaterals -> Nat]
         /\ auctionSize' \in [Collaterals -> Nat]
         /\ \A d \in Collaterals :
              totalCollateralInAuction'[d] =
                IF d = auctions[id].currency
                THEN Monus(totalCollateralInAuction[d], auctions[id].amount)
                ELSE totalCollateralInAuction[d]
         /\ ReverseStagePrice => ReverseStagePrice'
<1> DEFINE a == auctions[id]
<1>1. a \in Auction
  BY Zenon DEF TypeOK, AuctionTypeOK
<1>2. /\ a.currency \in Collaterals /\ a.amount \in Nat /\ a.target \in Nat
      /\ a.recipient \in Accounts /\ (a.bidder # Nobody => a.bidder \in Accounts)
  BY <1>1, AccountsDiffer, Zenon DEF Auction
<1> HIDE DEF a
<1>3. /\ auctions' = [i \in DOMAIN auctions \ {id} |-> auctions[i]]
      /\ totalCollateralInAuction' =
           [totalCollateralInAuction EXCEPT ![a.currency] =
              Monus(totalCollateralInAuction[a.currency], a.amount)]
      /\ totalTargetInAuction' = Monus(totalTargetInAuction, a.target)
      /\ consumers' = AddRefs(IF a.bidder # Nobody THEN AddRefs(consumers, a.bidder, -1)
                                                   ELSE consumers, a.recipient, -1)
      /\ UNCHANGED <<nextAuction, auctionSize, positions, totalPositions, loanShares, now,
                     isShutdown>>
  BY Zenon DEF CloseAuction, Without, loanVars, a
<1>4. AuctionTypeOK'
  BY <1>2, <1>3 DEF TypeOK, AuctionTypeOK, Monus
<1>5. consumers' \in [Accounts -> Int]
  BY <1>2, <1>3 DEF TypeOK, LoansTypeOK, AddRefs
<1>6. LoansTypeOK'
  BY <1>3, <1>5, Zenon DEF TypeOK, LoansTypeOK
<1>7. /\ totalCollateralInAuction' \in [Collaterals -> Nat]
      /\ \A d \in Collaterals :
           totalCollateralInAuction'[d] =
             IF d = a.currency THEN Monus(totalCollateralInAuction[d], a.amount)
                               ELSE totalCollateralInAuction[d]
  BY <1>2, <1>3 DEF TypeOK, TreasuryTypeOK, Monus
<1>8. ReverseStagePrice => ReverseStagePrice'
  BY <1>3, Zenon DEF ReverseStagePrice
<1> QED
  BY <1>3, <1>4, <1>6, <1>7, <1>8, Zenon DEF TypeOK, TreasuryTypeOK, a

-----------------------------------------------------------------------------
(* The inductive invariant and what the actions of users do to it. *)

(* The parts that no action can keep without each other: the balances of   *)
(* the module accounts follow the totals only while the totals are typed,  *)
(* positions do not change their debit after redemption opened only        *)
(* because redemption implies shutdown, and so on.                         *)
HonzonInv ==
  TypeOK /\ LoansCustody /\ AuctionsCovered /\ RefundMeansSettled /\ ReverseStagePrice

(* An adjustment takes no references: the case refs = 0 of update_loan. *)
LEMMA AdjustEffect ==
  ASSUME LoansTypeOK, NEW who \in Users, NEW c \in Collaterals, NEW dc \in Int, NEW dd \in Int,
         update_loan(who, c, dc, dd, 0)
  PROVE  /\ LoansTypeOK'
         /\ \A d \in Collaterals :
              /\ totalPositions'[d].collateral =
                   IF d = c THEN totalPositions[d].collateral + dc ELSE totalPositions[d].collateral
              /\ totalPositions'[d].debit =
                   IF d = c THEN totalPositions[d].debit + dd ELSE totalPositions[d].debit
BY UpdateLoanEffect

(* adjust_loan moves as much collateral as it books. *)
LEMMA AdjustLoanStep ==
  ASSUME HonzonInv, NEW who \in Users, NEW c \in Collaterals, NEW dc \in Int, NEW dd \in Int,
         adjust_loan(who, c, dc, dd)
  PROVE  HonzonInv'
<1> USE DEF HonzonInv, TypeOK
<1> DEFINE value == get_debit_value(c, IF dd < 0 THEN -dd ELSE dd)
           from == IF dc >= 0 THEN who ELSE LoansAccount
           to == IF dc >= 0 THEN LoansAccount ELSE who
           n == IF dc >= 0 THEN dc ELSE -dc
           moved == Transfer(bal, c, from, to, n)
<1>1. /\ update_loan(who, c, dc, dd, 0)
      /\ CanTransfer(bal, c, from, to, n)
      /\ dd < 0 => CanWithdraw(moved, Stable, who, value)
      /\ bal' = IF dd >= 0 THEN Deposit(moved, Stable, who, value)
                           ELSE Withdraw(moved, Stable, who, value)
      /\ issuance' = IF dd >= 0 THEN issuance + value ELSE Burned(value)
      /\ dd # 0 => ~isShutdown
  BY Zenon DEF adjust_loan, adjust_position
<1>2. UNCHANGED <<debitPool, auctionSize, pool, auctions, nextAuction, totalCollateralInAuction,
                  totalTargetInAuction, now, isShutdown, debitExchangeRate, collateralParams,
                  globalInterestRate, oracle, locked, canRefund, authorization, reserved,
                  phase, pending>>
  BY Zenon DEF adjust_loan, adjust_position, treasuryVars, auctionVars, engineVars, paramVars,
         callFrame, priceVars, authVars, blockVars
<1>3. value \in Nat /\ n \in Nat /\ from \in Accounts /\ to \in Accounts
  BY DebitValueNat, AccountsDiffer
<1> HIDE DEF value
<1>4. /\ moved \in Ledger
      /\ \A u \in Tokens, a \in Accounts :
           moved[<<u, a>>] = IF u # c \/ from = to THEN bal[<<u, a>>]
                             ELSE IF a = from THEN bal[<<u, a>>] - n
                             ELSE IF a = to THEN bal[<<u, a>>] + n
                             ELSE bal[<<u, a>>]
  BY <1>1, <1>3, TransferCells, AccountsDiffer DEF TreasuryTypeOK
<1> HIDE DEF moved
<1>5. /\ bal' \in Ledger
      /\ \A d \in Collaterals, a \in Accounts : bal'[<<d, a>>] = moved[<<d, a>>]
  <2>0. moved \in Ledger /\ Stable \in Tokens /\ who \in Accounts
        /\ Collaterals \subseteq Tokens /\ \A d \in Collaterals : d # Stable
    BY <1>4, AccountsDiffer, Zenon
  <2>1. CASE dd >= 0
    <3>1. bal' = Deposit(moved, Stable, who, value)
      BY <1>1, <2>1, Zenon
    <3>2. /\ Deposit(moved, Stable, who, value) \in Ledger
          /\ \A d \in Collaterals, a \in Accounts :
               Deposit(moved, Stable, who, value)[<<d, a>>] = moved[<<d, a>>]
      BY <1>3, <2>0, StableDeposit, Zenon
    <3> QED
      BY <3>1, <3>2, Zenon
  <2>2. CASE dd < 0
    <3>1. bal' = Withdraw(moved, Stable, who, value) /\ CanWithdraw(moved, Stable, who, value)
      BY <1>1, <2>2
    <3> QED
      BY <1>3, <2>0, <3>1, WithdrawCells
  <2> QED
    BY <2>1, <2>2
<1>6. \A d \in Collaterals :
        /\ bal'[<<d, LoansAccount>>] =
             IF d = c THEN bal[<<d, LoansAccount>>] + dc ELSE bal[<<d, LoansAccount>>]
        /\ bal'[<<d, TreasuryAccount>>] = bal[<<d, TreasuryAccount>>]
  <2>1. \A d \in Collaterals, a \in Accounts : bal[<<d, a>>] \in Nat
    BY AccountsDiffer, Zenon DEF TreasuryTypeOK, Ledger
  <2> QED
    BY <1>4, <1>5, <2>1, AccountsDiffer
<1>7. /\ LoansTypeOK'
      /\ \A d \in Collaterals :
           /\ totalPositions'[d].collateral =
                IF d = c THEN totalPositions[d].collateral + dc ELSE totalPositions[d].collateral
           /\ totalPositions'[d].debit =
                IF d = c THEN totalPositions[d].debit + dd ELSE totalPositions[d].debit
  <2>1. LoansTypeOK /\ update_loan(who, c, dc, dd, 0)
    BY <1>1, Zenon
  <2> QED
    BY ONLY <2>1, who \in Users, c \in Collaterals, dc \in Int, dd \in Int, AdjustEffect
<1>8. TypeOK'
  <2>1. issuance' \in Nat
    BY <1>1, <1>3 DEF TreasuryTypeOK, Burned, Monus
  <2>2. TreasuryTypeOK'
    BY <1>2, <1>5, <2>1, Zenon DEF TreasuryTypeOK
  <2>3. PricesTypeOK' /\ AuctionTypeOK' /\ EngineTypeOK'
    BY <1>2, Zenon DEF PricesTypeOK, AuctionTypeOK, EngineTypeOK
  <2> QED
    BY <1>2, <1>7, <2>2, <2>3, Zenon
<1>9. LoansCustody' /\ AuctionsCovered'
  BY <1>2, <1>6, <1>7, Zenon DEF LoansCustody, AuctionsCovered
<1>10. RefundMeansSettled'
  <2>1. canRefund => dd = 0
    BY <1>1, Zenon DEF RefundMeansSettled
  <2>2. \A d \in Collaterals : totalPositions[d].debit \in Nat
    BY Zenon DEF LoansTypeOK, Position
  <2>3. dd = 0 => \A d \in Collaterals : totalPositions'[d].debit = totalPositions[d].debit
    BY ONLY <1>7, <2>2
  <2> QED
    BY <1>2, <2>1, <2>3, Zenon DEF RefundMeansSettled
<1>11. ReverseStagePrice'
  BY <1>2, Zenon DEF ReverseStagePrice
<1> QED
  BY <1>8, <1>9, <1>10, <1>11, Zenon

(* Confiscation moves collateral from the loans account to the treasury. *)
LEMMA ConfiscatedCells ==
  ASSUME bal \in Ledger, NEW c \in Collaterals, NEW n \in Nat, CanConfiscate(c, n)
  PROVE  /\ Confiscated(c, n) \in Ledger
         /\ \A d \in Collaterals, a \in Accounts :
              Confiscated(c, n)[<<d, a>>] =
                IF d # c THEN bal[<<d, a>>]
                ELSE IF a = LoansAccount THEN bal[<<d, a>>] - n
                ELSE IF a = TreasuryAccount THEN bal[<<d, a>>] + n
                ELSE bal[<<d, a>>]
  BY TransferCells, AccountsDiffer DEF Confiscated, CanConfiscate

(* Liquidation and closing by the DEX: the position's collateral passes    *)
(* through the treasury, which keeps none of it.                           *)
LEMMA ExchangeEffect ==
  ASSUME TypeOK, NEW who \in Users, NEW c \in Collaterals, NEW supply \in Nat, NEW target \in Nat,
         NEW limit \in Nat, CanConfiscate(c, positions[<<c, who>>].collateral),
         supply # 0,
         supply = SwapToExactStable(Confiscated(c, positions[<<c, who>>].collateral), c,
                                    positions[<<c, who>>].collateral, target, limit),
         ExchangeConfiscated(who, c, positions[<<c, who>>], supply, target)
  PROVE  /\ bal' \in Ledger
         /\ pool' \in [Collaterals -> Pool]
         /\ \A d \in Collaterals :
              /\ bal'[<<d, LoansAccount>>] =
                   IF d = c THEN bal[<<d, LoansAccount>>] - positions[<<c, who>>].collateral
                            ELSE bal[<<d, LoansAccount>>]
              /\ bal'[<<d, TreasuryAccount>>] = bal[<<d, TreasuryAccount>>]
<1> DEFINE p == positions[<<c, who>>]
           b0 == Confiscated(c, p.collateral)
           b1 == SwapLedger(b0, c, supply, target)
           rest == p.collateral - supply
<1>1. bal \in Ledger /\ p.collateral \in Nat
  BY Zenon DEF TypeOK, TreasuryTypeOK, LoansTypeOK, Position
<1>2. /\ b0 \in Ledger
      /\ \A d \in Collaterals, a \in Accounts :
           b0[<<d, a>>] = IF d # c THEN bal[<<d, a>>]
                          ELSE IF a = LoansAccount THEN bal[<<d, a>>] - p.collateral
                          ELSE IF a = TreasuryAccount THEN bal[<<d, a>>] + p.collateral
                          ELSE bal[<<d, a>>]
  BY <1>1, ConfiscatedCells, ZenonT(30)
<1>3. /\ CanTransfer(b1, c, TreasuryAccount, who, rest)
      /\ bal' = Transfer(b1, c, TreasuryAccount, who, rest)
      /\ pool' = SwapPool(c, supply, target)
  BY Zenon DEF ExchangeConfiscated
<1>4. supply = SwapToExactStable(b0, c, p.collateral, target, limit)
  OBVIOUS
<1> HIDE DEF b0, p
<1>5. /\ supply <= p.collateral
      /\ p.collateral <= total_collaterals_not_in_auction(b0, c)
      /\ CanTransfer(b0, Stable, DexAccount, TreasuryAccount, target)
  <2>1. TreasuryTypeOK
    BY Zenon DEF TypeOK
  <2> QED
    BY ONLY <1>1, <1>2, <1>4, <2>1, supply # 0, c \in Collaterals, target \in Nat, limit \in Nat,
            SwapToExactStableBounds, Zenon
<1>6. rest \in Nat
  BY <1>1, <1>5
<1>7. \A d \in Collaterals, a \in Accounts : bal[<<d, a>>] \in Nat /\ b0[<<d, a>>] \in Nat
  BY <1>1, <1>2, AccountsDiffer, Zenon DEF Ledger
<1>8. b0[<<c, TreasuryAccount>>] >= supply
  BY <1>1, <1>5, <1>7, AccountsDiffer
     DEF total_collaterals_not_in_auction, Monus, TypeOK, TreasuryTypeOK
<1>9. /\ b1 \in Ledger
      /\ \A d \in Collaterals, a \in Accounts :
           b1[<<d, a>>] = IF d # c THEN b0[<<d, a>>]
                          ELSE IF a = TreasuryAccount THEN b0[<<d, a>>] - supply
                          ELSE IF a = DexAccount THEN b0[<<d, a>>] + supply
                          ELSE b0[<<d, a>>]
  <2>1. b0 \in Ledger /\ CanTransfer(b0, Stable, DexAccount, TreasuryAccount, target)
    BY <1>2, <1>5, Zenon
  <2>2. c \in Collaterals /\ supply \in Nat /\ target \in Nat
    BY Zenon
  <2> QED
    BY ONLY <1>8, <2>1, <2>2, SwapLedgerCells
<1> HIDE DEF b1, rest
<1>10. /\ bal' \in Ledger
       /\ \A d \in Collaterals, a \in Accounts :
            bal'[<<d, a>>] = IF d # c THEN b1[<<d, a>>]
                             ELSE IF a = TreasuryAccount THEN b1[<<d, a>>] - rest
                             ELSE IF a = who THEN b1[<<d, a>>] + rest
                             ELSE b1[<<d, a>>]
  BY <1>3, <1>6, <1>9, TransferCells, AccountsDiffer
<1>11. \A d \in Collaterals :
         /\ bal'[<<d, LoansAccount>>] =
              IF d = c THEN bal[<<d, LoansAccount>>] - p.collateral ELSE bal[<<d, LoansAccount>>]
         /\ bal'[<<d, TreasuryAccount>>] = bal[<<d, TreasuryAccount>>]
  BY <1>1, <1>2, <1>7, <1>9, <1>10, AccountsDiffer DEF rest
<1>12. pool' \in [Collaterals -> Pool]
  BY <1>3, SwapPoolType, Zenon DEF TypeOK
<1> QED
  BY <1>10, <1>11, <1>12, Zenon DEF p

(* Closing a position that gives up all its collateral and debit, when the *)
(* treasury's holding of collateral follows what is put into auction,      *)
(* keeps the invariant.                                                    *)
LEMMA PositionClosed ==
  ASSUME HonzonInv, ~isShutdown, NEW who \in Users, NEW c \in Collaterals, NEW refs \in Nat,
         NEW value \in Nat, NEW added \in Nat,
         update_loan(who, c, -positions[<<c, who>>].collateral, -positions[<<c, who>>].debit, refs),
         debitPool' = debitPool + value,
         bal' \in Ledger, pool' \in [Collaterals -> Pool],
         totalCollateralInAuction' \in [Collaterals -> Nat], AuctionTypeOK', ReverseStagePrice',
         \A d \in Collaterals :
           /\ bal'[<<d, LoansAccount>>] =
                IF d = c THEN bal[<<d, LoansAccount>>] - positions[<<c, who>>].collateral
                         ELSE bal[<<d, LoansAccount>>]
           /\ bal'[<<d, TreasuryAccount>>] =
                IF d = c THEN bal[<<d, TreasuryAccount>>] + added ELSE bal[<<d, TreasuryAccount>>]
           /\ totalCollateralInAuction'[d] =
                IF d = c THEN totalCollateralInAuction[d] + added ELSE totalCollateralInAuction[d],
         UNCHANGED <<issuance, auctionSize, isShutdown, engineVars, callFrame>>
  PROVE  HonzonInv'
<1> DEFINE p == positions[<<c, who>>]
<1>1. p.collateral \in Nat /\ p.debit \in Nat
  BY Zenon DEF HonzonInv, TypeOK, LoansTypeOK, Position
<1>2. /\ LoansTypeOK'
      /\ \A d \in Collaterals :
           totalPositions'[d].collateral =
             IF d = c THEN totalPositions[d].collateral - p.collateral
                      ELSE totalPositions[d].collateral
  <2>1. \A d \in Collaterals : totalPositions[d].collateral \in Nat
    BY Zenon DEF HonzonInv, TypeOK, LoansTypeOK, Position
  <2>2. /\ LoansTypeOK'
        /\ \A d \in Collaterals :
             totalPositions'[d].collateral =
               IF d = c THEN totalPositions[d].collateral + (-p.collateral)
                        ELSE totalPositions[d].collateral
    <3>1. -p.collateral \in Int /\ -p.debit \in Int /\ refs \in Int
      BY ONLY <1>1, refs \in Nat
    <3>2. LoansTypeOK
      BY Zenon DEF HonzonInv, TypeOK
    <3> QED
      BY ONLY <3>1, <3>2, who \in Users, c \in Collaterals,
              update_loan(who, c, -p.collateral, -p.debit, refs), UpdateLoanEffect
  <2> QED
    BY <1>1, <2>1, <2>2, Zenon
<1>3. UNCHANGED <<issuance, auctionSize, isShutdown, debitExchangeRate, collateralParams,
                  globalInterestRate, oracle, locked, canRefund, authorization, reserved,
                  phase, pending>>
  BY Zenon DEF engineVars, paramVars, callFrame, priceVars, authVars, blockVars
<1> HIDE DEF p
<1>4. TypeOK'
  <2>1. TreasuryTypeOK'
    <3>1. debitPool' \in Nat
      <4>1. debitPool \in Nat
        BY Zenon DEF HonzonInv, TypeOK, TreasuryTypeOK
      <4> QED
        BY ONLY <4>1, value \in Nat, debitPool' = debitPool + value
    <3> QED
      BY <1>3, <3>1, Zenon DEF HonzonInv, TypeOK, TreasuryTypeOK
  <2>2. PricesTypeOK' /\ EngineTypeOK'
    BY <1>3, Zenon DEF HonzonInv, TypeOK, PricesTypeOK, EngineTypeOK
  <2> QED
    BY <1>2, <1>3, <2>1, <2>2, Zenon DEF HonzonInv, TypeOK
<1>5. LoansCustody'
  BY <1>2, Zenon DEF HonzonInv, LoansCustody, p
<1>6. AuctionsCovered'
  <2>1. \A d \in Collaterals : bal[<<d, TreasuryAccount>>] \in Nat
                               /\ totalCollateralInAuction[d] \in Nat
    BY AccountsDiffer, Zenon DEF HonzonInv, TypeOK, TreasuryTypeOK, Ledger
  <2>2. SUFFICES ASSUME ~canRefund, NEW d \in Collaterals
                 PROVE  totalCollateralInAuction'[d] <= bal'[<<d, TreasuryAccount>>]
    BY <1>3, Zenon DEF AuctionsCovered
  <2>3. totalCollateralInAuction[d] <= bal[<<d, TreasuryAccount>>]
    BY <2>2, Zenon DEF HonzonInv, AuctionsCovered
  <2>4. /\ bal'[<<d, TreasuryAccount>>] =
             IF d = c THEN bal[<<d, TreasuryAccount>>] + added ELSE bal[<<d, TreasuryAccount>>]
        /\ totalCollateralInAuction'[d] =
             IF d = c THEN totalCollateralInAuction[d] + added ELSE totalCollateralInAuction[d]
    BY <2>2, Zenon
  <2>5. bal[<<d, TreasuryAccount>>] \in Nat /\ totalCollateralInAuction[d] \in Nat
    BY <2>1, Zenon
  <2> QED
    BY ONLY <2>3, <2>4, <2>5, added \in Nat
<1>7. RefundMeansSettled'
  BY <1>3, Zenon DEF HonzonInv, RefundMeansSettled
<1> QED
  BY <1>4, <1>5, <1>6, <1>7, Zenon DEF HonzonInv

(* close_loan_has_debit_by_dex sells as much of the position as its debit  *)
(* needs and gives the rest back.                                          *)
LEMMA CloseByDexStep ==
  ASSUME HonzonInv, NEW who \in Users, NEW c \in Collaterals, close_loan_has_debit_by_dex(who, c)
  PROVE  HonzonInv'
<1> DEFINE p == positions[<<c, who>>]
           value == get_debit_value(c, p.debit)
           supply == SwapToExactStable(Confiscated(c, p.collateral), c, p.collateral, value, 0)
<1>1. /\ ~isShutdown /\ CanConfiscate(c, p.collateral) /\ supply # 0
      /\ debitPool' = debitPool + value
      /\ ExchangeConfiscated(who, c, p, supply, value)
      /\ UNCHANGED <<issuance, auctionSize, now, isShutdown, engineVars, callFrame>>
  BY Zenon DEF close_loan_has_debit_by_dex, close_cdp_has_debit_by_dex
<1>2. bal \in Ledger /\ p.collateral \in Nat /\ p.debit \in Nat
  BY Zenon DEF HonzonInv, TypeOK, TreasuryTypeOK, LoansTypeOK, Position
<1>3. value \in Nat
  BY <1>2, DebitValueNat, Zenon DEF HonzonInv, TypeOK
<1> HIDE DEF value
<1>4. supply \in Nat
  BY <1>1, <1>2, <1>3, ConfiscatedCells, SwapToExactStableBounds, Zenon DEF HonzonInv, TypeOK
<1>5. /\ bal' \in Ledger /\ pool' \in [Collaterals -> Pool]
      /\ \A d \in Collaterals :
           /\ bal'[<<d, LoansAccount>>] =
                IF d = c THEN bal[<<d, LoansAccount>>] - p.collateral ELSE bal[<<d, LoansAccount>>]
           /\ bal'[<<d, TreasuryAccount>>] = bal[<<d, TreasuryAccount>>]
  BY <1>1, <1>3, <1>4, ExchangeEffect, Zenon DEF HonzonInv
<1> HIDE DEF supply
<1>6. /\ update_loan(who, c, -p.collateral, -p.debit, 0)
      /\ UNCHANGED <<auctions, nextAuction, totalCollateralInAuction, totalTargetInAuction>>
  BY <1>1, Zenon DEF ExchangeConfiscated, auctionVars
<1>7. /\ totalCollateralInAuction' \in [Collaterals -> Nat] /\ AuctionTypeOK'
      /\ ReverseStagePrice'
  BY <1>1, <1>6, Zenon DEF HonzonInv, TypeOK, TreasuryTypeOK, AuctionTypeOK, ReverseStagePrice
<1>8. \A d \in Collaterals :
        /\ bal[<<d, TreasuryAccount>>] + 0 = bal[<<d, TreasuryAccount>>]
        /\ totalCollateralInAuction[d] + 0 = totalCollateralInAuction[d]
  BY AccountsDiffer DEF HonzonInv, TypeOK, TreasuryTypeOK, Ledger
<1>9. \A d \in Collaterals :
        /\ bal'[<<d, LoansAccount>>] =
             IF d = c THEN bal[<<d, LoansAccount>>] - p.collateral ELSE bal[<<d, LoansAccount>>]
        /\ bal'[<<d, TreasuryAccount>>] =
             IF d = c THEN bal[<<d, TreasuryAccount>>] + 0 ELSE bal[<<d, TreasuryAccount>>]
        /\ totalCollateralInAuction'[d] =
             IF d = c THEN totalCollateralInAuction[d] + 0 ELSE totalCollateralInAuction[d]
  BY <1>5, <1>6, <1>8, Zenon
<1> QED
  <2>1. 0 \in Nat
    OBVIOUS
  <2> QED
    BY ONLY HonzonInv, who \in Users, c \in Collaterals, <1>1, <1>3, <1>5, <1>6, <1>7, <1>9,
            <2>1, PositionClosed, Zenon

(* A liquidation swaps with the DEX or puts the whole position to auction, *)
(* and in both cases the treasury covers what it owes.                     *)
LEMMA LiquidateStep ==
  ASSUME HonzonInv, NEW who \in Users, NEW c \in Collaterals, Liquidate(c, who)
  PROVE  HonzonInv'
<1> DEFINE p == positions[<<c, who>>]
           value == get_debit_value(c, p.debit)
           target == LiquidationTarget(c, p)
           supply == LiquidationSupply(c, p)
           b == Confiscated(c, p.collateral)
<1>1. /\ ~isShutdown /\ CanConfiscate(c, p.collateral)
      /\ debitPool' = debitPool + value
      /\ \/ supply # 0 /\ ExchangeConfiscated(who, c, p, supply, target)
         \/ /\ create_collateral_auctions(b, c, p.collateral, target, who, TRUE)
            /\ update_loan(who, c, -p.collateral, -p.debit, LotsMade(c, p.collateral, TRUE))
            /\ bal' = b /\ UNCHANGED pool
      /\ UNCHANGED <<issuance, auctionSize, now, isShutdown, engineVars, callFrame>>
  BY Zenon DEF Liquidate, liquidate, liquidate_unsafe_cdp
<1>2. bal \in Ledger /\ p.collateral \in Nat /\ p.debit \in Nat
      /\ collateralParams[c].liquidationPenalty \in Nat
  BY Zenon DEF HonzonInv, TypeOK, TreasuryTypeOK, LoansTypeOK, Position, EngineTypeOK,
         RiskManagementParams
<1>3. value \in Nat /\ target \in Nat
  <2>1. value \in Nat
    BY <1>2, DebitValueNat, Zenon DEF HonzonInv, TypeOK
  <2>2. MulInt(collateralParams[c].liquidationPenalty, value) \in Nat
    BY <1>2, <2>1, MulIntNat, Zenon
  <2> QED
    BY <2>1, <2>2 DEF LiquidationTarget, MulAccInt
<1>4. /\ b \in Ledger
      /\ \A d \in Collaterals, a \in Accounts :
           b[<<d, a>>] = IF d # c THEN bal[<<d, a>>]
                         ELSE IF a = LoansAccount THEN bal[<<d, a>>] - p.collateral
                         ELSE IF a = TreasuryAccount THEN bal[<<d, a>>] + p.collateral
                         ELSE bal[<<d, a>>]
  BY <1>1, <1>2, ConfiscatedCells, ZenonT(30)
<1>5. supply = SwapToExactStable(b, c, p.collateral, target, MaxSlippageSwapWithDEX)
      /\ MaxSlippageSwapWithDEX \in Nat
  BY EngineAssumption, Zenon DEF LiquidationSupply
<1> HIDE DEF value, target, supply
<1>6. CASE supply # 0 /\ ExchangeConfiscated(who, c, p, supply, target)
  <2>1. supply \in Nat
    BY <1>2, <1>3, <1>4, <1>5, SwapToExactStableBounds, Zenon DEF HonzonInv, TypeOK
  <2>2. /\ bal' \in Ledger /\ pool' \in [Collaterals -> Pool]
        /\ \A d \in Collaterals :
             /\ bal'[<<d, LoansAccount>>] =
                  IF d = c THEN bal[<<d, LoansAccount>>] - p.collateral
                           ELSE bal[<<d, LoansAccount>>]
             /\ bal'[<<d, TreasuryAccount>>] = bal[<<d, TreasuryAccount>>]
    BY <1>1, <1>3, <1>5, <1>6, <2>1, ExchangeEffect, Zenon DEF HonzonInv
  <2>3. /\ update_loan(who, c, -p.collateral, -p.debit, 0)
        /\ UNCHANGED <<auctions, nextAuction, totalCollateralInAuction, totalTargetInAuction>>
    BY <1>6, Zenon DEF ExchangeConfiscated, auctionVars
  <2>4. /\ totalCollateralInAuction' \in [Collaterals -> Nat] /\ AuctionTypeOK'
        /\ ReverseStagePrice'
    BY <1>1, <2>3, Zenon DEF HonzonInv, TypeOK, TreasuryTypeOK, AuctionTypeOK, ReverseStagePrice
  <2>5. \A d \in Collaterals :
          /\ bal[<<d, TreasuryAccount>>] + 0 = bal[<<d, TreasuryAccount>>]
          /\ totalCollateralInAuction[d] + 0 = totalCollateralInAuction[d]
    BY AccountsDiffer DEF HonzonInv, TypeOK, TreasuryTypeOK, Ledger
  <2>6. \A d \in Collaterals :
          /\ bal'[<<d, LoansAccount>>] =
               IF d = c THEN bal[<<d, LoansAccount>>] - p.collateral ELSE bal[<<d, LoansAccount>>]
          /\ bal'[<<d, TreasuryAccount>>] =
               IF d = c THEN bal[<<d, TreasuryAccount>>] + 0 ELSE bal[<<d, TreasuryAccount>>]
          /\ totalCollateralInAuction'[d] =
               IF d = c THEN totalCollateralInAuction[d] + 0 ELSE totalCollateralInAuction[d]
    BY <2>2, <2>3, <2>5, Zenon
  <2>7. 0 \in Nat
    OBVIOUS
  <2> QED
    BY ONLY HonzonInv, who \in Users, c \in Collaterals, <1>1, <1>3, <2>2, <2>3, <2>4, <2>6,
            <2>7, PositionClosed, Zenon
<1>7. CASE /\ create_collateral_auctions(b, c, p.collateral, target, who, TRUE)
           /\ update_loan(who, c, -p.collateral, -p.debit, LotsMade(c, p.collateral, TRUE))
           /\ bal' = b /\ UNCHANGED pool
  <2>1. /\ AuctionTypeOK' /\ totalCollateralInAuction' \in [Collaterals -> Nat]
        /\ LotsMade(c, p.collateral, TRUE) \in Nat
        /\ \A d \in Collaterals :
             totalCollateralInAuction'[d] =
               IF d = c THEN totalCollateralInAuction[d] + p.collateral
                        ELSE totalCollateralInAuction[d]
        /\ ReverseStagePrice'
    <3>1. /\ TreasuryTypeOK /\ AuctionTypeOK /\ ReverseStagePrice
          /\ who \in Users \cup {TreasuryAccount} /\ TRUE \in BOOLEAN
          /\ UNCHANGED <<now, isShutdown>> /\ b \in Ledger /\ p.collateral \in Nat
          /\ create_collateral_auctions(b, c, p.collateral, target, who, TRUE)
      BY <1>1, <1>2, <1>4, <1>7, Zenon DEF HonzonInv, TypeOK
    <3> HIDE DEF b, p
    <3> QED
      BY ONLY c \in Collaterals, <1>3, <3>1, CreateAuctionsEffect, ZenonT(30)
  <2>2. bal' \in Ledger /\ pool' \in [Collaterals -> Pool]
    BY <1>4, <1>7, Zenon DEF HonzonInv, TypeOK, TreasuryTypeOK
  <2>3. \A d \in Collaterals :
          /\ bal'[<<d, LoansAccount>>] =
               IF d = c THEN bal[<<d, LoansAccount>>] - p.collateral ELSE bal[<<d, LoansAccount>>]
          /\ bal'[<<d, TreasuryAccount>>] =
               IF d = c THEN bal[<<d, TreasuryAccount>>] + p.collateral
                        ELSE bal[<<d, TreasuryAccount>>]
          /\ totalCollateralInAuction'[d] =
               IF d = c THEN totalCollateralInAuction[d] + p.collateral
                        ELSE totalCollateralInAuction[d]
    BY <1>4, <1>7, <2>1, AccountsDiffer, Zenon
  <2>4. /\ update_loan(who, c, -p.collateral, -p.debit, LotsMade(c, p.collateral, TRUE))
        /\ LotsMade(c, p.collateral, TRUE) \in Nat /\ p.collateral \in Nat
    <3>1. update_loan(who, c, -p.collateral, -p.debit, LotsMade(c, p.collateral, TRUE))
      BY ONLY <1>7, Zenon
    <3>2. LotsMade(c, p.collateral, TRUE) \in Nat
      BY ONLY <2>1, Zenon
    <3> QED
      BY <1>2, <3>1, <3>2, Zenon
  <2>5. /\ ~isShutdown /\ debitPool' = debitPool + value
        /\ UNCHANGED <<issuance, auctionSize, isShutdown, engineVars, callFrame>>
    BY <1>1, Zenon
  <2>6. totalCollateralInAuction' \in [Collaterals -> Nat] /\ AuctionTypeOK' /\ ReverseStagePrice'
    BY <2>1, Zenon
  <2> HIDE DEF b
  <2> QED
    BY ONLY HonzonInv, who \in Users, c \in Collaterals, <1>3, <2>2, <2>3, <2>4, <2>5, <2>6,
            PositionClosed, ZenonT(30)
<1> QED
  BY <1>1, <1>6, <1>7, Zenon

(* transfer_loan_from moves a position and no balance. *)
LEMMA TransferLoanStep ==
  ASSUME HonzonInv, NEW from \in Users, NEW to \in Users, NEW c \in Collaterals,
         transfer_loan_from(to, from, c)
  PROVE  HonzonInv'
<1>1. LoansTypeOK' /\ totalPositions' = totalPositions
  BY TransferPositionEffect, Zenon DEF HonzonInv, TypeOK, transfer_loan_from, transfer_loan
<1>2. UNCHANGED <<bal, issuance, debitPool, auctionSize, pool, auctions, nextAuction,
                  totalCollateralInAuction, totalTargetInAuction, now, isShutdown,
                  debitExchangeRate, collateralParams, globalInterestRate, oracle, locked,
                  canRefund, authorization, reserved, phase, pending>>
  BY Zenon DEF transfer_loan_from, transfer_loan, tokenVars, treasuryVars, auctionVars, engineVars,
         paramVars, callFrame, priceVars, authVars, blockVars
<1>3. TypeOK'
  BY <1>1, <1>2, Zenon DEF HonzonInv, TypeOK, PricesTypeOK, TreasuryTypeOK, AuctionTypeOK, EngineTypeOK
<1>4. LoansCustody' /\ AuctionsCovered' /\ RefundMeansSettled' /\ ReverseStagePrice'
  BY <1>1, <1>2, Zenon DEF HonzonInv, LoansCustody, AuctionsCovered, RefundMeansSettled,
                    ReverseStagePrice
<1> QED
  BY <1>3, <1>4, Zenon DEF HonzonInv

(* settle_cdp_has_debit confiscates the part of the collateral that the    *)
(* debit is worth.                                                         *)
LEMMA SettleStep ==
  ASSUME HonzonInv, NEW who \in Users, NEW c \in Collaterals, Settle(c, who)
  PROVE  HonzonInv'
<1> DEFINE p == positions[<<c, who>>]
           value == get_debit_value(c, p.debit)
           taken == Least(MulInt(StablePriceIn(c), value), p.collateral)
<1>1. /\ isShutdown /\ get_price(c) # NoPrice /\ CanConfiscate(c, taken)
      /\ bal' = Confiscated(c, taken)
      /\ debitPool' = debitPool + value
      /\ update_loan(who, c, -taken, -p.debit, 0)
  BY Zenon DEF Settle, settle
<1>2. UNCHANGED <<issuance, auctionSize, pool, auctions, nextAuction, totalCollateralInAuction,
                  totalTargetInAuction, now, isShutdown, debitExchangeRate, collateralParams,
                  globalInterestRate, oracle, locked, canRefund, authorization, reserved,
                  phase, pending>>
  BY Zenon DEF Settle, settle, auctionVars, engineVars, paramVars, callFrame, priceVars, authVars,
         blockVars
<1>3. bal \in Ledger /\ p.collateral \in Nat /\ p.debit \in Nat
  BY Zenon DEF HonzonInv, TypeOK, TreasuryTypeOK, LoansTypeOK, Position
<1>4. value \in Nat
  BY <1>3, DebitValueNat, Zenon DEF HonzonInv, TypeOK
<1> HIDE DEF value
<1>5. taken \in Nat
  BY <1>1, <1>3, <1>4, PriceNat, MulIntNat, Zenon DEF HonzonInv, TypeOK, Least
<1> HIDE DEF taken
<1>6. /\ bal' \in Ledger
      /\ \A d \in Collaterals, a \in Accounts :
           bal'[<<d, a>>] = IF d # c THEN bal[<<d, a>>]
                            ELSE IF a = LoansAccount THEN bal[<<d, a>>] - taken
                            ELSE IF a = TreasuryAccount THEN bal[<<d, a>>] + taken
                            ELSE bal[<<d, a>>]
  <2>1. /\ Confiscated(c, taken) \in Ledger
        /\ \A d \in Collaterals, a \in Accounts :
             Confiscated(c, taken)[<<d, a>>] = IF d # c THEN bal[<<d, a>>]
                                               ELSE IF a = LoansAccount THEN bal[<<d, a>>] - taken
                                               ELSE IF a = TreasuryAccount THEN bal[<<d, a>>] + taken
                                               ELSE bal[<<d, a>>]
    BY <1>1, <1>3, <1>5, ConfiscatedCells, ZenonT(30)
  <2> QED
    BY <1>1, <2>1, Zenon
<1>7. /\ LoansTypeOK'
      /\ \A d \in Collaterals :
           /\ totalPositions'[d].collateral =
                IF d = c THEN totalPositions[d].collateral + (-taken)
                         ELSE totalPositions[d].collateral
           /\ totalPositions'[d].debit =
                IF d = c THEN totalPositions[d].debit + (-p.debit) ELSE totalPositions[d].debit
  <2>1. -taken \in Int /\ -p.debit \in Int /\ 0 \in Int
    BY ONLY <1>3, <1>5
  <2>2. LoansTypeOK
    BY Zenon DEF HonzonInv, TypeOK
  <2>3. update_loan(who, c, -taken, -p.debit, 0)
    BY <1>1, Zenon
  <2>4. LoansTypeOK'
    BY <2>1, <2>2, <2>3, UpdateLoanEffect, Zenon
  <2>5. ASSUME NEW d \in Collaterals
        PROVE  /\ totalPositions'[d].collateral =
                    IF d = c THEN totalPositions[d].collateral + (-taken)
                             ELSE totalPositions[d].collateral
               /\ totalPositions'[d].debit =
                    IF d = c THEN totalPositions[d].debit + (-p.debit) ELSE totalPositions[d].debit
    BY ONLY <2>1, <2>2, <2>3, who \in Users, c \in Collaterals, d \in Collaterals,
            UpdateLoanTotals
  <2> QED
    BY <2>4, <2>5, Zenon
<1> HIDE DEF p
<1>8. TypeOK'
  <2>1. TreasuryTypeOK'
    <3>1. debitPool' \in Nat
      <4>1. debitPool \in Nat
        BY Zenon DEF HonzonInv, TypeOK, TreasuryTypeOK
      <4> QED
        BY ONLY <1>1, <1>4, <4>1
    <3> QED
      BY <1>2, <1>6, <3>1, Zenon DEF HonzonInv, TypeOK, TreasuryTypeOK
  <2>2. PricesTypeOK' /\ AuctionTypeOK' /\ EngineTypeOK'
    BY <1>2, Zenon DEF HonzonInv, TypeOK, PricesTypeOK, AuctionTypeOK, EngineTypeOK
  <2> QED
    BY <1>2, <1>7, <2>1, <2>2, Zenon DEF HonzonInv, TypeOK
<1>9. ASSUME NEW d \in Collaterals
      PROVE  /\ bal[<<d, LoansAccount>>] \in Nat /\ bal[<<d, TreasuryAccount>>] \in Nat
             /\ totalCollateralInAuction[d] \in Nat
             /\ totalPositions[d].debit \in Nat /\ totalPositions'[d].debit \in Nat
  BY <1>3, <1>7, AccountsDiffer, Zenon DEF HonzonInv, TypeOK, TreasuryTypeOK, LoansTypeOK, Position, Ledger
<1>10. LoansCustody'
  BY <1>5, <1>6, <1>7, <1>9, AccountsDiffer, Zenon DEF HonzonInv, LoansCustody
<1>11. AuctionsCovered'
  <2> SUFFICES ASSUME ~canRefund, NEW d \in Collaterals
               PROVE  totalCollateralInAuction[d] <= bal'[<<d, TreasuryAccount>>]
    BY <1>2, Zenon DEF AuctionsCovered
  <2>1. totalCollateralInAuction[d] <= bal[<<d, TreasuryAccount>>]
    BY Zenon DEF HonzonInv, AuctionsCovered
  <2>2. bal'[<<d, TreasuryAccount>>] =
          IF d = c THEN bal[<<d, TreasuryAccount>>] + taken ELSE bal[<<d, TreasuryAccount>>]
    BY <1>6, AccountsDiffer, Zenon
  <2>3. bal[<<d, TreasuryAccount>>] \in Nat /\ totalCollateralInAuction[d] \in Nat
    BY <1>9, Zenon
  <2> QED
    BY <1>5, <2>1, <2>2, <2>3
<1>12. RefundMeansSettled'
  <2> SUFFICES ASSUME canRefund, NEW d \in Collaterals
               PROVE  isShutdown' /\ totalPositions'[d].debit = 0
    BY <1>2, Zenon DEF RefundMeansSettled
  <2>1. isShutdown' /\ totalPositions[d].debit = 0
    BY <1>2, Zenon DEF HonzonInv, RefundMeansSettled
  <2>2. totalPositions'[d].debit =
          IF d = c THEN totalPositions[d].debit + (-p.debit) ELSE totalPositions[d].debit
    BY <1>7, Zenon
  <2>3. totalPositions'[d].debit \in Nat /\ p.debit \in Nat
    BY <1>3, <1>9, Zenon DEF p
  <2> QED
    BY ONLY <2>1, <2>2, <2>3
<1>13. ReverseStagePrice'
  BY <1>2, Zenon DEF HonzonInv, ReverseStagePrice
<1> QED
  BY <1>8, <1>10, <1>11, <1>12, <1>13, Zenon DEF HonzonInv
=============================================================================

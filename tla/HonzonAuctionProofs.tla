------------------------ MODULE HonzonAuctionProofs -------------------------
(***************************************************************************)
(* Auctions keep HonzonInv: one lemma for every way a bid is placed and an *)
(* auction ends.                                                           *)
(***************************************************************************)
EXTENDS HonzonLoanProofs

(* A bid in the reverse stage scales the amount down by the new price. *)
LEMMA CollateralAmountBound ==
  ASSUME NEW a \in Auction, NEW last \in Nat, NEW price \in Nat, last \in {0, a.bid},
         price > last, in_reverse_stage(a, price), WithinPrice(a)
  PROVE  /\ collateral_amount(a, last, price) \in Nat
         /\ collateral_amount(a, last, price) * price <= a.initial * a.target
<1> DEFINE g == Greatest(last, a.target)
           m == collateral_amount(a, last, price)
<1>1. a.target \in Nat \ {0} /\ a.amount \in Nat /\ a.initial \in Nat /\ a.bid \in Nat
      /\ price >= a.target
  BY Zenon DEF Auction, in_reverse_stage, always_forward
<1>2. g \in Nat /\ price \in Nat \ {0} /\ g <= Greatest(a.bid, a.target)
      /\ Greatest(a.bid, a.target) \in Nat
  BY <1>1 DEF Greatest
<1>3. m = MulInt(FromRational(g, price), a.amount)
  BY Zenon DEF collateral_amount
<1> HIDE DEF g, m
<1>4. m \in Nat
  <2>1. FromRational(g, price) \in Nat
    BY <1>2, FromRationalNat, Zenon
  <2> QED
    BY <1>1, <1>3, <2>1, MulIntNat, Zenon
<1>5. m * price <= g * a.amount
  BY <1>1, <1>2, <1>3, ScaledDown, Zenon
<1>6. g * a.amount <= Greatest(a.bid, a.target) * a.amount
  BY <1>1, <1>2, MulMono, Zenon
<1>7. Greatest(a.bid, a.target) * a.amount <= a.initial * a.target
  <2>1. a.amount * Greatest(a.bid, a.target) <= a.initial * a.target
    BY <1>1, Zenon DEF WithinPrice
  <2> QED
    BY <1>1, <1>2, <2>1
<1>8. m * price <= a.initial * a.target
  BY <1>1, <1>2, <1>4, <1>5, <1>6, <1>7, MulNat
<1> QED
  BY <1>4, <1>8, Zenon DEF m

(* A bid: the stable currency goes to the last bidder and the treasury,    *)
(* collateral only from the treasury to the refund recipient, as much as   *)
(* the auction gives up.                                                   *)
LEMMA BidStep ==
  ASSUME HonzonInv, NEW who \in Users, NEW id \in DOMAIN auctions, NEW price \in Nat,
         Bid(who, id, price)
  PROVE  HonzonInv'
<1> DEFINE a == auctions[id]
           hasBid == a.bidder # Nobody
           last == IF hasBid THEN a.bid ELSE 0
           repaid == IF hasBid THEN payment_amount(a, last) ELSE 0
           payment == payment_amount(a, price) - repaid
           toLast == IF hasBid THEN Transfer(bal, Stable, who, a.bidder, repaid) ELSE bal
           paid == Transfer(toLast, Stable, who, TreasuryAccount, payment)
           newAmount == IF in_reverse_stage(a, price)
                        THEN collateral_amount(a, last, price) ELSE a.amount
           returned == Monus(a.amount, newAmount)
           close == now + get_auction_time_to_close(a)
<1>1. a \in Auction
  BY Zenon DEF HonzonInv, TypeOK, AuctionTypeOK
<1>2. /\ a.currency \in Collaterals /\ a.amount \in Nat /\ a.target \in Nat /\ a.bid \in Nat
      /\ a.initial \in Nat /\ a.start \in Nat
      /\ a.recipient \in Users \cup {TreasuryAccount} /\ (hasBid => a.bidder \in Users)
  BY <1>1, Zenon DEF Auction
<1>3. /\ price > last
      /\ hasBid => CanTransfer(bal, Stable, who, a.bidder, repaid)
      /\ payment >= 0
      /\ CanTransfer(toLast, Stable, who, TreasuryAccount, payment)
      /\ CanTransfer(paid, a.currency, TreasuryAccount, a.recipient, returned)
      /\ bal' = Transfer(paid, a.currency, TreasuryAccount, a.recipient, returned)
      /\ auctions' = [auctions EXCEPT ![id] = [a EXCEPT !.bidder = who, !.bid = price,
                                                        !.end = close, !.amount = newAmount]]
      /\ totalCollateralInAuction' =
           [totalCollateralInAuction EXCEPT ![a.currency] =
              Monus(totalCollateralInAuction[a.currency], returned)]
      /\ consumers' = AddRefs(IF hasBid THEN AddRefs(consumers, a.bidder, -1) ELSE consumers,
                              who, 1)
  BY Zenon DEF Bid, bid
<1>4. UNCHANGED <<issuance, debitPool, auctionSize, pool, positions, totalPositions, loanShares,
                  nextAuction, totalTargetInAuction, now, isShutdown, debitExchangeRate,
                  collateralParams, globalInterestRate, oracle, locked, canRefund,
                  authorization, reserved, phase, pending>>
  BY Zenon DEF Bid, bid, treasuryVars, loanVars, engineVars, paramVars, callFrame, priceVars,
         authVars, blockVars
<1>5. last \in Nat /\ last \in {0, a.bid} /\ repaid \in Nat
  BY <1>2, Zenon DEF payment_amount, Least
<1>6. payment \in Nat
  BY <1>2, <1>3, <1>5 DEF payment_amount, Least
<1>7. newAmount \in Nat /\ WithinPrice(a)
      /\ (in_reverse_stage(a, price) => newAmount * price <= a.initial * a.target)
  BY <1>1, <1>2, <1>3, <1>5, CollateralAmountBound, Zenon DEF HonzonInv, ReverseStagePrice
<1>8. close \in Nat
  BY <1>2, AuctionAssumption DEF get_auction_time_to_close, HonzonInv, TypeOK, AuctionTypeOK
<1>9. returned \in Nat
  BY <1>2, <1>7 DEF Monus
<1> HIDE DEF last, repaid, payment, newAmount, close, returned
<1>10. /\ toLast \in Ledger
       /\ \A d \in Collaterals, x \in Accounts : toLast[<<d, x>>] = bal[<<d, x>>]
  <2>1. CASE hasBid
    BY <1>2, <1>3, <1>5, <2>1, TransferCells, AccountsDiffer DEF HonzonInv, TypeOK, TreasuryTypeOK
  <2>2. CASE ~hasBid
    BY <2>2, Zenon DEF HonzonInv, TypeOK, TreasuryTypeOK
  <2> QED
    BY <2>1, <2>2, Zenon
<1> HIDE DEF toLast
<1>11. /\ paid \in Ledger
       /\ \A d \in Collaterals, x \in Accounts : paid[<<d, x>>] = bal[<<d, x>>]
  BY <1>3, <1>6, <1>10, TransferCells, AccountsDiffer
<1> HIDE DEF paid
<1>12. /\ bal' \in Ledger
       /\ \A d \in Collaterals :
            /\ bal'[<<d, LoansAccount>>] = bal[<<d, LoansAccount>>]
            /\ \/ bal'[<<d, TreasuryAccount>>] = bal[<<d, TreasuryAccount>>]
               \/ /\ d = a.currency
                  /\ bal'[<<d, TreasuryAccount>>] = bal[<<d, TreasuryAccount>>] - returned
  <2>1. a.recipient \in Accounts /\ a.currency \in Tokens /\ a.recipient # LoansAccount
    BY <1>2, AccountsDiffer, Zenon
  <2>2. /\ bal' \in Ledger
        /\ \A u \in Tokens, x \in Accounts :
             bal'[<<u, x>>] =
               IF u # a.currency \/ TreasuryAccount = a.recipient THEN paid[<<u, x>>]
               ELSE IF x = TreasuryAccount THEN paid[<<u, x>>] - returned
               ELSE IF x = a.recipient THEN paid[<<u, x>>] + returned
               ELSE paid[<<u, x>>]
    BY <1>3, <1>9, <1>11, <2>1, TransferCells, AccountsDiffer
  <2> QED
    BY <1>11, <2>1, <2>2, AccountsDiffer
<1>13. /\ totalCollateralInAuction' \in [Collaterals -> Nat]
       /\ \A d \in Collaterals :
            totalCollateralInAuction'[d] =
              IF d = a.currency THEN Monus(totalCollateralInAuction[d], returned)
                                ELSE totalCollateralInAuction[d]
  BY <1>2, <1>3, <1>9 DEF HonzonInv, TypeOK, TreasuryTypeOK, Monus
<1> DEFINE new == [a EXCEPT !.bidder = who, !.bid = price, !.end = close, !.amount = newAmount]
<1>14. new \in Auction /\ WithinPrice(new)
  <2>1. new \in Auction
    BY <1>1, <1>7, <1>8, Zenon DEF Auction
  <2>2. new.amount = newAmount /\ new.bid = price /\ new.target = a.target
        /\ new.initial = a.initial
    BY <1>1, Zenon DEF Auction
  <2>3. CASE in_reverse_stage(a, price)
    <3>1. price >= a.target
      BY <2>3, Zenon DEF in_reverse_stage
    <3>2. Greatest(price, a.target) = price
      BY <3>1, Zenon DEF Greatest
    <3>3. newAmount * price <= a.initial * a.target
      BY <1>7, <2>3, Zenon
    <3> QED
      BY <2>1, <2>2, <3>2, <3>3, Zenon DEF WithinPrice
  <2>4. CASE ~in_reverse_stage(a, price)
    <3>1. newAmount = a.amount
      BY <2>4, Zenon DEF newAmount
    <3>2. a.target # 0 => Greatest(price, a.target) = a.target
      BY <1>2, <2>4, Zenon DEF in_reverse_stage, always_forward, Greatest
    <3>3. a.target # 0 => a.amount * a.target <= a.amount * Greatest(a.bid, a.target)
      BY <1>2 DEF Greatest
    <3>4. a.target # 0 => a.amount * Greatest(a.bid, a.target) <= a.initial * a.target
      BY <1>7, Zenon DEF WithinPrice
    <3>5. a.amount * a.target \in Nat /\ a.initial * a.target \in Nat
          /\ a.amount * Greatest(a.bid, a.target) \in Nat
      BY <1>2 DEF Greatest
    <3>6. a.target # 0 => a.amount * a.target <= a.initial * a.target
      BY <3>3, <3>4, <3>5
    <3>7. ASSUME new.target # 0
          PROVE  new.amount * Greatest(new.bid, new.target) <= new.initial * new.target
      <4>1. /\ new.amount = a.amount /\ new.target = a.target /\ new.initial = a.initial
            /\ Greatest(new.bid, new.target) = a.target
        BY <2>2, <3>1, <3>2, <3>7, Zenon
      <4> HIDE DEF new
      <4> QED
        BY <3>6, <3>7, <4>1, Zenon
    <3> QED
      BY <2>1, <3>7, Zenon DEF WithinPrice
  <2> QED
    BY <2>1, <2>3, <2>4, Zenon
<1> HIDE DEF new
<1>15. auctions' = [auctions EXCEPT ![id] = new]
  BY <1>3, Zenon DEF new
<1>16. AuctionTypeOK' /\ ReverseStagePrice'
  BY <1>4, <1>14, <1>15, Zenon DEF HonzonInv, TypeOK, AuctionTypeOK, ReverseStagePrice
<1>17. LoansTypeOK'
  <2>1. consumers' \in [Accounts -> Int]
    BY <1>2, <1>3, AccountsDiffer DEF HonzonInv, TypeOK, LoansTypeOK, AddRefs
  <2> QED
    BY <1>4, <2>1, Zenon DEF HonzonInv, TypeOK, LoansTypeOK
<1>18. TypeOK'
  <2>1. TreasuryTypeOK'
    BY <1>4, <1>12, <1>13, Zenon DEF HonzonInv, TypeOK, TreasuryTypeOK
  <2>2. PricesTypeOK' /\ EngineTypeOK'
    BY <1>4, Zenon DEF HonzonInv, TypeOK, PricesTypeOK, EngineTypeOK
  <2> QED
    BY <1>4, <1>16, <1>17, <2>1, <2>2, Zenon DEF HonzonInv, TypeOK
<1>19. LoansCustody' /\ RefundMeansSettled'
  BY <1>4, <1>12, Zenon DEF HonzonInv, LoansCustody, RefundMeansSettled
<1>20. AuctionsCovered'
  <2> SUFFICES ASSUME ~canRefund, NEW d \in Collaterals
               PROVE  totalCollateralInAuction'[d] <= bal'[<<d, TreasuryAccount>>]
    BY <1>4, Zenon DEF AuctionsCovered
  <2>1. /\ totalCollateralInAuction[d] <= bal[<<d, TreasuryAccount>>]
        /\ totalCollateralInAuction[d] \in Nat /\ bal[<<d, TreasuryAccount>>] \in Nat
        /\ bal'[<<d, TreasuryAccount>>] \in Nat
    BY <1>12, AccountsDiffer, Zenon DEF HonzonInv, AuctionsCovered, TypeOK, TreasuryTypeOK, Ledger
  <2>2. CASE d = a.currency
    <3>1. totalCollateralInAuction'[d] = Monus(totalCollateralInAuction[d], returned)
      BY <1>13, <2>2, Zenon
    <3>2. \/ bal'[<<d, TreasuryAccount>>] = bal[<<d, TreasuryAccount>>]
          \/ bal'[<<d, TreasuryAccount>>] = bal[<<d, TreasuryAccount>>] - returned
      BY <1>12, Zenon
    <3> QED
      BY <1>9, <2>1, <3>1, <3>2 DEF Monus
  <2>3. CASE d # a.currency
    BY <1>12, <1>13, <2>1, <2>3, Zenon
  <2> QED
    BY <2>2, <2>3, Zenon
<1> QED
  BY <1>16, <1>18, <1>19, <1>20, Zenon DEF HonzonInv

(* Closing an auction keeps the invariant as long as no more collateral    *)
(* leaves the treasury than the auction held.                              *)
LEMMA AuctionClosed ==
  ASSUME HonzonInv, NEW id \in DOMAIN auctions, CloseAuction(id),
         bal' \in Ledger, issuance' \in Nat, debitPool' \in Nat, pool' \in [Collaterals -> Pool],
         \A d \in Collaterals :
           /\ bal'[<<d, LoansAccount>>] = bal[<<d, LoansAccount>>]
           /\ bal'[<<d, TreasuryAccount>>] + (IF d = auctions[id].currency
                                              THEN auctions[id].amount ELSE 0)
                >= bal[<<d, TreasuryAccount>>],
         UNCHANGED <<engineVars, callFrame>>
  PROVE  HonzonInv'
<1> DEFINE a == auctions[id]
<1>1. a.amount \in Nat
  BY Zenon DEF HonzonInv, TypeOK, AuctionTypeOK, Auction
<1>2. /\ AuctionTypeOK' /\ LoansTypeOK'
      /\ totalPositions' = totalPositions
      /\ totalCollateralInAuction' \in [Collaterals -> Nat]
      /\ auctionSize' \in [Collaterals -> Nat]
      /\ \A d \in Collaterals :
           totalCollateralInAuction'[d] =
             IF d = a.currency THEN Monus(totalCollateralInAuction[d], a.amount)
                               ELSE totalCollateralInAuction[d]
      /\ ReverseStagePrice'
  BY CloseAuctionEffect, Zenon DEF HonzonInv
<1>3. UNCHANGED <<debitExchangeRate, collateralParams, globalInterestRate, oracle, locked,
                  canRefund, authorization, reserved, phase, pending, isShutdown>>
  BY Zenon DEF engineVars, paramVars, callFrame, priceVars, authVars, blockVars, CloseAuction
<1> HIDE DEF a
<1>4. TypeOK'
  <2>1. TreasuryTypeOK'
    BY <1>2, Zenon DEF TreasuryTypeOK
  <2>2. PricesTypeOK' /\ EngineTypeOK'
    BY <1>3, Zenon DEF HonzonInv, TypeOK, PricesTypeOK, EngineTypeOK
  <2> QED
    BY <1>2, <1>3, <2>1, <2>2, Zenon DEF HonzonInv, TypeOK
<1>5. LoansCustody' /\ RefundMeansSettled'
  BY <1>2, <1>3, Zenon DEF HonzonInv, LoansCustody, RefundMeansSettled
<1>6. AuctionsCovered'
  <2> SUFFICES ASSUME ~canRefund, NEW d \in Collaterals
               PROVE  totalCollateralInAuction'[d] <= bal'[<<d, TreasuryAccount>>]
    BY <1>3, Zenon DEF AuctionsCovered
  <2>1. /\ totalCollateralInAuction[d] <= bal[<<d, TreasuryAccount>>]
        /\ totalCollateralInAuction[d] \in Nat /\ bal[<<d, TreasuryAccount>>] \in Nat
        /\ bal'[<<d, TreasuryAccount>>] \in Nat
    BY AccountsDiffer, Zenon DEF HonzonInv, AuctionsCovered, TypeOK, TreasuryTypeOK, Ledger
  <2>2. bal'[<<d, TreasuryAccount>>] + (IF d = a.currency THEN a.amount ELSE 0)
          >= bal[<<d, TreasuryAccount>>]
    BY Zenon DEF a
  <2>3. totalCollateralInAuction'[d] =
          IF d = a.currency THEN Monus(totalCollateralInAuction[d], a.amount)
                            ELSE totalCollateralInAuction[d]
    BY <1>2, Zenon
  <2> QED
    BY <1>1, <2>1, <2>2, <2>3 DEF Monus
<1> QED
  BY <1>2, <1>4, <1>5, <1>6, Zenon DEF HonzonInv

(* The types of an auction's fields, and the treasury paying collateral out. *)
LEMMA AuctionFields ==
  ASSUME HonzonInv, NEW id \in DOMAIN auctions
  PROVE  /\ auctions[id].currency \in Collaterals /\ auctions[id].currency \in Tokens
         /\ auctions[id].amount \in Nat /\ auctions[id].target \in Nat
         /\ auctions[id].bid \in Nat
         /\ auctions[id].recipient \in Accounts /\ auctions[id].recipient # LoansAccount
         /\ auctions[id].bidder # Nobody => auctions[id].bidder \in Users
<1>1. auctions[id] \in Auction
  BY Zenon DEF HonzonInv, TypeOK, AuctionTypeOK
<1> QED
  BY <1>1, AccountsDiffer, Zenon DEF Auction

(* The treasury pays collateral out of what it holds, to anyone but the    *)
(* loans account.                                                          *)
LEMMA TreasuryPays ==
  ASSUME HonzonInv, NEW c \in Collaterals, NEW to \in Accounts, to # LoansAccount,
         NEW n \in Nat, CanTransfer(bal, c, TreasuryAccount, to, n)
  PROVE  /\ Transfer(bal, c, TreasuryAccount, to, n) \in Ledger
         /\ \A d \in Collaterals :
              /\ Transfer(bal, c, TreasuryAccount, to, n)[<<d, LoansAccount>>]
                   = bal[<<d, LoansAccount>>]
              /\ Transfer(bal, c, TreasuryAccount, to, n)[<<d, TreasuryAccount>>]
                   + (IF d = c THEN n ELSE 0) >= bal[<<d, TreasuryAccount>>]
<1>1. bal \in Ledger /\ c \in Tokens /\ \A d \in Collaterals : bal[<<d, TreasuryAccount>>] \in Nat
  BY AccountsDiffer, Zenon DEF HonzonInv, TypeOK, TreasuryTypeOK, Ledger
<1> DEFINE b == Transfer(bal, c, TreasuryAccount, to, n)
<1>2. /\ b \in Ledger
      /\ \A u \in Tokens, a \in Accounts :
           b[<<u, a>>] = IF u # c \/ TreasuryAccount = to THEN bal[<<u, a>>]
                         ELSE IF a = TreasuryAccount THEN bal[<<u, a>>] - n
                         ELSE IF a = to THEN bal[<<u, a>>] + n
                         ELSE bal[<<u, a>>]
  BY <1>1, TransferCells, AccountsDiffer
<1> HIDE DEF b
<1>3. ASSUME NEW d \in Collaterals
      PROVE  /\ b[<<d, LoansAccount>>] = bal[<<d, LoansAccount>>]
             /\ b[<<d, TreasuryAccount>>] + (IF d = c THEN n ELSE 0) >= bal[<<d, TreasuryAccount>>]
  BY <1>1, <1>2, AccountsDiffer
<1> QED
  BY <1>2, <1>3, Zenon DEF b

(* An auction that is dealt. *)
LEMMA DealtStep ==
  ASSUME HonzonInv, NEW id \in DOMAIN auctions, auctions[id].bidder # Nobody, Dealt(id),
         UNCHANGED <<engineVars, callFrame>>
  PROVE  HonzonInv'
<1> DEFINE a == auctions[id]
<1>1. /\ a.currency \in Collaterals /\ a.amount \in Nat /\ a.bidder \in Accounts
      /\ a.bidder # LoansAccount
  BY AuctionFields, AccountsDiffer, Zenon
<1>2. /\ bal' = IF CanTransfer(bal, a.currency, TreasuryAccount, a.bidder, a.amount)
                THEN Transfer(bal, a.currency, TreasuryAccount, a.bidder, a.amount)
                ELSE bal
      /\ CloseAuction(id)
      /\ UNCHANGED <<issuance, debitPool, pool>>
  BY Zenon DEF Dealt
<1> HIDE DEF a
<1>3. bal \in Ledger /\ \A d \in Collaterals : bal[<<d, TreasuryAccount>>] \in Nat
  BY AccountsDiffer, Zenon DEF HonzonInv, TypeOK, TreasuryTypeOK, Ledger
<1>4. /\ bal' \in Ledger
      /\ \A d \in Collaterals :
           /\ bal'[<<d, LoansAccount>>] = bal[<<d, LoansAccount>>]
           /\ bal'[<<d, TreasuryAccount>>] + (IF d = a.currency THEN a.amount ELSE 0)
                >= bal[<<d, TreasuryAccount>>]
  <2>1. CASE CanTransfer(bal, a.currency, TreasuryAccount, a.bidder, a.amount)
    BY <1>1, <1>2, <2>1, TreasuryPays
  <2>2. CASE ~CanTransfer(bal, a.currency, TreasuryAccount, a.bidder, a.amount)
    BY <1>1, <1>2, <1>3, <2>2
  <2> QED
    BY <2>1, <2>2, Zenon
<1>5. issuance' \in Nat /\ debitPool' \in Nat /\ pool' \in [Collaterals -> Pool]
  BY <1>2, Zenon DEF HonzonInv, TypeOK, TreasuryTypeOK
<1> QED
  BY <1>2, <1>4, <1>5, AuctionClosed, Zenon DEF a

(* An auction that the DEX takes. *)
LEMMA DexTakesStep ==
  ASSUME HonzonInv, NEW id \in DOMAIN auctions, auctions[id].bidder # Nobody, DexTakes(id),
         UNCHANGED <<engineVars, callFrame>>
  PROVE  HonzonInv'
<1> DEFINE a == auctions[id]
           pays == DexPays(a)
           extra == IF in_reverse_stage(a, pays) THEN pays - a.target ELSE 0
           b == SwapLedger(bal, a.currency, a.amount, pays)
           b1 == Deposit(b, Stable, a.bidder, a.bid)
<1>1. /\ a.currency \in Collaterals /\ a.amount \in Nat /\ a.bid \in Nat /\ a.target \in Nat
      /\ a.bidder \in Accounts /\ a.recipient \in Accounts
  BY AuctionFields, AccountsDiffer, Zenon
<1>2. /\ pays # 0
      /\ bal' = Deposit(b1, Stable, a.recipient, extra)
      /\ pool' = SwapPool(a.currency, a.amount, pays)
      /\ issuance' = issuance + (a.bid + extra)
      /\ debitPool' = debitPool + (a.bid + extra)
      /\ CloseAuction(id)
  BY Zenon DEF DexTakes
<1>3. bal \in Ledger /\ TreasuryTypeOK /\ issuance \in Nat /\ debitPool \in Nat
      /\ \A d \in Collaterals : bal[<<d, TreasuryAccount>>] \in Nat
  BY AccountsDiffer, Zenon DEF HonzonInv, TypeOK, TreasuryTypeOK, Ledger
<1>4. pays = SwapExactToStable(bal, a.currency, a.amount)
  BY <1>2, Zenon DEF DexPays
<1>5. /\ pays \in Nat /\ bal[<<a.currency, TreasuryAccount>>] >= a.amount
      /\ CanTransfer(bal, Stable, DexAccount, TreasuryAccount, pays)
  BY <1>1, <1>2, <1>3, <1>4, SwapExactToStableBounds, Zenon
<1> HIDE DEF a, pays
<1>6. extra \in Nat
  BY <1>1, <1>5 DEF in_reverse_stage
<1>7. /\ b \in Ledger
      /\ \A d \in Collaterals, x \in Accounts :
           b[<<d, x>>] = IF d # a.currency THEN bal[<<d, x>>]
                         ELSE IF x = TreasuryAccount THEN bal[<<d, x>>] - a.amount
                         ELSE IF x = DexAccount THEN bal[<<d, x>>] + a.amount
                         ELSE bal[<<d, x>>]
  BY <1>1, <1>3, <1>5, SwapLedgerCells
<1> HIDE DEF b, extra
<1>8. b1 \in Ledger /\ \A d \in Collaterals, x \in Accounts : b1[<<d, x>>] = b[<<d, x>>]
  BY <1>1, <1>7, StableDeposit, ZenonT(30)
<1> HIDE DEF b1
<1>9. bal' \in Ledger /\ \A d \in Collaterals, x \in Accounts : bal'[<<d, x>>] = b1[<<d, x>>]
  <2> DEFINE b2 == Deposit(b1, Stable, a.recipient, extra)
  <2>1. b2 \in Ledger /\ \A d \in Collaterals, x \in Accounts : b2[<<d, x>>] = b1[<<d, x>>]
    BY <1>1, <1>6, <1>8, StableDeposit, Zenon
  <2>2. bal' = b2
    BY <1>2, Zenon
  <2> HIDE DEF b2
  <2> QED
    BY <2>1, <2>2, Zenon
<1>10. ASSUME NEW d \in Collaterals
       PROVE  /\ bal'[<<d, LoansAccount>>] = bal[<<d, LoansAccount>>]
              /\ bal'[<<d, TreasuryAccount>>] + (IF d = a.currency THEN a.amount ELSE 0)
                   >= bal[<<d, TreasuryAccount>>]
  BY <1>1, <1>3, <1>7, <1>8, <1>9, AccountsDiffer
<1>11. issuance' \in Nat /\ debitPool' \in Nat
  BY <1>1, <1>2, <1>3, <1>6
<1>12. pool' \in [Collaterals -> Pool]
  BY <1>1, <1>2, <1>3, <1>5, SwapPoolType, Zenon
<1> QED
  BY <1>2, <1>9, <1>10, <1>11, <1>12, AuctionClosed, Zenon DEF a

(* A cancelled auction. *)
LEMMA CancelStep ==
  ASSUME HonzonInv, NEW id \in DOMAIN auctions, Cancel(id)
  PROVE  HonzonInv'
<1> DEFINE a == auctions[id]
           owed == IF always_forward(a) THEN a.amount
                   ELSE Least(MulInt(StablePriceIn(a.currency), a.target), a.amount)
           back == a.amount - owed
           b == Transfer(bal, a.currency, TreasuryAccount, a.recipient, back)
<1>1. /\ a.currency \in Collaterals /\ a.amount \in Nat /\ a.bid \in Nat /\ a.target \in Nat
      /\ a.recipient \in Accounts /\ a.recipient # LoansAccount
      /\ a.bidder # Nobody => a.bidder \in Accounts
  BY AuctionFields, AccountsDiffer, Zenon
<1>2. /\ get_price(a.currency) # NoPrice
      /\ CanTransfer(bal, a.currency, TreasuryAccount, a.recipient, back)
      /\ IF a.bidder # Nobody
         THEN /\ bal' = Deposit(b, Stable, a.bidder, a.bid)
              /\ issuance' = issuance + a.bid
              /\ debitPool' = debitPool + a.bid
         ELSE bal' = b /\ UNCHANGED <<issuance, debitPool>>
      /\ CloseAuction(id)
      /\ UNCHANGED <<pool, engineVars, callFrame>>
  BY Zenon DEF Cancel, cancel
<1>3. bal \in Ledger /\ TreasuryTypeOK /\ issuance \in Nat /\ debitPool \in Nat
      /\ pool \in [Collaterals -> Pool]
      /\ \A d \in Collaterals : bal[<<d, TreasuryAccount>>] \in Nat
  BY AccountsDiffer, Zenon DEF HonzonInv, TypeOK, TreasuryTypeOK, Ledger
<1> HIDE DEF a
<1>4. back \in Nat /\ back <= a.amount
  <2>1. StablePriceIn(a.currency) \in Nat
    BY <1>1, <1>2, PriceNat, Zenon DEF HonzonInv, TypeOK
  <2>2. MulInt(StablePriceIn(a.currency), a.target) \in Nat
    BY <1>1, <2>1, MulIntNat, Zenon
  <2> QED
    BY <1>1, <2>2 DEF Least
<1> HIDE DEF back
<1>5. /\ b \in Ledger
      /\ \A d \in Collaterals :
           /\ b[<<d, LoansAccount>>] = bal[<<d, LoansAccount>>]
           /\ b[<<d, TreasuryAccount>>] + (IF d = a.currency THEN back ELSE 0)
                >= bal[<<d, TreasuryAccount>>]
  BY <1>1, <1>2, <1>4, TreasuryPays, Zenon
<1> HIDE DEF b
<1>6. bal' \in Ledger /\ \A d \in Collaterals, x \in Accounts : bal'[<<d, x>>] = b[<<d, x>>]
  <2>1. CASE a.bidder # Nobody
    <3> DEFINE b2 == Deposit(b, Stable, a.bidder, a.bid)
    <3>1. b2 \in Ledger /\ \A d \in Collaterals, x \in Accounts : b2[<<d, x>>] = b[<<d, x>>]
      BY <1>1, <1>5, <2>1, StableDeposit, Zenon
    <3>2. bal' = b2
      BY <1>2, <2>1, Zenon
    <3> HIDE DEF b2
    <3> QED
      BY <3>1, <3>2, Zenon
  <2>2. CASE a.bidder = Nobody
    BY <1>2, <1>5, <2>2, Zenon
  <2> QED
    BY <2>1, <2>2, Zenon
<1>7. ASSUME NEW d \in Collaterals
      PROVE  /\ bal'[<<d, LoansAccount>>] = bal[<<d, LoansAccount>>]
             /\ bal'[<<d, TreasuryAccount>>] + (IF d = a.currency THEN a.amount ELSE 0)
                  >= bal[<<d, TreasuryAccount>>]
  <2>1. b[<<d, TreasuryAccount>>] \in Nat /\ bal[<<d, TreasuryAccount>>] \in Nat
    BY <1>3, <1>5, AccountsDiffer, Zenon DEF Ledger
  <2>2. /\ bal'[<<d, LoansAccount>>] = b[<<d, LoansAccount>>]
        /\ bal'[<<d, TreasuryAccount>>] = b[<<d, TreasuryAccount>>]
    BY <1>6, AccountsDiffer, Zenon
  <2> QED
    BY <1>1, <1>4, <1>5, <2>1, <2>2
<1>8. issuance' \in Nat /\ debitPool' \in Nat /\ pool' \in [Collaterals -> Pool]
  BY <1>1, <1>2, <1>3
<1> QED
  BY <1>2, <1>6, <1>7, <1>8, AuctionClosed, Zenon DEF a

(* An auction ends with its winner or, without a bid, with the DEX. *)
LEMMA AuctionEndStep ==
  ASSUME HonzonInv, NEW id \in DOMAIN auctions, AuctionEnd(id)
  PROVE  HonzonInv'
  BY DealtStep, DexTakesStep, Zenon DEF AuctionEnd, Due
=============================================================================

--------------------------- MODULE AuctionManager ---------------------------
(***************************************************************************)
(* module_auction_manager on top of orml_auction: collateral auctions that *)
(* sell `amount` of a collateral for up to `target` of stable currency.    *)
(* Below the target the highest bid wins the whole amount (forward stage); *)
(* from the target on the payment stays at the target and the amount       *)
(* shrinks (reverse stage).  An auction has no end before its first bid.   *)
(***************************************************************************)
EXTENDS Loans

CONSTANTS BidPrices,                \* prices bidders try
          MinimumIncrementSize,     \* Rate
          AuctionTimeToClose, AuctionDurationSoftCap,   \* in blocks
          MaxAuctionId, MaxBlock    \* bounds of a model

ASSUME AuctionAssumption ==
  /\ BidPrices \subseteq Nat /\ MinimumIncrementSize \in Nat
  /\ AuctionTimeToClose \in Nat /\ AuctionDurationSoftCap \in Nat
  /\ MaxAuctionId \in Nat /\ MaxBlock \in Nat

VARIABLES auctions,               \* CollateralAuctions joined with orml_auction's Auctions
          nextAuction,            \* orml_auction's AuctionsIndex
          totalTargetInAuction,   \* TotalTargetInAuction
          now,                    \* block number
          isShutdown              \* of the emergency shutdown

auctionVars == <<auctions, nextAuction, totalCollateralInAuction, totalTargetInAuction>>

Nobody == "nobody"

Auction ==
  [recipient : Users \cup {TreasuryAccount}, currency : Collaterals, initial : Nat, amount : Nat,
   target : Nat, start : Nat, bidder : Users \cup {Nobody}, bid : Nat, end : Nat]

AuctionTypeOK ==
  /\ DOMAIN auctions \in SUBSET Nat
  /\ auctions \in [DOMAIN auctions -> Auction]
  /\ nextAuction \in Nat /\ totalTargetInAuction \in Nat
  /\ now \in Nat /\ isShutdown \in BOOLEAN

always_forward(a) == a.target = 0

in_reverse_stage(a, price) == ~always_forward(a) /\ price >= a.target

payment_amount(a, price) ==
  IF always_forward(a) THEN price ELSE Least(a.target, price)

(* mutant of collateral_amount: a higher bid still gets everything *)
CollateralUnscaled(a, last, new) == a.amount

collateral_amount(a, last, new) ==
  IF in_reverse_stage(a, new) /\ new > last
  THEN MulInt(FromRational(Greatest(last, a.target), new), a.amount)
  ELSE a.amount

check_minimum_increment(new, last, target, increment) ==
  new >= last /\ new - last >= MulInt(increment, Greatest(target, last))

PastSoftCap(a) == now >= a.start + AuctionDurationSoftCap

get_minimum_increment_size(a) ==
  IF PastSoftCap(a) THEN 2 * MinimumIncrementSize ELSE MinimumIncrementSize

get_auction_time_to_close(a) ==
  IF PastSoftCap(a) THEN AuctionTimeToClose \div 2 ELSE AuctionTimeToClose

Without(id) == [i \in DOMAIN auctions \ {id} |-> auctions[i]]

-----------------------------------------------------------------------------
(* new_collateral_auction for every lot of create_collateral_auctions, on  *)
(* the ledger b.  LotsMade is also the number of references the receiver   *)
(* gains.                                                                  *)

LotsMade(c, amount, split) == IF amount = 0 THEN 0 ELSE LotsCount(c, amount, split)

create_collateral_auctions(b, c, amount, target, receiver, split) ==
  LET n   == LotsMade(c, amount, split)
      ids == nextAuction .. (nextAuction + n - 1)
      NewAuction(i) ==
        LET lot == Lot(n, i - nextAuction + 1, amount, target)
        IN [recipient |-> receiver, currency |-> c, initial |-> lot.amount,
            amount |-> lot.amount, target |-> lot.target, start |-> now,
            bidder |-> Nobody, bid |-> 0, end |-> 0]
      Lots(first, last) == IF n = 0 THEN 0 ELSE (n - 1) * first + last
  IN /\ total_collaterals_not_in_auction(b, c) >= amount
     /\ nextAuction + n <= MaxAuctionId + 1                  \* bound
     /\ auctions' = [i \in DOMAIN auctions \cup ids |->
                       IF i \in ids THEN NewAuction(i) ELSE auctions[i]]
     /\ nextAuction' = nextAuction + n
     /\ totalCollateralInAuction' =
          [totalCollateralInAuction EXCEPT ![c] =
             @ + Lots(Lot(n, 0, amount, target).amount, Lot(n, n, amount, target).amount)]
     /\ totalTargetInAuction' = totalTargetInAuction
             + Lots(Lot(n, 0, amount, target).target, Lot(n, n, amount, target).target)

(* auction_collateral of the treasury, by governance: the treasury itself *)
(* receives what is refunded                                              *)
auction_collateral(c, amount, target, split) ==
  /\ create_collateral_auctions(bal, c, amount, target, TreasuryAccount, split)
  /\ consumers' = AddRefs(consumers, TreasuryAccount, LotsMade(c, amount, split))
  /\ UNCHANGED <<tokenVars, treasuryVars, pool, loanVars, now, isShutdown>>

-----------------------------------------------------------------------------
(* orml_auction::bid, on_new_bid and collateral_auction_bid_handler *)
bid(who, id, price) ==
  LET a         == auctions[id]
      hasBid    == a.bidder # Nobody
      last      == IF hasBid THEN a.bid ELSE 0
      repaid    == IF hasBid THEN payment_amount(a, last) ELSE 0
      payment   == payment_amount(a, price) - repaid
      toLast    == IF hasBid THEN Transfer(bal, Stable, who, a.bidder, repaid) ELSE bal
      paid      == Transfer(toLast, Stable, who, TreasuryAccount, payment)
      newAmount == IF in_reverse_stage(a, price)
                   THEN collateral_amount(a, last, price) ELSE a.amount
      returned  == Monus(a.amount, newAmount)
      close     == now + get_auction_time_to_close(a)
  IN /\ price > last
     /\ check_minimum_increment(price, last, a.target, get_minimum_increment_size(a))
     /\ hasBid => CanTransfer(bal, Stable, who, a.bidder, repaid)
     /\ payment >= 0
     /\ CanTransfer(toLast, Stable, who, TreasuryAccount, payment)
     /\ CanTransfer(paid, a.currency, TreasuryAccount, a.recipient, returned)
     /\ close < MaxBlock                                     \* bound
     /\ bal' = Transfer(paid, a.currency, TreasuryAccount, a.recipient, returned)
     /\ auctions' = [auctions EXCEPT ![id] = [@ EXCEPT !.bidder = who, !.bid = price,
                                                       !.end = close, !.amount = newAmount]]
     /\ totalCollateralInAuction' =
          [totalCollateralInAuction EXCEPT ![a.currency] = Monus(@, returned)]
     /\ consumers' = AddRefs(IF hasBid THEN AddRefs(consumers, a.bidder, -1) ELSE consumers,
                             who, 1)
     /\ UNCHANGED <<issuance, treasuryVars, pool, loanVars, nextAuction,
                    totalTargetInAuction, now, isShutdown>>

-----------------------------------------------------------------------------
(* mutant of CloseAuction: the auction goes, totals and references stay *)
CloseAuctionOnly(id) ==
  /\ auctions' = Without(id)
  /\ UNCHANGED <<totalCollateralInAuction, totalTargetInAuction, consumers, nextAuction,
                 auctionSize, loanVars, now, isShutdown>>

(* What every way of closing an auction does to the records. *)
CloseAuction(id) ==
  LET a == auctions[id]
  IN /\ auctions' = Without(id)
     /\ totalCollateralInAuction' =
          [totalCollateralInAuction EXCEPT ![a.currency] = Monus(@, a.amount)]
     /\ totalTargetInAuction' = Monus(totalTargetInAuction, a.target)
     /\ consumers' = AddRefs(IF a.bidder # Nobody THEN AddRefs(consumers, a.bidder, -1)
                                                  ELSE consumers,
                             a.recipient, -1)
     /\ UNCHANGED <<nextAuction, auctionSize, loanVars, now, isShutdown>>

(* collateral_auction_end_handler prefers the DEX when the bid is below    *)
(* the target and the DEX pays more than the bid                           *)
DexPays(a) ==
  IF /\ ~in_reverse_stage(a, a.bid)
     /\ a.bid < TargetOf(pool[a.currency].collateral, pool[a.currency].stable, a.amount, 0)
  THEN SwapExactToStable(bal, a.currency, a.amount) ELSE 0

(* mutant of Dealt: the winner is not paid *)
DealtUnpaid(id) ==
  /\ DexPays(auctions[id]) = 0
  /\ CloseAuction(id)
  /\ UNCHANGED <<tokenVars, debitPool, pool>>

(* on_auction_ended, dealt: the winner receives the collateral.  When the  *)
(* transfer fails the code logs it and goes on.                            *)
Dealt(id) ==
  LET a == auctions[id]
  IN /\ DexPays(a) = 0
     /\ bal' = IF CanTransfer(bal, a.currency, TreasuryAccount, a.bidder, a.amount)
               THEN Transfer(bal, a.currency, TreasuryAccount, a.bidder, a.amount)
               ELSE bal
     /\ CloseAuction(id)
     /\ UNCHANGED <<issuance, debitPool, pool>>

(* on_auction_ended, taken by the DEX: the bidder is paid back and what the *)
(* DEX pays above the target goes to the refund recipient, both unbacked    *)
DexTakes(id) ==
  LET a      == auctions[id]
      pays   == DexPays(a)
      extra  == IF in_reverse_stage(a, pays) THEN pays - a.target ELSE 0
      issued == a.bid + extra
      b      == SwapLedger(bal, a.currency, a.amount, pays)
  IN /\ pays # 0
     /\ bal' = Deposit(Deposit(b, Stable, a.bidder, a.bid), Stable, a.recipient, extra)
     /\ pool' = SwapPool(a.currency, a.amount, pays)
     /\ issuance' = issuance + issued
     /\ debitPool' = debitPool + issued
     /\ CloseAuction(id)

(* cancel, submitted by the offchain worker after shutdown *)
cancel(id) ==
  LET a     == auctions[id]
      owed  == IF always_forward(a) THEN a.amount
               ELSE Least(MulInt(StablePriceIn(a.currency), a.target), a.amount)
      back  == a.amount - owed
      b     == Transfer(bal, a.currency, TreasuryAccount, a.recipient, back)
  IN /\ isShutdown
     /\ ~(a.bidder # Nobody /\ in_reverse_stage(a, a.bid))
     /\ get_price(a.currency) # NoPrice
     /\ CanTransfer(bal, a.currency, TreasuryAccount, a.recipient, back)
     /\ IF a.bidder # Nobody
        THEN /\ bal' = Deposit(b, Stable, a.bidder, a.bid)
             /\ issuance' = issuance + a.bid
             /\ debitPool' = debitPool + a.bid
        ELSE bal' = b /\ UNCHANGED <<issuance, debitPool>>
     /\ CloseAuction(id)
     /\ UNCHANGED pool
=============================================================================

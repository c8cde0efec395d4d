------------------------------- MODULE Honzon -------------------------------
(***************************************************************************)
(* The Honzon protocol: module_honzon's calls on top of the loans, the CDP *)
(* engine, the CDP treasury, the auction manager, the prices and the       *)
(* emergency shutdown, driven block by block.                              *)
(*                                                                         *)
(* Every call is #[transactional]: it either takes effect as a whole or    *)
(* leaves the state as it was, so each call is one action and an error is  *)
(* a disabled action.  Calls happen in the "txs" phase of a block.  Then   *)
(* on_finalize of every pallet runs ("finalize"): the auctions that end in *)
(* this block one by one, and the treasury's offset; the order of the      *)
(* pallets is left open.  Then the next block begins with on_initialize    *)
(* ("initialize"), which accrues interest collateral by collateral.        *)
(***************************************************************************)
EXTENDS EmergencyShutdown, FiniteSetsExt

CONSTANTS Adjustments,   \* <<collateral, debit>> adjustments users try
          Trades,        \* amounts traders swap
          AuthPairs,     \* <<from, to>> pairs users authorize
          NativeFunds,   \* native currency of each user, in deposits
          GovCalls,      \* governance calls a model explores
          Endowment,     \* collateral and stable currency of each user at genesis
          InitialPool,   \* DEX liquidity of each collateral at genesis
          DexStable,     \* stable currency in all of InitialPool
          GenesisIssuance,             \* stable currency in Endowment and InitialPool
          InitialRate, InitialParams   \* engine parameters at genesis

ASSUME HonzonAssumption ==
  /\ Adjustments \subseteq Int \X Int /\ Trades \subseteq Nat
  /\ AuthPairs \subseteq Users \X Users /\ NativeFunds \in Nat
  /\ Endowment \in [Tokens \X Users -> Nat]
  /\ InitialPool \in [Collaterals -> Pool]
  /\ DexStable \in Nat /\ GenesisIssuance \in Nat
  /\ InitialRate \in Nat \ {0} /\ InitialParams \in RiskManagementParams

VARIABLES authorization,   \* <<from, c, to>> of the Authorization map
          reserved,        \* deposits reserved under RESERVE_ID
          phase, pending   \* position within the block, hooks still to run

authVars == <<authorization, reserved>>
blockVars == <<phase, pending>>
vars == <<priceVars, tokenVars, treasuryVars, pool, loanVars, consumers, auctionVars, now,
          isShutdown, engineVars, canRefund, authVars, blockVars>>

TypeOK ==
  /\ PricesTypeOK /\ TreasuryTypeOK
  /\ LoansTypeOK /\ AuctionTypeOK /\ EngineTypeOK
  /\ canRefund \in BOOLEAN
  /\ authorization \subseteq Users \X Collaterals \X Users
  /\ reserved \in [Users -> Nat]
  /\ phase \in {"txs", "finalize", "initialize"}
  /\ pending \subseteq Collaterals \cup {"offset"}

(* Genesis: users and the DEX hold tokens, nobody owes anything. *)
GenesisBalance(t, a) ==
  IF a \in Users THEN Endowment[<<t, a>>]
  ELSE IF a # DexAccount THEN 0
  ELSE IF t = Stable THEN DexStable
  ELSE InitialPool[t].collateral

Init ==
  /\ bal = [k \in Tokens \X Accounts |-> GenesisBalance(k[1], k[2])]
  /\ issuance = GenesisIssuance
  /\ oracle \in [Collaterals -> FeedPrices]
  /\ locked = [c \in Collaterals |-> NoPrice]
  /\ debitPool = 0
  /\ auctionSize \in [Collaterals -> AuctionSizes]
  /\ pool = InitialPool
  /\ positions = [k \in Collaterals \X Users |-> ZeroPosition]
  /\ totalPositions = [c \in Collaterals |-> ZeroPosition]
  /\ loanShares = [k \in Collaterals \X Users |-> 0]
  /\ consumers = [a \in Accounts |-> 0]
  /\ auctions = [i \in {} |-> ZeroPosition] /\ nextAuction = 0
  /\ totalCollateralInAuction = [c \in Collaterals |-> 0]
  /\ totalTargetInAuction = 0
  /\ now = 1 /\ phase = "txs" /\ pending = {}
  /\ debitExchangeRate = [c \in Collaterals |-> InitialRate]
  /\ collateralParams = [c \in Collaterals |-> InitialParams]
  /\ globalInterestRate = 0
  /\ isShutdown = FALSE /\ canRefund = FALSE
  /\ authorization = {} /\ reserved = [u \in Users |-> 0]

-----------------------------------------------------------------------------
(* Calls of module_honzon. *)

protocolVars == <<tokenVars, treasuryVars, pool, loanVars, consumers, auctionVars, now,
                  isShutdown, engineVars>>
callFrame == <<priceVars, canRefund, authVars, blockVars>>

(* mutant of adjust_loan: debit can be adjusted after shutdown *)
AdjustAnyTime(who, c, dc, dd) ==
  phase = "txs" /\ adjust_position(who, c, dc, dd) /\ UNCHANGED callFrame

adjust_loan(who, c, dc, dd) ==
  /\ phase = "txs"
  /\ dd # 0 => ~isShutdown
  /\ adjust_position(who, c, dc, dd)
  /\ UNCHANGED callFrame

close_loan_has_debit_by_dex(who, c) ==
  /\ phase = "txs"
  /\ ~isShutdown
  /\ close_cdp_has_debit_by_dex(who, c)
  /\ UNCHANGED callFrame

check_authorization(from, to, c) == from = to \/ <<from, c, to>> \in authorization

transfer_loan_from(to, from, c) ==
  /\ phase = "txs"
  /\ ~isShutdown
  /\ check_authorization(from, to, c)
  /\ transfer_loan(from, to, c)
  /\ UNCHANGED callFrame

(* one deposit of native currency is reserved for each authorization *)
authorize(from, to, c) ==
  /\ phase = "txs"
  /\ from # to
  /\ <<from, c, to>> \notin authorization
  /\ reserved[from] < NativeFunds
  /\ authorization' = authorization \cup {<<from, c, to>>}
  /\ reserved' = [reserved EXCEPT ![from] = @ + 1]
  /\ UNCHANGED <<protocolVars, priceVars, canRefund, blockVars>>

(* mutant of unauthorize: the deposit stays reserved *)
UnauthorizeKeepsDeposit(from, to, c) ==
  /\ phase = "txs"
  /\ <<from, c, to>> \in authorization
  /\ authorization' = authorization \ {<<from, c, to>>}
  /\ UNCHANGED <<protocolVars, priceVars, canRefund, blockVars, reserved>>

unauthorize(from, to, c) ==
  /\ phase = "txs"
  /\ <<from, c, to>> \in authorization
  /\ authorization' = authorization \ {<<from, c, to>>}
  /\ reserved' = [reserved EXCEPT ![from] = Monus(@, 1)]
  /\ UNCHANGED <<protocolVars, priceVars, canRefund, blockVars>>

unauthorize_all(from) ==
  /\ phase = "txs"
  /\ authorization' = {x \in authorization : x[1] # from}
  /\ reserved' = [reserved EXCEPT ![from] = 0]
  /\ UNCHANGED <<protocolVars, priceVars, canRefund, blockVars>>

-----------------------------------------------------------------------------
(* Calls of the other pallets. *)

Liquidate(c, who) == phase = "txs" /\ liquidate(c, who) /\ UNCHANGED callFrame

Settle(c, who) == phase = "txs" /\ settle(c, who) /\ UNCHANGED callFrame

Bid(who, id, price) ==
  phase = "txs" /\ bid(who, id, price) /\ UNCHANGED <<engineVars, callFrame>>

Cancel(id) == phase = "txs" /\ cancel(id) /\ UNCHANGED <<engineVars, callFrame>>

Swap(who, c, t, amount) ==
  /\ phase = "txs"
  /\ swap_with_exact_supply(who, c, t, amount)
  /\ UNCHANGED <<loanVars, consumers, auctions, nextAuction, totalTargetInAuction, now,
                 isShutdown, engineVars, callFrame>>

RefundCollaterals(who, amount) ==
  phase = "txs" /\ refund_collaterals(who, amount) /\ UNCHANGED <<authVars, blockVars>>

-----------------------------------------------------------------------------
(* Governance and oracle calls; GovCalls bounds which ones a model explores. *)

Shutdown ==
  phase = "txs" /\ "shutdown" \in GovCalls /\ emergency_shutdown /\ UNCHANGED <<authVars, blockVars>>

OpenRefund ==
  phase = "txs" /\ open_collateral_refund /\ UNCHANGED <<authVars, blockVars>>

AuctionCollateral(c, amount, target, split) ==
  /\ phase = "txs" /\ "auction" \in GovCalls
  /\ auction_collateral(c, amount, target, split)
  /\ UNCHANGED <<engineVars, callFrame>>

ExtractSurplus(amount) ==
  /\ phase = "txs" /\ "extract" \in GovCalls
  /\ extract_surplus_to_treasury(amount)
  /\ UNCHANGED <<loanVars, consumers, auctions, nextAuction, totalTargetInAuction, now,
                 isShutdown, engineVars, callFrame>>

SetAuctionSize(c, size) ==
  /\ phase = "txs" /\ "size" \in GovCalls
  /\ set_expected_collateral_auction_size(c, size)
  /\ UNCHANGED <<loanVars, consumers, auctions, nextAuction, totalTargetInAuction, now,
                 isShutdown, engineVars, callFrame>>

SetParams(c) ==
  /\ phase = "txs" /\ "params" \in GovCalls
  /\ (set_collateral_params(c) \/ set_global_params)
  /\ UNCHANGED <<tokenVars, treasuryVars, pool, loanVars, consumers, auctionVars, now,
                 isShutdown, debitExchangeRate, callFrame>>

UpdatePrice(c) ==
  /\ phase = "txs"
  /\ Feed(c) \/ lock_price(c) \/ unlock_price(c)
  /\ UNCHANGED <<protocolVars, canRefund, authVars, blockVars>>

-----------------------------------------------------------------------------
(* The hooks between two blocks. *)

(* mutant of Due: no auction ends after shutdown *)
DueBeforeShutdown(id) == ~isShutdown /\ auctions[id].bidder # Nobody /\ auctions[id].end = now

Due(id) == auctions[id].bidder # Nobody /\ auctions[id].end = now

EndTxs ==
  /\ phase = "txs"
  /\ now < MaxBlock                                          \* bound
  /\ phase' = "finalize" /\ pending' = {"offset"}
  /\ UNCHANGED <<protocolVars, priceVars, canRefund, authVars>>

AuctionEnd(id) ==
  /\ phase = "finalize"
  /\ Due(id)
  /\ Dealt(id) \/ DexTakes(id)
  /\ UNCHANGED <<engineVars, callFrame>>

OffsetSurplusAndDebit ==
  /\ phase = "finalize" /\ pending # {}
  /\ offset_surplus_and_debit
  /\ pending' = {}
  /\ UNCHANGED <<loanVars, consumers, auctions, nextAuction, totalTargetInAuction, now,
                 isShutdown, engineVars, priceVars, canRefund, authVars, phase>>

NextBlock ==
  /\ phase = "finalize" /\ pending = {}
  /\ \A id \in DOMAIN auctions : ~Due(id)
  /\ now' = now + 1
  /\ phase' = "initialize" /\ pending' = Collaterals
  /\ UNCHANGED <<tokenVars, treasuryVars, pool, loanVars, consumers, auctionVars, isShutdown,
                 engineVars, priceVars, canRefund, authVars>>

AccumulateInterest(c) ==
  /\ phase = "initialize"
  /\ accumulate_interest(c)
  /\ pending' = pending \ {c}
  /\ phase' = IF pending' = {} THEN "txs" ELSE phase
  /\ UNCHANGED <<priceVars, canRefund, authVars>>

-----------------------------------------------------------------------------
Hooks ==
  \/ EndTxs
  \/ \E id \in DOMAIN auctions : AuctionEnd(id)
  \/ OffsetSurplusAndDebit
  \/ NextBlock
  \/ \E c \in pending \cap Collaterals : AccumulateInterest(c)

Next ==
  \/ \E who \in Users, c \in Collaterals, a \in Adjustments : adjust_loan(who, c, a[1], a[2])
  \/ \E who \in Users, c \in Collaterals : close_loan_has_debit_by_dex(who, c)
  \/ \E a \in AuthPairs, c \in Collaterals : transfer_loan_from(a[2], a[1], c)
  \/ \E a \in AuthPairs, c \in Collaterals : authorize(a[1], a[2], c)
  \/ \E a \in AuthPairs, c \in Collaterals : unauthorize(a[1], a[2], c)
  \/ \E a \in AuthPairs : unauthorize_all(a[1])
  \/ \E c \in Collaterals, who \in Users : Liquidate(c, who)
  \/ \E c \in Collaterals, who \in Users : Settle(c, who)
  \/ \E who \in Users, id \in DOMAIN auctions, price \in BidPrices : Bid(who, id, price)
  \/ \E id \in DOMAIN auctions : Cancel(id)
  \/ \E who \in Users, c \in Collaterals, t \in Tokens, n \in Trades :
       t \in {c, Stable} /\ Swap(who, c, t, n)
  \/ \E who \in Users, amount \in RefundAmounts : RefundCollaterals(who, amount)
  \/ Shutdown
  \/ OpenRefund
  \/ \E c \in Collaterals, a \in AuctionAmounts, split \in BOOLEAN :
       AuctionCollateral(c, a[1], a[2], split)
  \/ \E amount \in SurplusAmounts : ExtractSurplus(amount)
  \/ \E c \in Collaterals, size \in AuctionSizes : SetAuctionSize(c, size)
  \/ \E c \in Collaterals : SetParams(c)
  \/ \E c \in Collaterals : UpdatePrice(c)
  \/ Hooks

Spec == Init /\ [][Next]_vars

-----------------------------------------------------------------------------
(* What the code promises. *)

(* The loans account holds exactly the collateral of all positions: every  *)
(* change of a position moves the same amount of tokens (update_loan with  *)
(* the transfers of adjust_position and confiscate_collateral_and_debit).  *)
LoansCustody == \A c \in Collaterals : bal[<<c, LoansAccount>>] = totalPositions[c].collateral

(* Consumer references are balanced across pallets: one for each position, *)
(* one for each auction that refunds to the account and one for each       *)
(* auction it leads.                                                       *)
ConsumersBalanced ==
  \A a \in Accounts :
    consumers[a] = Cardinality({k \in Collaterals \X Users : k[2] = a /\ positions[k] # ZeroPosition})
                   + Cardinality({i \in DOMAIN auctions : auctions[i].recipient = a})
                   + Cardinality({i \in DOMAIN auctions : auctions[i].bidder = a})

(* TotalCollateralInAuction and TotalTargetInAuction are the sums over the *)
(* open auctions: the lots add up and every way out of an auction takes    *)
(* exactly its share off (saturating_sub never saturates).                 *)
AuctionTotals ==
  /\ \A c \in Collaterals :
       totalCollateralInAuction[c] =
         MapThenSumSet(LAMBDA i : auctions[i].amount,
                       {i \in DOMAIN auctions : auctions[i].currency = c})
  /\ totalTargetInAuction = MapThenSumSet(LAMBDA i : auctions[i].target, DOMAIN auctions)

(* The treasury holds the collateral of every open auction until the       *)
(* redemption is opened, so a winner can always be paid.                   *)
AuctionsCovered ==
  ~canRefund => \A c \in Collaterals : totalCollateralInAuction[c] <= bal[<<c, TreasuryAccount>>]

(* what backs the stable currency: debit of positions and of the treasury *)
Backing ==
  debitPool + MapThenSumSet(LAMBDA c : get_debit_value(c, totalPositions[c].debit), Collaterals)

(* Every unit of stable currency beyond genesis is owed by a position or   *)
(* recorded as bad debt of the treasury, through liquidation, auctions     *)
(* the DEX takes, cancelled auctions and the treasury's offset.  Redemption *)
(* only burns.  Stated for a whole debit exchange rate, so no rounding.     *)
StableBacked ==
  IF canRefund THEN issuance <= GenesisIssuance + Backing
               ELSE issuance = GenesisIssuance + Backing

(* What is recorded twice agrees, whatever sequence of adjustments,        *)
(* transfers (to oneself too), confiscations and settlements led there:    *)
(* TotalPositions is the sum of all positions, the share in the loans      *)
(* incentive pool is the debit of the position, although update_loan hands *)
(* the hook the debit from before the update, and the issuance of the      *)
(* stable currency is the sum of its balances.                             *)
RecordsAgree ==
  /\ \A c \in Collaterals :
       /\ totalPositions[c].collateral = MapThenSumSet(LAMBDA u : positions[<<c, u>>].collateral, Users)
       /\ totalPositions[c].debit = MapThenSumSet(LAMBDA u : positions[<<c, u>>].debit, Users)
  /\ \A k \in Collaterals \X Users : loanShares[k] = positions[k].debit
  /\ issuance = MapThenSumSet(LAMBDA a : bal[<<Stable, a>>], Accounts)

(* Once redemption is open no position has debit, although positions can   *)
(* still be adjusted: the claims of redeemers do not grow any more.        *)
RefundMeansSettled ==
  canRefund => isShutdown /\ \A c \in Collaterals : totalPositions[c].debit = 0

(* amount / initial <= target / bid, once the bid is above the target *)
WithinPrice(a) ==
  a.target # 0 => a.amount * Greatest(a.bid, a.target) <= a.initial * a.target

(* In the reverse stage the winner gets no more than the initial amount    *)
(* scaled by target / bid, however many bids and roundings led there.      *)
ReverseStagePrice == \A i \in DOMAIN auctions : WithinPrice(auctions[i])

(* Each authorization holds exactly one reserved deposit. *)
DepositsReserved ==
  \A u \in Users : reserved[u] = Cardinality({x \in authorization : x[1] = u})

(* After shutdown no position's debit grows. *)
NoNewDebit ==
  [][isShutdown => \A k \in Collaterals \X Users : positions'[k].debit <= positions[k].debit]_vars

(* The leader of an auction who stops leading it either has the payment    *)
(* back (outbid, cancelled, taken by the DEX) or has received the          *)
(* collateral.                                                             *)
BidderMadeWhole ==
  [][\A i \in DOMAIN auctions :
       LET a == auctions[i]
           u == a.bidder
       IN (u # Nobody /\ ~canRefund) =>
            \/ i \in DOMAIN auctions' /\ auctions'[i].bidder = u
            \/ bal'[<<Stable, u>>] >= bal[<<Stable, u>>] + payment_amount(a, a.bid)
            \/ i \notin DOMAIN auctions' /\ bal'[<<a.currency, u>>] >= bal[<<a.currency, u>>] + a.amount]_vars

(* Redeeming stable currency leaves those who redeem later no worse off:   *)
(* of every collateral type, the treasury's holding per unit of stable     *)
(* currency outstanding does not fall (refund_collaterals).                *)
RedemptionFair ==
  [][(canRefund /\ issuance' < issuance) =>
       \A c \in Collaterals :
         bal'[<<c, TreasuryAccount>>] * issuance >= bal[<<c, TreasuryAccount>>] * issuance']_vars

(* With a fractional debit exchange rate every conversion rounds: a single *)
(* call moves the issuance and its backing apart by at most one unit.      *)
(* (Interest, which changes the rate, and redemption are not included.)    *)
RoundingBounded ==
  [][(debitExchangeRate' = debitExchangeRate /\ ~canRefund) =>
       LET drift == (issuance' - issuance) - (Backing' - Backing)
       IN -1 <= drift /\ drift <= 1]_vars

-----------------------------------------------------------------------------
(* What comments in the code say and the runs refute. *)

(* "if backed flag is true, means the debit to issue is backed on some     *)
(* assets" (support/src/lib.rs): interest is issued with that flag, so the *)
(* stable currency stays within its backing, up to one unit a conversion.  *)
InterestBacked == issuance <= GenesisIssuance + Backing

(* "transfer collateral to winner from CDP treasury, it shouldn't fail"    *)
(* (collateral_auction_end_handler): an auction that ends in this block    *)
(* finds its collateral in the treasury.                                   *)
WinnerCanBePaid ==
  \A i \in DOMAIN auctions :
    (phase = "finalize" /\ Due(i)) =>
      bal[<<auctions[i].currency, TreasuryAccount>>] >= auctions[i].amount
=============================================================================

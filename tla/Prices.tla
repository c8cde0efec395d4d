------------------------------- MODULE Prices -------------------------------
(***************************************************************************)
(* module_prices for the collateral types that are fed by the oracle: the  *)
(* latest oracle value and the locked price that overrides it.  Prices of  *)
(* one basic unit are fixed-point numbers in units of the stable currency, *)
(* whose price is fixed at One.                                            *)
(***************************************************************************)
EXTENDS Currencies

CONSTANTS FeedPrices,   \* the values the oracle may report
          PriceCalls    \* which of "feed", "lost", "lock", "unlock" a model explores

NoPrice == 0

ASSUME FeedPricesAssumption == FeedPrices \subseteq Nat \ {0}

VARIABLES oracle,   \* T::Source::get(c), NoPrice for None
          locked    \* LockedPrice[c], NoPrice for None

priceVars == <<oracle, locked>>

PricesTypeOK ==
  /\ oracle \in [Collaterals -> FeedPrices \cup {NoPrice}]
  /\ locked \in [Collaterals -> FeedPrices \cup {NoPrice}]

get_price(c) == IF locked[c] # NoPrice THEN locked[c] ELSE oracle[c]

(* get_relative_price(c, stable) is get_price(c); this is the reciprocal *)
StablePriceIn(c) == (One * One) \div get_price(c)

(* The oracle operators report a price, or their reports expire. *)
Feed(c) ==
  /\ \E p \in FeedPrices \cup {NoPrice} :
       /\ (IF p = NoPrice THEN "lost" ELSE "feed") \in PriceCalls
       /\ oracle' = [oracle EXCEPT ![c] = p]
  /\ UNCHANGED locked

(* PriceProvider::lock_price, as a function of LockedPrice *)
LockPrice(l, c) == IF oracle[c] # NoPrice THEN [l EXCEPT ![c] = oracle[c]] ELSE l

lock_price(c) ==
  /\ "lock" \in PriceCalls
  /\ locked' = LockPrice(locked, c)
  /\ UNCHANGED oracle

unlock_price(c) ==
  /\ "unlock" \in PriceCalls
  /\ locked' = [locked EXCEPT ![c] = NoPrice]
  /\ UNCHANGED oracle

(* emergency_shutdown locks the price of every collateral type in turn *)
LockedAll == [c \in Collaterals |-> LockPrice(locked, c)[c]]
=============================================================================

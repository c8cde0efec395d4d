--------------------------------- MODULE Dex ---------------------------------
(***************************************************************************)
(* module_dex: trading pairs, their provisioning before they are enabled,  *)
(* liquidity and its shares (also when deposited with module_incentives),  *)
(* and swaps along a path.  Every call is #[transactional], so it is one   *)
(* action and an error is a disabled action.  The limits a caller gives    *)
(* (minimum share, minimum target, maximum supply) only reject calls and   *)
(* are left out.  A pair is written in the order of TradingPair.           *)
(***************************************************************************)
EXTENDS Currencies, DexMath, FiniteSetsExt, Sequences

CONSTANTS Pairs,              \* trading pairs <<currency 0, currency 1>>
          TradingPathLimit,
          Listings,           \* parameters governance lists a pair with
          Offers,             \* <<amount 0, amount 1>> providers try
          Removals,           \* shares providers remove, deposit and withdraw
          Paths, SwapAmounts, \* what traders try
          Funds,              \* tokens of every user at genesis
          MaxBlock            \* bound on the block number

Listing == [min : Nat \X Nat, target : Nat \X Nat, notBefore : Nat]

ASSUME DexAssumption ==
  /\ Pairs \subseteq Tokens \X Tokens
  /\ \A p \in Pairs : p[1] # p[2] /\ <<p[2], p[1]>> \notin Pairs
  /\ TradingPathLimit \in Nat /\ Listings \subseteq Listing
  /\ Offers \subseteq Nat \X Nat /\ Removals \subseteq Nat
  /\ Paths \subseteq Seq(Tokens) /\ SwapAmounts \subseteq Nat
  /\ Funds \in Nat /\ MaxBlock \in Nat

VARIABLES bal,           \* free balances
          status,        \* TradingPairStatuses: the variant
          listing,       \* min_contribution, target_provision, not_before
          accumulated,   \* accumulated_provision
          provisions,    \* ProvisioningPool, by pair and contributor
          liquidity,     \* LiquidityPool
          lp,            \* balances of the share currency of each pair
          lpIssuance,    \* its total issuance
          dexShares,     \* shares in the reward pools DexIncentive and DexSaving
          consumers,     \* consumer references held by the DEX
          now            \* block number

listingVars == <<status, listing, accumulated, provisions, consumers>>
shareVars == <<lp, lpIssuance, dexShares>>
vars == <<bal, listingVars, liquidity, shareVars, now>>

IncentivesAccount == "incentives"   \* module account of module_incentives
NoListing == [min |-> <<0, 0>>, target |-> <<0, 0>>, notBefore |-> 0]

Init ==
  /\ bal = [k \in Tokens \X Accounts |-> IF k[2] \in Users THEN Funds ELSE 0]
  /\ status = [p \in Pairs |-> "NotEnabled"]
  /\ listing = [p \in Pairs |-> NoListing]
  /\ accumulated = [p \in Pairs |-> <<0, 0>>]
  /\ provisions = [k \in {} |-> <<0, 0>>]
  /\ liquidity = [p \in Pairs |-> <<0, 0>>]
  /\ lp = [k \in Pairs \X (Users \cup {IncentivesAccount}) |-> 0]
  /\ lpIssuance = [p \in Pairs |-> 0]
  /\ dexShares = [k \in Pairs \X Users |-> 0]
  /\ consumers = [u \in Users |-> 0]
  /\ now = 1

-----------------------------------------------------------------------------
(* Helpers. *)

(* a pair of amounts moved between two accounts, both tokens of the pair *)
CanTransferBoth(b, p, from, to, n) ==
  /\ CanTransfer(b, p[1], from, to, n[1])
  /\ CanTransfer(b, p[2], from, to, n[2])

TransferBoth(b, p, from, to, n) ==
  Transfer(Transfer(b, p[1], from, to, n[1]), p[2], from, to, n[2])

Plus(m, n) == <<m[1] + n[1], m[2] + n[2]>>

(* Price::checked_from_rational(n, d).unwrap_or_default() *)
PriceOf(n, d) == IF d = 0 THEN 0 ELSE FromRational(n, d)

(* shares of a contribution n when amounts a found the pool *)
InitialShare(a, n) ==
  IF a[1] > a[2] THEN MulInt(PriceOf(a[1], a[2]), n[2]) + n[1]
                 ELSE MulInt(PriceOf(a[2], a[1]), n[1]) + n[2]

Providers(p) == {u \in Users : <<p, u>> \in DOMAIN provisions}

(* mutant of Dropped: the contributions stay on record *)
DroppedNone(p) == provisions

Dropped(p) == [k \in {j \in DOMAIN provisions : j[1] # p} |-> provisions[k]]

ReleaseProviders(p) ==
  [u \in Users |-> IF u \in Providers(p) THEN consumers[u] - 1 ELSE consumers[u]]

-----------------------------------------------------------------------------
(* Governance: listing, enabling and disabling of pairs. *)

list_trading_pair(p, params) ==
  /\ status[p] = "NotEnabled"
  /\ lpIssuance[p] = 0
  /\ status' = [status EXCEPT ![p] = "Provisioning"]
  /\ listing' = [listing EXCEPT ![p] = params]
  /\ accumulated' = [accumulated EXCEPT ![p] = <<0, 0>>]
  /\ UNCHANGED <<bal, provisions, consumers, liquidity, shareVars, now>>

enable_trading_pair(p) ==
  /\ status[p] = "NotEnabled"
  /\ status' = [status EXCEPT ![p] = "Enabled"]
  /\ UNCHANGED <<bal, listing, accumulated, provisions, consumers, liquidity, shareVars, now>>

DisableEnabled(p) ==
  /\ status[p] = "Enabled"
  /\ status' = [status EXCEPT ![p] = "NotEnabled"]
  /\ UNCHANGED <<bal, listing, accumulated, provisions, consumers, liquidity, shareVars, now>>

(* what account a holds of token t after the provisions of p are refunded *)
Refunded(p, t, a) ==
  LET side == IF p[1] = t THEN 1 ELSE 2
  IN IF t \notin {p[1], p[2]} THEN bal[<<t, a>>]
     ELSE IF a = DexAccount
     THEN bal[<<t, a>>] - MapThenSumSet(LAMBDA u : provisions[<<p, u>>][side], Providers(p))
     ELSE IF a \in Providers(p) THEN bal[<<t, a>>] + provisions[<<p, a>>][side]
     ELSE bal[<<t, a>>]

(* the loop over the contributors of a pair that never gets enabled *)
DisableProvisioning(p) ==
  /\ status[p] = "Provisioning"
  /\ \A a \in Accounts, t \in {p[1], p[2]} : Refunded(p, t, a) >= 0
  /\ bal' = [k \in Tokens \X Accounts |-> Refunded(p, k[1], k[2])]
  /\ provisions' = Dropped(p)
  /\ consumers' = ReleaseProviders(p)
  /\ status' = [status EXCEPT ![p] = "NotEnabled"]
  /\ listing' = [listing EXCEPT ![p] = NoListing]
  /\ accumulated' = [accumulated EXCEPT ![p] = <<0, 0>>]
  /\ UNCHANGED <<liquidity, shareVars, now>>

disable_trading_pair(p) == DisableEnabled(p) \/ DisableProvisioning(p)

-----------------------------------------------------------------------------
(* add_liquidity to a pair that is being provisioned: do_add_provision and *)
(* then convert_to_enabled_if_possible, in one call.                       *)

Convertible(p, acc) ==
  /\ now >= listing[p].notBefore
  /\ acc[1] # 0 /\ acc[2] # 0
  /\ acc[1] >= listing[p].target[1] \/ acc[2] >= listing[p].target[2]

(* the pool takes over the provision; the second side as the code has it *)
Injected(pool, acc) == <<pool[1] + acc[1], Monus(pool[2], acc[2])>>

AddProvision(who, p, n) ==
  LET k    == <<p, who>>
      acc  == Plus(accumulated[p], n)
      prov == IF k \in DOMAIN provisions
              THEN [provisions EXCEPT ![k] = Plus(@, n)]
              ELSE [j \in DOMAIN provisions \cup {k} |-> IF j = k THEN n ELSE provisions[j]]
      refs == IF k \in DOMAIN provisions THEN consumers ELSE [consumers EXCEPT ![who] = @ + 1]
      owners == Providers(p) \cup {who}
      Share(u) == IF u \in owners THEN InitialShare(acc, prov[<<p, u>>]) ELSE 0
  IN /\ status[p] = "Provisioning"
     /\ n[1] >= listing[p].min[1] \/ n[2] >= listing[p].min[2]
     /\ CanTransferBoth(bal, p, who, DexAccount, n)
     /\ bal' = TransferBoth(bal, p, who, DexAccount, n)
     /\ IF Convertible(p, acc)
        THEN /\ lp' = [j \in DOMAIN lp |-> IF j[1] = p THEN lp[j] + Share(j[2]) ELSE lp[j]]
             /\ lpIssuance' = [lpIssuance EXCEPT ![p] = @ + MapThenSumSet(Share, owners)]
             /\ liquidity' = [liquidity EXCEPT ![p] = Injected(@, acc)]
             /\ provisions' = Dropped(p)
             /\ consumers' = [u \in Users |-> IF u \in owners THEN refs[u] - 1 ELSE refs[u]]
             /\ status' = [status EXCEPT ![p] = "Enabled"]
             /\ listing' = [listing EXCEPT ![p] = NoListing]
             /\ accumulated' = [accumulated EXCEPT ![p] = <<0, 0>>]
        ELSE /\ provisions' = prov
             /\ consumers' = refs
             /\ accumulated' = [accumulated EXCEPT ![p] = acc]
             /\ UNCHANGED <<status, listing, liquidity, lp, lpIssuance>>
     /\ UNCHANGED <<dexShares, now>>

-----------------------------------------------------------------------------
(* Liquidity of an enabled pair. *)

(* mutant of Increments: shares for what was offered, not for what is taken *)
IncrementsOffered(p, max) ==
  LET pool     == liquidity[p]
      total    == lpIssuance[p]
      price01  == PriceOf(pool[2], pool[1])
      amount0  == MulInt(PriceOf(pool[1], pool[2]), max[2])
      amount1  == MulInt(price01, max[1])
  IN IF total = 0 THEN <<max[1], max[2], InitialShare(max, max)>>
     ELSE IF PriceOf(max[2], max[1]) <= price01
     THEN <<amount0, max[2], MulInt(PriceOf(max[1], pool[1]), total)>>
     ELSE <<max[1], amount1, MulInt(PriceOf(max[2], pool[2]), total)>>

(* <<increment of pool 0, increment of pool 1, shares>> for at most max *)
Increments(p, max) ==
  LET pool     == liquidity[p]
      total    == lpIssuance[p]
      price01  == PriceOf(pool[2], pool[1])
      amount0  == MulInt(PriceOf(pool[1], pool[2]), max[2])
      amount1  == MulInt(price01, max[1])
  IN IF total = 0 THEN <<max[1], max[2], InitialShare(max, max)>>
     ELSE IF PriceOf(max[2], max[1]) <= price01
     THEN <<amount0, max[2], MulInt(PriceOf(amount0, pool[1]), total)>>
     ELSE <<max[1], amount1, MulInt(PriceOf(amount1, pool[2]), total)>>

do_add_liquidity(who, p, max, deposit) ==
  LET inc   == Increments(p, max)
      n     == <<inc[1], inc[2]>>
      given == Deposit(lp, p, who, inc[3])
  IN /\ status[p] = "Enabled"
     /\ inc[1] # 0 /\ inc[2] # 0 /\ inc[3] # 0
     /\ CanTransferBoth(bal, p, who, DexAccount, n)
     /\ bal' = TransferBoth(bal, p, who, DexAccount, n)
     /\ lpIssuance' = [lpIssuance EXCEPT ![p] = @ + inc[3]]
     /\ liquidity' = [liquidity EXCEPT ![p] = Plus(@, n)]
     /\ IF deposit
        THEN /\ lp' = Transfer(given, p, who, IncentivesAccount, inc[3])
             /\ dexShares' = [dexShares EXCEPT ![<<p, who>>] = @ + inc[3]]
        ELSE lp' = given /\ UNCHANGED dexShares
     /\ UNCHANGED <<listingVars, now>>

(* mutant of Decrements: the proportion of one share more *)
DecrementsLess(p, share) ==
  LET proportion == PriceOf(share, lpIssuance[p] + 1)
  IN <<MulInt(proportion, liquidity[p][1]), MulInt(proportion, liquidity[p][2])>>

Decrements(p, share) ==
  LET proportion == PriceOf(share, lpIssuance[p])
  IN <<MulInt(proportion, liquidity[p][1]), MulInt(proportion, liquidity[p][2])>>

(* Removal asks for no status: providers of a disabled pair can leave. *)
do_remove_liquidity(who, p, share, byWithdraw) ==
  LET n    == Decrements(p, share)
      held == IF byWithdraw THEN Transfer(lp, p, IncentivesAccount, who, share) ELSE lp
  IN /\ share # 0
     /\ byWithdraw => /\ dexShares[<<p, who>>] >= share
                      /\ CanTransfer(lp, p, IncentivesAccount, who, share)
     /\ CanWithdraw(held, p, who, share)
     /\ CanTransferBoth(bal, p, DexAccount, who, n)
     /\ lp' = Withdraw(held, p, who, share)
     /\ lpIssuance' = [lpIssuance EXCEPT ![p] = @ - share]
     /\ bal' = TransferBoth(bal, p, DexAccount, who, n)
     /\ liquidity' = [liquidity EXCEPT ![p] = <<Monus(@[1], n[1]), Monus(@[2], n[2])>>]
     /\ dexShares' = IF byWithdraw THEN [dexShares EXCEPT ![<<p, who>>] = @ - share] ELSE dexShares
     /\ UNCHANGED <<listingVars, now>>

(* calls of module_incentives: do_deposit_dex_share, do_withdraw_dex_share *)
deposit_dex_share(who, p, n) ==
  /\ CanTransfer(lp, p, who, IncentivesAccount, n)
  /\ lp' = Transfer(lp, p, who, IncentivesAccount, n)
  /\ dexShares' = [dexShares EXCEPT ![<<p, who>>] = @ + n]
  /\ UNCHANGED <<bal, listingVars, liquidity, lpIssuance, now>>

(* mutant of withdraw_dex_share: the reward pools keep the share *)
WithdrawKeepsShare(who, p, n) ==
  /\ dexShares[<<p, who>>] >= n
  /\ CanTransfer(lp, p, IncentivesAccount, who, n)
  /\ lp' = Transfer(lp, p, IncentivesAccount, who, n)
  /\ UNCHANGED <<bal, listingVars, liquidity, lpIssuance, dexShares, now>>

withdraw_dex_share(who, p, n) ==
  /\ dexShares[<<p, who>>] >= n
  /\ CanTransfer(lp, p, IncentivesAccount, who, n)
  /\ lp' = Transfer(lp, p, IncentivesAccount, who, n)
  /\ dexShares' = [dexShares EXCEPT ![<<p, who>>] = @ - n]
  /\ UNCHANGED <<bal, listingVars, liquidity, lpIssuance, now>>

-----------------------------------------------------------------------------
(* Swaps along a path.  All amounts are computed from the pools as they    *)
(* are before the first hop, also when the path meets a pair twice.        *)

PairOf(s, t) == IF <<s, t>> \in Pairs THEN <<s, t>> ELSE <<t, s>>

IsEnabled(s, t) == PairOf(s, t) \in Pairs /\ status[PairOf(s, t)] = "Enabled"

(* get_liquidity: supply side first *)
get_liquidity(s, t) ==
  LET p == PairOf(s, t)
  IN IF p[1] = s THEN liquidity[p] ELSE <<liquidity[p][2], liquidity[p][1]>>

(* amounts at each currency of the path; 0 from the hop on that fails *)
get_target_amounts(path, supply) ==
  LET amount[i \in 1 .. Len(path)] ==
        IF i = 1 THEN supply
        ELSE IF ~IsEnabled(path[i - 1], path[i]) THEN 0
        ELSE LET pool == get_liquidity(path[i - 1], path[i])
             IN TargetOf(pool[1], pool[2], amount[i - 1], 0)
  IN amount

get_supply_amounts(path, target) ==
  LET amount[i \in 1 .. Len(path)] ==
        IF i = Len(path) THEN target
        ELSE IF ~IsEnabled(path[i], path[i + 1]) THEN 0
        ELSE LET pool == get_liquidity(path[i], path[i + 1])
             IN SupplyOf(pool[1], pool[2], amount[i + 1], 0)
  IN amount

(* mutant of _swap: the target side is not lowered *)
SwapKeepsTarget(pools, s, t, supply, target) ==
  LET p == PairOf(s, t)
  IN [pools EXCEPT ![p] = IF p[1] = s THEN <<@[1] + supply, @[2]>>
                                      ELSE <<@[1], @[2] + supply>>]

(* one hop on the pools *)
_swap(pools, s, t, supply, target) ==
  LET p == PairOf(s, t)
  IN [pools EXCEPT ![p] = IF p[1] = s THEN <<@[1] + supply, Monus(@[2], target)>>
                                      ELSE <<Monus(@[1], target), @[2] + supply>>]

_swap_by_path(path, amounts) ==
  LET after[i \in 1 .. Len(path)] ==
        IF i = 1 THEN liquidity
        ELSE _swap(after[i - 1], path[i - 1], path[i], amounts[i - 1], amounts[i])
  IN after[Len(path)]

(* both kinds of swap, once the amounts are known *)
SwapAmountsOver(who, path, amounts) ==
  LET first == path[1]
      last  == path[Len(path)]
      paid  == Transfer(bal, first, who, DexAccount, amounts[1])
  IN /\ Len(path) >= 2 /\ Len(path) <= TradingPathLimit
     /\ \A i \in 1 .. Len(path) : amounts[i] # 0
     /\ CanTransfer(bal, first, who, DexAccount, amounts[1])
     /\ CanTransfer(paid, last, DexAccount, who, amounts[Len(path)])
     /\ bal' = Transfer(paid, last, DexAccount, who, amounts[Len(path)])
     /\ liquidity' = _swap_by_path(path, amounts)
     /\ UNCHANGED <<listingVars, shareVars, now>>

swap_with_exact_supply(who, path, supply) ==
  SwapAmountsOver(who, path, get_target_amounts(path, supply))

swap_with_exact_target(who, path, target) ==
  SwapAmountsOver(who, path, get_supply_amounts(path, target))

NextBlock == now < MaxBlock /\ now' = now + 1 /\ UNCHANGED <<bal, listingVars, liquidity, shareVars>>

-----------------------------------------------------------------------------
Next ==
  \/ \E p \in Pairs, params \in Listings : list_trading_pair(p, params)
  \/ \E p \in Pairs : enable_trading_pair(p)
  \/ \E p \in Pairs : disable_trading_pair(p)
  \/ \E u \in Users, p \in Pairs, n \in Offers : AddProvision(u, p, n)
  \/ \E u \in Users, p \in Pairs, n \in Offers, d \in BOOLEAN : do_add_liquidity(u, p, n, d)
  \/ \E u \in Users, p \in Pairs, n \in Removals, w \in BOOLEAN : do_remove_liquidity(u, p, n, w)
  \/ \E u \in Users, p \in Pairs, n \in Removals : deposit_dex_share(u, p, n)
  \/ \E u \in Users, p \in Pairs, n \in Removals : withdraw_dex_share(u, p, n)
  \/ \E u \in Users, path \in Paths, n \in SwapAmounts : swap_with_exact_supply(u, path, n)
  \/ \E u \in Users, path \in Paths, n \in SwapAmounts : swap_with_exact_target(u, path, n)
  \/ NextBlock

Spec == Init /\ [][Next]_vars

-----------------------------------------------------------------------------
(* What the code promises. *)

(* tokens t the DEX owes to pools and to contributors *)
Owed(t) ==
  LET Part(p, pair) == IF p[1] = t THEN pair[1] ELSE IF p[2] = t THEN pair[2] ELSE 0
  IN MapThenSumSet(LAMBDA p : Part(p, liquidity[p]), Pairs)
     + MapThenSumSet(LAMBDA k : Part(k[1], provisions[k]), DOMAIN provisions)

(* The DEX account holds the tokens of every pool and of every provision,  *)
(* through swaps along paths, refunds and conversions: transfers out of it *)
(* never fail for lack of tokens.                                          *)
DexSolvent == \A t \in Tokens : bal[<<t, DexAccount>>] >= Owed(t)

(* The accumulated provision is the sum of the contributions on record,    *)
(* only pairs being provisioned have contributions, and each holds one     *)
(* consumer reference on its contributor.                                  *)
ProvisionsRecorded ==
  /\ \A p \in Pairs, i \in {1, 2} :
       accumulated[p][i] = MapThenSumSet(LAMBDA u : provisions[<<p, u>>][i], Providers(p))
  /\ \A k \in DOMAIN provisions : status[k[1]] = "Provisioning"
  /\ \A u \in Users : consumers[u] = Cardinality({k \in DOMAIN provisions : k[2] = u})

(* The issuance of a share currency is the sum of its balances, and the    *)
(* incentives account holds what the reward pools record as deposited, so  *)
(* every depositor can withdraw.                                           *)
SharesAccounted ==
  \A p \in Pairs :
    /\ lpIssuance[p] = MapThenSumSet(LAMBDA a : lp[<<p, a>>], Users \cup {IncentivesAccount})
    /\ lp[<<p, IncentivesAccount>>] = MapThenSumSet(LAMBDA u : dexShares[<<p, u>>], Users)

(* A pool without shares is empty: the last provider to leave takes all of *)
(* it, whatever was rounded before, so nothing is left that nobody owns.   *)
NoOrphanLiquidity == \A p \in Pairs : lpIssuance[p] = 0 => liquidity[p] = <<0, 0>>

Pool(p) == INSTANCE LiquidityPool
             WITH x <- liquidity[p][1], y <- liquidity[p][2], shares <- lpIssuance[p]

(* Every pool implements LiquidityPool (\A p \in Pairs : Pool(p)!Spec, with *)
(* the steps of all pools in one action): adding and removing liquidity and  *)
(* conversion never dilute the other providers, and a swap, also one that  *)
(* meets the pair twice with amounts computed beforehand, never lowers the *)
(* product of its sides.                                                   *)
PoolsImplement ==
  /\ \A p \in Pairs : Pool(p)!Init
  /\ [][\A p \in Pairs : [Pool(p)!Next]_(Pool(p)!poolVars)]_vars

(* "inject provision to liquidity pool" (convert_to_enabled_if_possible):  *)
(* a pair that has shares has liquidity on both sides.                     *)
ProvisionInjected ==
  \A p \in Pairs : lpIssuance[p] > 0 => liquidity[p][1] > 0 /\ liquidity[p][2] > 0
=============================================================================

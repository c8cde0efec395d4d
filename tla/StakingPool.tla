---------------------------- MODULE StakingPool ----------------------------
(***************************************************************************)
(* module_staking_pool, the core of the Homa protocol, on top of the       *)
(* bridge: users mint liquid currency (LDOT) for staking currency (DOT)    *)
(* and redeem it in three ways; at every era the pool brings its ledger up *)
(* to date with the relay chain in three steps, one per block.             *)
(*                                                                         *)
(* A block runs on_initialize (Rebalance), then calls, then on_finalize,   *)
(* where the bridge may begin an era (by its length or by force_era).  The *)
(* calls are #[transactional]; the hooks are not, so they keep what they   *)
(* did before a step that fails.  The fee of an immediate redemption comes *)
(* from the runtime's FeeModel and can be anything here.                   *)
(***************************************************************************)
EXTENDS PolkadotBridge

CONSTANTS Users, DefaultExchangeRate,
          ParamChoices,                        \* StakingPoolParams governance sets
          Mints, Redemptions, Fees, Slashes,   \* amounts tried
          Funds,                               \* staking currency of a user at genesis
          MaxSlashed                           \* bound on what slashes take

PoolAccount == "staking_pool"   \* module account
PoolParams == [maxFree : Nat, minFree : Nat, unbondToFree : Nat, adjustment : Nat]

ASSUME PoolAssumption ==
  /\ PoolAccount \notin Users /\ DefaultExchangeRate \in Nat \ {0}
  /\ ParamChoices \subseteq PoolParams /\ ParamChoices # {}
  /\ Mints \subseteq Nat /\ Redemptions \subseteq Nat /\ Fees \subseteq Nat
  /\ Slashes \subseteq Nat /\ Funds \in Nat /\ MaxSlashed \in Nat

VARIABLES staking,          \* balances of the staking currency
          liquid,           \* balances of the liquid currency
          ledger,           \* StakingPoolLedger; toUnbond and claimed are to_unbond_next_era
          nextEraUnbonds,   \* NextEraUnbonds
          unbonding,        \* Unbonding: total, claimed, initial claimed of an era
          unbondings,       \* Unbondings, by user and era
          phase,            \* RebalancePhase
          params,           \* StakingPoolParams
          hook,             \* "calls", or "initialize" between two blocks
          slashed           \* history: what slashes took on the relay chain

tokenVars == <<staking, liquid>>
claimVars == <<nextEraUnbonds, unbonding, unbondings>>
vars == <<tokenVars, ledger, claimVars, phase, params, hook, slashed, subs, era>>

Ledger == [bonded : Nat, unbondingToFree : Nat, freePool : Nat, toUnbond : Nat, claimed : Nat]
NoUnbond == [total |-> 0, claimed |-> 0, initial |-> 0]

TypeOK ==
  /\ staking \in [Users \cup {PoolAccount} -> Nat] /\ liquid \in [Users -> Nat]
  /\ ledger \in Ledger
  /\ nextEraUnbonds \in [Users -> Nat]
  /\ unbonding \in [Eras -> [total : Nat, claimed : Nat, initial : Nat]]
  /\ unbondings \in [Users \X Eras -> Nat]
  /\ phase \in {"Started", "RelaychainUpdated", "LedgerUpdated", "Finished"}
  /\ params \in PoolParams /\ hook \in {"calls", "initialize"} /\ slashed \in Nat
  /\ subs \in [SubAccounts -> SubAccount] /\ era \in 0 .. MaxEra

Init ==
  /\ staking = [a \in Users \cup {PoolAccount} |-> IF a = PoolAccount THEN 0 ELSE Funds]
  /\ liquid = [u \in Users |-> 0]
  /\ ledger = [bonded |-> 0, unbondingToFree |-> 0, freePool |-> 0, toUnbond |-> 0, claimed |-> 0]
  /\ nextEraUnbonds = [u \in Users |-> 0]
  /\ unbonding = [e \in Eras |-> NoUnbond]
  /\ unbondings = [k \in Users \X Eras |-> 0]
  /\ phase = "Finished" /\ hook = "calls" /\ params \in ParamChoices /\ slashed = 0
  /\ subs = [i \in SubAccounts |-> [bonded |-> 0, available |-> 0, unbonding |-> NoUnbonding]]
  /\ era = 0

-----------------------------------------------------------------------------
(* The ledger and the exchange rate. *)

PriceOf(n, d) == IF d = 0 THEN 0 ELSE FromRational(n, d)
Reciprocal(r) == FromRational(One, r)

total_belong_to_liquid_holders(l) == Monus(l.bonded + l.unbondingToFree + l.freePool, l.claimed)
bonded_belong_to_liquid_holders(l) == Monus(l.bonded, l.claimed)
free_pool_ratio(l) == PriceOf(l.freePool, total_belong_to_liquid_holders(l))
unbonding_to_free_ratio(l) == PriceOf(l.unbondingToFree, total_belong_to_liquid_holders(l))

(* mutant: claims for the next era still count for the holders *)
RateWithClaims ==
  LET rate == PriceOf(ledger.bonded + ledger.unbondingToFree + ledger.freePool, SumOf(liquid))
  IN IF rate = 0 THEN DefaultExchangeRate ELSE rate

liquid_exchange_rate ==
  LET rate == PriceOf(total_belong_to_liquid_holders(ledger), SumOf(liquid))
  IN IF rate = 0 THEN DefaultExchangeRate ELSE rate

-----------------------------------------------------------------------------
(* Calls, through module_homa.  Between the steps of a rebalance only      *)
(* withdraw_redemption is possible.                                        *)

CallAllowed == hook = "calls" /\ phase = "Finished"
callFrame == <<phase, params, hook, slashed, subs, era>>

(* mutant: the transfer is not checked *)
MintUnpaid(who, n) ==
  /\ CallAllowed /\ n # 0
  /\ staking' = [staking EXCEPT ![who] = @ - n, ![PoolAccount] = @ + n]
  /\ liquid' = [liquid EXCEPT ![who] = @ + MulInt(Reciprocal(liquid_exchange_rate), n)]
  /\ ledger' = [ledger EXCEPT !.freePool = @ + n]
  /\ UNCHANGED <<claimVars, callFrame>>

mint(who, n) ==
  /\ CallAllowed
  /\ n # 0 /\ staking[who] >= n
  /\ staking' = [staking EXCEPT ![who] = @ - n, ![PoolAccount] = @ + n]
  /\ liquid' = [liquid EXCEPT ![who] = @ + MulInt(Reciprocal(liquid_exchange_rate), n)]
  /\ ledger' = [ledger EXCEPT !.freePool = @ + n]
  /\ UNCHANGED <<claimVars, callFrame>>

(* wait for unbonding; limited to what is bonded for all holders *)
redeem_by_unbond(who, n) ==
  LET rate     == liquid_exchange_rate
      demand   == MulInt(rate, n)
      communal == bonded_belong_to_liquid_holders(ledger)
      amount   == Least(demand, communal)
      burn     == IF demand > communal THEN MulInt(Reciprocal(rate), communal) ELSE n
  IN /\ CallAllowed
     /\ n # 0 /\ demand # 0 /\ communal # 0
     /\ liquid[who] >= burn
     /\ liquid' = [liquid EXCEPT ![who] = @ - burn]
     /\ nextEraUnbonds' = [nextEraUnbonds EXCEPT ![who] = @ + amount]
     /\ ledger' = [ledger EXCEPT !.toUnbond = @ + amount, !.claimed = @ + amount]
     /\ UNCHANGED <<staking, unbonding, unbondings, callFrame>>

(* what is burnt for n when only `available` can be had of the demand *)
BurnFor(n, demand, available) ==
  IF demand > available THEN MulInt(FromRational(available, demand), n) ELSE n

(* at once, from the free pool *)
redeem_by_free_unbonded(who, n, fee) ==
  LET demand    == MulInt(liquid_exchange_rate, n)
      reserve   == MulInt(params.minFree, total_belong_to_liquid_holders(ledger))
      available == Monus(ledger.freePool, reserve)
      burn      == BurnFor(n, demand, available)
      retrieve  == Monus(Least(demand, available), fee)
  IN /\ CallAllowed
     /\ n # 0 /\ demand # 0 /\ available # 0
     /\ liquid[who] >= burn /\ staking[PoolAccount] >= retrieve
     /\ liquid' = [liquid EXCEPT ![who] = @ - burn]
     /\ staking' = [staking EXCEPT ![PoolAccount] = @ - retrieve, ![who] = @ + retrieve]
     /\ ledger' = [ledger EXCEPT !.freePool = Monus(@, retrieve)]
     /\ UNCHANGED <<claimVars, callFrame>>

(* claims part of what is unbonding until the target era *)
redeem_by_claim_unbonding(who, n, target, fee) ==
  LET demand    == MulInt(liquid_exchange_rate, n)
      u         == unbonding[target]
      reserve   == MulInt(params.minFree, Monus(u.total, u.initial))
      available == Monus(Monus(u.total, u.claimed), reserve)
      burn      == BurnFor(n, demand, available)
      claim     == Monus(Least(demand, available), fee)
  IN /\ CallAllowed
     /\ n # 0 /\ target > era /\ target <= era + BondingDuration
     /\ demand # 0 /\ available # 0
     /\ liquid[who] >= burn
     /\ liquid' = [liquid EXCEPT ![who] = @ - burn]
     /\ unbondings' = [unbondings EXCEPT ![<<who, target>>] = @ + claim]
     /\ unbonding' = [unbonding EXCEPT ![target].claimed = @ + claim]
     /\ ledger' = [ledger EXCEPT !.unbondingToFree = Monus(@, claim)]
     /\ UNCHANGED <<staking, nextEraUnbonds, callFrame>>

(* unbondings of a user that have expired *)
get_available_unbonded(who) ==
  MapThenSumSet(LAMBDA e : unbondings[<<who, e>>], {e \in Eras : e <= era})

withdraw_redemption(who) ==
  LET n == get_available_unbonded(who)
  IN /\ hook = "calls"
     /\ staking[PoolAccount] >= n
     /\ staking' = [staking EXCEPT ![PoolAccount] = @ - n, ![who] = @ + n]
     /\ unbondings' = [k \in Users \X Eras |->
                         IF k[1] = who /\ k[2] <= era THEN 0 ELSE unbondings[k]]
     /\ UNCHANGED <<liquid, ledger, nextEraUnbonds, unbonding, callFrame>>

set_staking_pool_params(p) ==
  /\ hook = "calls" /\ p.minFree <= p.maxFree
  /\ params' = p
  /\ UNCHANGED <<tokenVars, ledger, claimVars, phase, hook, slashed, subs, era>>

(* simulate_slash_sub_account of the bridge *)
Slash(i, n) ==
  /\ hook = "calls" /\ subs[i].bonded # 0 /\ slashed + n <= MaxSlashed
  /\ subs' = SlashSubAccount(subs, i, n)
  /\ slashed' = slashed + Least(n, subs[i].bonded)
  /\ UNCHANGED <<tokenVars, ledger, claimVars, phase, params, hook, era>>

-----------------------------------------------------------------------------
(* Blocks: on_finalize of the bridge, then rebalance in on_initialize. *)

EndBlock ==
  /\ hook = "calls" /\ hook' = "initialize"
  /\ UNCHANGED <<tokenVars, ledger, claimVars, phase, params, slashed, subs, era>>

(* the bridge's on_finalize begins an era and calls on_new_era *)
NewEra ==
  /\ hook = "calls" /\ hook' = "initialize"
  /\ era < MaxEra /\ era' = era + 1
  /\ phase' = "Started"
  /\ UNCHANGED <<tokenVars, ledger, claimVars, params, slashed, subs>>

InitializeBlock == hook = "initialize" /\ hook' = "calls"

(* nothing to rebalance *)
RebalanceFinished ==
  /\ InitializeBlock /\ phase = "Finished"
  /\ UNCHANGED <<tokenVars, ledger, claimVars, phase, params, slashed, subs, era>>

RebalanceStarted ==
  /\ InitializeBlock /\ phase = "Started"
  /\ subs' = payout_stakers(withdraw_unbonded(subs))
  /\ phase' = "RelaychainUpdated"
  /\ UNCHANGED <<tokenVars, ledger, claimVars, params, slashed, era>>

Expired == {e \in Eras : e <= era}

(* mutant: the claimed part goes to the free pool too *)
ClaimsToFreePool ==
  LET free    == SumOf(Available(subs))
      total   == MapThenSumSet(LAMBDA e : unbonding[e].total, Expired)
      claimed == MapThenSumSet(LAMBDA e : unbonding[e].claimed, Expired)
  IN /\ InitializeBlock /\ phase = "RelaychainUpdated"
     /\ subs' = receive_from_bridge(subs, FromHighest(subs, Available(subs), free))
     /\ staking' = [staking EXCEPT ![PoolAccount] = @ + free]
     /\ unbonding' = [e \in Eras |-> IF e \in Expired THEN NoUnbond ELSE unbonding[e]]
     /\ ledger' = [ledger EXCEPT !.bonded = SumOf(Active(subs)),
                                 !.unbondingToFree = Monus(@, Monus(total, claimed)),
                                 !.freePool = @ + free]
     /\ phase' = "LedgerUpdated"
     /\ UNCHANGED <<liquid, nextEraUnbonds, unbondings, params, slashed, era>>

(* What is free on the relay chain comes to the pool's account; of it the  *)
(* claimed part of the expired unbondings is the claimants' and the rest   *)
(* is free pool.                                                           *)
RebalanceRelaychainUpdated ==
  LET free    == SumOf(Available(subs))
      total   == MapThenSumSet(LAMBDA e : unbonding[e].total, Expired)
      claimed == MapThenSumSet(LAMBDA e : unbonding[e].claimed, Expired)
  IN /\ InitializeBlock /\ phase = "RelaychainUpdated"
     /\ subs' = receive_from_bridge(subs, FromHighest(subs, Available(subs), free))
     /\ staking' = [staking EXCEPT ![PoolAccount] = @ + free]
     /\ unbonding' = [e \in Eras |-> IF e \in Expired THEN NoUnbond ELSE unbonding[e]]
     /\ ledger' = [ledger EXCEPT !.bonded = SumOf(Active(subs)),
                                 !.unbondingToFree = Monus(@, Monus(total, claimed)),
                                 !.freePool = @ + Monus(free, claimed)]
     /\ phase' = "LedgerUpdated"
     /\ UNCHANGED <<liquid, nextEraUnbonds, unbondings, params, slashed, era>>

(* amounts to bond and to unbond for the free pool; both from the ledger   *)
(* as it is when the step begins                                           *)
AmountToBond ==
  Least(MulInt(Monus(free_pool_ratio(ledger), params.maxFree),
               total_belong_to_liquid_holders(ledger)),
        ledger.freePool)

AmountToUnbondToFree ==
  Least(MulInt(Least(Monus(params.unbondToFree, unbonding_to_free_ratio(ledger)),
                     params.adjustment),
               total_belong_to_liquid_holders(ledger)),
        bonded_belong_to_liquid_holders(ledger))

(* accounts and ledger after the bond part: the transfer fails when the    *)
(* pool's account is short, the bonding is tried nevertheless              *)
CanTransferToBridge == staking[PoolAccount] >= AmountToBond

Bonded ==
  LET n   == AmountToBond
      s   == IF CanTransferToBridge THEN transfer_to_bridge(subs, ToLowest(subs, n)) ELSE subs
      low == IF CanTransferToBridge THEN n ELSE 0
  IN [subs   |-> bond_extra(s, FromLowest(s, Available(s), n)),
      ledger |-> [ledger EXCEPT !.freePool = Monus(@, low), !.bonded = @ + n],
      paid   |-> low]

(* mutant: the claims of the next era are not drained *)
UnbondsUndrained(l, total) ==
  /\ unbonding' = [unbonding EXCEPT ![era + BondingDuration] =
                     [total |-> total, claimed |-> l.claimed, initial |-> l.claimed]]
  /\ unbondings' = [k \in Users \X Eras |->
                      IF k[2] = era + BondingDuration /\ nextEraUnbonds[k[1]] # 0
                      THEN nextEraUnbonds[k[1]] ELSE unbondings[k]]
  /\ nextEraUnbonds' = nextEraUnbonds
  /\ ledger' = [l EXCEPT !.bonded = Monus(@, total),
                         !.unbondingToFree = @ + Monus(total, l.claimed),
                         !.toUnbond = 0, !.claimed = 0]

(* the unbond part, when the bridge accepts it *)
Unbonds(l, total) ==
  /\ unbonding' = [unbonding EXCEPT ![era + BondingDuration] =
                     [total |-> total, claimed |-> l.claimed, initial |-> l.claimed]]
  /\ unbondings' = [k \in Users \X Eras |->
                      IF k[2] = era + BondingDuration /\ nextEraUnbonds[k[1]] # 0
                      THEN nextEraUnbonds[k[1]] ELSE unbondings[k]]
  /\ nextEraUnbonds' = [u \in Users |-> 0]
  /\ ledger' = [l EXCEPT !.bonded = Monus(@, total),
                         !.unbondingToFree = @ + Monus(total, l.claimed),
                         !.toUnbond = 0, !.claimed = 0]

RebalanceLedgerUpdated ==
  LET b     == Bonded
      total == ledger.toUnbond + AmountToUnbondToFree
      dist  == FromHighest(b.subs, Active(b.subs), total)
  IN /\ InitializeBlock /\ phase = "LedgerUpdated"
     /\ staking' = [staking EXCEPT ![PoolAccount] = @ - b.paid]
     /\ subs' = unbond(b.subs, dist)
     /\ IF total # 0 /\ CanUnbond(b.subs, dist)
        THEN Unbonds(b.ledger, total)
        ELSE ledger' = b.ledger /\ UNCHANGED claimVars
     /\ phase' = "Finished"
     /\ UNCHANGED <<liquid, params, slashed, era>>

-----------------------------------------------------------------------------
Call(who) ==
  \/ \E n \in Mints : mint(who, n)
  \/ \E n \in Redemptions : redeem_by_unbond(who, n)
  \/ \E n \in Redemptions, fee \in Fees : redeem_by_free_unbonded(who, n, fee)
  \/ \E n \in Redemptions, e \in Eras, fee \in Fees : redeem_by_claim_unbonding(who, n, e, fee)
  \/ withdraw_redemption(who)

Next ==
  \/ \E who \in Users : Call(who)
  \/ \E p \in ParamChoices : set_staking_pool_params(p)
  \/ \E i \in SubAccounts, n \in Slashes : Slash(i, n)
  \/ EndBlock \/ NewEra
  \/ RebalanceFinished \/ RebalanceStarted
  \/ RebalanceRelaychainUpdated \/ RebalanceLedgerUpdated

Spec == Init /\ [][Next]_vars

-----------------------------------------------------------------------------
(* The ledger's totals are the sums of what is recorded for the users:     *)
(* claims for the next era, claims on every unbonding that has not expired *)
(* and the unclaimed rest, which is to become free.                        *)
UserClaims(e) == MapThenSumSet(LAMBDA u : unbondings[<<u, e>>], Users)

ClaimsRecorded ==
  /\ ledger.claimed = SumOf(nextEraUnbonds)
  /\ \A e \in Eras \ Expired : unbonding[e].claimed = UserClaims(e)
  /\ ledger.unbondingToFree = MapThenSumSet(LAMBDA e : Monus(unbonding[e].total, unbonding[e].claimed), Eras)

(* Without slashes, the pool's account and its accounts on the relay chain *)
(* cover what the ledger says belongs to the holders of liquid currency    *)
(* and everything users have claimed, in every phase of a rebalance.       *)
Assets ==
  staking[PoolAccount]
  + MapThenSumSet(LAMBDA i : subs[i].bonded + subs[i].available + SumOf(subs[i].unbonding), SubAccounts)

PoolSolvent ==
  slashed = 0 =>
    Assets >= total_belong_to_liquid_holders(ledger) + SumOf(nextEraUnbonds)
              + MapThenSumSet(LAMBDA k : unbondings[k], Users \X Eras)

(* Without slashes, once an era's rebalance has brought the unbonded       *)
(* currency home, the pool's account holds the free pool and every expired *)
(* claim, so that withdraw_redemption and redeem_by_free_unbonded succeed. *)
PoolLiquid ==
  slashed = 0 /\ phase \in {"LedgerUpdated", "Finished"} =>
    staking[PoolAccount] >=
      ledger.freePool + MapThenSumSet(LAMBDA k : unbondings[k], Users \X Expired)

(* No call and no rebalance step dilutes the holders of liquid currency by *)
(* more than one liquid unit, which rounding may leave unburnt: the        *)
(* staking currency per unit, not counting that one, does not fall.  This  *)
(* is so without slashes, and but for the step in which the ledger learns  *)
(* that less is bonded than it counted, because the relay chain refused to *)
(* unbond after some accounts had unbonded already.                        *)
RateKept ==
  [][slashed' = 0 /\ ledger.bonded <= SumOf(Active(subs)) /\ SumOf(liquid) # 0 =>
       total_belong_to_liquid_holders(ledger') * SumOf(liquid)
         >= total_belong_to_liquid_holders(ledger) * (SumOf(liquid') - 1)]_vars
=============================================================================

--------------------------- MODULE PolkadotBridge ---------------------------
(***************************************************************************)
(* module_polkadot_bridge: the parachain's accounts on the relay chain     *)
(* that the staking pool bonds, unbonds and receives from.  The operations *)
(* are functions on the accounts s, because the pool calls several of them *)
(* within one hook.  A division of an amount over the accounts is a        *)
(* function dist from account to amount.                                   *)
(***************************************************************************)
EXTENDS FixedU128, FiniteSetsExt

CONSTANTS SubAccounts,       \* PoolAccountIndexes
          BondingDuration,   \* in eras
          MaxUnbonding,      \* unbonding entries an account can have
          RewardRate,        \* mock_reward_rate
          MaxEra             \* bound on the era

ASSUME BridgeAssumption ==
  /\ SubAccounts \subseteq Nat /\ IsFiniteSet(SubAccounts) /\ SubAccounts # {}
  /\ BondingDuration \in Nat /\ MaxUnbonding \in Nat /\ RewardRate \in Nat /\ MaxEra \in Nat

VARIABLES subs,   \* SubAccounts
          era     \* CurrentEra

Eras == 0 .. MaxEra + BondingDuration
NoUnbonding == [e \in Eras |-> 0]
SubAccount == [bonded : Nat, available : Nat, unbonding : [Eras -> Nat]]

SumOf(f) == MapThenSumSet(LAMBDA i : f[i], DOMAIN f)
SumUpTo(f, e) == MapThenSumSet(LAMBDA i : f[i], {i \in DOMAIN f : i <= e})

Active(s) == [i \in SubAccounts |-> s[i].bonded]
Available(s) == [i \in SubAccounts |-> s[i].available]

-----------------------------------------------------------------------------
(* distribute_decrement and distribute_increment of the staking pool, over *)
(* the accounts sorted by bonded amount.  The sort is stable.              *)

Lower(s, j, i) == s[j].bonded < s[i].bonded \/ (s[j].bonded = s[i].bonded /\ j < i)
Higher(s, j, i) == s[j].bonded > s[i].bonded \/ (s[j].bonded = s[i].bonded /\ j < i)

(* account i gives what those before it could not *)
Taken(amounts, before, i, n) ==
  Least(amounts[i], Monus(n, MapThenSumSet(LAMBDA j : amounts[j], before)))

FromLowest(s, amounts, n) ==
  [i \in SubAccounts |-> Taken(amounts, {j \in SubAccounts : Lower(s, j, i)}, i, n)]

FromHighest(s, amounts, n) ==
  [i \in SubAccounts |-> Taken(amounts, {j \in SubAccounts : Higher(s, j, i)}, i, n)]

ToLowest(s, n) ==
  [i \in SubAccounts |-> IF \E j \in SubAccounts : Lower(s, j, i) THEN 0 ELSE n]

-----------------------------------------------------------------------------
(* Operations of the bridge, on every account of a distribution. *)

bond_extra(s, dist) ==
  [i \in SubAccounts |-> [s[i] EXCEPT !.available = @ - dist[i], !.bonded = @ + dist[i]]]

(* An account with too many unbonding entries refuses, and the accounts    *)
(* after it are not asked any more.                                        *)
Refuses(s, dist, i) ==
  dist[i] # 0 /\ Cardinality({e \in Eras : s[i].unbonding[e] # 0}) >= MaxUnbonding

(* mutant: a refusal is taken for success *)
RefusalIgnored(s, dist) == TRUE

CanUnbond(s, dist) == \A i \in SubAccounts : ~Refuses(s, dist, i)

unbond(s, dist) ==
  [i \in SubAccounts |->
     IF \E j \in SubAccounts : Refuses(s, dist, j) /\ (j = i \/ Higher(s, j, i)) THEN s[i]
     ELSE [s[i] EXCEPT !.bonded = @ - dist[i],
                       !.unbonding[era + BondingDuration] = @ + dist[i]]]

withdraw_unbonded(s) ==
  [i \in SubAccounts |->
     [s[i] EXCEPT !.available = @ + SumUpTo(s[i].unbonding, era),
                  !.unbonding = [e \in Eras |-> IF e <= era THEN 0 ELSE @[e]]]]

payout_stakers(s) ==
  [i \in SubAccounts |-> [s[i] EXCEPT !.bonded = @ + MulInt(RewardRate, @)]]

transfer_to_bridge(s, dist) ==
  [i \in SubAccounts |-> [s[i] EXCEPT !.available = @ + dist[i]]]

receive_from_bridge(s, dist) ==
  [i \in SubAccounts |-> [s[i] EXCEPT !.available = @ - dist[i]]]

(* simulate_slash_sub_account *)
SlashSubAccount(s, i, n) == [s EXCEPT ![i].bonded = Monus(@, n)]
=============================================================================

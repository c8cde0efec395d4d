----------------------------- MODULE Incentives -----------------------------
(***************************************************************************)
(* module_incentives over orml_rewards: pools in which accounts hold       *)
(* shares, rewards that accumulate per period, and their payout from the   *)
(* vault with a deduction that goes back to the pool.                      *)
(*                                                                         *)
(* A pool is a pair <<kind, id>>.  Operations are functions on a books     *)
(* record: the pools, the accounts' shares and the tokens.  Existential    *)
(* deposits are left out.                                                  *)
(***************************************************************************)
EXTENDS FixedU128, FiniteSets, FiniteSetsExt, TLC

CONSTANTS Users,
          Validators,          \* on the relay chain
          LpTokens,            \* dex share currencies
          Collaterals,         \* of loans
          StableInPool,        \* stable currency in the pool of an LP token
          RewardAmounts, Rates, ShareAmounts, Debits,   \* inputs tried
          MaxPeriods,          \* bound on the periods
          MaxRewards           \* bound on a pool's rewards, which grow with every share added

VARIABLES books,
          rewardAmount,        \* IncentiveRewardAmount
          savingRate,          \* DexSavingRewardRate
          deductionRate,       \* PayoutDeductionRates
          shutdown,            \* EmergencyShutdown::is_shutdown
          period

parameterVars == <<rewardAmount, savingRate, deductionRate, shutdown, period>>

Vault == "rewards_vault"
RewardsSource == "rewards_source"
IncentivesAccount == "incentives"
TokenAccounts == Users \cup {Vault, RewardsSource, IncentivesAccount}
Currencies == {"native", "stable", "liquid"} \cup LpTokens

IncentivePools == ({"DexIncentive"} \X LpTokens) \cup ({"LoansIncentive"} \X Collaterals)
SavingPools == {"DexSaving"} \X LpTokens
AllowancePools == {"HomaValidatorAllowance"} \X Validators
PoolId == IncentivePools \cup SavingPools \cup AllowancePools

RewardCurrency(pool) ==
  CASE pool \in IncentivePools -> "native" [] pool \in SavingPools -> "stable" [] OTHER -> "liquid"

CanMove(b, c, from, n) == b.tokens[c][from] >= n
Move(b, c, from, to, n) ==
  [b EXCEPT !.tokens[c] = [[@ EXCEPT ![from] = @ - n] EXCEPT ![to] = @ + n]]

(***************************************************************************)
(* orml_rewards, external.                                                 *)
(***************************************************************************)
accumulate_reward(b, pool, n) == [b EXCEPT !.pools[pool].rewards = @ + n]

(* mutant of payout: the deduction is credited to the pool and paid as well *)
PayoutUndeducted(b, who, pool, n) ==
  LET deduction == Least(MulInt(deductionRate[pool], n), n)
      kept == accumulate_reward(b, pool, deduction)
  IN IF CanMove(kept, RewardCurrency(pool), Vault, n)
     THEN Move(kept, RewardCurrency(pool), Vault, who, n)
     ELSE kept

(* RewardHandler::payout; a transfer that fails is only logged *)
payout(b, who, pool, n) ==
  LET deduction == Least(MulInt(deductionRate[pool], n), n)
      kept == accumulate_reward(b, pool, deduction)
  IN IF CanMove(kept, RewardCurrency(pool), Vault, n - deduction)
     THEN Move(kept, RewardCurrency(pool), Vault, who, n - deduction)
     ELSE kept

claim_rewards(b, who, pool) ==
  LET a == b.accounts[pool][who]
      p == b.pools[pool]
      n == IF a.share = 0 THEN 0
           ELSE Least(Monus((a.share * p.rewards) \div p.shares, a.withdrawn), p.rewards - p.withdrawn)
      noted == [b EXCEPT !.pools[pool].withdrawn = @ + n, !.accounts[pool][who].withdrawn = @ + n]
  IN IF n = 0 THEN b ELSE payout(noted, who, pool, n)

(* A newcomer's share comes with rewards already withdrawn. *)
add_share(b, who, pool, n) ==
  LET p == b.pools[pool]
      inflation == IF p.shares = 0 THEN 0 ELSE (n * p.rewards) \div p.shares
  IN IF n = 0 THEN b
     ELSE [b EXCEPT !.pools[pool] = [shares |-> p.shares + n, rewards |-> p.rewards + inflation,
                                     withdrawn |-> p.withdrawn + inflation],
                    !.accounts[pool][who] = [share |-> @.share + n, withdrawn |-> @.withdrawn + inflation]]

remove_share(b, who, pool, n) ==
  LET claimed == claim_rewards(b, who, pool)
      a == claimed.accounts[pool][who]
      p == claimed.pools[pool]
      removed == Least(n, a.share)
      gone == IF removed = a.share THEN a.withdrawn ELSE (removed * a.withdrawn) \div a.share
  IN IF n = 0 THEN b
     ELSE [claimed EXCEPT
             !.pools[pool] = [shares |-> p.shares - removed, rewards |-> p.rewards - gone,
                              withdrawn |-> p.withdrawn - gone],
             !.accounts[pool][who] = [share |-> a.share - removed, withdrawn |-> a.withdrawn - gone]]

set_share(b, who, pool, n) ==
  LET share == b.accounts[pool][who].share IN
  IF n > share THEN add_share(b, who, pool, n - share) ELSE remove_share(b, who, pool, share - n)

(***************************************************************************)
(* Hooks and calls of module_incentives.                                   *)
(***************************************************************************)
AccumulateIncentive(b, pool) ==
  IF b.pools[pool].shares > 0 /\ rewardAmount[pool] > 0 /\ CanMove(b, "native", RewardsSource, rewardAmount[pool])
  THEN accumulate_reward(Move(b, "native", RewardsSource, Vault, rewardAmount[pool]), pool, rewardAmount[pool])
  ELSE b

(* issue_debit of unbacked stable currency to the vault *)
AccumulateSaving(b, pool) ==
  LET n == MulInt(savingRate[pool], StableInPool[pool[2]]) IN
  IF b.pools[pool].shares > 0 /\ n > 0
  THEN accumulate_reward([b EXCEPT !.tokens["stable"][Vault] = @ + n], pool, n)
  ELSE b

on_initialize ==
  /\ period < MaxPeriods /\ period' = period + 1
  /\ books' = IF shutdown THEN books
              ELSE FoldSet(LAMBDA pool, b : AccumulateSaving(b, pool),
                           FoldSet(LAMBDA pool, b : AccumulateIncentive(b, pool), books, IncentivePools),
                           SavingPools)
  /\ UNCHANGED <<rewardAmount, savingRate, deductionRate, shutdown>>

deposit_dex_share(who, lp, n) ==
  /\ CanMove(books, lp, who, n)
  /\ \A kind \in {"DexIncentive", "DexSaving"} : books.pools[<<kind, lp>>].rewards <= MaxRewards
  /\ books' = add_share(add_share(Move(books, lp, who, IncentivesAccount, n),
                                  who, <<"DexIncentive", lp>>, n),
                        who, <<"DexSaving", lp>>, n)
  /\ UNCHANGED parameterVars

withdraw_dex_share(who, lp, n) ==
  /\ \A kind \in {"DexIncentive", "DexSaving"} : books.accounts[<<kind, lp>>][who].share >= n
  /\ CanMove(books, lp, IncentivesAccount, n)
  /\ books' = remove_share(remove_share(Move(books, lp, IncentivesAccount, who, n),
                                        who, <<"DexIncentive", lp>>, n),
                           who, <<"DexSaving", lp>>, n)
  /\ UNCHANGED parameterVars

(* The loans pallet's hook; a share is the debit of the position, see Loans. *)
OnUpdateLoan(who, collateral, n) ==
  /\ books' = set_share(books, who, <<"LoansIncentive", collateral>>, n)
  /\ UNCHANGED parameterVars

ClaimRewards(who, pool) ==
  /\ books' = claim_rewards(books, who, pool)
  /\ UNCHANGED parameterVars

(* The update calls take a list of pools with their new values. *)
update_incentive_rewards(updates) ==
  /\ DOMAIN updates \subseteq IncentivePools
  /\ rewardAmount' = updates @@ rewardAmount
  /\ UNCHANGED <<books, savingRate, deductionRate, shutdown, period>>

update_dex_saving_rewards(updates) ==
  /\ DOMAIN updates \subseteq SavingPools
  /\ savingRate' = updates @@ savingRate
  /\ UNCHANGED <<books, rewardAmount, deductionRate, shutdown, period>>

update_payout_deduction_rates(updates) ==
  /\ \A pool \in DOMAIN updates : updates[pool] <= One
  /\ deductionRate' = updates @@ deductionRate
  /\ UNCHANGED <<books, rewardAmount, savingRate, shutdown, period>>

(* Anybody pays liquid currency that is not locked into a validator's pool. *)
add_allowance(who, pool, n, locked) ==
  /\ pool \in AllowancePools /\ CanMove(books, "liquid", who, n + locked)
  /\ books.pools[pool].rewards + n <= MaxRewards
  /\ books' = accumulate_reward(Move(books, "liquid", who, Vault, n), pool, n)
  /\ UNCHANGED parameterVars

emergency_shutdown ==
  /\ ~shutdown /\ shutdown' = TRUE
  /\ UNCHANGED <<books, rewardAmount, savingRate, deductionRate, period>>

IncentivesInit(funds) ==
  /\ books = [pools |-> [p \in PoolId |-> [shares |-> 0, rewards |-> 0, withdrawn |-> 0]],
              accounts |-> [p \in PoolId |-> [u \in Users |-> [share |-> 0, withdrawn |-> 0]]],
              tokens |-> funds]
  /\ rewardAmount = [p \in IncentivePools |-> 0] /\ savingRate = [p \in SavingPools |-> 0]
  /\ deductionRate = [p \in PoolId |-> 0] /\ shutdown = FALSE /\ period = 0

RewardsNext ==
  \/ on_initialize \/ emergency_shutdown
  \/ \E n \in RewardAmounts : update_incentive_rewards([pool \in IncentivePools |-> n])
  \/ \E rate \in Rates : update_dex_saving_rewards([pool \in SavingPools |-> rate])
  \/ \E rate \in Rates : update_payout_deduction_rates([pool \in PoolId |-> rate])
  \/ \E who \in Users, pool \in IncentivePools \cup SavingPools : ClaimRewards(who, pool)

DexShareNext ==
  \E who \in Users, lp \in LpTokens, n \in ShareAmounts :
    deposit_dex_share(who, lp, n) \/ withdraw_dex_share(who, lp, n)

LoansNext == \E who \in Users, c \in Collaterals, n \in Debits : OnUpdateLoan(who, c, n)
-----------------------------------------------------------------------------
(* The vault covers what the pools of a currency have still to pay out,    *)
(* however shares come and go between accumulations, and a deduction that  *)
(* returns to its pool is not paid as well.  A pool's totals are the sums  *)
(* over its accounts, and the deposited dex shares are all there.          *)
RewardsCovered ==
  /\ \A c \in {"native", "stable", "liquid"} :
       books.tokens[c][Vault] >=
         FoldSet(LAMBDA pool, n : n + books.pools[pool].rewards - books.pools[pool].withdrawn, 0,
                 {pool \in PoolId : RewardCurrency(pool) = c})
  /\ \A pool \in PoolId :
       /\ books.pools[pool].shares = FoldSet(LAMBDA u, n : n + books.accounts[pool][u].share, 0, Users)
       /\ books.pools[pool].withdrawn = FoldSet(LAMBDA u, n : n + books.accounts[pool][u].withdrawn, 0, Users)
  /\ \A lp \in LpTokens, kind \in {"DexIncentive", "DexSaving"} :
       books.pools[<<kind, lp>>].shares = books.tokens[lp][IncentivesAccount]
=============================================================================

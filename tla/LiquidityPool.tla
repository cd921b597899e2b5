----------------------------- MODULE LiquidityPool -----------------------------
(*****************************************************************************)
(* The liquidity of one risk pool of the insurance contract                  *)
(* (contracts/insurance, insurance_impl.rs): providers stake, premiums       *)
(* raise a reward index, and rewards are claimed, staked again or vested.    *)
(* Pools share no state, and nothing closes one.  total_capital and          *)
(* total_provider_stake change together everywhere: "capital" is both.       *)
(* Native transfers are left out; what leaves the pool's books is taken from *)
(* "available".                                                              *)
(*****************************************************************************)
EXTENDS Integers, FiniteSets, Functions

CONSTANTS
  Accounts,        \* providers, policyholders, assessors
  Stakes,          \* amounts that are deposited and withdrawn
  Vestings,        \* <<cliff, duration, penalty in basis points>> an admin sets
  Precision,       \* REWARD_PRECISION, 10^18
  InsStart,        \* time of deployment
  InsLastTime, MaxMoves, MaxAvailable    \* bounds

ASSUME LiquidityAssumption ==
  /\ IsFiniteSet(Accounts) /\ Stakes \subseteq Nat /\ Precision \in Nat \ {0}
  /\ InsStart \in Nat /\ InsLastTime \in Nat /\ MaxMoves \in Nat /\ MaxAvailable \in Nat
  /\ \A v \in Vestings : v \in Nat \X Nat \X Nat /\ v[1] <= v[2] /\ v[3] <= 10000 /\ (v[2] = 0 => v[3] = 0)

VARIABLES
  insTime, insPaused,
  pool,        \* capital, available, index (accumulated_reward_per_share), vesting, active_policies
  stake, debt, \* provider_stake, reward_debt: no record where the stake is 0
  vesting,     \* total, claimed, start of each provider
  accrued,     \* history: premiums that raised the index
  taken,       \* history: rewards that were paid, staked or put into vesting
  moves        \* history: changes of stakes, each of which rounds once

liquidity == <<stake, debt, vesting, taken, moves>>

NoVesting == [total |-> 0, claimed |-> 0, start |-> 0]

(* A provider whose stake is gone has no record: its debt and its vesting    *)
(* are forgotten.                                                            *)
LiquidityInit ==
  /\ insTime = InsStart /\ insPaused = FALSE
  /\ pool = [capital |-> 0, available |-> 0, index |-> 0, terms |-> <<0, 0, 0>>, active |-> 0]
  /\ stake = [a \in Accounts |-> 0] /\ debt = [a \in Accounts |-> 0]
  /\ vesting = [a \in Accounts |-> NoVesting]
  /\ accrued = 0 /\ taken = 0 /\ moves = 0

LessOrZero(a, b) == IF a > b THEN a - b ELSE 0

Earned(amount)  == (amount * pool.index) \div Precision
PendingOf(a)    == LessOrZero(Earned(stake[a]), debt[a])
Cliff           == pool.terms[1]
VestingSeconds  == pool.terms[2]
PenaltyRate     == pool.terms[3]

DepositLiquidity_NoDebt(a, amount) ==
  /\ ~ insPaused /\ amount > 0
  /\ pool.available + amount <= MaxAvailable /\ moves < MaxMoves
  /\ stake' = [stake EXCEPT ![a] = @ + amount]
  /\ debt' = debt
  /\ pool'  = [pool EXCEPT !.capital = @ + amount, !.available = @ + amount]
  /\ moves' = moves + 1
  /\ UNCHANGED <<insTime, insPaused, vesting, accrued, taken>>

DepositLiquidity(a, amount) ==
  /\ ~ insPaused /\ amount > 0
  /\ pool.available + amount <= MaxAvailable /\ moves < MaxMoves
  /\ stake' = [stake EXCEPT ![a] = @ + amount]
  /\ debt'  = [debt EXCEPT ![a] = @ + Earned(amount)]
  /\ pool'  = [pool EXCEPT !.capital = @ + amount, !.available = @ + amount]
  /\ moves' = moves + 1
  /\ UNCHANGED <<insTime, insPaused, vesting, accrued, taken>>

(* The premium's share is in the pool and also raises the index, where there *)
(* is a stake to divide it by.                                               *)
WithPremium(share) ==
  [pool EXCEPT !.available = @ + share,
               !.index = IF pool.capital = 0 THEN @
                         ELSE @ + (share * Precision) \div pool.capital]

AccruePremium(share) ==
  accrued' = IF pool.capital = 0 THEN accrued ELSE accrued + share

(* What has vested by now of a schedule.                                     *)
Vested(v) ==
  LET elapsed == insTime - v.start
  IN  IF v.start = 0 \/ elapsed < Cliff THEN 0
      ELSE (v.total * (IF elapsed < VestingSeconds THEN elapsed ELSE VestingSeconds)) \div VestingSeconds

(* Pending rewards join the schedule, which starts again.                    *)
IntoVesting(a) ==
  IF PendingOf(a) = 0 THEN vesting[a]
  ELSE [vesting[a] EXCEPT !.total = @ + PendingOf(a), !.start = insTime]

Penalty(v) == ((v.total - Vested(v)) * PenaltyRate) \div 10000

(* withdraw_liquidity.  Without vesting the pending reward leaves the pool   *)
(* with the principal; with vesting it joins the schedule, whose unvested    *)
(* part pays a penalty to the pool.                                          *)
WithdrawLiquidity(a, amount) ==
  LET vests   == VestingSeconds > 0
      joined  == IntoVesting(a)
      penalty == IF vests THEN Penalty(joined) ELSE 0
      out     == IF vests THEN amount ELSE PendingOf(a) + amount
      left    == stake[a] - amount
  IN  /\ amount > 0 /\ amount <= stake[a] /\ moves < MaxMoves
      /\ out <= pool.available + penalty
      /\ pool'  = [pool EXCEPT !.capital = @ - amount, !.available = @ + penalty - out]
      /\ stake' = [stake EXCEPT ![a] = left]
      /\ debt'  = [debt EXCEPT ![a] = Earned(left)]
      /\ vesting' = [vesting EXCEPT ![a] = IF left = 0 THEN NoVesting
                                           ELSE IF vests THEN [joined EXCEPT !.total = @ - penalty] ELSE @]
      /\ taken' = taken + PendingOf(a) /\ moves' = moves + 1
      /\ UNCHANGED <<insTime, insPaused, accrued>>

(* claim_rewards: to the caller, or into its schedule.                       *)
ClaimPoolRewards(a) ==
  /\ PendingOf(a) > 0
  /\ \/ /\ VestingSeconds > 0
        /\ vesting' = [vesting EXCEPT ![a] = IntoVesting(a)]
        /\ UNCHANGED pool
     \/ /\ VestingSeconds = 0 /\ PendingOf(a) <= pool.available
        /\ pool' = [pool EXCEPT !.available = @ - PendingOf(a)]
        /\ UNCHANGED vesting
  /\ debt'  = [debt EXCEPT ![a] = Earned(stake[a])]
  /\ taken' = taken + PendingOf(a)
  /\ UNCHANGED <<insTime, insPaused, stake, accrued, moves>>

(* reinvest_rewards: the reward, which is in the pool already, is staked.    *)
ReinvestRewards(a) ==
  LET pending == PendingOf(a) IN
  /\ pending > 0 /\ moves < MaxMoves
  /\ stake' = [stake EXCEPT ![a] = @ + pending]
  /\ debt'  = [debt EXCEPT ![a] = Earned(stake[a] + pending)]
  /\ pool'  = [pool EXCEPT !.capital = @ + pending]
  /\ taken' = taken + pending /\ moves' = moves + 1
  /\ UNCHANGED <<insTime, insPaused, vesting, accrued>>

(* claim_vested_rewards.  In a pool without vesting the whole schedule is    *)
(* paid, whatever had been paid of it before vesting was switched off.       *)
ClaimVestedRewards(a) ==
  LET v    == vesting[a]
      part == IF VestingSeconds = 0 THEN v.total ELSE LessOrZero(Vested(v), v.claimed)
      done == VestingSeconds = 0 \/ v.claimed + part >= v.total
  IN  /\ stake[a] > 0 /\ part > 0
      /\ part <= pool.available
      /\ vesting' = [vesting EXCEPT ![a] = IF done THEN NoVesting ELSE [v EXCEPT !.claimed = @ + part]]
      /\ pool' = [pool EXCEPT !.available = @ - part]
      /\ UNCHANGED <<insTime, insPaused, stake, debt, accrued, taken, moves>>

ConfigurePoolVesting(terms) ==
  /\ pool' = [pool EXCEPT !.terms = terms]
  /\ UNCHANGED <<insTime, insPaused, stake, debt, vesting, accrued, taken, moves>>

(* The circuit breaker, whose module says when: here only that it switches.  *)
SwitchPause ==
  /\ insPaused' = ~ insPaused
  /\ UNCHANGED <<insTime, pool, stake, debt, vesting, accrued, taken, moves>>

InsTick ==
  /\ insTime < InsLastTime /\ insTime' = insTime + 1
  /\ UNCHANGED <<insPaused, pool, stake, debt, vesting, accrued, taken, moves>>

Providing ==
  \/ \E a \in Accounts, amount \in Stakes : DepositLiquidity(a, amount) \/ WithdrawLiquidity(a, amount)
  \/ \E a \in Accounts : ClaimPoolRewards(a) \/ ReinvestRewards(a) \/ ClaimVestedRewards(a)
  \/ \E terms \in Vestings : ConfigurePoolVesting(terms)

-----------------------------------------------------------------------------
LiquidityTypeOK ==
  /\ insTime \in Nat /\ insPaused \in BOOLEAN
  /\ pool.capital \in Nat /\ pool.available \in Nat /\ pool.index \in Nat
  /\ pool.terms \in Vestings \cup {<<0, 0, 0>>} /\ pool.active \in Nat
  /\ stake \in [Accounts -> Nat] /\ debt \in [Accounts -> Nat]
  /\ vesting \in [Accounts -> [total : Nat, claimed : Nat, start : Nat]]
  /\ accrued \in Nat /\ taken \in Nat /\ moves \in 0..MaxMoves

(* The stake that premiums are divided by is the sum of the providers'       *)
(* stakes, whoever deposits, withdraws or stakes a reward again.             *)
StakesAddUp == pool.capital = SumFunctionOnSet(stake, Accounts)

(* What the providers have taken and may still take as rewards never exceeds *)
(* the premiums that raised the index, but for one unit of rounding for each *)
(* change of a stake: a late depositor earns nothing of earlier premiums.    *)
RewardsWithinPremiums ==
  SumFunctionOnSet([a \in Accounts |-> PendingOf(a)], Accounts) + taken <= accrued + moves
=============================================================================

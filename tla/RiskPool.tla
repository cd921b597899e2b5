------------------------------- MODULE RiskPool -------------------------------
(*****************************************************************************)
(* The liquidity pool contract (contracts/risk_pool): providers stake the    *)
(* pool token, claims are paid from the available capital, and governance    *)
(* forfeits stakes.  A call that fails is rolled back by the host, so only   *)
(* the successful outcome of an entry point is a step.  The token contract   *)
(* is external: it moves non-negative amounts and never overdraws.           *)
(*****************************************************************************)
EXTENDS Integers, FiniteSets, Sequences, Functions, Int128

CONSTANTS
  User,           \* accounts outside the system; each may be a provider
  Pool,           \* the pool contract's own address
  Admin,          \* the account that deployed the pool
  Grantee,        \* the accounts the admin may grant roles to
  MinStake,       \* smallest deposit
  Funds,          \* tokens every user starts with
  Amount,         \* amounts callers pass
  BatchLimit,     \* bound on the length of a batch (50 in the code)
  CapitalLimit    \* bound on the two figures of capital

Account == User \cup {Pool}
Role    == {"Admin", "Governance"}

ASSUME AccountsAssumption ==
  /\ IsFiniteSet(User) /\ Pool \notin User
  /\ Admin \in User    /\ Grantee \subseteq Account
ASSUME AmountsAssumption ==
  /\ MinStake \in Int  /\ Funds \in Nat    /\ Amount \subseteq Nat
  /\ BatchLimit \in Nat \ {0} /\ I128Max \in Nat /\ CapitalLimit \in 0..I128Max

VARIABLES
  balance,            \* token ledger: account |-> tokens (external contract)
  stake,              \* ProviderStake(addr)
  totalCapital,       \* TotalCapital
  availableCapital,   \* AvailableCapital
  claimsPaid,         \* ClaimsPaid
  roles,              \* RoleMap: the pairs <<addr, role>> that are granted
  version,            \* Version: storage version, 1 or 2
  abiCurrent,         \* current minor ABI version: 1 is RISK_POOL_V1
  stateRoot           \* the stored root; the digest is taken to be injective

capitalVars == <<stake, totalCapital, availableCapital, claimsPaid>>
poolVars    == <<capitalVars, version, abiCurrent, stateRoot>>
vars        == <<balance, poolVars, roles>>

-----------------------------------------------------------------------------
Root(total, avail, paid, ver) ==
  [total |-> total, available |-> avail, paid |-> paid, version |-> ver]

(* refresh_state_root: the last step of every operation that moves capital.  *)
RefreshStateRoot ==
  stateRoot' = Root(totalCapital', availableCapital', claimsPaid', version')

(* check_abi, asked by a caller built for version 1.required - 1; the oldest *)
(* version served stays 1.                                                   *)
Supports(required) == required \in 1..abiCurrent

(* The token contract's transfer.                                            *)
Transfer(from, to, amount) ==
  /\ balance[from] >= amount
  /\ balance' = IF from = to THEN balance
                ELSE [balance EXCEPT ![from] = @ - amount, ![to] = @ + amount]

RequireRole(addr, role) == <<addr, role>> \in roles

-----------------------------------------------------------------------------
(* A batch is a non-empty sequence of <<provider, amount>> pairs; the same   *)
(* provider may appear more than once.                                       *)
Batch == UNION {[1..n -> User \X Amount] : n \in 1..BatchLimit}

Entries(batch, p) == {i \in DOMAIN batch : batch[i][1] = p}
Amounts(batch)    == [i \in DOMAIN batch |-> batch[i][2]]
Share(batch)      == [p \in User |-> SumFunctionOnSet(Amounts(batch), Entries(batch, p))]
Total(batch)      == SumFunctionOnSet(Amounts(batch), DOMAIN batch)

(* initialize: no capital; users hold their tokens.                          *)
InitCapital ==
  /\ balance = [a \in Account |-> IF a = Pool THEN 0 ELSE Funds]
  /\ stake   = [p \in User |-> 0]
  /\ totalCapital = 0 /\ availableCapital = 0 /\ claimsPaid = 0
  /\ abiCurrent = 1
  /\ stateRoot = Root(0, 0, 0, version)

(* A pool that this code initialised is at storage version 2 and ABI version *)
(* 1; version 1 is the storage of a pool deployed before it.                 *)
Init ==
  /\ roles = {<<Admin, "Admin">>}
  /\ version \in {1, 2}
  /\ InitCapital

(* set_role: the stored admin signs; a grant is never taken back.            *)
SetRole(addr, role) ==
  /\ roles' = roles \cup {<<addr, role>>}
  /\ UNCHANGED <<balance, poolVars>>

(* deposit_liquidity_batch: every entry in turn, all or nothing.  Amounts    *)
(* are non-negative, so an overdraft anywhere in the batch shows at the end. *)
DepositLiquidityBatch(batch) ==
  LET share == Share(batch) IN
  /\ \A i \in DOMAIN batch : batch[i][2] >= MinStake
  /\ totalCapital + Total(batch) <= CapitalLimit
  /\ availableCapital + Total(batch) <= CapitalLimit
  /\ \A p \in User : balance[p] >= share[p]
  /\ balance' = [a \in Account |-> IF a = Pool THEN balance[a] + Total(batch)
                                   ELSE balance[a] - share[a]]
  /\ stake' = [p \in User |-> stake[p] + share[p]]
  /\ totalCapital' = totalCapital + Total(batch)
  /\ availableCapital' = availableCapital + Total(batch)
  /\ UNCHANGED <<claimsPaid, roles, version, abiCurrent>>
  /\ RefreshStateRoot

DepositLiquidity(p, amount) == DepositLiquidityBatch(<<<<p, amount>>>>)

WithinLimits_StakeUnchecked(share, total) ==
  availableCapital >= total /\ balance[Pool] >= total

(* What may leave the pool: no more than each provider's stake, the available *)
(* capital, and the tokens the pool really holds.                             *)
WithinLimits(share, total) ==
  /\ \A p \in User : stake[p] >= share[p]
  /\ availableCapital >= total
  /\ balance[Pool] >= total

(* withdraw_liquidity_batch: every entry in turn, all or nothing.            *)
WithdrawLiquidityBatch(batch) ==
  LET share == Share(batch) IN
  /\ WithinLimits(share, Total(batch))
  /\ balance' = [a \in Account |-> IF a = Pool THEN balance[a] - Total(batch)
                                   ELSE balance[a] + share[a]]
  /\ stake' = [p \in User |-> stake[p] - share[p]]
  /\ totalCapital' = totalCapital - Total(batch)
  /\ availableCapital' = availableCapital - Total(batch)
  /\ UNCHANGED <<claimsPaid, roles, version, abiCurrent>>
  /\ RefreshStateRoot

WithdrawLiquidity(p, amount) == WithdrawLiquidityBatch(<<<<p, amount>>>>)

(* payout_claim and its alias payout: the role is the contract's own.  The   *)
(* total of the claims paid wraps.                                           *)
PayoutClaim(recipient, amount) ==
  /\ RequireRole(Pool, "Admin")
  /\ availableCapital >= amount
  /\ Transfer(Pool, recipient, amount)
  /\ availableCapital' = availableCapital - amount
  /\ claimsPaid' = I128(claimsPaid + amount)
  /\ UNCHANGED <<stake, totalCapital, roles, version, abiCurrent>>
  /\ RefreshStateRoot

AbsorbSlash_StakeKept(target, amount) ==
  /\ RequireRole(Pool, "Governance")
  /\ amount > 0 /\ availableCapital + amount <= CapitalLimit
  /\ stake[target] >= amount
  /\ availableCapital' = availableCapital + amount
  /\ UNCHANGED <<balance, stake, totalCapital, claimsPaid, roles, version, abiCurrent>>
  /\ RefreshStateRoot

AbsorbSlash_NotCredited(target, amount) ==
  /\ RequireRole(Pool, "Governance")
  /\ amount > 0 /\ availableCapital + amount <= CapitalLimit
  /\ stake[target] >= amount
  /\ stake' = [stake EXCEPT ![target] = @ - amount]
  /\ UNCHANGED <<balance, totalCapital, availableCapital, claimsPaid, roles, version, abiCurrent>>
  /\ RefreshStateRoot

(* absorb_slash: the stake shrinks, the available capital grows, no token    *)
(* moves and totalCapital keeps its value.                                   *)
AbsorbSlash(target, amount) ==
  /\ RequireRole(Pool, "Governance")
  /\ amount > 0 /\ availableCapital + amount <= CapitalLimit
  /\ stake[target] >= amount
  /\ stake' = [stake EXCEPT ![target] = @ - amount]
  /\ availableCapital' = availableCapital + amount
  /\ UNCHANGED <<balance, totalCapital, claimsPaid, roles, version, abiCurrent>>
  /\ RefreshStateRoot

(* migrate to version 2; at version 2 the call returns without a change.     *)
Migrate(caller) ==
  /\ RequireRole(caller, "Admin")
  /\ version = 1
  /\ version' = 2
  /\ abiCurrent' = 2
  /\ UNCHANGED <<balance, capitalVars, roles>>
  /\ RefreshStateRoot

(* Anybody may move tokens of their own, to the pool's address as well.      *)
TokenTransfer(from, to, amount) ==
  /\ Transfer(from, to, amount)
  /\ UNCHANGED <<poolVars, roles>>

Next ==
  \/ \E addr \in Grantee, role \in Role : SetRole(addr, role)
  \/ \E p \in User, amount \in Amount : DepositLiquidity(p, amount)
  \/ \E batch \in Batch : DepositLiquidityBatch(batch)
  \/ \E p \in User, amount \in Amount : WithdrawLiquidity(p, amount)
  \/ \E batch \in Batch : WithdrawLiquidityBatch(batch)
  \/ \E recipient \in Account, amount \in Amount : PayoutClaim(recipient, amount)
  \/ \E target \in User, amount \in Amount : AbsorbSlash(target, amount)
  \/ \E caller \in User : Migrate(caller)
  \/ \E from \in User, to \in Account, amount \in Amount : TokenTransfer(from, to, amount)

Spec == Init /\ [][Next]_vars

-----------------------------------------------------------------------------
TypeOK ==
  /\ balance \in [Account -> Nat]
  /\ stake \in [User -> Nat]
  /\ totalCapital \in Nat /\ availableCapital \in Nat /\ claimsPaid \in Int
  /\ roles \subseteq Account \X Role
  /\ version \in {1, 2} /\ abiCurrent \in {1, 2}
  /\ stateRoot \in [total : Int, available : Int, paid : Int, version : {1, 2}]

Staked    == SumFunctionOnSet(stake, User)
Forfeited == totalCapital - Staked

(* What claims took out of the capital: it left the available capital, which *)
(* the forfeited stakes were added to.                                       *)
PaidOut == totalCapital + Forfeited - availableCapital

(* The books after every order of deposits, withdrawals, payouts and         *)
(* slashes: no forfeit and no payment is negative, and the stored total of   *)
(* the claims paid is what they took, wrapped.                               *)
LedgerBalances ==
  /\ Forfeited >= 0 /\ PaidOut >= 0
  /\ claimsPaid = I128(PaidOut)

(* The pool's token balance covers the capital net of claims: of what        *)
(* available_capital shows, all but the forfeited stakes is there, and       *)
(* without a slash every unit of it can be paid out.                         *)
PoolHoldsNetCapital == balance[Pool] >= availableCapital - Forfeited

(* The published root is never stale: it is the digest of the capital and    *)
(* the version as they are now, whichever entry point moved them.            *)
StateRootIsFresh ==
  stateRoot = Root(totalCapital, availableCapital, claimsPaid, version)

(* A forfeited stake never becomes a stake again: no sequence of withdrawals *)
(* and deposits lets a slashed provider recover what absorb_slash took.      *)
ForfeitsAreFinal == [][Forfeited' >= Forfeited]_vars

(* A stake never just disappears: a provider whose stake shrinks receives    *)
(* exactly the difference, or the difference becomes available capital.      *)
StakeIsPaidOrForfeited ==
  [][\A p \in User : stake'[p] < stake[p] =>
       \/ balance'[p] - balance[p] = stake[p] - stake'[p]
       \/ availableCapital' - availableCapital = stake[p] - stake'[p]]_vars
=============================================================================

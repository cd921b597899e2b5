----------------------------- MODULE SorobanProofs -----------------------------
(*****************************************************************************)
(* Proofs about the Soroban contracts that MCSoroban checks one by one: the  *)
(* pool for any finite set of users, any amounts and batches of any length,  *)
(* governance for every set of voters, weights, thresholds and actions and   *)
(* every width of the integers that votes are kept in, and the bridge for    *)
(* any users, operators, quorums and timeouts.                               *)
(*****************************************************************************)
EXTENDS MCSoroban, SumTheorems, SequenceTheorems

(*****************************************************************************)
(* The pool                                                                  *)
(*****************************************************************************)

(* The inductive invariant: the books and the types need each other, because *)
(* totalCapital stays non-negative on a withdrawal only as the stakes never  *)
(* sum to more than it.                                                      *)
PoolIInv == TypeOK /\ LedgerBalances /\ PoolHoldsNetCapital /\ StateRootIsFresh

-----------------------------------------------------------------------------
(* The entries of a batch: what a provider's share and the total of a batch  *)
(* are, and that the shares of the providers sum to the total.               *)
LEMMA BatchShares ==
  ASSUME NEW n \in Nat, NEW batch \in [1..n -> User \X Amount]
  PROVE  /\ Share(batch) \in [User -> Nat]
         /\ Total(batch) \in Nat
         /\ SumFunctionOnSet(Share(batch), User) = Total(batch)
<1> DEFINE I == 1..n
           owner == [i \in I |-> batch[i][1]]
           a == Amounts(batch)
<1>1. DOMAIN batch = I /\ IsFiniteSet(I) BY FS_Interval
<1>2. \A i \in I : a[i] \in Nat /\ owner[i] \in User
  BY AmountsAssumption DEF Amounts
<1>3. Total(batch) \in Nat
  <2> HIDE DEF I, a
  <2> QED BY <1>1, <1>2, SumNat DEF Total, a
<1>4. \A p \in User : /\ Entries(batch, p) = {i \in I : owner[i] = p}
                      /\ Entries(batch, p) \in SUBSET I
  BY <1>1 DEF Entries
<1>5. ASSUME NEW p \in User PROVE Share(batch)[p] \in Nat
  <2>1. IsFiniteSet(Entries(batch, p)) BY <1>1, <1>4, FS_Subset
  <2>2. \A i \in Entries(batch, p) : a[i] \in Nat BY <1>2, <1>4
  <2>3. SumFunctionOnSet(a, Entries(batch, p)) \in Nat
    <3> HIDE DEF a
    <3> QED BY <2>1, <2>2, SumNat
  <2> QED BY <2>3 DEF Share
<1>6. Share(batch) = SharesOf(a, owner, I, User)
  BY <1>4 DEF Share, SharesOf
<1>7. SumFunctionOnSet(SharesOf(a, owner, I, User), User) = SumFunctionOnSet(a, I)
  <2> HIDE DEF a, owner, I
  <2> QED BY <1>1, <1>2, SumOfShares, AccountsAssumption
<1>8. Share(batch) \in [User -> Nat] BY <1>5 DEF Share
<1> QED BY <1>1, <1>3, <1>6, <1>7, <1>8 DEF Total

(* A batch of the next-state relation, or the batch of one that a single     *)
(* call makes, is a finite function into User \X Amount.                     *)
LEMMA BatchIsFinite ==
  ASSUME NEW batch,
         \/ batch \in Batch
         \/ \E p \in User, amount \in Amount : batch = <<<<p, amount>>>>
  PROVE  \E n \in Nat : batch \in [1..n -> User \X Amount]
<1>1. CASE batch \in Batch
  BY <1>1, AmountsAssumption DEF Batch
<1>2. CASE \E p \in User, amount \in Amount : batch = <<<<p, amount>>>>
  <2>1. batch \in [1..1 -> User \X Amount] BY <1>2
  <2> QED BY <2>1
<1> QED BY <1>1, <1>2

-----------------------------------------------------------------------------
(* The stakes always sum to a natural number.                                *)
LEMMA StakedType ==
  ASSUME NEW f \in [User -> Nat]
  PROVE  SumFunctionOnSet(f, User) \in Nat
BY SumNat, AccountsAssumption

(* What one step must establish: the invariant again, no forfeit returned,   *)
(* and no stake that disappears.                                             *)
PoolPreserved ==
  /\ PoolIInv'
  /\ Forfeited' >= Forfeited
  /\ \A p \in User : stake'[p] < stake[p] =>
       \/ balance'[p] - balance[p] = stake[p] - stake'[p]
       \/ availableCapital' - availableCapital = stake[p] - stake'[p]

(* The freshly initialised pool satisfies the invariant.                     *)
LEMMA PoolStarts == Init => PoolIInv
<1> SUFFICES ASSUME Init PROVE PoolIInv OBVIOUS
<1>1. Staked = 0
  <2>1. \A p \in User : stake[p] = 0 BY DEF InitCapital, Init
  <2> QED BY <2>1, SumZero, AccountsAssumption DEF Staked
<1>2. TypeOK
  BY AccountsAssumption, AmountsAssumption DEF InitCapital, Init, TypeOK, Account, Role, Root
<1>3. balance[Pool] = 0 BY DEF InitCapital, Init, Account
<1>4. Forfeited = 0 /\ PaidOut = 0 BY <1>1 DEF InitCapital, Init, Forfeited, PaidOut
<1>5. I128(0) = 0 BY I128OfZero, AmountsAssumption
<1>6. LedgerBalances BY <1>4, <1>5 DEF InitCapital, Init, LedgerBalances
<1> QED BY <1>2, <1>3, <1>4, <1>6
  DEF InitCapital, Init, PoolIInv, PoolHoldsNetCapital, StateRootIsFresh

(* A step that leaves the capital alone.                                     *)
LEMMA StepKeepsCapital ==
  ASSUME PoolIInv, UNCHANGED capitalVars, version' \in {1, 2}, abiCurrent' \in {1, 2},
         stateRoot' = Root(totalCapital', availableCapital', claimsPaid', version'),
         roles' \subseteq Account \X Role,
         balance' \in [Account -> Nat], balance'[Pool] >= balance[Pool]
  PROVE  PoolPreserved
<1>1. Staked' = Staked /\ Forfeited' = Forfeited /\ PaidOut' = PaidOut
  BY DEF Staked, Forfeited, PaidOut, capitalVars
<1>2. Staked \in Nat BY StakedType DEF Staked, PoolIInv, TypeOK
<1>3. TypeOK' BY DEF PoolIInv, TypeOK, capitalVars, Root
<1>4. LedgerBalances' BY <1>1 DEF PoolIInv, LedgerBalances, capitalVars
<1>5. balance[Pool] \in Nat /\ balance'[Pool] \in Nat
  BY DEF PoolIInv, TypeOK, Account
<1>6. PoolHoldsNetCapital'
  BY <1>1, <1>2, <1>5 DEF PoolIInv, TypeOK, PoolHoldsNetCapital, Forfeited, capitalVars
<1>7. StateRootIsFresh' BY DEF StateRootIsFresh
<1>8. Forfeited \in Int BY <1>2 DEF Forfeited, PoolIInv, TypeOK
<1>9. \A p \in User : ~ (stake'[p] < stake[p])
  BY DEF capitalVars, PoolIInv, TypeOK
<1> QED BY <1>1, <1>3, <1>4, <1>6, <1>7, <1>8, <1>9 DEF PoolPreserved, PoolIInv

(* A batch of deposits: stake, capital, available capital and tokens all     *)
(* grow by the batch's total.                                                *)
LEMMA StepDeposit ==
  ASSUME PoolIInv, NEW n \in Nat, NEW batch \in [1..n -> User \X Amount],
         DepositLiquidityBatch(batch)
  PROVE  PoolPreserved
<1> DEFINE share == Share(batch)
           total == Total(batch)
<1> USE DEF PoolIInv
<1>1. /\ share \in [User -> Nat] /\ total \in Nat
      /\ SumFunctionOnSet(share, User) = total
  BY BatchShares
<1> HIDE DEF share, total
<1>2. /\ \A p \in User : balance[p] >= share[p]
      /\ balance' = [a \in Account |-> IF a = Pool THEN balance[a] + total
                                       ELSE balance[a] - share[a]]
      /\ stake' = [p \in User |-> stake[p] + share[p]]
      /\ totalCapital' = totalCapital + total
      /\ availableCapital' = availableCapital + total
      /\ UNCHANGED <<claimsPaid, roles, version, abiCurrent>>
      /\ stateRoot' = Root(totalCapital', availableCapital', claimsPaid', version')
  BY DEF DepositLiquidityBatch, RefreshStateRoot, share, total
<1>3. Staked \in Nat BY StakedType DEF Staked, TypeOK
<1>4. Staked' = Staked + total
  <2>1. \A p \in User : /\ stake[p] \in Int /\ share[p] \in Int
                         /\ stake'[p] = stake[p] + share[p]
    BY <1>1, <1>2 DEF TypeOK
  <2>2. SumFunctionOnSet(stake', User)
          = SumFunctionOnSet(stake, User) + SumFunctionOnSet(share, User)
    BY <2>1, AccountsAssumption, SumOfSums
  <2> QED BY <1>1, <2>2 DEF Staked
<1>5. /\ balance' \in [Account -> Nat]
      /\ balance'[Pool] = balance[Pool] + total /\ balance[Pool] \in Nat
  BY <1>1, <1>2 DEF TypeOK, Account
<1>6. /\ stake' \in [User -> Nat] /\ totalCapital' \in Nat
      /\ availableCapital' \in Nat /\ claimsPaid' \in Int
  BY <1>1, <1>2 DEF TypeOK
<1>7. TypeOK'
  BY <1>2, <1>5, <1>6 DEF TypeOK, Root
<1>8. Forfeited' = Forfeited /\ Forfeited \in Int
  BY <1>1, <1>2, <1>3, <1>4 DEF Forfeited, TypeOK
<1>9. LedgerBalances'
  <2>1. PaidOut' = PaidOut BY <1>1, <1>2, <1>8 DEF PaidOut, TypeOK
  <2> QED BY <1>2, <1>8, <2>1 DEF LedgerBalances
<1>10. PoolHoldsNetCapital'
  BY <1>1, <1>2, <1>5, <1>8 DEF PoolHoldsNetCapital, TypeOK
<1>11. \A p \in User : ~ (stake'[p] < stake[p])
  BY <1>1, <1>2 DEF TypeOK
<1> QED BY <1>2, <1>7, <1>8, <1>9, <1>10, <1>11 DEF PoolPreserved, StateRootIsFresh

(* A batch of withdrawals: the same four shrink, each stake by its own       *)
(* share.                                                                    *)
LEMMA StepWithdraw ==
  ASSUME PoolIInv, NEW n \in Nat, NEW batch \in [1..n -> User \X Amount],
         WithdrawLiquidityBatch(batch)
  PROVE  PoolPreserved
<1> DEFINE share == Share(batch)
           total == Total(batch)
<1> USE DEF PoolIInv
<1>1. /\ share \in [User -> Nat] /\ total \in Nat
      /\ SumFunctionOnSet(share, User) = total
  BY BatchShares
<1> HIDE DEF share, total
<1>2. /\ \A p \in User : stake[p] >= share[p]
      /\ availableCapital >= total /\ balance[Pool] >= total
      /\ balance' = [a \in Account |-> IF a = Pool THEN balance[a] - total
                                       ELSE balance[a] + share[a]]
      /\ stake' = [p \in User |-> stake[p] - share[p]]
      /\ totalCapital' = totalCapital - total
      /\ availableCapital' = availableCapital - total
      /\ UNCHANGED <<claimsPaid, roles, version, abiCurrent>>
      /\ stateRoot' = Root(totalCapital', availableCapital', claimsPaid', version')
  BY DEF WithdrawLiquidityBatch, WithinLimits, RefreshStateRoot, share, total
<1>3. stake' \in [User -> Nat] BY <1>1, <1>2 DEF TypeOK
<1>4. Staked \in Nat /\ Staked' \in Nat
  BY <1>3, StakedType DEF Staked, TypeOK
<1>5. Staked = Staked' + total
  <2>1. \A p \in User : /\ stake'[p] \in Int /\ share[p] \in Int
                         /\ stake[p] = stake'[p] + share[p]
    BY <1>1, <1>2 DEF TypeOK
  <2>2. SumFunctionOnSet(stake, User)
          = SumFunctionOnSet(stake', User) + SumFunctionOnSet(share, User)
    BY <2>1, AccountsAssumption, SumOfSums
  <2> QED BY <1>1, <2>2 DEF Staked
<1>6. /\ balance' \in [Account -> Nat]
      /\ balance'[Pool] = balance[Pool] - total /\ balance[Pool] \in Nat
  BY <1>1, <1>2, SMTT(30) DEF TypeOK, Account
<1>7. Forfeited' = Forfeited /\ Forfeited \in Int
  <2>1. totalCapital \in Int /\ totalCapital' = totalCapital - total BY <1>2 DEF TypeOK
  <2> QED BY <1>1, <1>4, <1>5, <2>1 DEF Forfeited
<1>8. LedgerBalances'
  <2>1. PaidOut' = PaidOut BY <1>1, <1>2, <1>7 DEF PaidOut, TypeOK
  <2> QED BY <1>2, <1>7, <2>1 DEF LedgerBalances
<1>9. totalCapital' \in Nat
  <2>1. totalCapital' - Staked' >= 0 BY <1>8 DEF LedgerBalances, Forfeited
  <2>2. totalCapital' \in Int BY <1>1, <1>2 DEF TypeOK
  <2>3. \A t, s \in Int : s >= 0 /\ t - s >= 0 => t \in Nat OBVIOUS
  <2>4. Staked' \in Int /\ Staked' >= 0 BY <1>4
  <2> QED BY <2>1, <2>2, <2>3, <2>4
<1>10. availableCapital' \in Nat /\ claimsPaid' \in Int
  BY <1>1, <1>2 DEF TypeOK
<1>11. TypeOK'
  BY <1>2, <1>3, <1>6, <1>9, <1>10 DEF TypeOK, Root
<1>12. PoolHoldsNetCapital'
  BY <1>1, <1>2, <1>6, <1>7 DEF PoolHoldsNetCapital, TypeOK
<1>13. ASSUME NEW p \in User
       PROVE  balance'[p] - balance[p] = stake[p] - stake'[p]
  <2>1. balance'[p] = balance[p] + share[p]
    BY <1>2, AccountsAssumption DEF Account
  <2>2. stake'[p] = stake[p] - share[p] BY <1>2
  <2>3. balance[p] \in Int /\ stake[p] \in Int /\ share[p] \in Int
    BY <1>1 DEF TypeOK, Account
  <2> QED BY <2>1, <2>2, <2>3
<1>14. Forfeited' >= Forfeited BY <1>7
<1>15. StateRootIsFresh' BY <1>2 DEF StateRootIsFresh
<1> QED BY <1>8, <1>11, <1>12, <1>13, <1>14, <1>15 DEF PoolPreserved

(* The token moves from one account to another, or to itself.                *)
LEMMA TransferEffect ==
  ASSUME balance \in [Account -> Nat], NEW from \in Account, NEW to \in Account,
         NEW amount \in Nat, Transfer(from, to, amount)
  PROVE  /\ balance' \in [Account -> Nat]
         /\ from # Pool => balance'[Pool] >= balance[Pool]
         /\ balance'[Pool] >= balance[Pool] - amount
BY AccountsAssumption DEF Transfer, Account

(* A payout: the tokens and the available capital shrink by what is paid.    *)
LEMMA StepPayout ==
  ASSUME PoolIInv, NEW recipient \in Account, NEW amount \in Amount,
         PayoutClaim(recipient, amount)
  PROVE  PoolPreserved
<1> USE DEF PoolIInv
<1>1. amount \in Nat BY AmountsAssumption
<1>2. /\ availableCapital >= amount
      /\ Transfer(Pool, recipient, amount)
      /\ availableCapital' = availableCapital - amount
      /\ claimsPaid' = I128(claimsPaid + amount)
      /\ UNCHANGED <<stake, totalCapital, roles, version, abiCurrent>>
      /\ stateRoot' = Root(totalCapital', availableCapital', claimsPaid', version')
  BY DEF PayoutClaim, RefreshStateRoot
<1>3. balance' \in [Account -> Nat] /\ balance'[Pool] >= balance[Pool] - amount
  BY <1>1, <1>2, TransferEffect DEF TypeOK, Account
<1>4. Staked' = Staked /\ Staked \in Nat
  BY <1>2, StakedType DEF Staked, TypeOK
<1>5. Forfeited' = Forfeited /\ Forfeited \in Int
  BY <1>2, <1>4 DEF Forfeited, TypeOK
<1>6. availableCapital' \in Nat /\ claimsPaid' \in Int
  BY <1>1, <1>2, I128OfSum, AmountsAssumption DEF TypeOK
<1>7. TypeOK' BY <1>2, <1>3, <1>6 DEF TypeOK, Root
<1>8. LedgerBalances'
  <2>1. PaidOut \in Int /\ PaidOut' = PaidOut + amount
    BY <1>1, <1>2, <1>5 DEF PaidOut, TypeOK
  <2>2. I128(I128(PaidOut) + amount) = I128(PaidOut + amount)
    BY <1>1, <2>1, I128OfSum, AmountsAssumption
  <2> QED BY <1>1, <1>2, <1>5, <2>1, <2>2 DEF LedgerBalances
<1>9. balance[Pool] \in Nat /\ balance'[Pool] \in Nat BY <1>3 DEF TypeOK, Account
<1>10. PoolHoldsNetCapital'
  BY <1>1, <1>2, <1>3, <1>5, <1>9 DEF PoolHoldsNetCapital, TypeOK
<1>11. StateRootIsFresh' BY <1>2 DEF StateRootIsFresh
<1>12. Forfeited' >= Forfeited BY <1>5
<1>13. \A p \in User : ~ (stake'[p] < stake[p]) BY <1>2 DEF TypeOK
<1> QED BY <1>7, <1>8, <1>10, <1>11, <1>12, <1>13 DEF PoolPreserved

(* A forfeited stake: the stakes' sum shrinks by what the available capital  *)
(* grows.                                                                    *)
LEMMA StepAbsorb ==
  ASSUME PoolIInv, NEW target \in User, NEW amount \in Amount,
         AbsorbSlash(target, amount)
  PROVE  PoolPreserved
<1> USE DEF PoolIInv
<1>1. amount \in Nat BY AmountsAssumption
<1>2. /\ amount > 0 /\ stake[target] >= amount
      /\ stake' = [stake EXCEPT ![target] = @ - amount]
      /\ availableCapital' = availableCapital + amount
      /\ UNCHANGED <<balance, totalCapital, claimsPaid, roles, version, abiCurrent>>
      /\ stateRoot' = Root(totalCapital', availableCapital', claimsPaid', version')
  BY DEF AbsorbSlash, RefreshStateRoot
<1>3. stake' \in [User -> Nat] BY <1>1, <1>2 DEF TypeOK
<1>4. Staked \in Nat /\ Staked' \in Nat BY <1>3, StakedType DEF Staked, TypeOK
<1>5. Staked' = Staked - amount
  <2>1. /\ \A p \in User : stake[p] \in Int
        /\ \A p \in User \ {target} : stake'[p] = stake[p]
        /\ stake'[target] = stake[target] - amount
        /\ stake[target] - amount \in Int
    BY <1>1, <1>2 DEF TypeOK
  <2>2. SumFunctionOnSet(stake', User)
          = SumFunctionOnSet(stake, User) - stake[target] + (stake[target] - amount)
    BY <2>1, AccountsAssumption, SumUpdate
  <2> QED BY <1>1, <1>4, <2>1, <2>2 DEF Staked
<1>6. Forfeited' = Forfeited + amount /\ Forfeited \in Int
  BY <1>1, <1>2, <1>4, <1>5 DEF Forfeited, TypeOK
<1>7. availableCapital' \in Nat BY <1>1, <1>2 DEF TypeOK
<1>8. TypeOK' BY <1>2, <1>3, <1>7 DEF TypeOK, Root
<1>9. LedgerBalances'
  <2>1. PaidOut' = PaidOut BY <1>1, <1>2, <1>6 DEF PaidOut, TypeOK
  <2> QED BY <1>1, <1>2, <1>6, <2>1 DEF LedgerBalances
<1>10. PoolHoldsNetCapital'
  BY <1>1, <1>2, <1>6 DEF PoolHoldsNetCapital, TypeOK
<1>11. StateRootIsFresh' BY <1>2 DEF StateRootIsFresh
<1>12. Forfeited' >= Forfeited BY <1>1, <1>6
<1>13. \A p \in User : stake'[p] < stake[p] =>
         availableCapital' - availableCapital = stake[p] - stake'[p]
  BY <1>1, <1>2 DEF TypeOK
<1> QED BY <1>8, <1>9, <1>10, <1>11, <1>12, <1>13 DEF PoolPreserved

(* A step of somebody else keeps everything.                                 *)
LEMMA PoolStutters == PoolIInv /\ UNCHANGED vars => PoolPreserved
<1> SUFFICES ASSUME PoolIInv, UNCHANGED vars PROVE PoolPreserved OBVIOUS
<1>1. UNCHANGED <<balance, capitalVars, version, abiCurrent, stateRoot, roles>>
  BY DEF vars, poolVars
<1>2. /\ version' \in {1, 2} /\ abiCurrent' \in {1, 2}
      /\ roles' \subseteq Account \X Role
      /\ balance' \in [Account -> Nat] /\ balance'[Pool] >= balance[Pool]
  BY <1>1 DEF PoolIInv, TypeOK, Account
<1>3. stateRoot' = Root(totalCapital', availableCapital', claimsPaid', version')
  BY <1>1 DEF PoolIInv, StateRootIsFresh, capitalVars
<1> QED BY <1>1, <1>2, <1>3, StepKeepsCapital

(* Every step of the pool preserves the invariant and obeys the two action   *)
(* properties.                                                               *)
LEMMA PoolStep == PoolIInv /\ [Next]_vars => PoolPreserved
<1> SUFFICES ASSUME PoolIInv, [Next]_vars PROVE PoolPreserved OBVIOUS
<1>1. /\ version \in {1, 2} /\ abiCurrent \in {1, 2}
      /\ roles \subseteq Account \X Role
      /\ balance \in [Account -> Nat] /\ balance[Pool] \in Nat
      /\ stateRoot = Root(totalCapital, availableCapital, claimsPaid, version)
  BY DEF PoolIInv, TypeOK, StateRootIsFresh, Account
<1>2. ASSUME NEW addr \in Grantee, NEW role \in Role, SetRole(addr, role)
      PROVE  PoolPreserved
  <2>1. roles' \subseteq Account \X Role
    BY <1>1, <1>2, AccountsAssumption DEF SetRole
  <2>2. UNCHANGED <<balance, capitalVars, version, abiCurrent, stateRoot>>
    BY <1>2 DEF SetRole, poolVars
  <2>3. stateRoot' = Root(totalCapital', availableCapital', claimsPaid', version')
    BY <1>1, <2>2 DEF capitalVars
  <2> QED BY <1>1, <2>1, <2>2, <2>3, StepKeepsCapital
<1>3. ASSUME NEW caller \in User, Migrate(caller) PROVE PoolPreserved
  <2>1. /\ UNCHANGED <<balance, capitalVars, roles>>
        /\ version' = 2 /\ abiCurrent' = 2
        /\ stateRoot' = Root(totalCapital', availableCapital', claimsPaid', version')
    BY <1>3 DEF Migrate, RefreshStateRoot
  <2> QED BY <1>1, <2>1, StepKeepsCapital
<1>4. ASSUME NEW from \in User, NEW to \in Account, NEW amount \in Amount,
             TokenTransfer(from, to, amount)
      PROVE  PoolPreserved
  <2>1. Transfer(from, to, amount) /\ UNCHANGED <<poolVars, roles>>
    BY <1>4 DEF TokenTransfer
  <2>2. balance' \in [Account -> Nat] /\ balance'[Pool] >= balance[Pool]
    BY <1>1, <2>1, TransferEffect, AccountsAssumption, AmountsAssumption DEF Account
  <2>3. UNCHANGED <<capitalVars, version, abiCurrent, stateRoot, roles>>
    BY <2>1 DEF poolVars
  <2>4. stateRoot' = Root(totalCapital', availableCapital', claimsPaid', version')
    BY <1>1, <2>3 DEF capitalVars
  <2> QED BY <1>1, <2>2, <2>3, <2>4, StepKeepsCapital
<1>5. ASSUME NEW batch, \/ batch \in Batch
                        \/ \E p \in User, amount \in Amount : batch = <<<<p, amount>>>>,
             DepositLiquidityBatch(batch) \/ WithdrawLiquidityBatch(batch)
      PROVE  PoolPreserved
  <2>1. PICK n \in Nat : batch \in [1..n -> User \X Amount] BY <1>5, BatchIsFinite
  <2> QED BY <1>5, <2>1, StepDeposit, StepWithdraw
<1>6. CASE UNCHANGED vars BY <1>6, PoolStutters
<1> QED BY <1>2, <1>3, <1>4, <1>5, <1>6, StepPayout, StepAbsorb
        DEF Next, DepositLiquidity, WithdrawLiquidity

-----------------------------------------------------------------------------
(* Every reachable state of the pool satisfies the inductive invariant.      *)
THEOREM PoolInvariant == Spec => []PoolIInv
<1>1. PoolIInv /\ [Next]_vars => PoolIInv' BY PoolStep DEF PoolPreserved
<1> QED BY <1>1, PoolStarts, PTL DEF Spec

(* Types: in particular no withdrawal, payout or slash takes a stake, the    *)
(* capital or the available capital below zero.                              *)
THEOREM PoolTypes == Spec => []TypeOK
BY PoolInvariant, PTL DEF PoolIInv

(* What left the available capital is the capital's share of the claims      *)
(* paid, and total_claims_paid is that sum as an i128, for any amounts.      *)
THEOREM PoolLedger == Spec => []LedgerBalances
BY PoolInvariant, PTL DEF PoolIInv

(* The pool's tokens cover its capital net of claims.                        *)
THEOREM PoolBacking == Spec => []PoolHoldsNetCapital
BY PoolInvariant, PTL DEF PoolIInv

(* Every entry point that moves capital leaves a fresh state root.           *)
THEOREM PoolRoot == Spec => []StateRootIsFresh
BY PoolInvariant, PTL DEF PoolIInv

(* No step of the pool gives a forfeited stake back.                         *)
THEOREM PoolForfeits == Spec => ForfeitsAreFinal
<1>1. PoolIInv /\ [Next]_vars => [Forfeited' >= Forfeited]_vars
  BY PoolStep DEF PoolPreserved
<1> QED BY <1>1, PoolInvariant, PTL DEF Spec, ForfeitsAreFinal

(* A stake shrinks only by a payment to its provider or by a forfeit.        *)
THEOREM PoolStakes == Spec => StakeIsPaidOrForfeited
<1> DEFINE Paid == \A p \in User : stake'[p] < stake[p] =>
                     \/ balance'[p] - balance[p] = stake[p] - stake'[p]
                     \/ availableCapital' - availableCapital = stake[p] - stake'[p]
<1>1. PoolIInv /\ [Next]_vars => [Paid]_vars
  BY PoolStep DEF PoolPreserved
<1> QED BY <1>1, PoolInvariant, PTL DEF Spec, StakeIsPaidOrForfeited

(*****************************************************************************)
(* Governance                                                                *)
(*****************************************************************************)

(* Finalized proposals are over: no vote reaches them any more.              *)
FinalizedIsOver ==
  \A id \in ProposalId : proposals[id].finalized => ballotTime > proposals[id].expiresAt

GovernanceIInv ==
  /\ GovernanceTypeOK
  /\ IsFiniteSet(DOMAIN voterRecords)
  /\ FinalizedIsOver
  /\ ExecutedForGood
  /\ TallyMatchesRecords

(* What one step may never do to a tally that is final and to an action that *)
(* is not carried out yet.                                                   *)
TallyKept ==
  \A id \in ProposalId : proposals[id].finalized =>
    /\ proposals'[id].finalized
    /\ proposals'[id].yes = proposals[id].yes
    /\ proposals'[id].no  = proposals[id].no
ActionKept ==
  \A id \in DOMAIN pendingAction :
    \/ id \in DOMAIN pendingAction' /\ pendingAction'[id] = pendingAction[id]
    \/ proposals'[id].executed
GovernancePreserved == GovernanceIInv' /\ TallyKept /\ ActionKept

-----------------------------------------------------------------------------
(* A function with one more entry.                                           *)
LEMMA OneMore ==
  ASSUME NEW S, NEW f, f \in [DOMAIN f -> S], NEW k, NEW v \in S, NEW g,
         g = [r \in DOMAIN f \cup {k} |-> IF r = k THEN v ELSE f[r]]
  PROVE  g \in [DOMAIN g -> S] /\ DOMAIN g = DOMAIN f \cup {k}
<1>1. \A r \in DOMAIN f : f[r] \in S OBVIOUS
<1>2. DOMAIN g = DOMAIN f \cup {k} OBVIOUS
<1>3. \A r \in DOMAIN f \cup {k} : (IF r = k THEN v ELSE f[r]) \in S BY <1>1
<1> QED BY <1>2, <1>3

LEMMA ProposalList ==
  ASSUME GovernanceTypeOK
  PROVE  /\ proposals \in [ProposalId -> ProposalRecord]
         /\ ProposalId = 1..Len(proposals) /\ Len(proposals) \in Nat
BY DEF GovernanceTypeOK, ProposalId

(* A list with the same positions is of the same type.                       *)
LEMMA SameList ==
  ASSUME GovernanceTypeOK, proposals' \in [ProposalId -> ProposalRecord]
  PROVE  proposals' \in Seq(ProposalRecord) /\ ProposalId' = ProposalId
<1>1. proposals' \in [1..Len(proposals) -> ProposalRecord] /\ Len(proposals) \in Nat
  BY ProposalList
<1> QED BY <1>1, ProposalList DEF ProposalId

LEMMA ThresholdFields ==
  ASSUME NEW p, NEW q, p.yes = q.yes, p.no = q.no, p.threshold = q.threshold
  PROVE  ThresholdMet(p) <=> ThresholdMet(q)
BY DEF ThresholdMet

LEMMA GovernanceStarts ==
  ASSUME GovernanceAssumption, GovernanceInit
  PROVE  GovernanceIInv
<1>1. proposals \in Seq(ProposalRecord) /\ ProposalId = {} BY DEF GovernanceInit, ProposalId
<1>2. DOMAIN pendingAction = {} /\ DOMAIN voterRecords = {} BY DEF GovernanceInit
<1>3. IsFiniteSet(DOMAIN voterRecords) BY <1>2, FS_EmptySet
<1>4. GovernanceTypeOK BY <1>1, <1>2 DEF GovernanceInit, GovernanceTypeOK, GovernanceAssumption
<1> QED BY <1>1, <1>3, <1>4 DEF GovernanceIInv, FinalizedIsOver, ExecutedForGood, TallyMatchesRecords

(* The records of one proposal and side weigh an integer.                    *)
LEMMA CastIsFinite ==
  ASSUME GovernanceAssumption, GovernanceIInv, NEW id, NEW isYes
  PROVE  /\ IsFiniteSet(Cast(id, isYes))
         /\ \A r \in Cast(id, isYes) : voterRecords[r].weight \in Int
         /\ WeightOf(Cast(id, isYes)) \in Int
<1>1. IsFiniteSet(Cast(id, isYes))
  <2>1. Cast(id, isYes) \subseteq DOMAIN voterRecords BY DEF Cast
  <2> QED BY <2>1, FS_Subset DEF GovernanceIInv
<1>2. \A r \in Cast(id, isYes) : voterRecords[r].weight \in Int
  BY DEF Cast, GovernanceIInv, GovernanceTypeOK, GovernanceAssumption
<1> QED BY <1>1, <1>2, SumType DEF WeightOf

(* A proposal is created: nobody has voted on it.                            *)
LEMMA StepCreates ==
  ASSUME GovernanceAssumption, GovernanceIInv, NEW action \in Action \cup {NoAction},
         NEW threshold \in Threshold, CreateProposal(action, threshold)
  PROVE  GovernancePreserved
<1> DEFINE fresh == [expiresAt |-> ballotTime + VotingPeriod, threshold |-> threshold, yes |-> 0, no |-> 0,
                     finalized |-> FALSE, executed |-> FALSE]
           last == Len(proposals) + 1
<1>1. /\ proposals' = Append(proposals, fresh) /\ UNCHANGED <<ballotTime, voterRecords>>
      /\ fresh \in ProposalRecord /\ proposals \in Seq(ProposalRecord)
  BY DEF CreateProposal, ProposalRecord, GovernanceIInv, GovernanceTypeOK, GovernanceAssumption
<1>2. /\ fresh.yes = 0 /\ fresh.no = 0 /\ ~ fresh.finalized /\ ~ fresh.executed OBVIOUS
<1> HIDE DEF fresh
<1>3. /\ proposals' \in Seq(ProposalRecord) /\ Len(proposals') = last
      /\ \A id \in ProposalId : proposals'[id] = proposals[id]
      /\ proposals'[last] = fresh
      /\ ProposalId' = ProposalId \cup {last} /\ last \notin ProposalId
  BY <1>1, AppendProperties, LenProperties DEF ProposalId
<1>4. /\ DOMAIN pendingAction' \subseteq ProposalId'
      /\ pendingAction' \in [DOMAIN pendingAction' -> Action]
      /\ \A id \in DOMAIN pendingAction : id \in DOMAIN pendingAction' /\ pendingAction'[id] = pendingAction[id]
      /\ DOMAIN pendingAction' \subseteq DOMAIN pendingAction \cup {last}
  BY <1>3 DEF CreateProposal, GovernanceIInv, GovernanceTypeOK
<1>5. GovernanceTypeOK' BY <1>1, <1>3, <1>4 DEF GovernanceIInv, GovernanceTypeOK
<1>6. FinalizedIsOver' BY <1>1, <1>2, <1>3 DEF GovernanceIInv, FinalizedIsOver
<1>7. ExecutedForGood'
  <2> SUFFICES ASSUME NEW id \in ProposalId', proposals'[id].executed
               PROVE  /\ proposals'[id].finalized /\ ThresholdMet(proposals'[id])
                      /\ id \notin DOMAIN pendingAction'
    BY DEF ExecutedForGood
  <2>1. id \in ProposalId /\ id # last BY <1>2, <1>3
  <2> QED BY <2>1, <1>3, <1>4 DEF GovernanceIInv, ExecutedForGood
<1>8. TallyMatchesRecords'
  <2>1. ASSUME NEW id, NEW isYes PROVE Cast(id, isYes)' = Cast(id, isYes) /\ WeightOf(Cast(id, isYes))' = WeightOf(Cast(id, isYes))
    BY <1>1 DEF Cast, WeightOf
  <2>2. ASSUME NEW isYes PROVE I128(WeightOf(Cast(last, isYes))) = 0
    <3>1. Cast(last, isYes) = {} BY <1>3 DEF Cast, GovernanceIInv, GovernanceTypeOK
    <3> QED BY <3>1, SumEmpty, I128OfZero DEF WeightOf, GovernanceAssumption
  <2> SUFFICES ASSUME NEW id \in ProposalId'
               PROVE  /\ proposals'[id].yes = I128(WeightOf(Cast(id, TRUE)))
                      /\ proposals'[id].no  = I128(WeightOf(Cast(id, FALSE)))
    BY <2>1 DEF TallyMatchesRecords
  <2> QED BY <2>2, <1>2, <1>3 DEF GovernanceIInv, TallyMatchesRecords
<1>9. TallyKept BY <1>3 DEF TallyKept
<1>10. ActionKept BY <1>4 DEF ActionKept
<1>11. IsFiniteSet(DOMAIN voterRecords)' BY <1>1 DEF GovernanceIInv
<1> QED BY <1>5, <1>6, <1>7, <1>8, <1>9, <1>10, <1>11 DEF GovernanceIInv, GovernancePreserved

(* A vote: the voter's record and the tally take the same weight.  What was  *)
(* finalized takes none.                                                     *)
LEMMA StepVotes ==
  ASSUME GovernanceAssumption, GovernanceIInv, NEW voter \in Voter, NEW id \in ProposalId,
         NEW weight \in Weight, NEW isYes \in BOOLEAN, Vote(voter, id, weight, isYes)
  PROVE  GovernancePreserved
<1> DEFINE mine == <<id, voter>>
<1>1. /\ ballotTime <= proposals[id].expiresAt /\ mine \notin DOMAIN voterRecords
      /\ proposals' = [proposals EXCEPT ![id] = Tallied(@, weight, isYes)]
      /\ voterRecords' = [r \in DOMAIN voterRecords \cup {mine} |->
           IF r = mine THEN [weight |-> weight, isYes |-> isYes] ELSE voterRecords[r]]
      /\ UNCHANGED <<ballotTime, pendingAction>>
  BY DEF Vote
<1>2. proposals \in [ProposalId -> ProposalRecord] BY ProposalList DEF GovernanceIInv
<1>3. weight \in Int BY DEF GovernanceAssumption
<1>4. proposals[id].yes \in Int /\ proposals[id].no \in Int BY <1>2 DEF ProposalRecord
<1>5. I128(proposals[id].yes + weight) \in Int /\ I128(proposals[id].no + weight) \in Int
  <2>1. proposals[id].yes + weight \in Int /\ proposals[id].no + weight \in Int BY <1>3, <1>4
  <2> QED BY <2>1, I128OfSum DEF GovernanceAssumption
<1>6. proposals' \in [ProposalId -> ProposalRecord]
  <2>1. Tallied(proposals[id], weight, isYes) \in ProposalRecord
    BY <1>2, <1>5 DEF Tallied, ProposalRecord
  <2> QED BY <2>1, <1>1, <1>2
<1>7. /\ \A p \in ProposalId : p # id => proposals'[p] = proposals[p]
      /\ proposals'[id].expiresAt = proposals[id].expiresAt
      /\ proposals'[id].finalized = proposals[id].finalized
      /\ proposals'[id].executed = proposals[id].executed
      /\ proposals'[id].yes = IF isYes THEN I128(proposals[id].yes + weight) ELSE proposals[id].yes
      /\ proposals'[id].no  = IF isYes THEN proposals[id].no ELSE I128(proposals[id].no + weight)
  BY <1>1, <1>2 DEF Tallied, ProposalRecord
<1>8. ~ proposals[id].finalized
  <2>1. ballotTime \in Int /\ proposals[id].expiresAt \in Int BY <1>2 DEF GovernanceIInv, GovernanceTypeOK, ProposalRecord, GovernanceAssumption
  <2> QED BY <2>1, <1>1 DEF GovernanceIInv, FinalizedIsOver
<1>9. proposals' \in Seq(ProposalRecord) /\ ProposalId' = ProposalId BY <1>6, SameList DEF GovernanceIInv
<1>10. /\ voterRecords' \in [DOMAIN voterRecords' -> [weight : Weight, isYes : BOOLEAN]]
       /\ DOMAIN voterRecords' = DOMAIN voterRecords \cup {mine}
       /\ DOMAIN voterRecords' \subseteq ProposalId \X Voter
  <2>1. [weight |-> weight, isYes |-> isYes] \in [weight : Weight, isYes : BOOLEAN] OBVIOUS
  <2>2. voterRecords \in [DOMAIN voterRecords -> [weight : Weight, isYes : BOOLEAN]]
    BY DEF GovernanceIInv, GovernanceTypeOK
  <2>3. DOMAIN voterRecords \subseteq ProposalId \X Voter BY DEF GovernanceIInv, GovernanceTypeOK
  <2>4. mine \in ProposalId \X Voter OBVIOUS
  <2> HIDE DEF mine
  <2>5. /\ voterRecords' \in [DOMAIN voterRecords' -> [weight : Weight, isYes : BOOLEAN]]
        /\ DOMAIN voterRecords' = DOMAIN voterRecords \cup {mine}
    BY <1>1, <2>1, <2>2, OneMore
  <2> QED BY <2>3, <2>4, <2>5
<1>11. GovernanceTypeOK' BY <1>1, <1>9, <1>10 DEF GovernanceIInv, GovernanceTypeOK
<1>12. IsFiniteSet(DOMAIN voterRecords)'
  <2> HIDE DEF mine
  <2>1. IsFiniteSet(DOMAIN voterRecords \cup {mine}) BY FS_AddElement DEF GovernanceIInv
  <2> QED BY <2>1, <1>10
<1>13. FinalizedIsOver' BY <1>1, <1>7, <1>8, <1>9 DEF GovernanceIInv, FinalizedIsOver
<1>14. ExecutedForGood' BY <1>1, <1>7, <1>8, <1>9 DEF GovernanceIInv, ExecutedForGood
<1>15. TallyKept BY <1>7, <1>8 DEF TallyKept
<1>16. ActionKept BY <1>1 DEF ActionKept
<1>17. ASSUME NEW p, NEW side, p # id \/ side # isYes
       PROVE  WeightOf(Cast(p, side))' = WeightOf(Cast(p, side))
  <2>1. Cast(p, side)' = Cast(p, side) BY <1>17, <1>1, <1>10 DEF Cast
  <2>2. \A r \in Cast(p, side) : voterRecords'[r] = voterRecords[r] BY <1>1 DEF Cast
  <2>3. [r \in Cast(p, side) |-> voterRecords'[r].weight] = [r \in Cast(p, side) |-> voterRecords[r].weight]
    BY <2>2
  <2> QED BY <2>1, <2>3 DEF WeightOf
<1>18. WeightOf(Cast(id, isYes))' = WeightOf(Cast(id, isYes)) + weight
  <2> DEFINE S == Cast(id, isYes)
             T == S \cup {mine}
             f == [r \in S |-> voterRecords[r].weight]
             g == [r \in T |-> voterRecords'[r].weight]
  <2>1. Cast(id, isYes)' = T
    <3>1. mine[1] = id /\ voterRecords'[mine].isYes = isYes BY <1>1
    <3>2. \A q \in DOMAIN voterRecords : voterRecords'[q] = voterRecords[q] BY <1>1
    <3> HIDE DEF mine
    <3> SUFFICES ASSUME NEW q PROVE q \in Cast(id, isYes)' <=> q \in T OBVIOUS
    <3>3. q \in Cast(id, isYes)' <=> q \in DOMAIN voterRecords' /\ q[1] = id /\ voterRecords'[q].isYes = isYes
      BY DEF Cast
    <3>4. q \in S <=> q \in DOMAIN voterRecords /\ q[1] = id /\ voterRecords[q].isYes = isYes
      BY DEF Cast
    <3> HIDE DEF S
    <3>5. q \in DOMAIN voterRecords' <=> q \in DOMAIN voterRecords \/ q = mine BY <1>10
    <3> QED BY <3>1, <3>2, <3>3, <3>4, <3>5
  <2>2. mine \notin S /\ IsFiniteSet(S) /\ \A r \in S : voterRecords[r].weight \in Int
    <3>1. IsFiniteSet(S) /\ \A r \in S : voterRecords[r].weight \in Int BY CastIsFinite
    <3>2. mine \notin S BY <1>1 DEF Cast
    <3> QED BY <3>1, <3>2
  <2>3. /\ g[mine] = weight /\ mine \in T /\ T \ {mine} = S
        /\ \A r \in S : g[r] = f[r] /\ f[r] \in Int
    <3>1. \A r \in S : voterRecords'[r] = voterRecords[r] BY <1>1, <2>2 DEF Cast
    <3>2. voterRecords'[mine].weight = weight BY <1>1
    <3> QED BY <2>2, <3>1, <3>2
  <2>4. IsFiniteSet(T) BY <2>2, FS_AddElement
  <2>5. WeightOf(Cast(id, isYes))' = SumFunctionOnSet(g, T) BY <2>1 DEF WeightOf
  <2>6. WeightOf(Cast(id, isYes)) = SumFunctionOnSet(f, S) BY DEF WeightOf
  <2> HIDE DEF S, T, f, g
  <2>7. \A r \in T : g[r] \in Int BY <2>3, <1>3
  <2>8. SumFunctionOnSet(g, T) = g[mine] + SumFunctionOnSet(g, S) BY <2>3, <2>4, <2>7, SumTake
  <2>9. SumFunctionOnSet(g, S) = SumFunctionOnSet(f, S) BY <2>2, <2>3, SumAgree
  <2>10. SumFunctionOnSet(f, S) \in Int BY <2>2, <2>3, SumType
  <2> QED BY <2>3, <2>5, <2>6, <2>8, <2>9, <2>10, <1>3
<1>19. ASSUME NEW side \in BOOLEAN PROVE WeightOf(Cast(id, side)) \in Int BY CastIsFinite
<1>20. TallyMatchesRecords'
  <2> SUFFICES ASSUME NEW p \in ProposalId
               PROVE  /\ proposals'[p].yes = I128(WeightOf(Cast(p, TRUE))')
                      /\ proposals'[p].no  = I128(WeightOf(Cast(p, FALSE))')
    BY <1>9 DEF TallyMatchesRecords
  <2>1. /\ proposals[p].yes = I128(WeightOf(Cast(p, TRUE)))
        /\ proposals[p].no  = I128(WeightOf(Cast(p, FALSE)))
    BY DEF GovernanceIInv, TallyMatchesRecords
  <2>2. CASE p # id BY <2>1, <2>2, <1>7, <1>17
  <2>3. CASE p = id /\ isYes = TRUE
    <3>1. WeightOf(Cast(p, FALSE))' = WeightOf(Cast(p, FALSE)) BY <2>3, <1>17
    <3>2. WeightOf(Cast(p, TRUE))' = WeightOf(Cast(p, TRUE)) + weight BY <2>3, <1>18
    <3>3. I128(proposals[p].yes + weight) = I128(WeightOf(Cast(p, TRUE)) + weight)
      <4>1. WeightOf(Cast(p, TRUE)) \in Int BY <2>3, <1>19
      <4>2. I128(I128(WeightOf(Cast(p, TRUE))) + weight) = I128(WeightOf(Cast(p, TRUE)) + weight)
        BY <4>1, <1>3, I128OfSum DEF GovernanceAssumption
      <4> QED BY <4>2, <2>1
    <3> QED BY <2>1, <2>3, <3>1, <3>2, <3>3, <1>7
  <2>4. CASE p = id /\ isYes = FALSE
    <3>1. WeightOf(Cast(p, TRUE))' = WeightOf(Cast(p, TRUE)) BY <2>4, <1>17
    <3>2. WeightOf(Cast(p, FALSE))' = WeightOf(Cast(p, FALSE)) + weight BY <2>4, <1>18
    <3>3. I128(proposals[p].no + weight) = I128(WeightOf(Cast(p, FALSE)) + weight)
      <4>1. WeightOf(Cast(p, FALSE)) \in Int BY <2>4, <1>19
      <4>2. I128(I128(WeightOf(Cast(p, FALSE))) + weight) = I128(WeightOf(Cast(p, FALSE)) + weight)
        BY <4>1, <1>3, I128OfSum DEF GovernanceAssumption
      <4> QED BY <4>2, <2>1
    <3> QED BY <2>1, <2>4, <3>1, <3>2, <3>3, <1>7
  <2> QED BY <2>2, <2>3, <2>4
<1> QED BY <1>11, <1>12, <1>13, <1>14, <1>15, <1>16, <1>20 DEF GovernanceIInv, GovernancePreserved

(* Finalizing and executing change two flags: tallies and records stay.      *)
LEMMA StepFlags ==
  ASSUME GovernanceAssumption, GovernanceIInv, UNCHANGED <<ballotTime, voterRecords>>,
         proposals' \in [ProposalId -> ProposalRecord],
         pendingAction' \in [DOMAIN pendingAction' -> Action],
         DOMAIN pendingAction' \subseteq DOMAIN pendingAction,
         \A p \in ProposalId :
           /\ proposals'[p].yes = proposals[p].yes /\ proposals'[p].no = proposals[p].no
           /\ proposals'[p].expiresAt = proposals[p].expiresAt
           /\ proposals'[p].threshold = proposals[p].threshold
           /\ proposals[p].finalized => proposals'[p].finalized
           /\ proposals'[p].finalized => proposals[p].finalized \/ ballotTime > proposals[p].expiresAt
           /\ proposals'[p].executed => proposals[p].executed
                \/ (Executable(p) /\ p \notin DOMAIN pendingAction'),
         ActionKept
  PROVE  GovernancePreserved
<1>1. proposals' \in Seq(ProposalRecord) /\ ProposalId' = ProposalId BY SameList DEF GovernanceIInv
<1>2. GovernanceTypeOK' BY <1>1, ProposalList DEF GovernanceIInv, GovernanceTypeOK
<1>3. FinalizedIsOver' BY <1>1 DEF GovernanceIInv, FinalizedIsOver
<1>4. ExecutedForGood'
  <2> SUFFICES ASSUME NEW p \in ProposalId, proposals'[p].executed
               PROVE  /\ proposals'[p].finalized /\ ThresholdMet(proposals'[p])
                      /\ p \notin DOMAIN pendingAction'
    BY <1>1 DEF ExecutedForGood
  <2>1. proposals[p].finalized /\ ThresholdMet(proposals[p]) /\ p \notin DOMAIN pendingAction'
    BY DEF GovernanceIInv, ExecutedForGood, Executable
  <2> QED BY <2>1, ThresholdFields
<1>5. TallyMatchesRecords'
  <2>1. voterRecords' = voterRecords OBVIOUS
  <2>2. ASSUME NEW p, NEW side PROVE WeightOf(Cast(p, side))' = WeightOf(Cast(p, side))
    <3>1. Cast(p, side)' = Cast(p, side) BY <2>1 DEF Cast
    <3>2. [q \in Cast(p, side) |-> voterRecords[q].weight]' = [q \in Cast(p, side) |-> voterRecords[q].weight]
      BY <2>1, <3>1
    <3> QED BY <3>1, <3>2 DEF WeightOf
  <2> SUFFICES ASSUME NEW p \in ProposalId
               PROVE  /\ proposals'[p].yes = I128(WeightOf(Cast(p, TRUE))')
                      /\ proposals'[p].no  = I128(WeightOf(Cast(p, FALSE))')
    BY <1>1 DEF TallyMatchesRecords
  <2>3. /\ proposals[p].yes = I128(WeightOf(Cast(p, TRUE)))
        /\ proposals[p].no  = I128(WeightOf(Cast(p, FALSE)))
    BY DEF GovernanceIInv, TallyMatchesRecords
  <2>4. proposals'[p].yes = proposals[p].yes /\ proposals'[p].no = proposals[p].no OBVIOUS
  <2> QED BY <2>2, <2>3, <2>4
<1>6. TallyKept BY DEF TallyKept
<1>7. IsFiniteSet(DOMAIN voterRecords)' BY DEF GovernanceIInv
<1> QED BY <1>2, <1>3, <1>4, <1>5, <1>6, <1>7 DEF GovernanceIInv, GovernancePreserved

LEMMA StepFinalizes ==
  ASSUME GovernanceAssumption, GovernanceIInv, NEW id \in ProposalId, FinalizeProposal(id)
  PROVE  GovernancePreserved
<1>1. proposals \in [ProposalId -> ProposalRecord] BY ProposalList DEF GovernanceIInv
<1>2. /\ ballotTime > proposals[id].expiresAt /\ UNCHANGED <<ballotTime, pendingAction, voterRecords>>
      /\ proposals' = [proposals EXCEPT ![id].finalized = TRUE]
  BY DEF FinalizeProposal
<1>3. proposals' \in [ProposalId -> ProposalRecord] BY <1>1, <1>2 DEF ProposalRecord
<1>4. \A p \in ProposalId :
        /\ proposals'[p].yes = proposals[p].yes /\ proposals'[p].no = proposals[p].no
        /\ proposals'[p].expiresAt = proposals[p].expiresAt
        /\ proposals'[p].threshold = proposals[p].threshold
        /\ proposals[p].finalized => proposals'[p].finalized
        /\ proposals'[p].finalized => proposals[p].finalized \/ ballotTime > proposals[p].expiresAt
        /\ proposals'[p].executed => proposals[p].executed
  BY <1>1, <1>2 DEF ProposalRecord
<1>5. ActionKept BY <1>2 DEF ActionKept
<1>6. /\ pendingAction' \in [DOMAIN pendingAction' -> Action]
      /\ DOMAIN pendingAction' \subseteq DOMAIN pendingAction
  BY <1>2 DEF GovernanceIInv, GovernanceTypeOK
<1>7. UNCHANGED <<ballotTime, voterRecords>> BY <1>2
<1>8. ASSUME NEW p \in ProposalId, proposals'[p].executed
      PROVE  proposals[p].executed \/ (Executable(p) /\ p \notin DOMAIN pendingAction')
  <2>1. proposals'[p].executed => proposals[p].executed BY <1>4, Zenon
  <2> QED BY <2>1, <1>8
<1> QED BY <1>3, <1>4, <1>5, <1>6, <1>7, <1>8, StepFlags

LEMMA GovernanceStepExecutes ==
  ASSUME GovernanceAssumption, GovernanceIInv, NEW id \in ProposalId, ExecuteProposal(id)
  PROVE  GovernancePreserved
<1>1. proposals \in [ProposalId -> ProposalRecord] BY ProposalList DEF GovernanceIInv
<1>2. /\ Executable(id) /\ UNCHANGED <<ballotTime, voterRecords>>
      /\ proposals' = [proposals EXCEPT ![id].executed = TRUE]
      /\ pendingAction' = [p \in DOMAIN pendingAction \ {id} |-> pendingAction[p]]
  BY DEF ExecuteProposal, Restrict
<1>3. proposals' \in [ProposalId -> ProposalRecord] BY <1>1, <1>2 DEF ProposalRecord
<1>4. \A p \in ProposalId :
        /\ proposals'[p].yes = proposals[p].yes /\ proposals'[p].no = proposals[p].no
        /\ proposals'[p].expiresAt = proposals[p].expiresAt
        /\ proposals'[p].threshold = proposals[p].threshold
        /\ proposals'[p].finalized = proposals[p].finalized
        /\ p # id => proposals'[p] = proposals[p]
        /\ p = id => proposals'[p].executed
  BY <1>1, <1>2 DEF ProposalRecord
<1>5. /\ DOMAIN pendingAction' = DOMAIN pendingAction \ {id}
      /\ pendingAction' \in [DOMAIN pendingAction' -> Action]
  BY <1>2 DEF GovernanceIInv, GovernanceTypeOK
<1>6. ActionKept BY <1>2, <1>4 DEF ActionKept
<1>7. ASSUME NEW p \in ProposalId, proposals'[p].executed
      PROVE  proposals[p].executed \/ (Executable(p) /\ p \notin DOMAIN pendingAction')
  <2>1. CASE p = id BY <2>1, <1>2, <1>5
  <2>2. CASE p # id
    <3>1. proposals'[p] = proposals[p] BY <2>2, <1>4
    <3> QED BY <3>1, <1>7
  <2> QED BY <2>1, <2>2
<1>8. DOMAIN pendingAction' \subseteq DOMAIN pendingAction BY <1>5
<1>9. \A p \in ProposalId : proposals'[p].finalized => proposals[p].finalized \/ ballotTime > proposals[p].expiresAt
  BY <1>4
<1> QED BY <1>2, <1>3, <1>4, <1>5, <1>6, <1>7, <1>8, <1>9, StepFlags

(* Time passes, or nothing happens.                                          *)
LEMMA StepWaits ==
  ASSUME GovernanceAssumption, GovernanceIInv, BallotTick \/ UNCHANGED governanceVars
  PROVE  GovernancePreserved
<1>1. UNCHANGED governanceState /\ ballotTime' \in 0..BallotLastTime /\ ballotTime' >= ballotTime
  <2>1. ballotTime \in 0..BallotLastTime /\ BallotLastTime \in Nat
    BY DEF GovernanceIInv, GovernanceTypeOK, GovernanceAssumption
  <2>2. CASE UNCHANGED governanceVars BY <2>1, <2>2 DEF governanceVars
  <2>3. CASE BallotTick BY <2>1, <2>3 DEF BallotTick
  <2> QED BY <2>2, <2>3
<1>2. GovernanceTypeOK' BY <1>1 DEF GovernanceIInv, GovernanceTypeOK, governanceState, ProposalId
<1>3. FinalizedIsOver'
  <2>1. \A p \in ProposalId : proposals[p].expiresAt \in Int BY ProposalList DEF GovernanceIInv, ProposalRecord
  <2>2. ballotTime \in Int BY DEF GovernanceIInv, GovernanceTypeOK, GovernanceAssumption
  <2> QED BY <1>1, <2>1, <2>2 DEF GovernanceIInv, FinalizedIsOver, governanceState, ProposalId
<1>4. ExecutedForGood' BY <1>1 DEF GovernanceIInv, ExecutedForGood, governanceState, ProposalId
<1>5. TallyMatchesRecords'
  BY <1>1, ZenonT(40) DEF GovernanceIInv, TallyMatchesRecords, governanceState, ProposalId, WeightOf, Cast
<1>6. TallyKept /\ ActionKept BY <1>1 DEF TallyKept, ActionKept, governanceState
<1>7. IsFiniteSet(DOMAIN voterRecords)' BY <1>1 DEF GovernanceIInv, governanceState
<1> QED BY <1>2, <1>3, <1>4, <1>5, <1>6, <1>7 DEF GovernanceIInv, GovernancePreserved

LEMMA GovernanceStep ==
  ASSUME GovernanceAssumption, GovernanceIInv, [GovernanceNext]_governanceVars
  PROVE  GovernancePreserved
<1>1. CASE OwnStep BY <1>1, StepCreates, StepVotes, StepFinalizes DEF OwnStep
<1>2. ASSUME NEW id \in ProposalId, ExecuteProposal(id) PROVE GovernancePreserved BY <1>2, GovernanceStepExecutes
<1>3. CASE BallotTick \/ UNCHANGED governanceVars BY <1>3, StepWaits
<1> QED BY <1>1, <1>2, <1>3 DEF GovernanceNext

-----------------------------------------------------------------------------
(* Every reachable state satisfies the invariant.                            *)
THEOREM GovernanceInvariant ==
  ASSUME GovernanceAssumption
  PROVE  GovernanceSpec => []GovernanceIInv
<1>1. GovernanceInit => GovernanceIInv BY GovernanceStarts
<1>2. GovernanceIInv /\ [GovernanceNext]_governanceVars => GovernanceIInv' BY GovernanceStep DEF GovernancePreserved
<1> QED BY <1>1, <1>2, PTL DEF GovernanceSpec

(* The tally is what the voters' records add up to in the integers of the    *)
(* build, which wrap, for every width of them and every weight.              *)
THEOREM GovernanceTallies ==
  ASSUME GovernanceAssumption
  PROVE  GovernanceSpec => []TallyMatchesRecords
<1>1. GovernanceIInv => TallyMatchesRecords BY DEF GovernanceIInv
<1> QED BY <1>1, GovernanceInvariant, PTL

(* What was executed was finalized and had reached its threshold, and its    *)
(* action is gone.                                                           *)
THEOREM GovernanceExecutes ==
  ASSUME GovernanceAssumption
  PROVE  GovernanceSpec => []ExecutedForGood
<1>1. GovernanceIInv => ExecutedForGood BY DEF GovernanceIInv
<1> QED BY <1>1, GovernanceInvariant, PTL

(* No vote reaches a proposal that is finalized.                             *)
THEOREM GovernanceFinality ==
  ASSUME GovernanceAssumption
  PROVE  GovernanceSpec => TallyIsFinal
<1>1. GovernanceIInv /\ [GovernanceNext]_governanceVars => [TallyKept]_governanceVars BY GovernanceStep DEF GovernancePreserved
<1>2. TallyKept => \A id \in ProposalId : proposals[id].finalized =>
        /\ proposals'[id].finalized
        /\ proposals'[id].yes = proposals[id].yes
        /\ proposals'[id].no  = proposals[id].no
  BY DEF TallyKept
<1> QED BY <1>1, <1>2, GovernanceInvariant, PTL DEF GovernanceSpec, TallyIsFinal

(* An action leaves the store only with the execution of its proposal.       *)
THEOREM GovernanceKeepsActions ==
  ASSUME GovernanceAssumption
  PROVE  GovernanceSpec => PendingUntilExecuted
<1>1. GovernanceIInv /\ [GovernanceNext]_governanceVars => [ActionKept]_governanceVars BY GovernanceStep DEF GovernancePreserved
<1>2. ActionKept => \A id \in DOMAIN pendingAction :
        \/ id \in DOMAIN pendingAction' /\ pendingAction'[id] = pendingAction[id]
        \/ proposals'[id].executed
  BY DEF ActionKept
<1> QED BY <1>1, <1>2, GovernanceInvariant, PTL DEF GovernanceSpec, PendingUntilExecuted

(*****************************************************************************)
(* The bridge                                                                *)
(*****************************************************************************)

RequestStatus == {"Pending", "Locked", "Completed", "Failed"}
RequestRecord ==
  [sender : BridgeUser, required : MinSignatures..MaxSignatures, expiresAt : {NoExpiry} \cup Nat,
   signatures : SUBSET Operator, status : RequestStatus]

(* One request and the executions since its last retry.                      *)
Answers(request) ==
  /\ IsFiniteSet(request.signatures)
  /\ request.status \in {"Locked", "Completed"} =>
       Cardinality(request.signatures) >= request.required
Executes(request, n) ==
  n > 0 => n + request.required
             <= Cardinality(request.signatures) + (IF request.status = "Locked" THEN 0 ELSE 1)

Lists ==
  /\ requests \in Seq(RequestRecord)
  /\ executions \in [RequestId -> Nat]
  /\ bridgeTime \in Nat

(* The inductive invariant.                                                  *)
BridgeIInv ==
  /\ Lists
  /\ \A id \in RequestId : Answers(requests[id]) /\ Executes(requests[id], executions[id])

-----------------------------------------------------------------------------
LEMMA RequestList ==
  ASSUME Lists
  PROVE  /\ requests \in [RequestId -> RequestRecord]
         /\ RequestId = 1..Len(requests) /\ Len(requests) \in Nat
BY DEF Lists, RequestId

LEMMA BridgeStarts ==
  ASSUME BridgeAssumption, BridgeInit
  PROVE  BridgeIInv
<1>1. requests \in Seq(RequestRecord) /\ RequestId = {} BY DEF BridgeInit, RequestId
<1>2. executions \in [RequestId -> Nat] BY <1>1 DEF BridgeInit
<1>3. bridgeTime \in Nat BY DEF BridgeInit
<1> QED BY <1>1, <1>2, <1>3 DEF BridgeIInv, Lists

(* A step that changes the requests there are.                               *)
LEMMA StepChanges ==
  ASSUME BridgeIInv, bridgeTime' \in Nat,
         requests' \in [RequestId -> RequestRecord], executions' \in [RequestId -> Nat],
         \A id \in RequestId : Answers(requests'[id]) /\ Executes(requests'[id], executions'[id])
  PROVE  BridgeIInv'
<1>1. Len(requests) \in Nat /\ RequestId = 1..Len(requests) BY RequestList DEF BridgeIInv
<1>2. requests' \in Seq(RequestRecord) /\ RequestId' = RequestId BY <1>1 DEF RequestId
<1> QED BY <1>2 DEF BridgeIInv, Lists

(* A step about one request.                                                 *)
LEMMA StepChangesOne ==
  ASSUME BridgeIInv, bridgeTime' = bridgeTime, NEW id \in RequestId, NEW request \in RequestRecord, NEW n \in Nat,
         requests' = [requests EXCEPT ![id] = request],
         executions' = [executions EXCEPT ![id] = n],
         Answers(request), Executes(request, n)
  PROVE  BridgeIInv'
<1>1. requests \in [RequestId -> RequestRecord] BY RequestList DEF BridgeIInv
<1>2. executions \in [RequestId -> Nat] /\ bridgeTime \in Nat BY DEF BridgeIInv, Lists
<1>3. requests' \in [RequestId -> RequestRecord] /\ executions' \in [RequestId -> Nat]
  BY <1>1, <1>2
<1>4. \A i \in RequestId : Answers(requests'[i]) /\ Executes(requests'[i], executions'[i])
  <2> TAKE i \in RequestId
  <2>1. CASE i = id BY <2>1, <1>1, <1>2
  <2>2. CASE i # id BY <2>2, <1>1, <1>2 DEF BridgeIInv
  <2> QED BY <2>1, <2>2
<1> QED BY <1>2, <1>3, <1>4, StepChanges

(* A new request has no answers.                                             *)
LEMMA StepInitiates ==
  ASSUME BridgeAssumption, BridgeIInv, NEW user \in BridgeUser, NEW required \in Required,
         NEW expiresAt \in Expiry, NEW n, InitiateBridge(user, required, expiresAt, n)
  PROVE  BridgeIInv'
<1> DEFINE fresh == [sender |-> user, required |-> required, expiresAt |-> expiresAt,
                     signatures |-> {}, status |-> "Pending"]
           last == Len(requests) + 1
<1>1. /\ requests' = Append(requests, fresh) /\ executions' = Append(executions, 0) /\ bridgeTime' = bridgeTime
      /\ required \in MinSignatures..MaxSignatures
  BY DEF InitiateBridge
<1>2. fresh \in RequestRecord
  <2>1. expiresAt \in {NoExpiry} \cup Nat BY DEF Expiry, BridgeAssumption, BridgeIInv, Lists
  <2> QED BY <1>1, <2>1 DEF RequestRecord, RequestStatus
<1>3. Answers(fresh) /\ Executes(fresh, 0) BY FS_EmptySet DEF Answers, Executes
<1> HIDE DEF fresh
<1>4. /\ requests' \in Seq(RequestRecord) /\ Len(requests') = last
      /\ \A id \in RequestId : requests'[id] = requests[id]
      /\ requests'[last] = fresh
      /\ RequestId' = RequestId \cup {last} /\ last \notin RequestId
  BY <1>1, <1>2, AppendProperties, LenProperties DEF RequestId, BridgeIInv, Lists
<1>5. /\ executions' \in [RequestId' -> Nat] /\ executions'[last] = 0
      /\ \A id \in RequestId : executions'[id] = executions[id]
  <2>1. executions \in [1..Len(requests) -> Nat] /\ Len(requests) \in Nat
    BY RequestList DEF BridgeIInv, Lists
  <2>2. executions \in Seq(Nat) /\ Len(executions) = Len(requests) BY <2>1
  <2>3. /\ Append(executions, 0) \in Seq(Nat)
        /\ Len(Append(executions, 0)) = Len(requests) + 1
        /\ \A i \in 1..Len(requests) : Append(executions, 0)[i] = executions[i]
        /\ Append(executions, 0)[Len(requests) + 1] = 0
    BY <2>2, AppendProperties
  <2>4. RequestId = 1..Len(requests) /\ RequestId' = 1..(Len(requests) + 1)
    <3>1. RequestId = 1..Len(requests) BY RequestList DEF BridgeIInv
    <3>2. DOMAIN requests' = 1..Len(requests') BY <1>4, LenProperties
    <3> QED BY <1>4, <3>1, <3>2 DEF RequestId
  <2>5. executions' \in [1..(Len(requests) + 1) -> Nat] BY <1>1, <2>3, LenProperties
  <2> QED BY <1>1, <2>3, <2>4, <2>5
<1>6. Lists' BY <1>1, <1>4, <1>5 DEF BridgeIInv, Lists
<1>7. \A id \in RequestId' : Answers(requests'[id]) /\ Executes(requests'[id], executions'[id])
  BY <1>3, <1>4, <1>5 DEF BridgeIInv
<1> QED BY <1>6, <1>7 DEF BridgeIInv

(* One more operator answers.                                                *)
LEMMA StepSigns ==
  ASSUME BridgeAssumption, BridgeIInv, operators \subseteq Operator, NEW operator \in Operator,
         NEW id \in RequestId, NEW approve \in BOOLEAN, SignBridgeRequest(operator, id, approve)
  PROVE  BridgeIInv'
<1> DEFINE request == requests[id]
           signed  == Answered(requests[id], operator, approve)
           signers == request.signatures \cup {operator}
<1>1. /\ operator \notin request.signatures /\ bridgeTime' = bridgeTime
      /\ requests' = [requests EXCEPT ![id] = signed] /\ executions' = executions
  BY DEF SignBridgeRequest
<1>2. /\ request \in RequestRecord /\ executions \in [RequestId -> Nat]
      /\ Answers(request) /\ Executes(request, executions[id])
  BY RequestList DEF BridgeIInv, Lists
<1>3. /\ IsFiniteSet(signers) /\ Cardinality(signers) = Cardinality(request.signatures) + 1
      /\ Cardinality(request.signatures) \in Nat
  BY <1>1, <1>2, FS_AddElement, FS_CardinalityType DEF Answers
<1>4. /\ signed \in RequestRecord /\ signed.signatures = signers /\ signed.required = request.required
      /\ signed.status = IF ~ approve THEN "Failed"
                         ELSE IF Cardinality(signers) >= request.required THEN "Locked"
                         ELSE request.status
  BY <1>2 DEF Answered, RequestRecord, RequestStatus
<1>5. request.required \in Nat BY <1>2 DEF RequestRecord, BridgeAssumption
<1>6. executions' = [executions EXCEPT ![id] = executions[id]] /\ executions[id] \in Nat BY <1>1, <1>2
<1> HIDE DEF request, signed, signers
<1>7. Answers(signed) BY <1>2, <1>3, <1>4, <1>5 DEF Answers
<1>8. Executes(signed, executions[id])
  BY <1>2, <1>3, <1>4, <1>5, <1>6 DEF Executes
<1> QED BY <1>1, <1>4, <1>6, <1>7, <1>8, StepChangesOne

(* An execution takes a locked request, which was answered often enough.     *)
LEMMA BridgeStepExecutes ==
  ASSUME BridgeAssumption, BridgeIInv, NEW operator \in Operator, NEW id \in RequestId,
         ExecuteBridge(operator, id)
  PROVE  BridgeIInv'
<1> DEFINE request == requests[id]
           done    == [request EXCEPT !.status = "Completed"]
           n       == executions[id]
<1>1. /\ request.status = "Locked" /\ bridgeTime' = bridgeTime
      /\ requests' = [requests EXCEPT ![id].status = "Completed"]
      /\ executions' = [executions EXCEPT ![id] = @ + 1]
  BY DEF ExecuteBridge
<1>2. /\ request \in RequestRecord /\ executions \in [RequestId -> Nat]
      /\ Answers(request) /\ Executes(request, n)
  BY RequestList DEF BridgeIInv, Lists
<1>3. /\ done \in RequestRecord /\ done.signatures = request.signatures
      /\ done.required = request.required /\ done.status = "Completed"
  BY <1>2 DEF RequestRecord, RequestStatus
<1>4. requests \in [RequestId -> RequestRecord] BY RequestList DEF BridgeIInv
<1>5. requests' = [requests EXCEPT ![id] = done] BY <1>1, <1>4
<1>6. executions' = [executions EXCEPT ![id] = n + 1] /\ n \in Nat BY <1>1, <1>2
<1>7. request.required \in Nat /\ Cardinality(request.signatures) \in Nat
  BY <1>2, FS_CardinalityType DEF RequestRecord, BridgeAssumption, Answers
<1> HIDE DEF request, done, n
<1>8. Answers(done) BY <1>1, <1>2, <1>3 DEF Answers
<1>9. Executes(done, n + 1)
  <2>1. Cardinality(request.signatures) >= request.required BY <1>1, <1>2 DEF Answers
  <2>2. n > 0 => n + request.required <= Cardinality(request.signatures)
    BY <1>1, <1>2, <1>6, <1>7 DEF Executes
  <2> QED BY <2>1, <2>2, <1>3, <1>6, <1>7 DEF Executes
<1>10. n + 1 \in Nat BY <1>6
<1> QED BY <1>1, <1>3, <1>5, <1>6, <1>8, <1>9, <1>10, StepChangesOne

(* A retry forgets the answers and starts a new count of executions.         *)
LEMMA StepRetries ==
  ASSUME BridgeAssumption, BridgeIInv, NEW id \in RequestId, RetryBridge(id)
  PROVE  BridgeIInv'
<1> DEFINE request == [requests[id] EXCEPT !.status = "Pending", !.signatures = {}]
<1>1. /\ requests' = [requests EXCEPT ![id].status = "Pending", ![id].signatures = {}]
      /\ executions' = [executions EXCEPT ![id] = 0] /\ bridgeTime' = bridgeTime
  BY DEF RetryBridge
<1>2. requests \in [RequestId -> RequestRecord] BY RequestList DEF BridgeIInv
<1>3. /\ request \in RequestRecord /\ request.signatures = {} /\ request.status = "Pending"
      /\ requests' = [requests EXCEPT ![id] = request]
  BY <1>1, <1>2 DEF RequestRecord, RequestStatus
<1> HIDE DEF request
<1>4. Answers(request) /\ Executes(request, 0) BY <1>3, FS_EmptySet DEF Answers, Executes
<1> QED BY <1>1, <1>3, <1>4, StepChangesOne

(* Time, the breaker and the list of operators leave the requests alone.     *)
LEMMA BridgeStepKeeps ==
  ASSUME BridgeIInv, UNCHANGED <<requests, executions>>, bridgeTime' \in Nat
  PROVE  BridgeIInv'
BY DEF BridgeIInv, Lists, RequestId

LEMMA BridgeStep ==
  ASSUME BridgeAssumption, BridgeIInv, operators \subseteq Operator, [BridgeNext]_bridgeVars
  PROVE  BridgeIInv' /\ operators' \subseteq Operator
<1>1. ASSUME NEW user \in BridgeUser, NEW required \in Required, NEW expiresAt \in Expiry,
             NEW n \in 1..RequestLimit, InitiateBridge(user, required, expiresAt, n)
      PROVE  BridgeIInv' /\ operators' = operators
  BY <1>1, StepInitiates DEF InitiateBridge
<1>2. ASSUME NEW operator \in Operator, NEW id \in RequestId, NEW approve \in BOOLEAN,
             SignBridgeRequest(operator, id, approve)
      PROVE  BridgeIInv' /\ operators' = operators
  BY <1>2, StepSigns DEF SignBridgeRequest
<1>3. ASSUME NEW operator \in Operator, NEW id \in RequestId, ExecuteBridge(operator, id)
      PROVE  BridgeIInv' /\ operators' = operators
  BY <1>3, BridgeStepExecutes DEF ExecuteBridge
<1>4. ASSUME NEW id \in RequestId, RetryBridge(id) PROVE BridgeIInv' /\ operators' = operators
  BY <1>4, StepRetries DEF RetryBridge
<1>5. ASSUME NEW operator \in Operator, AddOperator(operator) \/ RemoveOperator(operator)
      PROVE  BridgeIInv' /\ operators' \subseteq Operator
  BY <1>5, BridgeStepKeeps DEF AddOperator, RemoveOperator, auxiliary, BridgeIInv, Lists
<1>6. CASE BridgeTick \/ BreakerStep \/ UNCHANGED bridgeVars
  <2>1. UNCHANGED <<requests, executions, operators>> /\ bridgeTime' \in Nat
    BY <1>6 DEF BridgeTick, BreakerStep, bridgeVars, auxiliary, BridgeIInv, Lists
  <2> QED BY <2>1, BridgeStepKeeps
<1> QED BY <1>1, <1>2, <1>3, <1>4, <1>5, <1>6 DEF BridgeNext

-----------------------------------------------------------------------------
(* Every reachable state satisfies the invariant.                            *)
THEOREM BridgeInvariant ==
  ASSUME BridgeAssumption
  PROVE  BridgeSpec => [](BridgeIInv /\ operators \subseteq Operator)
<1>1. BridgeInit => BridgeIInv /\ operators \subseteq Operator
  BY BridgeStarts DEF BridgeInit, BridgeAssumption
<1>2. BridgeIInv /\ operators \subseteq Operator /\ [BridgeNext]_bridgeVars => BridgeIInv' /\ operators' \subseteq Operator
  BY BridgeStep
<1>3. BridgeIInv' /\ operators' \subseteq Operator => (BridgeIInv /\ operators \subseteq Operator)' OBVIOUS
<1> QED BY <1>1, <1>2, <1>3, PTL DEF BridgeSpec

(* A request is locked or executed only if as many different operators have  *)
(* answered since its last retry as it asks for, whoever is removed later.   *)
THEOREM BridgeLocks ==
  ASSUME BridgeAssumption
  PROVE  BridgeSpec => []LockedIsAnswered
<1>1. BridgeIInv => LockedIsAnswered BY DEF BridgeIInv, LockedIsAnswered, Answers
<1> QED BY <1>1, BridgeInvariant, PTL

(* Every execution of a request takes an answer of its own.                  *)
THEOREM BridgeExecutions ==
  ASSUME BridgeAssumption
  PROVE  BridgeSpec => []ExecutionsTakeSignatures
<1>1. BridgeIInv => ExecutionsTakeSignatures BY DEF BridgeIInv, ExecutionsTakeSignatures, Executes
<1> QED BY <1>1, BridgeInvariant, PTL

-----------------------------------------------------------------------------
(* The nonces, the counter of transactions and the histories: the invariant  *)
(* is BridgeTypeOK with CountersMatchRecords.                                *)
SentBy(list, u) == {id \in DOMAIN list : list[id].sender = u}

HistoriesOK ==
  /\ history \in [BridgeUser -> Seq(RequestId)] /\ transactions \in Nat
  /\ (\A u \in BridgeUser : Len(history[u]) < MaxHistory) =>
       transactions = SumFunctionOnSet([u \in BridgeUser |-> Len(history[u])], BridgeUser)

NoncesOK ==
  /\ requests \in Seq(RequestRecord) /\ nonce \in [BridgeUser -> Nat]
  /\ \A u \in BridgeUser : nonce[u] = Cardinality(SentBy(requests, u))

OperatorsOK ==
  /\ bridgeTime \in 0..BridgeLastTime /\ paused \in BOOLEAN
  /\ operators \subseteq Operator /\ operators # {}

LEMMA BooksOfBridge ==
  /\ OperatorsOK /\ NoncesOK /\ HistoriesOK <=> BridgeTypeOK /\ CountersMatchRecords
  /\ (OperatorsOK /\ NoncesOK /\ HistoriesOK)' <=> (BridgeTypeOK /\ CountersMatchRecords)'
BY DEF OperatorsOK, NoncesOK, HistoriesOK, BridgeTypeOK, CountersMatchRecords, SentBy, RequestId,
       RequestRecord, RequestStatus

(* A request that is answered, executed or retried keeps its sender.         *)
LEMMA SenderStays ==
  ASSUME NoncesOK, HistoriesOK, NEW id \in RequestId, NEW request \in RequestRecord,
         request.sender = requests[id].sender, requests' = [requests EXCEPT ![id] = request],
         nonce' = nonce
  PROVE  NoncesOK' /\ RequestId' = RequestId
<1>1. requests \in [RequestId -> RequestRecord] /\ RequestId = 1..Len(requests) /\ Len(requests) \in Nat
  BY DEF NoncesOK, RequestId
<1>2. /\ requests' \in [RequestId -> RequestRecord]
      /\ \A i \in RequestId : requests'[i].sender = requests[i].sender
  BY <1>1
<1>3. requests' \in Seq(RequestRecord) /\ RequestId' = RequestId BY <1>1, <1>2 DEF RequestId
<1>4. ASSUME NEW u \in BridgeUser PROVE SentBy(requests', u) = SentBy(requests, u)
  BY <1>2, <1>3 DEF SentBy, RequestId
<1> QED BY <1>3, <1>4 DEF NoncesOK

(* A new request is one more of its sender's.                                *)
LEMMA RequestTakesNonce ==
  ASSUME BridgeAssumption, OperatorsOK, NoncesOK, HistoriesOK, NEW user \in BridgeUser, NEW required \in Required,
         NEW expiresAt \in Expiry, NEW n, InitiateBridge(user, required, expiresAt, n)
  PROVE  NoncesOK' /\ HistoriesOK'
<1>1. PICK fresh : fresh = [sender |-> user, required |-> required, expiresAt |-> expiresAt,
                            signatures |-> {}, status |-> "Pending"] OBVIOUS
<1>2. /\ requests' = Append(requests, fresh) /\ nonce' = [nonce EXCEPT ![user] = nonce[user] + 1]
      /\ UNCHANGED <<transactions, history>> /\ required \in MinSignatures..MaxSignatures
  BY <1>1 DEF InitiateBridge
<1>3. fresh \in RequestRecord /\ fresh.sender = user
  <2>1. expiresAt \in {NoExpiry} \cup Nat BY DEF Expiry, BridgeAssumption, OperatorsOK
  <2> QED BY <1>1, <1>2, <2>1 DEF RequestRecord, RequestStatus
<1>4. PICK last : last = Len(requests) + 1 OBVIOUS
<1>5. /\ requests' \in Seq(RequestRecord) /\ requests'[last] = fresh
      /\ \A id \in RequestId : requests'[id] = requests[id]
      /\ RequestId' = RequestId \cup {last} /\ last \notin RequestId
  BY <1>2, <1>3, <1>4, AppendProperties, LenProperties DEF RequestId, NoncesOK
<1>6. NoncesOK'
  <2>1. ASSUME NEW u \in BridgeUser PROVE nonce'[u] = Cardinality(SentBy(requests', u))
    <3>1. nonce[u] = Cardinality(SentBy(requests, u)) /\ nonce \in [BridgeUser -> Nat] BY DEF NoncesOK
    <3>2. CASE u = user
      <4>1. SentBy(requests', u) = SentBy(requests, u) \cup {last} /\ last \notin SentBy(requests, u)
        BY <1>3, <1>5, <3>2 DEF SentBy, RequestId
      <4>2. IsFiniteSet(SentBy(requests, u))
        <5>1. Len(requests) \in Nat /\ DOMAIN requests = 1..Len(requests) BY LenProperties DEF NoncesOK
        <5>2. SentBy(requests, u) \subseteq DOMAIN requests BY DEF SentBy
        <5>3. IsFiniteSet(1..Len(requests)) BY <5>1, FS_Interval
        <5> QED BY <5>1, <5>2, <5>3, FS_Subset
      <4>3. Cardinality(SentBy(requests, u) \cup {last}) = Cardinality(SentBy(requests, u)) + 1
        BY <4>1, <4>2, FS_AddElement
      <4> QED BY <1>2, <3>1, <3>2, <4>1, <4>3
    <3>3. CASE u # user
      <4>1. SentBy(requests', u) = SentBy(requests, u) BY <1>3, <1>5, <3>3 DEF SentBy, RequestId
      <4> QED BY <1>2, <3>1, <3>3, <4>1
    <3> QED BY <3>2, <3>3
  <2>2. nonce' \in [BridgeUser -> Nat] BY <1>2 DEF NoncesOK
  <2> QED BY <1>5, <2>1, <2>2 DEF NoncesOK
<1>7. HistoriesOK'
  <2>1. history' \in [BridgeUser -> Seq(RequestId')]
    <3>1. ASSUME NEW u \in BridgeUser PROVE history[u] \in Seq(RequestId')
      <4>1. history[u] \in Seq(RequestId) BY DEF HistoriesOK
      <4> QED BY <1>5, <4>1
    <3>2. history \in [BridgeUser -> Seq(RequestId)] BY DEF HistoriesOK
    <3> QED BY <1>2, <3>1, <3>2
  <2> QED BY <1>2, <2>1 DEF HistoriesOK
<1> QED BY <1>6, <1>7

(* An execution is one transaction and, while no history is full, one entry; *)
(* a history that is full stays full.                                        *)
LEMMA ExecutionIsRecorded ==
  ASSUME BridgeAssumption, NoncesOK, HistoriesOK, NEW operator \in Operator, NEW id \in RequestId,
         ExecuteBridge(operator, id), RequestId' = RequestId
  PROVE  HistoriesOK'
<1>1. PICK user : user = requests[id].sender OBVIOUS
<1>2. user \in BridgeUser
  <2>1. requests[id] \in RequestRecord BY DEF NoncesOK, RequestId
  <2> QED BY <1>1, <2>1 DEF RequestRecord
<1>3. PICK past : past = history[user] OBVIOUS
<1>4. past \in Seq(RequestId) /\ Len(past) \in Nat BY <1>2, <1>3, LenProperties DEF HistoriesOK
<1>5. PICK now : now = Recorded(past, id) OBVIOUS
<1>6. /\ now \in Seq(RequestId)
      /\ Len(now) < MaxHistory => Len(past) < MaxHistory /\ Len(now) = Len(past) + 1
  <2>1. CASE Len(past) >= MaxHistory
    <3>1. past # <<>> BY <1>4, <2>1 DEF BridgeAssumption
    <3>2. Tail(past) \in Seq(RequestId) /\ Len(Tail(past)) = Len(past) - 1 BY <1>4, <3>1, HeadTailProperties
    <3>3. now = Append(Tail(past), id) BY <1>5, <2>1 DEF Recorded
    <3>4. now \in Seq(RequestId) /\ Len(now) = Len(past) BY <1>4, <3>2, <3>3, AppendProperties
    <3> QED BY <1>4, <2>1, <3>4 DEF BridgeAssumption
  <2>2. CASE ~ Len(past) >= MaxHistory
    <3>1. now = Append(past, id) BY <1>5, <2>2 DEF Recorded
    <3>2. now \in Seq(RequestId) /\ Len(now) = Len(past) + 1 BY <1>4, <3>1, AppendProperties
    <3> QED BY <1>4, <2>2, <3>2 DEF BridgeAssumption
  <2> QED BY <2>1, <2>2
<1>7. history' = [history EXCEPT ![user] = now] /\ transactions' = transactions + 1
  BY <1>1, <1>3, <1>5 DEF ExecuteBridge
<1>8. /\ history' \in [BridgeUser -> Seq(RequestId)] /\ history'[user] = now
      /\ \A u \in BridgeUser \ {user} : history'[u] = history[u]
  BY <1>2, <1>6, <1>7 DEF HistoriesOK
<1>9. transactions' \in Nat BY <1>7 DEF HistoriesOK
<1>10. ASSUME \A u \in BridgeUser : Len(history'[u]) < MaxHistory
       PROVE  transactions' = SumFunctionOnSet([u \in BridgeUser |-> Len(history'[u])], BridgeUser)
  <2>1. Len(past) < MaxHistory /\ Len(now) = Len(past) + 1 BY <1>2, <1>6, <1>8, <1>10
  <2>2. ASSUME NEW u \in BridgeUser PROVE Len(history[u]) < MaxHistory
    <3>1. CASE u = user BY <1>3, <2>1, <3>1
    <3>2. CASE u # user BY <1>8, <1>10, <3>2
    <3> QED BY <3>1, <3>2
  <2>3. PICK f, g : f = [u \in BridgeUser |-> Len(history[u])] /\ g = [u \in BridgeUser |-> Len(history'[u])]
    OBVIOUS
  <2>4. transactions = SumFunctionOnSet(f, BridgeUser) BY <2>2, <2>3 DEF HistoriesOK
  <2>5. /\ \A u \in BridgeUser : f[u] \in Int
        /\ \A u \in BridgeUser \ {user} : g[u] = f[u]
        /\ f[user] = Len(past) /\ g[user] = Len(past) + 1
    <3>1. ASSUME NEW u \in BridgeUser PROVE f[u] \in Int
      <4>1. history[u] \in Seq(RequestId) BY DEF HistoriesOK
      <4> QED BY <2>3, <4>1, LenProperties
    <3> QED BY <1>2, <1>3, <1>8, <2>1, <2>3, <3>1
  <2>6. SumFunctionOnSet(g, BridgeUser) = SumFunctionOnSet(f, BridgeUser) - f[user] + (Len(past) + 1)
    <3>1. IsFiniteSet(BridgeUser) /\ Len(past) + 1 \in Int BY <1>4 DEF BridgeAssumption
    <3> QED BY <1>2, <2>5, <3>1, SumUpdate
  <2>7. SumFunctionOnSet(f, BridgeUser) \in Int BY <2>5, SumType DEF BridgeAssumption
  <2>8. transactions' = SumFunctionOnSet(g, BridgeUser) BY <1>4, <1>7, <2>4, <2>5, <2>6, <2>7
  <2> QED BY <2>3, <2>8
<1> QED BY <1>8, <1>9, <1>10 DEF HistoriesOK

LEMMA BooksStart ==
  ASSUME BridgeAssumption, BridgeInit
  PROVE  OperatorsOK /\ NoncesOK /\ HistoriesOK
<1>1. OperatorsOK
  <2>1. BridgeLastTime \in Nat /\ {BridgeAdmin} \subseteq Operator BY DEF BridgeAssumption
  <2>2. bridgeTime \in 0..BridgeLastTime BY <2>1 DEF BridgeInit
  <2> QED BY <2>1, <2>2 DEF BridgeInit, OperatorsOK
<1>2. RequestId = {} /\ requests \in Seq(RequestRecord) BY DEF BridgeInit, RequestId
<1>3. NoncesOK
  <2>1. ASSUME NEW u \in BridgeUser PROVE nonce[u] = Cardinality(SentBy(requests, u))
    <3>1. SentBy(requests, u) = {} BY <1>2 DEF SentBy, RequestId
    <3> QED BY <3>1, FS_EmptySet DEF BridgeInit
  <2> QED BY <1>2, <2>1 DEF NoncesOK, BridgeInit
<1>4. HistoriesOK
  <2>1. PICK f : f = [u \in BridgeUser |-> Len(history[u])] OBVIOUS
  <2>2. \A u \in BridgeUser : f[u] = 0 BY <2>1 DEF BridgeInit
  <2>3. SumFunctionOnSet(f, BridgeUser) = 0 BY <2>2, SumZero DEF BridgeAssumption
  <2>4. history \in [BridgeUser -> Seq(RequestId)] /\ transactions = 0 BY DEF BridgeInit
  <2> QED BY <2>1, <2>3, <2>4 DEF HistoriesOK
<1> QED BY <1>1, <1>3, <1>4

LEMMA BooksStay ==
  ASSUME NoncesOK, HistoriesOK, UNCHANGED <<requests, nonce, transactions, history>>
  PROVE  NoncesOK' /\ HistoriesOK'
BY DEF NoncesOK, HistoriesOK, SentBy, RequestId

LEMMA BooksStep ==
  ASSUME BridgeAssumption, OperatorsOK, NoncesOK, HistoriesOK, [BridgeNext]_bridgeVars
  PROVE  OperatorsOK' /\ NoncesOK' /\ HistoriesOK'
<1>1. ASSUME NEW user \in BridgeUser, NEW required \in Required, NEW expiresAt \in Expiry,
             NEW n \in 1..RequestLimit, InitiateBridge(user, required, expiresAt, n)
      PROVE  OperatorsOK' /\ NoncesOK' /\ HistoriesOK'
  <2>1. OperatorsOK' BY <1>1 DEF InitiateBridge, OperatorsOK
  <2> QED BY <1>1, <2>1, RequestTakesNonce
<1>2. ASSUME NEW operator \in Operator, NEW id \in RequestId, NEW approve \in BOOLEAN,
             SignBridgeRequest(operator, id, approve)
      PROVE  OperatorsOK' /\ NoncesOK' /\ HistoriesOK'
  <2>1. OperatorsOK' BY <1>2 DEF SignBridgeRequest, OperatorsOK
  <2>2. PICK signed : signed = Answered(requests[id], operator, approve) OBVIOUS
  <2>3. requests[id] \in RequestRecord BY DEF NoncesOK, RequestId
  <2>4. signed \in RequestRecord /\ signed.sender = requests[id].sender
    BY <2>2, <2>3 DEF Answered, RequestRecord, RequestStatus
  <2>5. /\ requests' = [requests EXCEPT ![id] = signed] /\ nonce' = nonce
        /\ UNCHANGED <<transactions, history>>
    BY <1>2, <2>2 DEF SignBridgeRequest
  <2>6. NoncesOK' /\ RequestId' = RequestId BY <2>4, <2>5, SenderStays
  <2>7. HistoriesOK' BY <2>5, <2>6 DEF HistoriesOK
  <2> QED BY <2>1, <2>6, <2>7
<1>3. ASSUME NEW operator \in Operator, NEW id \in RequestId, ExecuteBridge(operator, id)
      PROVE  OperatorsOK' /\ NoncesOK' /\ HistoriesOK'
  <2>1. OperatorsOK' BY <1>3 DEF ExecuteBridge, OperatorsOK
  <2>2. PICK done : done = [requests[id] EXCEPT !.status = "Completed"] OBVIOUS
  <2>3. requests[id] \in RequestRecord BY DEF NoncesOK, RequestId
  <2>4. done \in RequestRecord /\ done.sender = requests[id].sender
    BY <2>2, <2>3 DEF RequestRecord, RequestStatus
  <2>5. requests' = [requests EXCEPT ![id] = done] /\ nonce' = nonce
    BY <1>3, <2>2 DEF ExecuteBridge
  <2>6. NoncesOK' /\ RequestId' = RequestId BY <2>4, <2>5, SenderStays
  <2> QED BY <1>3, <2>1, <2>6, ExecutionIsRecorded
<1>4. ASSUME NEW id \in RequestId, RetryBridge(id)
      PROVE  OperatorsOK' /\ NoncesOK' /\ HistoriesOK'
  <2>1. OperatorsOK' BY <1>4 DEF RetryBridge, OperatorsOK
  <2>2. PICK again : again = [requests[id] EXCEPT !.status = "Pending", !.signatures = {}] OBVIOUS
  <2>3. requests[id] \in RequestRecord /\ requests \in [RequestId -> RequestRecord] BY DEF NoncesOK, RequestId
  <2>4. again \in RequestRecord /\ again.sender = requests[id].sender
    BY <2>2, <2>3 DEF RequestRecord, RequestStatus
  <2>5. /\ requests' = [requests EXCEPT ![id] = again] /\ nonce' = nonce
        /\ UNCHANGED <<transactions, history>>
    BY <1>4, <2>2, <2>3 DEF RetryBridge
  <2>6. NoncesOK' /\ RequestId' = RequestId BY <2>4, <2>5, SenderStays
  <2>7. HistoriesOK' BY <2>5, <2>6 DEF HistoriesOK
  <2> QED BY <2>1, <2>6, <2>7
<1>5. ASSUME NEW operator \in Operator, AddOperator(operator) \/ RemoveOperator(operator)
      PROVE  OperatorsOK' /\ NoncesOK' /\ HistoriesOK'
  <2>1. UNCHANGED <<bridgeTime, paused, requests, nonce, transactions, history>>
    BY <1>5 DEF AddOperator, RemoveOperator
  <2>2. operators' \subseteq Operator BY <1>5 DEF AddOperator, RemoveOperator, OperatorsOK
  <2>3. CASE AddOperator(operator)
    <3>1. operators' # {} BY <2>3 DEF AddOperator
    <3> QED BY <2>1, <2>2, <3>1, BooksStay DEF OperatorsOK
  <2>4. CASE RemoveOperator(operator)
    <3>1. IsFiniteSet(operators) BY FS_Subset DEF OperatorsOK, BridgeAssumption
    <3>2. Cardinality(operators) > 1 BY <2>4, <3>1, FS_CardinalityType DEF RemoveOperator, BridgeAssumption
    <3>3. operators \subseteq {operator} => Cardinality(operators) <= 1
      <4>1. IsFiniteSet({operator}) /\ Cardinality({operator}) = 1 BY FS_Singleton
      <4> QED BY <4>1, FS_Subset
    <3>4. ~ (operators \subseteq {operator}) BY <3>1, <3>2, <3>3, FS_CardinalityType
    <3>5. operators' # {} BY <2>4, <3>4 DEF RemoveOperator
    <3> QED BY <2>1, <2>2, <3>5, BooksStay DEF OperatorsOK
  <2> QED BY <1>5, <2>3, <2>4
<1>6. CASE BridgeTick \/ BreakerStep \/ UNCHANGED bridgeVars
  <2>1. UNCHANGED <<requests, nonce, transactions, history>> /\ operators' = operators
    BY <1>6 DEF BridgeTick, BreakerStep, bridgeVars
  <2>2. bridgeTime' \in 0..BridgeLastTime /\ paused' \in BOOLEAN
    <3>1. BridgeLastTime \in Nat BY DEF BridgeAssumption
    <3>2. bridgeTime \in 0..BridgeLastTime /\ paused \in BOOLEAN BY DEF OperatorsOK
    <3>3. CASE BridgeTick BY <3>1, <3>2, <3>3 DEF BridgeTick
    <3>4. CASE BreakerStep BY <3>2, <3>4 DEF BreakerStep
    <3>5. CASE UNCHANGED bridgeVars BY <3>2, <3>5 DEF bridgeVars
    <3> QED BY <1>6, <3>3, <3>4, <3>5
  <2> QED BY <2>1, <2>2, BooksStay DEF OperatorsOK
<1> QED BY <1>1, <1>2, <1>3, <1>4, <1>5, <1>6 DEF BridgeNext

(* A sender's nonce is the number of its requests, and until a history is    *)
(* full the transactions are the entries of the histories, through retries   *)
(* and second executions; for any users, operators and length of history.    *)
THEOREM BridgeCounters ==
  ASSUME BridgeAssumption
  PROVE  BridgeSpec => [](BridgeTypeOK /\ CountersMatchRecords)
<1>1. BridgeInit => OperatorsOK /\ NoncesOK /\ HistoriesOK BY BooksStart
<1>2. OperatorsOK /\ NoncesOK /\ HistoriesOK /\ [BridgeNext]_bridgeVars => (OperatorsOK /\ NoncesOK /\ HistoriesOK)'
  BY BooksStep
<1>3. OperatorsOK /\ NoncesOK /\ HistoriesOK <=> BridgeTypeOK /\ CountersMatchRecords BY BooksOfBridge
<1> QED BY <1>1, <1>2, <1>3, PTL DEF BridgeSpec

(*****************************************************************************)
(* The three as MCSoroban deploys them                                       *)
(*****************************************************************************)

(* Each behaviour of the model that is checked is one of every contract, so  *)
(* that what is proved of a contract holds of it there.                      *)
THEOREM DeployedOneByOne == SorobanSpec => Spec /\ GovernanceSpec /\ BridgeSpec
<1>1. SorobanInit => Init /\ GovernanceInit /\ BridgeInit BY DEF SorobanInit
<1>2. [SorobanNext]_sorobanVars => [Next]_vars /\ [GovernanceNext]_governanceVars /\ [BridgeNext]_bridgeVars
  BY DEF SorobanNext, sorobanVars
<1> QED BY <1>1, <1>2, PTL DEF SorobanSpec, Spec, GovernanceSpec, BridgeSpec

(* Every contract's state stays in its type, and the counters of the bridge  *)
(* tell the same story as its requests and histories, for any users, amounts,*)
(* weights, actions and quorums.                                             *)
THEOREM SorobanTypes == SorobanSpec => []SorobanTypeOK
<1>1. GovernanceIInv => GovernanceTypeOK BY DEF GovernanceIInv
<1>2. TypeOK /\ GovernanceTypeOK /\ BridgeTypeOK /\ CountersMatchRecords => SorobanTypeOK BY DEF SorobanTypeOK
<1>3. GovernanceSpec => []GovernanceIInv BY GovernanceInvariant, SorobanAssumption
<1>4. BridgeSpec => [](BridgeTypeOK /\ CountersMatchRecords) BY BridgeCounters, SorobanAssumption
<1> QED BY <1>1, <1>2, <1>3, <1>4, DeployedOneByOne, PoolTypes, PTL
=============================================================================

------------------------------ MODULE InkProofs ------------------------------
(*****************************************************************************)
(* Proofs about the insurance contract and the oracle, for any accounts,     *)
(* sources, precision, rates, weights and amounts; and about all the         *)
(* contracts of MCContracts together: whichever is deployed, every variable  *)
(* stays in its type.  The last part joins the invariants proved here and in *)
(* ContractProofs, with what the types need beside them.                     *)
(*****************************************************************************)
EXTENDS MCContracts, ContractProofs

-----------------------------------------------------------------------------
(* The pool                                                                  *)

VestingTerms == Vestings \cup {<<0, 0, 0>>}

PoolRecord == [capital : Nat, available : Nat, index : Nat, terms : VestingTerms, active : Nat]

VestingRecord == [total : Nat, claimed : Nat, start : Nat]

(* What the index gives an account beyond its debt, before it is rounded, in *)
(* units of 1/Precision.                                                     *)
Owed == [a \in Accounts |-> stake[a] * pool.index - Precision * debt[a]]

PoolTyped ==
  /\ insTime \in Nat /\ insPaused \in BOOLEAN /\ pool \in PoolRecord
  /\ stake \in [Accounts -> Nat] /\ debt \in [Accounts -> Nat]
  /\ vesting \in [Accounts -> VestingRecord] /\ \A a \in Accounts : vesting[a].start <= insTime
  /\ accrued \in Nat /\ taken \in Nat /\ moves \in 0..MaxMoves

(* No debt exceeds what the index gives, and what all accounts are owed and  *)
(* have taken stays within the premiums before anything is rounded.          *)
DebtsCovered == \A a \in Accounts : Precision * debt[a] <= stake[a] * pool.index

OwedWithinPremiums ==
  SumFunctionOnSet(Owed, Accounts) + Precision * taken <= Precision * (accrued + moves)

LiquidityIInv == PoolTyped /\ StakesAddUp /\ DebtsCovered /\ OwedWithinPremiums

LEMMA OwedIsNat ==
  ASSUME PoolTyped, DebtsCovered
  PROVE  /\ \A a \in Accounts : Owed[a] \in Nat /\ Owed[a] = stake[a] * pool.index - Precision * debt[a]
         /\ SumFunctionOnSet(Owed, Accounts) \in Nat
<1>1. ASSUME NEW a \in Accounts PROVE Owed[a] \in Nat /\ Owed[a] = stake[a] * pool.index - Precision * debt[a]
  <2> DEFINE m == stake[a] * pool.index
             n == Precision * debt[a]
  <2>1. /\ stake[a] \in Nat /\ debt[a] \in Nat /\ pool.index \in Nat /\ Precision \in Nat
    BY LiquidityAssumption DEF PoolTyped, PoolRecord
  <2>2. m \in Nat /\ n \in Nat BY <2>1
  <2>3. n <= m BY DEF DebtsCovered
  <2>4. Owed[a] = m - n BY DEF Owed
  <2> HIDE DEF m, n
  <2>5. Owed[a] \in Nat BY <2>2, <2>3, <2>4
  <2> QED BY <2>4, <2>5 DEF m, n
<1>2. SumFunctionOnSet(Owed, Accounts) \in Nat BY <1>1, SumNat, LiquidityAssumption
<1> QED BY <1>1, <1>2

(* What is pending, in whole units, is at most what is owed.                 *)
LEMMA PendingFits ==
  ASSUME PoolTyped, DebtsCovered, NEW a \in Accounts
  PROVE  /\ PendingOf(a) \in Nat /\ Precision * PendingOf(a) <= Owed[a]
         /\ Earned(stake[a]) \in Nat /\ Earned(stake[a]) = debt[a] + PendingOf(a)
<1> DEFINE n == stake[a] * pool.index
           e == n \div Precision
           d == debt[a]
<1>1. stake[a] \in Nat /\ d \in Nat /\ pool.index \in Nat /\ Precision \in Nat \ {0}
  BY LiquidityAssumption DEF PoolTyped, PoolRecord
<1>2. n \in Nat BY <1>1
<1>3. e \in Nat /\ e * Precision <= n /\ n < e * Precision + Precision BY <1>1, <1>2, QuotientFits
<1>4. Precision * d <= n BY DEF DebtsCovered
<1>5. Owed[a] = n - Precision * d BY DEF Owed
<1>6. Earned(stake[a]) = e BY DEF Earned
<1> HIDE DEF n, e, d
<1>7. d <= e
  <2>1. CASE e < d
    <3>1. (e + 1) * Precision <= d * Precision BY <1>1, <1>3, <2>1, ProductGrows
    <3>2. (e + 1) * Precision = e * Precision + Precision /\ d * Precision = Precision * d BY <1>1, <1>3
    <3> DEFINE ep == e * Precision
               dp == Precision * d
    <3>3. ep \in Nat /\ dp \in Nat BY <1>1, <1>3
    <3>4. n < ep + Precision /\ dp <= n /\ ep + Precision <= dp BY <1>3, <1>4, <3>1, <3>2
    <3> HIDE DEF ep, dp
    <3> QED BY <1>1, <1>2, <3>3, <3>4
  <2> QED BY <1>1, <1>3, <2>1
<1>8. PendingOf(a) = e - d
  BY <1>1, <1>3, <1>6, <1>7 DEF PendingOf, LessOrZero, d
<1>9. Precision * (e - d) = e * Precision - Precision * d BY <1>1, <1>3
<1>10. e * Precision \in Nat /\ Precision * d \in Nat BY <1>1, <1>3
<1>11. Precision * (e - d) <= Owed[a] BY <1>2, <1>3, <1>5, <1>9, <1>10
<1>12. e - d \in Nat BY <1>1, <1>3, <1>7
<1> QED BY <1>1, <1>3, <1>6, <1>8, <1>11, <1>12 DEF d

(* The rewards of the accounts and the premiums, in whole units again.       *)
LEMMA RewardsFollow ==
  ASSUME LiquidityIInv
  PROVE  RewardsWithinPremiums
<1> DEFINE due == [a \in Accounts |-> PendingOf(a)]
           scaled  == [a \in Accounts |-> PendingOf(a) * Precision]
           P == SumFunctionOnSet(due, Accounts)
<1>1. PoolTyped /\ DebtsCovered /\ OwedWithinPremiums BY DEF LiquidityIInv
<1>2. Precision \in Nat \ {0} /\ IsFiniteSet(Accounts) BY LiquidityAssumption
<1>3. \A a \in Accounts :
        /\ due[a] \in Nat /\ scaled[a] = due[a] * Precision /\ scaled[a] \in Int
        /\ Owed[a] \in Int /\ scaled[a] <= Owed[a]
  BY <1>1, <1>2, PendingFits, OwedIsNat
<1> HIDE DEF due, scaled
<1>4. SumFunctionOnSet(scaled, Accounts) <= SumFunctionOnSet(Owed, Accounts) BY <1>2, <1>3, SumMonotone
<1>5. SumFunctionOnSet(scaled, Accounts) = P * Precision BY <1>2, <1>3, SumScaled
<1>6. P \in Nat BY <1>2, <1>3, SumNat
<1>7. SumFunctionOnSet(Owed, Accounts) \in Nat BY <1>1, OwedIsNat
<1>8. taken \in Nat /\ accrued + moves \in Nat BY <1>1, LiquidityAssumption DEF PoolTyped
<1> HIDE DEF P
<1>9. (P + taken) * Precision <= (accrued + moves) * Precision
  <2>1. SumFunctionOnSet(Owed, Accounts) + Precision * taken <= Precision * (accrued + moves)
    BY <1>1 DEF OwedWithinPremiums
  <2>2. (P + taken) * Precision = P * Precision + Precision * taken BY <1>2, <1>6, <1>8
  <2>3. (accrued + moves) * Precision = Precision * (accrued + moves) BY <1>2, <1>8
  <2>4. P * Precision \in Nat /\ Precision * taken \in Nat /\ Precision * (accrued + moves) \in Nat
    BY <1>2, <1>6, <1>8
  <2> QED BY <1>4, <1>5, <1>7, <2>1, <2>2, <2>3, <2>4
<1>10. P + taken <= accrued + moves
  <2> DEFINE l == P + taken
             r == accrued + moves
  <2>1. l \in Nat /\ r \in Nat BY <1>6, <1>8
  <2>2. l * Precision <= r * Precision BY <1>9
  <2> HIDE DEF l, r
  <2>3. ASSUME l > r PROVE FALSE
    <3>1. (r + 1) * Precision <= l * Precision BY <1>2, <2>1, <2>3, ProductGrows
    <3>2. (r + 1) * Precision = r * Precision + Precision BY <1>2, <2>1
    <3>3. r * Precision \in Nat /\ l * Precision \in Nat BY <1>2, <2>1
    <3> QED BY <1>2, <2>2, <3>1, <3>2, <3>3
  <2>4. l <= r BY <2>1, <2>3
  <2> QED BY <2>4 DEF l, r
<1> QED BY <1>10 DEF P, due, RewardsWithinPremiums

-----------------------------------------------------------------------------
(* What a step does to the pool                                              *)

(* The books of the rewards stay as they are.                                *)
LEMMA PoolKept ==
  ASSUME LiquidityIInv, UNCHANGED <<stake, debt, taken, moves, accrued>>, PoolTyped',
         pool'.capital = pool.capital, pool'.index = pool.index
  PROVE  LiquidityIInv'
<1>1. StakesAddUp' BY DEF LiquidityIInv, StakesAddUp
<1>2. DebtsCovered' BY DEF LiquidityIInv, DebtsCovered
<1>3. OwedWithinPremiums' BY DEF LiquidityIInv, OwedWithinPremiums, Owed
<1> QED BY <1>1, <1>2, <1>3 DEF LiquidityIInv

(* One account's stake and debt change, and what it is owed and has taken    *)
(* grows by no more than a unit for each change of a stake.                  *)
LEMMA OneAccount ==
  ASSUME LiquidityIInv, PoolTyped', NEW a \in Accounts,
         pool'.index = pool.index, accrued' = accrued,
         \A b \in Accounts \ {a} : stake'[b] = stake[b] /\ debt'[b] = debt[b],
         pool'.capital = pool.capital + stake'[a] - stake[a],
         Precision * debt'[a] <= stake'[a] * pool.index,
         stake'[a] * pool.index - Precision * debt'[a] + Precision * taken'
           <= Owed[a] + Precision * taken + Precision * (moves' - moves)
  PROVE  LiquidityIInv'
<1> DEFINE v == stake'[a] * pool.index - Precision * debt'[a]
<1>1. PoolTyped /\ StakesAddUp /\ DebtsCovered /\ OwedWithinPremiums BY DEF LiquidityIInv
<1>2. IsFiniteSet(Accounts) /\ Precision \in Nat \ {0} BY LiquidityAssumption
<1>3. /\ \A b \in Accounts : stake[b] \in Nat /\ stake'[b] \in Nat /\ debt'[b] \in Nat
      /\ pool.index \in Nat /\ pool.capital \in Nat
      /\ taken \in Nat /\ taken' \in Nat /\ moves \in Nat /\ moves' \in Nat /\ accrued \in Nat
  BY <1>1, LiquidityAssumption DEF PoolTyped, PoolRecord
<1>4. StakesAddUp'
  <2>1. \A b \in Accounts : stake[b] \in Int BY <1>3
  <2>2. stake'[a] \in Int /\ \A b \in Accounts \ {a} : stake'[b] = stake[b] BY <1>3
  <2>3. SumFunctionOnSet(stake', Accounts) = SumFunctionOnSet(stake, Accounts) - stake[a] + stake'[a]
    BY <1>2, <2>1, <2>2, SumUpdate
  <2>4. pool.capital = SumFunctionOnSet(stake, Accounts) BY <1>1 DEF StakesAddUp
  <2>5. pool'.capital = SumFunctionOnSet(stake', Accounts) BY <1>3, <2>3, <2>4
  <2> QED BY <2>5 DEF StakesAddUp
<1>5. DebtsCovered'
  <2>1. \A b \in Accounts : Precision * debt[b] <= stake[b] * pool.index BY <1>1 DEF DebtsCovered
  <2> QED BY <2>1 DEF DebtsCovered
<1>6. SumFunctionOnSet(Owed', Accounts) = SumFunctionOnSet(Owed, Accounts) - Owed[a] + v
  <2>1. \A b \in Accounts : Owed[b] \in Int BY <1>1, OwedIsNat
  <2>2. v \in Int BY <1>2, <1>3
  <2>3. Owed'[a] = v BY DEF Owed
  <2>4. \A b \in Accounts \ {a} : Owed'[b] = Owed[b] BY DEF Owed
  <2> HIDE DEF v
  <2> QED BY <1>2, <2>1, <2>2, <2>3, <2>4, SumUpdate
<1>7. Owed[a] \in Nat /\ SumFunctionOnSet(Owed, Accounts) \in Nat BY <1>1, OwedIsNat
<1>8. v \in Int BY <1>2, <1>3
<1>9. v + Precision * taken' <= Owed[a] + Precision * taken + Precision * (moves' - moves) OBVIOUS
<1>10. SumFunctionOnSet(Owed, Accounts) + Precision * taken <= Precision * (accrued + moves)
  BY <1>1 DEF OwedWithinPremiums
<1> HIDE DEF v
<1>11. SumFunctionOnSet(Owed', Accounts) + Precision * taken' <= Precision * (accrued' + moves')
  <2> DEFINE t == Precision * taken
             u == Precision * taken'
             m == Precision * (accrued + moves)
             d == Precision * (moves' - moves)
             n == Precision * (accrued' + moves')
  <2>1. t \in Nat /\ u \in Nat /\ m \in Nat /\ d \in Int
    <3>1. Precision \in Nat /\ taken \in Nat /\ taken' \in Nat /\ accrued + moves \in Nat
          /\ moves' - moves \in Int
      BY <1>2, <1>3
    <3>2. \A i, j \in Nat : i * j \in Nat OBVIOUS
    <3>3. \A i, j \in Int : i * j \in Int OBVIOUS
    <3>4. t \in Nat /\ u \in Nat /\ m \in Nat BY <3>1, <3>2
    <3>5. d \in Int BY <3>1, <3>3
    <3> QED BY <3>4, <3>5
  <2>2. n = m + d BY <1>2, <1>3
  <2>3. v + u <= Owed[a] + t + d BY <1>9
  <2>4. SumFunctionOnSet(Owed, Accounts) + t <= m BY <1>10
  <2> HIDE DEF t, u, m, d, n
  <2>5. SumFunctionOnSet(Owed', Accounts) + u <= n BY <1>6, <1>7, <1>8, <2>1, <2>2, <2>3, <2>4
  <2> QED BY <2>5 DEF u, n
<1>12. OwedWithinPremiums' BY <1>11 DEF OwedWithinPremiums
<1> QED BY <1>4, <1>5, <1>12 DEF LiquidityIInv

(* A premium raises the index by what it is worth to the stakes, and no more *)
(* than its amount.                                                          *)
LEMMA PremiumIn ==
  ASSUME LiquidityIInv, PoolTyped', NEW share \in Nat,
         UNCHANGED <<stake, debt, taken, moves>>, AccruePremium(share),
         pool'.capital = pool.capital, pool'.index = WithPremium(share).index
  PROVE  LiquidityIInv'
<1>1. PoolTyped /\ StakesAddUp /\ DebtsCovered /\ OwedWithinPremiums BY DEF LiquidityIInv
<1>2. IsFiniteSet(Accounts) /\ Precision \in Nat \ {0} BY LiquidityAssumption
<1>3. /\ pool \in PoolRecord /\ pool.capital \in Nat /\ pool.index \in Nat
      /\ \A a \in Accounts : stake[a] \in Nat /\ debt[a] \in Nat
      /\ accrued \in Nat /\ taken \in Nat /\ moves \in Nat
  BY <1>1, LiquidityAssumption DEF PoolTyped, PoolRecord
<1>4. pool'.index = IF pool.capital = 0 THEN pool.index
                    ELSE pool.index + (share * Precision) \div pool.capital
  BY <1>3 DEF WithPremium, PoolRecord
<1>5. CASE pool.capital = 0
  <2>1. accrued' = accrued BY <1>5 DEF AccruePremium
  <2> QED BY <1>4, <1>5, <2>1, PoolKept
<1>6. CASE pool.capital # 0
  <2> DEFINE d == (share * Precision) \div pool.capital
             gain == [a \in Accounts |-> stake[a] * d]
  <2>1. accrued' = accrued + share BY <1>6 DEF AccruePremium
  <2>2. d \in Nat /\ d * pool.capital <= share * Precision
    <3>1. share * Precision \in Nat /\ pool.capital \in Nat \ {0} BY <1>2, <1>3, <1>6
    <3> QED BY <3>1, QuotientFits
  <2>3. pool'.index = pool.index + d BY <1>4, <1>6
  <2> HIDE DEF d
  <2>4. ASSUME NEW a \in Accounts
        PROVE  /\ gain[a] \in Nat /\ Owed[a] \in Nat /\ Owed'[a] = Owed[a] + gain[a]
               /\ Precision * debt[a] <= stake[a] * pool'.index
    <3> DEFINE m == stake[a] * pool.index
               n == Precision * debt[a]
               g == stake[a] * d
    <3>1. stake[a] * (pool.index + d) = m + g BY <1>3, <2>2
    <3>2. m \in Nat /\ n \in Nat /\ g \in Nat BY <1>2, <1>3, <2>2
    <3>3. n <= m BY <1>1 DEF DebtsCovered
    <3>4. Owed[a] = m - n /\ Owed[a] \in Nat BY <1>1, OwedIsNat
    <3>5. Owed'[a] = stake[a] * (pool.index + d) - n BY <2>3 DEF Owed
    <3>6. gain[a] = g OBVIOUS
    <3> HIDE DEF m, n, g, gain
    <3>7. n <= m + g /\ Owed'[a] = Owed[a] + gain[a] /\ gain[a] \in Nat
      BY <3>1, <3>2, <3>3, <3>4, <3>5, <3>6
    <3> QED BY <2>3, <3>1, <3>4, <3>7 DEF n
  <2>5. StakesAddUp' BY <1>1 DEF StakesAddUp
  <2>6. DebtsCovered' BY <2>4 DEF DebtsCovered
  <2>7. SumFunctionOnSet(gain, Accounts) = pool.capital * d
    <3>1. \A a \in Accounts : stake[a] \in Int /\ gain[a] = stake[a] * d BY <1>3
    <3> HIDE DEF gain
    <3>2. SumFunctionOnSet(gain, Accounts) = SumFunctionOnSet(stake, Accounts) * d
      BY <1>2, <2>2, <3>1, SumScaled
    <3> QED BY <1>1, <3>2 DEF StakesAddUp
  <2> HIDE DEF gain
  <2>8. SumFunctionOnSet(Owed', Accounts) = SumFunctionOnSet(Owed, Accounts) + SumFunctionOnSet(gain, Accounts)
    BY <1>2, <2>4, SumOfSums
  <2>9. SumFunctionOnSet(Owed, Accounts) \in Nat BY <1>1, OwedIsNat
  <2>10. SumFunctionOnSet(Owed', Accounts) + Precision * taken' <= Precision * (accrued' + moves')
    <3> DEFINE t == Precision * taken
               m == Precision * (accrued + moves)
               g == pool.capital * d
               p == share * Precision
    <3>1. t \in Nat /\ m \in Nat /\ g \in Nat /\ p \in Nat BY <1>2, <1>3, <2>2
    <3>2. Precision * (accrued' + moves') = m + p BY <1>2, <1>3, <2>1
    <3>3. g <= p BY <1>3, <2>2
    <3>4. SumFunctionOnSet(Owed, Accounts) + t <= m BY <1>1 DEF OwedWithinPremiums
    <3>5. Precision * taken' = t OBVIOUS
    <3>6. SumFunctionOnSet(Owed', Accounts) = SumFunctionOnSet(Owed, Accounts) + g BY <2>7, <2>8
    <3> HIDE DEF t, m, g, p
    <3>7. SumFunctionOnSet(Owed', Accounts) + t <= m + p BY <2>9, <3>1, <3>3, <3>4, <3>6
    <3> QED BY <3>2, <3>5, <3>7
  <2>11. OwedWithinPremiums' BY <2>10 DEF OwedWithinPremiums
  <2> QED BY <2>5, <2>6, <2>11 DEF LiquidityIInv
<1> QED BY <1>5, <1>6

-----------------------------------------------------------------------------
(* The steps of the pool                                                     *)

LEMMA TermsTyped ==
  ASSUME NEW v \in VestingTerms
  PROVE  v[1] \in Nat /\ v[2] \in Nat /\ v[3] \in Nat /\ v[3] <= 10000
<1>1. v \in Nat \X Nat \X Nat /\ v[3] <= 10000
  <2>1. CASE v = <<0, 0, 0>> BY <2>1
  <2>2. CASE v \in Vestings
    <3>1. \A w \in Vestings : w \in Nat \X Nat \X Nat /\ w[3] <= 10000 BY LiquidityAssumption
    <3> QED BY <2>2, <3>1
  <2> QED BY <2>1, <2>2 DEF VestingTerms
<1> QED BY <1>1

LEMMA PoolFacts ==
  ASSUME PoolTyped
  PROVE  /\ pool \in PoolRecord /\ insTime \in Nat /\ Precision \in Nat \ {0}
         /\ pool.capital \in Nat /\ pool.available \in Nat /\ pool.index \in Nat /\ pool.active \in Nat
         /\ Cliff \in Nat /\ VestingSeconds \in Nat /\ PenaltyRate \in Nat /\ PenaltyRate <= 10000
         /\ \A a \in Accounts : /\ stake[a] \in Nat /\ debt[a] \in Nat
                                /\ vesting[a] \in VestingRecord /\ vesting[a].start <= insTime
         /\ accrued \in Nat /\ taken \in Nat /\ moves \in Nat /\ MaxMoves \in Nat
<1>1. pool \in PoolRecord /\ insTime \in Nat BY DEF PoolTyped
<1>2. pool.terms \in VestingTerms BY <1>1 DEF PoolRecord
<1>3. Cliff \in Nat /\ VestingSeconds \in Nat /\ PenaltyRate \in Nat /\ PenaltyRate <= 10000
  <2>1. PICK v \in VestingTerms : v = pool.terms BY <1>2
  <2>2. v[1] \in Nat /\ v[2] \in Nat /\ v[3] \in Nat /\ v[3] <= 10000
    <3> HIDE <1>1, <2>1
    <3> QED BY TermsTyped
  <2>3. Cliff = v[1] /\ VestingSeconds = v[2] /\ PenaltyRate = v[3]
    BY <2>1, Zenon DEF Cliff, VestingSeconds, PenaltyRate
  <2> QED BY <2>2, <2>3
<1>4. \A a \in Accounts : /\ stake[a] \in Nat /\ debt[a] \in Nat
                           /\ vesting[a] \in VestingRecord /\ vesting[a].start <= insTime
  BY DEF PoolTyped
<1>5. /\ pool.capital \in Nat /\ pool.available \in Nat /\ pool.index \in Nat /\ pool.active \in Nat
  BY <1>1 DEF PoolRecord
<1>6. Precision \in Nat \ {0} /\ MaxMoves \in Nat BY LiquidityAssumption
<1>7. accrued \in Nat /\ taken \in Nat /\ moves \in Nat BY <1>6 DEF PoolTyped
<1> QED BY <1>1, <1>3, <1>4, <1>5, <1>6, <1>7

(* A deposit brings the debt that the index gives it, rounded down.          *)
LEMMA DebtJoins ==
  ASSUME NEW p \in Nat \ {0}, NEW i \in Nat, NEW s \in Nat, NEW d \in Nat, NEW x \in Nat, p * d <= s * i
  PROVE  /\ (x * i) \div p \in Nat
         /\ p * (d + (x * i) \div p) <= (s + x) * i
         /\ (s + x) * i - p * (d + (x * i) \div p) <= s * i - p * d + p
<1> DEFINE e == (x * i) \div p
           xi == x * i
           si == s * i
           pd == p * d
           ep == e * p
<1>1. xi \in Nat /\ si \in Nat /\ pd \in Nat OBVIOUS
<1>2. e \in Nat /\ ep <= xi /\ xi < ep + p BY <1>1, QuotientFits
<1>3. (s + x) * i = si + xi OBVIOUS
<1> HIDE DEF e
<1>4. p * (d + e) = pd + ep /\ ep \in Nat BY <1>2
<1>5. pd <= si OBVIOUS
<1> HIDE DEF xi, si, pd, ep
<1>6. pd + ep <= si + xi /\ si + xi - (pd + ep) <= si - pd + p BY <1>1, <1>2, <1>4, <1>5
<1> QED BY <1>2, <1>3, <1>4, <1>6 DEF e, si, pd

(* A debt is set to what the index gives the new stake, and what was pending *)
(* is taken.                                                                 *)
LEMMA DebtResets ==
  ASSUME NEW p \in Nat \ {0}, NEW i \in Nat, NEW n \in Nat, NEW owed \in Nat, NEW due \in Nat,
         p * due <= owed
  PROVE  /\ (n * i) \div p \in Nat
         /\ p * ((n * i) \div p) <= n * i
         /\ n * i - p * ((n * i) \div p) + p * due <= owed + p
<1> DEFINE e == (n * i) \div p
           ni == n * i
           pp == p * due
           ep == e * p
<1>1. ni \in Nat /\ pp \in Nat OBVIOUS
<1>2. e \in Nat /\ ep <= ni /\ ni < ep + p BY <1>1, QuotientFits
<1> HIDE DEF e
<1>3. p * e = ep /\ ep \in Nat BY <1>2
<1>4. pp <= owed OBVIOUS
<1> HIDE DEF ni, pp, ep
<1>5. ep <= ni /\ ni - ep + pp <= owed + p BY <1>1, <1>2, <1>3, <1>4
<1> QED BY <1>2, <1>3, <1>5 DEF e, ni, pp

LEMMA StepDepositsStake ==
  ASSUME LiquidityIInv, NEW a \in Accounts, NEW amount \in Nat, DepositLiquidity(a, amount)
  PROVE  LiquidityIInv'
<1> DEFINE e == (amount * pool.index) \div Precision
<1>1. /\ moves < MaxMoves /\ moves' = moves + 1
      /\ stake' = [stake EXCEPT ![a] = @ + amount] /\ debt' = [debt EXCEPT ![a] = @ + e]
      /\ pool' = [pool EXCEPT !.capital = @ + amount, !.available = @ + amount]
      /\ UNCHANGED <<insTime, insPaused, vesting, accrued, taken>>
  BY DEF DepositLiquidity, Earned
<1>2. PoolTyped /\ DebtsCovered BY DEF LiquidityIInv
<1>3. /\ Precision \in Nat \ {0} /\ pool.index \in Nat /\ stake[a] \in Nat /\ debt[a] \in Nat
      /\ pool \in PoolRecord /\ taken \in Nat /\ moves \in Nat
  BY <1>2, PoolFacts
<1>4. Precision * debt[a] <= stake[a] * pool.index BY <1>2 DEF DebtsCovered
<1>5. /\ e \in Nat /\ Precision * (debt[a] + e) <= (stake[a] + amount) * pool.index
      /\ (stake[a] + amount) * pool.index - Precision * (debt[a] + e)
           <= stake[a] * pool.index - Precision * debt[a] + Precision
  BY <1>3, <1>4, DebtJoins
<1>6. Owed[a] \in Nat /\ Owed[a] = stake[a] * pool.index - Precision * debt[a] BY <1>2, OwedIsNat
<1> HIDE DEF e
<1>7. stake'[a] = stake[a] + amount /\ debt'[a] = debt[a] + e /\ taken' = taken
      /\ \A b \in Accounts \ {a} : stake'[b] = stake[b] /\ debt'[b] = debt[b]
  BY <1>1, <1>2 DEF PoolTyped
<1>8. pool' \in PoolRecord /\ pool'.capital = pool.capital + amount /\ pool'.index = pool.index
  <2> DEFINE c == pool.capital + amount
             v == pool.available + amount
  <2>1. pool' = [pool EXCEPT !.capital = c, !.available = v] BY <1>1
  <2>2. c \in Nat /\ v \in Nat BY <1>3 DEF PoolRecord
  <2> HIDE DEF c, v
  <2>3. pool' \in PoolRecord /\ pool'.capital = c /\ pool'.index = pool.index
    BY <1>3, <2>1, <2>2 DEF PoolRecord
  <2> QED BY <2>3 DEF c
<1>9. PoolTyped'
  <2>1. stake' \in [Accounts -> Nat] /\ debt' \in [Accounts -> Nat] BY <1>1, <1>2, <1>5 DEF PoolTyped
  <2>2. moves' \in 0..MaxMoves BY <1>1, <1>2, LiquidityAssumption DEF PoolTyped
  <2>3. pool' \in PoolRecord' BY <1>8 DEF PoolRecord
  <2> QED BY <1>1, <1>2, <2>1, <2>2, <2>3 DEF PoolTyped
<1>10. pool'.capital = pool.capital + stake'[a] - stake[a] BY <1>2, <1>3, <1>7, <1>8, PoolFacts
<1>11. Precision * (moves' - moves) = Precision BY <1>1, <1>3
<1>12. stake'[a] * pool.index - Precision * debt'[a] + Precision * taken'
         <= Owed[a] + Precision * taken + Precision * (moves' - moves)
  <2> DEFINE l == (stake[a] + amount) * pool.index - Precision * (debt[a] + e)
             t == Precision * taken
  <2>1. l \in Int /\ t \in Nat BY <1>3, <1>5
  <2>2. l <= Owed[a] + Precision BY <1>5, <1>6
  <2> HIDE DEF l, t
  <2>3. l + t <= Owed[a] + t + Precision BY <1>3, <1>6, <2>1, <2>2
  <2> QED BY <1>7, <1>11, <2>3 DEF l, t
<1>13. Precision * debt'[a] <= stake'[a] * pool.index BY <1>5, <1>7
<1>14. accrued' = accrued BY <1>1
<1> QED BY <1>7, <1>8, <1>9, <1>10, <1>12, <1>13, <1>14, OneAccount

(* A schedule vests no more than its total, and its penalty is a part of     *)
(* what has not vested.                                                      *)
LEMMA VestedFits ==
  ASSUME PoolTyped, NEW v \in VestingRecord, v.start <= insTime, VestingSeconds > 0
  PROVE  Vested(v) \in 0..v.total /\ Penalty(v) \in 0..v.total
<1>1. /\ VestingSeconds \in Nat \ {0} /\ PenaltyRate \in Nat /\ PenaltyRate <= 10000 /\ Cliff \in Nat
      /\ v.total \in Nat /\ v.start \in Nat /\ insTime \in Nat
  BY PoolFacts DEF VestingRecord
<1> DEFINE elapsed == insTime - v.start
           k == IF elapsed < VestingSeconds THEN elapsed ELSE VestingSeconds
           part == (v.total * k) \div VestingSeconds
<1>2. elapsed \in Nat BY <1>1
<1>3. k \in Nat /\ k <= VestingSeconds BY <1>1, <1>2
<1> HIDE DEF k
<1>4. part \in 0..v.total
  <2> DEFINE n == v.total * k
  <2>1. k * v.total \in Nat /\ k * v.total <= VestingSeconds * v.total BY <1>1, <1>3, ProductGrows
  <2>2. n = k * v.total /\ VestingSeconds * v.total = v.total * VestingSeconds BY <1>1, <1>3
  <2>3. n \in Nat /\ n <= v.total * VestingSeconds BY <2>1, <2>2
  <2> HIDE DEF n
  <2>4. n \div VestingSeconds \in 0..v.total BY <1>1, <2>3, QuotientWithin
  <2> QED BY <2>4 DEF n
<1>5. Vested(v) = IF v.start = 0 \/ elapsed < Cliff THEN 0 ELSE part BY DEF Vested, k
<1> HIDE DEF part, elapsed
<1>6. Vested(v) \in 0..v.total BY <1>1, <1>4, <1>5
<1> DEFINE u == v.total - Vested(v)
           n == u * PenaltyRate
<1>7. u \in Nat /\ u <= v.total BY <1>1, <1>6
<1> HIDE DEF u
<1>8. n \in Nat /\ n <= u * 10000
  <2>1. PenaltyRate * u \in Nat /\ PenaltyRate * u <= 10000 * u BY <1>1, <1>7, ProductGrows
  <2>2. n = PenaltyRate * u /\ 10000 * u = u * 10000 BY <1>1, <1>7
  <2> QED BY <2>1, <2>2
<1>9. Penalty(v) = n \div 10000 BY DEF Penalty, u
<1> HIDE DEF n
<1>10. n \div 10000 \in 0..u BY <1>7, <1>8, QuotientWithin
<1> QED BY <1>1, <1>6, <1>7, <1>9, <1>10

LEMMA JoinedTyped ==
  ASSUME PoolTyped, DebtsCovered, NEW a \in Accounts
  PROVE  IntoVesting(a) \in VestingRecord /\ IntoVesting(a).start <= insTime
<1>1. vesting[a] \in VestingRecord /\ vesting[a].start <= insTime /\ insTime \in Nat BY PoolFacts
<1>2. PendingOf(a) \in Nat BY PendingFits
<1> DEFINE total == vesting[a].total + PendingOf(a)
<1>3. total \in Nat BY <1>1, <1>2 DEF VestingRecord
<1>4. IntoVesting(a) = IF PendingOf(a) = 0 THEN vesting[a]
                       ELSE [vesting[a] EXCEPT !.total = total, !.start = insTime]
  BY DEF IntoVesting
<1> HIDE DEF total
<1>5. CASE PendingOf(a) = 0 BY <1>1, <1>4, <1>5
<1>6. CASE PendingOf(a) # 0
  <2>1. PICK r \in VestingRecord : r = vesting[a] BY <1>1
  <2>2. IntoVesting(a) = [r EXCEPT !.total = total, !.start = insTime] BY <1>4, <1>6, <2>1
  <2>3. IntoVesting(a) \in VestingRecord /\ IntoVesting(a).start = insTime
    BY <1>1, <1>3, <2>2 DEF VestingRecord
  <2> QED BY <1>1, <2>3
<1> QED BY <1>5, <1>6

LEMMA StepWithdrawsStake ==
  ASSUME LiquidityIInv, NEW a \in Accounts, NEW amount \in Nat, WithdrawLiquidity(a, amount)
  PROVE  LiquidityIInv'
<1> DEFINE vests   == VestingSeconds > 0
           joined  == IntoVesting(a)
           penalty == IF vests THEN Penalty(joined) ELSE 0
           out     == IF vests THEN amount ELSE PendingOf(a) + amount
           left    == stake[a] - amount
           e       == (left * pool.index) \div Precision
           kept    == IF left = 0 THEN NoVesting
                      ELSE IF vests THEN [joined EXCEPT !.total = @ - penalty] ELSE vesting[a]
           c       == pool.capital - amount
           v       == pool.available + penalty - out
<1>1. /\ amount <= stake[a] /\ moves < MaxMoves /\ out <= pool.available + penalty
      /\ stake' = [stake EXCEPT ![a] = left] /\ debt' = [debt EXCEPT ![a] = e]
      /\ taken' = taken + PendingOf(a) /\ moves' = moves + 1
      /\ UNCHANGED <<insTime, insPaused, accrued>>
  BY DEF WithdrawLiquidity, Earned
<1>2. pool' = [pool EXCEPT !.capital = c, !.available = v] BY DEF WithdrawLiquidity
<1>3. vesting' = [vesting EXCEPT ![a] = kept] BY DEF WithdrawLiquidity
<1>4. PoolTyped /\ DebtsCovered /\ StakesAddUp BY DEF LiquidityIInv
<1>5. /\ Precision \in Nat \ {0} /\ pool.index \in Nat /\ stake[a] \in Nat /\ debt[a] \in Nat
      /\ pool \in PoolRecord /\ pool.capital \in Nat /\ pool.available \in Nat
      /\ taken \in Nat /\ moves \in Nat /\ insTime \in Nat /\ VestingSeconds \in Nat
      /\ vesting[a] \in VestingRecord /\ vesting[a].start <= insTime
  BY <1>4, PoolFacts
<1>6. joined \in VestingRecord /\ joined.start <= insTime BY <1>4, JoinedTyped
<1>7. /\ PendingOf(a) \in Nat /\ Precision * PendingOf(a) <= Owed[a]
      /\ Owed[a] \in Nat
  BY <1>4, PendingFits, OwedIsNat
<1> HIDE DEF joined
<1>8. penalty \in Nat /\ (vests => penalty <= joined.total)
  <2>1. CASE vests
    <3>1. Penalty(joined) \in 0..joined.total BY <1>4, <1>6, <2>1, VestedFits
    <3>2. joined.total \in Nat BY <1>6 DEF VestingRecord
    <3> QED BY <2>1, <3>1, <3>2
  <2>2. CASE ~ vests BY <2>2
  <2> QED BY <2>1, <2>2
<1> HIDE DEF penalty
<1>9. kept \in VestingRecord /\ kept.start <= insTime
  <2>1. CASE left = 0 BY <1>5, <2>1 DEF NoVesting, VestingRecord
  <2>2. CASE left # 0 /\ vests
    <3> DEFINE t == joined.total - penalty
    <3>1. t \in Nat BY <1>6, <1>8, <2>2 DEF VestingRecord
    <3>2. kept = [joined EXCEPT !.total = t] BY <2>2
    <3> HIDE DEF t, kept
    <3> QED BY <1>6, <3>1, <3>2 DEF VestingRecord
  <2>3. CASE left # 0 /\ ~ vests BY <1>5, <2>3
  <2> QED BY <2>1, <2>2, <2>3
<1> HIDE DEF kept
<1>10. stake[a] <= pool.capital
  <2>1. IsFiniteSet(Accounts) /\ \A b \in Accounts : stake[b] \in Nat BY <1>4, PoolFacts, LiquidityAssumption
  <2>2. stake[a] <= SumFunctionOnSet(stake, Accounts) BY <2>1, SumCovers
  <2> QED BY <1>4, <2>2 DEF StakesAddUp
<1>11. left \in Nat /\ c \in Nat BY <1>1, <1>5, <1>10
<1>12. out \in Nat /\ v \in Nat
  <2>1. out \in Nat BY <1>7
  <2> HIDE DEF out
  <2> QED BY <1>1, <1>5, <1>8, <2>1
<1>13. pool' \in PoolRecord /\ pool'.capital = c /\ pool'.index = pool.index
  <2> HIDE DEF c, v
  <2> QED BY <1>2, <1>5, <1>11, <1>12 DEF PoolRecord
<1>14. /\ e \in Nat /\ Precision * e <= left * pool.index
       /\ left * pool.index - Precision * e + Precision * PendingOf(a) <= Owed[a] + Precision
  <2> HIDE DEF left
  <2> QED BY <1>5, <1>7, <1>11, DebtResets
<1> HIDE DEF e
<1>15. stake'[a] = left /\ debt'[a] = e /\ \A b \in Accounts \ {a} : stake'[b] = stake[b] /\ debt'[b] = debt[b]
  BY <1>1, <1>4 DEF PoolTyped
<1>16. pool'.capital = pool.capital + stake'[a] - stake[a] BY <1>5, <1>13, <1>15
<1> HIDE DEF left, c, v
<1>17. PoolTyped'
  <2>1. stake' \in [Accounts -> Nat] /\ debt' \in [Accounts -> Nat] BY <1>1, <1>4, <1>11, <1>14 DEF PoolTyped
  <2>2. moves' \in 0..MaxMoves BY <1>1, <1>4, LiquidityAssumption DEF PoolTyped
  <2>3. pool' \in PoolRecord' BY <1>13 DEF PoolRecord, VestingTerms
  <2>4. vesting' \in [Accounts -> VestingRecord] /\ \A b \in Accounts : vesting'[b].start <= insTime
    BY <1>3, <1>4, <1>9 DEF PoolTyped
  <2>5. taken' \in Nat BY <1>1, <1>5, <1>7
  <2> QED BY <1>1, <1>4, <2>1, <2>2, <2>3, <2>4, <2>5 DEF PoolTyped
<1>18. Precision * (moves' - moves) = Precision BY <1>1, <1>5
<1>19. Precision * taken' = Precision * taken + Precision * PendingOf(a) BY <1>1, <1>5, <1>7
<1>20. stake'[a] * pool.index - Precision * debt'[a] + Precision * taken'
         <= Owed[a] + Precision * taken + Precision * (moves' - moves)
  <2> DEFINE l == left * pool.index - Precision * e
             t == Precision * taken
             p == Precision * PendingOf(a)
  <2>1. l \in Int /\ t \in Nat /\ p \in Nat BY <1>5, <1>7, <1>11, <1>14
  <2>2. l + p <= Owed[a] + Precision BY <1>14
  <2> HIDE DEF l, t, p
  <2>3. l + (t + p) <= Owed[a] + t + Precision BY <1>5, <1>7, <2>1, <2>2
  <2> QED BY <1>15, <1>18, <1>19, <2>3 DEF l, t, p
<1>21. Precision * debt'[a] <= stake'[a] * pool.index BY <1>14, <1>15
<1>22. accrued' = accrued BY <1>1
<1> QED BY <1>13, <1>15, <1>16, <1>17, <1>20, <1>21, <1>22, OneAccount

(* A claim of the rewards, which takes what is pending.                      *)
LEMMA StepClaimsRewards ==
  ASSUME LiquidityIInv, NEW a \in Accounts, ClaimPoolRewards(a)
  PROVE  LiquidityIInv'
<1> DEFINE e == (stake[a] * pool.index) \div Precision
           v == pool.available - PendingOf(a)
<1>1. /\ debt' = [debt EXCEPT ![a] = e] /\ taken' = taken + PendingOf(a)
      /\ UNCHANGED <<insTime, insPaused, stake, accrued, moves>>
  BY DEF ClaimPoolRewards, Earned
<1>2. \/ vesting' = [vesting EXCEPT ![a] = IntoVesting(a)] /\ UNCHANGED pool
      \/ PendingOf(a) <= pool.available /\ pool' = [pool EXCEPT !.available = v] /\ UNCHANGED vesting
  BY DEF ClaimPoolRewards
<1>4. PoolTyped /\ DebtsCovered /\ StakesAddUp BY DEF LiquidityIInv
<1>5. /\ Precision \in Nat \ {0} /\ pool.index \in Nat /\ stake[a] \in Nat /\ debt[a] \in Nat
      /\ pool \in PoolRecord /\ pool.capital \in Nat /\ pool.available \in Nat
      /\ taken \in Nat /\ moves \in Nat
  BY <1>4, PoolFacts
<1>6. IntoVesting(a) \in VestingRecord /\ IntoVesting(a).start <= insTime BY <1>4, JoinedTyped
<1>7. /\ PendingOf(a) \in Nat /\ Precision * PendingOf(a) <= Owed[a]
      /\ e = debt[a] + PendingOf(a) /\ Owed[a] \in Nat
      /\ Owed[a] = stake[a] * pool.index - Precision * debt[a]
  BY <1>4, PendingFits, OwedIsNat DEF Earned
<1>8. e \in Nat /\ Precision * e <= stake[a] * pool.index
  BY <1>5, <1>7, DebtResets
<1> HIDE DEF e, v
<1>9. pool' \in PoolRecord /\ pool'.capital = pool.capital /\ pool'.index = pool.index
  <2>1. CASE UNCHANGED pool BY <1>5, <2>1
  <2>2. CASE PendingOf(a) <= pool.available /\ pool' = [pool EXCEPT !.available = v]
    <3>1. v \in Nat BY <1>5, <1>7, <2>2 DEF v
    <3> QED BY <1>5, <2>2, <3>1 DEF PoolRecord
  <2> QED BY <1>2, <2>1, <2>2
<1>10. debt'[a] = e /\ stake' = stake /\ \A b \in Accounts \ {a} : debt'[b] = debt[b]
  BY <1>1, <1>4 DEF PoolTyped
<1>11. PoolTyped'
  <2>1. debt' \in [Accounts -> Nat] BY <1>1, <1>4, <1>8 DEF PoolTyped
  <2>2. taken' \in Nat BY <1>1, <1>5, <1>7
  <2>3. pool' \in PoolRecord' BY <1>9 DEF PoolRecord, VestingTerms
  <2>4. vesting' \in [Accounts -> VestingRecord] /\ \A b \in Accounts : vesting'[b].start <= insTime
    BY <1>2, <1>4, <1>6 DEF PoolTyped
  <2> QED BY <1>1, <1>4, <2>1, <2>2, <2>3, <2>4 DEF PoolTyped
<1>12. Precision * (moves' - moves) = 0 BY <1>1, <1>5
<1>13. Precision * taken' = Precision * taken + Precision * PendingOf(a) BY <1>1, <1>5, <1>7
<1>14. Precision * e = Precision * debt[a] + Precision * PendingOf(a) BY <1>5, <1>7
<1>15. stake'[a] * pool.index - Precision * debt'[a] + Precision * taken'
         <= Owed[a] + Precision * taken + Precision * (moves' - moves)
  <2> DEFINE m == stake[a] * pool.index
             d == Precision * debt[a]
             t == Precision * taken
             p == Precision * PendingOf(a)
  <2>1. m \in Nat /\ d \in Nat /\ t \in Nat /\ p \in Nat BY <1>5, <1>7
  <2>2. Owed[a] = m - d BY <1>7
  <2> HIDE DEF m, d, t, p
  <2>3. m - (d + p) + (t + p) <= Owed[a] + t + 0 BY <2>1, <2>2
  <2> QED BY <1>10, <1>12, <1>13, <1>14, <2>3 DEF m, d, t, p
<1>16. Precision * debt'[a] <= stake'[a] * pool.index BY <1>8, <1>10
<1>17. pool'.capital = pool.capital + stake'[a] - stake[a] BY <1>5, <1>9, <1>10
<1>18. accrued' = accrued /\ \A b \in Accounts \ {a} : stake'[b] = stake[b] BY <1>1
<1> QED BY <1>9, <1>10, <1>11, <1>15, <1>16, <1>17, <1>18, OneAccount

(* Rewards that are staked again stay in the pool.                           *)
LEMMA StepReinvests ==
  ASSUME LiquidityIInv, NEW a \in Accounts, ReinvestRewards(a)
  PROVE  LiquidityIInv'
<1> DEFINE n == stake[a] + PendingOf(a)
           e == (n * pool.index) \div Precision
           c == pool.capital + PendingOf(a)
<1>1. /\ moves < MaxMoves
      /\ stake' = [stake EXCEPT ![a] = n] /\ debt' = [debt EXCEPT ![a] = e]
      /\ taken' = taken + PendingOf(a) /\ moves' = moves + 1
      /\ UNCHANGED <<insTime, insPaused, vesting, accrued>>
  BY DEF ReinvestRewards, Earned
<1>2. pool' = [pool EXCEPT !.capital = c] BY DEF ReinvestRewards
<1>4. PoolTyped /\ DebtsCovered /\ StakesAddUp BY DEF LiquidityIInv
<1>5. /\ Precision \in Nat \ {0} /\ pool.index \in Nat /\ stake[a] \in Nat /\ debt[a] \in Nat
      /\ pool \in PoolRecord /\ pool.capital \in Nat
      /\ taken \in Nat /\ moves \in Nat
  BY <1>4, PoolFacts
<1>7. /\ PendingOf(a) \in Nat /\ Precision * PendingOf(a) <= Owed[a]
      /\ Owed[a] \in Nat
  BY <1>4, PendingFits, OwedIsNat
<1>8. n \in Nat /\ c \in Nat BY <1>5, <1>7
<1>9. /\ e \in Nat /\ Precision * e <= n * pool.index
      /\ n * pool.index - Precision * e + Precision * PendingOf(a) <= Owed[a] + Precision
  <2> HIDE DEF n
  <2> QED BY <1>5, <1>7, <1>8, DebtResets
<1>10. pool' \in PoolRecord /\ pool'.capital = c /\ pool'.index = pool.index
  <2> HIDE DEF c
  <2> QED BY <1>2, <1>5, <1>8 DEF PoolRecord
<1> HIDE DEF e
<1>11. stake'[a] = n /\ debt'[a] = e /\ \A b \in Accounts \ {a} : stake'[b] = stake[b] /\ debt'[b] = debt[b]
  BY <1>1, <1>4 DEF PoolTyped
<1>12. pool'.capital = pool.capital + stake'[a] - stake[a] BY <1>5, <1>7, <1>10, <1>11
<1> HIDE DEF n, c
<1>13. PoolTyped'
  <2>1. stake' \in [Accounts -> Nat] /\ debt' \in [Accounts -> Nat] BY <1>1, <1>4, <1>8, <1>9 DEF PoolTyped
  <2>2. moves' \in 0..MaxMoves BY <1>1, <1>4, LiquidityAssumption DEF PoolTyped
  <2>3. pool' \in PoolRecord' BY <1>10 DEF PoolRecord, VestingTerms
  <2>4. taken' \in Nat BY <1>1, <1>5, <1>7
  <2> QED BY <1>1, <1>4, <2>1, <2>2, <2>3, <2>4 DEF PoolTyped
<1>14. Precision * (moves' - moves) = Precision BY <1>1, <1>5
<1>15. Precision * taken' = Precision * taken + Precision * PendingOf(a) BY <1>1, <1>5, <1>7
<1>16. stake'[a] * pool.index - Precision * debt'[a] + Precision * taken'
         <= Owed[a] + Precision * taken + Precision * (moves' - moves)
  <2> DEFINE l == n * pool.index - Precision * e
             t == Precision * taken
             p == Precision * PendingOf(a)
  <2>1. l \in Int /\ t \in Nat /\ p \in Nat BY <1>5, <1>7, <1>8, <1>9
  <2>2. l + p <= Owed[a] + Precision BY <1>9
  <2> HIDE DEF l, t, p
  <2>3. l + (t + p) <= Owed[a] + t + Precision BY <1>5, <1>7, <2>1, <2>2
  <2> QED BY <1>11, <1>14, <1>15, <2>3 DEF l, t, p
<1>17. Precision * debt'[a] <= stake'[a] * pool.index BY <1>9, <1>11
<1>18. accrued' = accrued BY <1>1
<1> QED BY <1>10, <1>11, <1>12, <1>13, <1>16, <1>17, <1>18, OneAccount

(* A schedule is paid out of the pool; the books of the rewards stay.        *)
LEMMA StepClaimsVested ==
  ASSUME LiquidityIInv, NEW a \in Accounts, ClaimVestedRewards(a)
  PROVE  LiquidityIInv'
<1> DEFINE v     == vesting[a]
           part  == IF VestingSeconds = 0 THEN v.total ELSE LessOrZero(Vested(v), v.claimed)
           done  == VestingSeconds = 0 \/ v.claimed + part >= v.total
           left  == pool.available - part
           kept  == IF done THEN NoVesting ELSE [v EXCEPT !.claimed = @ + part]
<1>1. /\ part <= pool.available
      /\ vesting' = [vesting EXCEPT ![a] = kept]
      /\ UNCHANGED <<insTime, insPaused, stake, debt, accrued, taken, moves>>
  BY DEF ClaimVestedRewards
<1>2. pool' = [pool EXCEPT !.available = left] BY DEF ClaimVestedRewards
<1>3. PoolTyped BY DEF LiquidityIInv
<1>4. /\ pool \in PoolRecord /\ pool.available \in Nat /\ VestingSeconds \in Nat /\ insTime \in Nat
      /\ v \in VestingRecord /\ v.start <= insTime
  BY <1>3, PoolFacts
<1> HIDE DEF v
<1>5. part \in Nat
  <2>1. v.total \in Nat /\ v.claimed \in Nat BY <1>4 DEF VestingRecord
  <2>2. CASE VestingSeconds = 0 BY <2>1, <2>2
  <2>3. CASE VestingSeconds # 0
    <3>1. Vested(v) \in 0..v.total BY <1>3, <1>4, <2>3, VestedFits
    <3> QED BY <2>1, <2>3, <3>1 DEF LessOrZero
  <2> QED BY <2>2, <2>3
<1> HIDE DEF part
<1>6. kept \in VestingRecord /\ kept.start <= insTime
  <2>1. CASE done BY <1>4, <2>1 DEF NoVesting, VestingRecord
  <2>2. CASE ~ done
    <3> DEFINE given == v.claimed + part
    <3>1. given \in Nat BY <1>4, <1>5 DEF VestingRecord
    <3>2. kept = [v EXCEPT !.claimed = given] BY <2>2
    <3> HIDE DEF given, kept
    <3> QED BY <1>4, <3>1, <3>2 DEF VestingRecord
  <2> QED BY <2>1, <2>2
<1> HIDE DEF kept
<1>7. left \in Nat BY <1>1, <1>4, <1>5
<1> HIDE DEF left
<1>8. pool' \in PoolRecord /\ pool'.capital = pool.capital /\ pool'.index = pool.index
  BY <1>2, <1>4, <1>7 DEF PoolRecord
<1>9. PoolTyped'
  <2>1. pool' \in PoolRecord' BY <1>8 DEF PoolRecord, VestingTerms
  <2>2. vesting' \in [Accounts -> VestingRecord] /\ \A b \in Accounts : vesting'[b].start <= insTime
    BY <1>1, <1>3, <1>6 DEF PoolTyped
  <2> QED BY <1>1, <1>3, <2>1, <2>2 DEF PoolTyped
<1> QED BY <1>1, <1>8, <1>9, PoolKept

LEMMA StepConfigures ==
  ASSUME LiquidityIInv, NEW terms \in Vestings, ConfigurePoolVesting(terms)
  PROVE  LiquidityIInv'
<1>1. /\ pool' = [pool EXCEPT !.terms = terms]
      /\ UNCHANGED <<insTime, insPaused, stake, debt, vesting, accrued, taken, moves>>
  BY DEF ConfigurePoolVesting
<1>2. PoolTyped BY DEF LiquidityIInv
<1>3. pool \in PoolRecord /\ terms \in VestingTerms BY <1>2, PoolFacts DEF VestingTerms
<1>4. pool' \in PoolRecord /\ pool'.capital = pool.capital /\ pool'.index = pool.index
  BY <1>1, <1>3 DEF PoolRecord
<1>5. PoolTyped'
  <2>1. pool' \in PoolRecord' BY <1>4 DEF PoolRecord, VestingTerms
  <2> QED BY <1>1, <1>2, <2>1 DEF PoolTyped
<1> QED BY <1>1, <1>4, <1>5, PoolKept

(* What the operations on policies and claims leave of the pool, and what    *)
(* the clock and the pause leave of it.                                      *)
LEMMA PoolUntouched ==
  ASSUME LiquidityIInv, UNCHANGED <<stake, debt, vesting, taken, moves, accrued>>,
         insTime' \in Nat, insTime <= insTime', insPaused' \in BOOLEAN,
         pool' \in PoolRecord, pool'.capital = pool.capital, pool'.index = pool.index
  PROVE  LiquidityIInv'
<1>1. PoolTyped BY DEF LiquidityIInv
<1>2. \A a \in Accounts : vesting'[a].start <= insTime'
  <2>1. \A a \in Accounts : vesting[a].start <= insTime /\ vesting[a].start \in Nat /\ insTime \in Nat
    BY <1>1, PoolFacts DEF VestingRecord
  <2> QED BY <2>1
<1>3. PoolTyped'
  <2>1. pool' \in PoolRecord' BY DEF PoolRecord, VestingTerms
  <2> QED BY <1>1, <1>2, <2>1 DEF PoolTyped
<1> QED BY <1>3, PoolKept

LEMMA StepOfPool ==
  ASSUME LiquidityIInv, Providing \/ SwitchPause \/ InsTick
  PROVE  LiquidityIInv'
<1>1. Stakes \subseteq Nat BY LiquidityAssumption
<1>2. PoolTyped /\ pool \in PoolRecord /\ insTime \in Nat /\ insPaused \in BOOLEAN
  BY DEF LiquidityIInv, PoolTyped
<1>3. CASE Providing
  <2>1. ASSUME NEW a \in Accounts, NEW amount \in Stakes,
               DepositLiquidity(a, amount) \/ WithdrawLiquidity(a, amount)
        PROVE  LiquidityIInv'
    BY <1>1, <2>1, StepDepositsStake, StepWithdrawsStake
  <2>2. ASSUME NEW a \in Accounts, ClaimPoolRewards(a) \/ ReinvestRewards(a) \/ ClaimVestedRewards(a)
        PROVE  LiquidityIInv'
    BY <2>2, StepClaimsRewards, StepReinvests, StepClaimsVested
  <2>3. ASSUME NEW terms \in Vestings, ConfigurePoolVesting(terms) PROVE LiquidityIInv'
    BY <2>3, StepConfigures
  <2> QED BY <1>3, <2>1, <2>2, <2>3 DEF Providing
<1>4. CASE SwitchPause BY <1>2, <1>4, PoolUntouched DEF SwitchPause
<1>5. CASE InsTick BY <1>2, <1>5, PoolUntouched DEF InsTick
<1> QED BY <1>3, <1>4, <1>5

LEMMA PoolStarts ==
  ASSUME LiquidityInit
  PROVE  LiquidityIInv
<1>1. IsFiniteSet(Accounts) /\ Precision \in Nat \ {0} /\ InsStart \in Nat /\ MaxMoves \in Nat
  BY LiquidityAssumption
<1>2. \A a \in Accounts : stake[a] = 0 /\ debt[a] = 0 BY DEF LiquidityInit
<1>3. pool.capital = 0 /\ pool.index = 0 /\ taken = 0 /\ moves = 0 /\ accrued = 0 BY DEF LiquidityInit
<1>4. PoolTyped
  <2>1. pool \in PoolRecord BY DEF LiquidityInit, PoolRecord, VestingTerms
  <2>2. vesting \in [Accounts -> VestingRecord] /\ \A a \in Accounts : vesting[a].start = 0
    BY DEF LiquidityInit, NoVesting, VestingRecord
  <2>3. /\ insTime = InsStart /\ insPaused = FALSE
        /\ stake = [a \in Accounts |-> 0] /\ debt = [a \in Accounts |-> 0]
    BY DEF LiquidityInit
  <2>4. \A a \in Accounts : vesting[a].start <= insTime BY <1>1, <2>2, <2>3
  <2>5. stake \in [Accounts -> Nat] /\ debt \in [Accounts -> Nat] /\ insTime \in Nat /\ insPaused \in BOOLEAN
    BY <1>1, <2>3
  <2>6. accrued \in Nat /\ taken \in Nat /\ moves \in 0..MaxMoves BY <1>1, <1>3
  <2> QED BY <2>1, <2>2, <2>4, <2>5, <2>6 DEF PoolTyped
<1>5. StakesAddUp
  <2>1. SumFunctionOnSet(stake, Accounts) = 0 BY <1>1, <1>2, SumZero
  <2> QED BY <1>3, <2>1 DEF StakesAddUp
<1>6. DebtsCovered BY <1>1, <1>2, <1>3 DEF DebtsCovered
<1>7. OwedWithinPremiums
  <2>1. \A a \in Accounts : Owed[a] = 0 BY <1>1, <1>2, <1>3 DEF Owed
  <2>2. SumFunctionOnSet(Owed, Accounts) = 0 BY <1>1, <2>1, SumZero
  <2> QED BY <1>1, <1>3, <2>2 DEF OwedWithinPremiums
<1> QED BY <1>4, <1>5, <1>6, <1>7 DEF LiquidityIInv

LEMMA PoolWellTyped ==
  ASSUME LiquidityIInv
  PROVE  LiquidityTypeOK
<1>1. PoolTyped BY DEF LiquidityIInv
<1>2. pool.terms \in Vestings \cup {<<0, 0, 0>>}
  <2>1. pool.terms \in VestingTerms BY <1>1 DEF PoolTyped, PoolRecord
  <2> QED BY <2>1 DEF VestingTerms
<1>3. vesting \in [Accounts -> [total : Nat, claimed : Nat, start : Nat]] BY <1>1 DEF PoolTyped, VestingRecord
<1>4. pool.capital \in Nat /\ pool.available \in Nat /\ pool.index \in Nat /\ pool.active \in Nat
  BY <1>1, PoolFacts
<1>5. /\ insTime \in Nat /\ insPaused \in BOOLEAN /\ stake \in [Accounts -> Nat] /\ debt \in [Accounts -> Nat]
      /\ accrued \in Nat /\ taken \in Nat /\ moves \in 0..MaxMoves
  BY <1>1 DEF PoolTyped
<1> QED BY <1>2, <1>3, <1>4, <1>5 DEF LiquidityTypeOK

-----------------------------------------------------------------------------
(* The policies, their tokens and the claims                                 *)

CoverStatuses == {"Active", "Renewed", "Cancelled", "Expired", "Claimed"}

CoverRecord ==
  [holder : Accounts, property : Insured, amount : Nat, deductible : Nat, end : Nat,
   status : CoverStatuses, parametric : BOOLEAN, claimed : Nat]

TokenRecord == [owner : Accounts, price : Nat]

ClaimRecord ==
  [policy : Nat, claimant : Accounts, amount : Nat, status : ClaimStatuses,
   assessor : Accounts \cup {"nobody"}, deadline : Nat]

InForce == {i \in DOMAIN cover : cover[i].status \in {"Active", "Renewed"}}

(* A policy has one token, and only tokens are listed, so that the next one  *)
(* is not on the market before it is minted.                                 *)
PolicyBooks ==
  /\ cover \in Seq(CoverRecord) /\ token \in Seq(TokenRecord) /\ Len(token) = Len(cover)
  /\ listings \subseteq DOMAIN token
  /\ TokenFollowsPolicy /\ PoliciesInForceCount

(* A claim that is pending has not been paid: what is paid once is over.     *)
ClaimBooks ==
  /\ insClaims \in Seq(ClaimRecord) /\ paidClaims \in Seq(Nat) /\ Len(paidClaims) = Len(insClaims)
  /\ \A id \in DOMAIN insClaims :
       /\ insClaims[id].policy \in DOMAIN cover
       /\ insClaims[id].status = "Pending" => paidClaims[id] = 0
  /\ ClaimsArePaidOnce

OtherBooks ==
  /\ reinsured \in Nat /\ recovered \in Nat /\ insAdmin \in Accounts
  /\ proposal = NoProposal \/ proposal.to \in Accounts

InsIInv == LiquidityIInv /\ PolicyBooks /\ ClaimBooks /\ OtherBooks

LEMMA PolicyFacts ==
  ASSUME PolicyBooks
  PROVE  /\ DOMAIN cover = 1..Len(cover) /\ DOMAIN token = DOMAIN cover /\ Len(cover) \in Nat
         /\ IsFiniteSet(DOMAIN cover)
         /\ \A i \in DOMAIN cover : cover[i] \in CoverRecord /\ token[i] \in TokenRecord
         /\ IsFiniteSet(InForce) /\ Cardinality(InForce) \in Nat
<1>1. cover \in Seq(CoverRecord) /\ token \in Seq(TokenRecord) /\ Len(token) = Len(cover) BY DEF PolicyBooks
<1>2. DOMAIN cover = 1..Len(cover) /\ DOMAIN token = 1..Len(token) /\ Len(cover) \in Nat
      /\ cover \in [1..Len(cover) -> CoverRecord] /\ token \in [1..Len(token) -> TokenRecord]
  BY <1>1, LenProperties
<1>3. IsFiniteSet(DOMAIN cover) BY <1>2, FS_Interval
<1>4. IsFiniteSet(InForce) BY <1>3, FS_Subset DEF InForce
<1>5. Cardinality(InForce) \in Nat BY <1>4, FS_CardinalityType
<1> QED BY <1>1, <1>2, <1>3, <1>4, <1>5

LEMMA ClaimFacts ==
  ASSUME ClaimBooks
  PROVE  /\ DOMAIN insClaims = 1..Len(insClaims) /\ DOMAIN paidClaims = DOMAIN insClaims
         /\ Len(insClaims) \in Nat /\ IsFiniteSet(DOMAIN insClaims)
         /\ \A id \in DOMAIN insClaims : insClaims[id] \in ClaimRecord /\ paidClaims[id] \in Nat
<1>1. insClaims \in Seq(ClaimRecord) /\ paidClaims \in Seq(Nat) /\ Len(paidClaims) = Len(insClaims)
  BY DEF ClaimBooks
<1>2. /\ DOMAIN insClaims = 1..Len(insClaims) /\ DOMAIN paidClaims = 1..Len(paidClaims)
      /\ Len(insClaims) \in Nat
      /\ insClaims \in [1..Len(insClaims) -> ClaimRecord] /\ paidClaims \in [1..Len(paidClaims) -> Nat]
  BY <1>1, LenProperties
<1>3. IsFiniteSet(DOMAIN insClaims) BY <1>2, FS_Interval
<1> QED BY <1>1, <1>2, <1>3

(* What claim id charges to policy i.                                        *)
Charge(id, i) == IF insClaims[id].policy = i THEN paidClaims[id] * PayoutOf(insClaims[id]) ELSE 0

Charges(i) == [id \in DOMAIN insClaims |-> Charge(id, i)]

LEMMA ClaimsChargeOnce ==
  ClaimsArePaidOnce <=>
    /\ \A id \in DOMAIN insClaims : paidClaims[id] <= 1
    /\ \A i \in DOMAIN cover : cover[i].claimed = SumFunctionOnSet(Charges(i), DOMAIN insClaims)
BY DEF ClaimsArePaidOnce, SumFunction, Charges, Charge

LEMMA ChargesTyped ==
  ASSUME PolicyBooks, ClaimBooks, NEW i \in DOMAIN cover, NEW id \in DOMAIN insClaims
  PROVE  /\ Charge(id, i) \in Nat /\ Charges(i)[id] = Charge(id, i)
         /\ PayoutOf(insClaims[id]) \in Nat
<1>1. insClaims[id] \in ClaimRecord /\ paidClaims[id] \in Nat BY ClaimFacts
<1>2. insClaims[id].policy \in DOMAIN cover BY DEF ClaimBooks
<1>3. cover[insClaims[id].policy] \in CoverRecord BY <1>2, PolicyFacts
<1>4. PayoutOf(insClaims[id]) \in Nat
  BY <1>1, <1>3 DEF ClaimRecord, CoverRecord, PayoutOf, LessOrZero
<1>5. Charges(i)[id] = Charge(id, i) BY DEF Charges
<1> QED BY <1>1, <1>4, <1>5 DEF Charge

(* What a charge of extra to one claim, and one of a new claim, do to a sum. *)
LEMMA ChargeGrows ==
  ASSUME NEW D, IsFiniteSet(D), NEW id \in D, NEW f, NEW g, NEW extra \in Nat,
         \A j \in D : f[j] \in Nat, g[id] = f[id] + extra, \A j \in D \ {id} : g[j] = f[j]
  PROVE  SumFunctionOnSet(g, D) = SumFunctionOnSet(f, D) + extra
<1>1. \A j \in D : f[j] \in Int OBVIOUS
<1>2. f[id] + extra \in Int BY <1>1
<1>3. SumFunctionOnSet(g, D) = SumFunctionOnSet(f, D) - f[id] + (f[id] + extra)
  BY <1>1, <1>2, SumUpdate
<1>4. SumFunctionOnSet(f, D) \in Int BY <1>1, SumType
<1> QED BY <1>1, <1>3, <1>4

LEMMA ChargeJoins ==
  ASSUME NEW D, IsFiniteSet(D), NEW n, n \notin D, NEW E, E = D \cup {n},
         NEW f, NEW g, NEW extra \in Nat,
         \A j \in D : f[j] \in Nat /\ g[j] = f[j], g[n] = extra
  PROVE  SumFunctionOnSet(g, E) = SumFunctionOnSet(f, D) + extra
<1>1. g[n] \in Int /\ \A j \in D : f[j] \in Int /\ g[j] = f[j] OBVIOUS
<1>2. SumFunctionOnSet(g, D \cup {n}) = SumFunctionOnSet(f, D) + g[n] BY <1>1, SumAdds
<1> QED BY <1>2

(* A claim that is there already is settled: paid, if k is 1, or not.        *)
Settles(id, k) ==
  /\ insClaims' \in Seq(ClaimRecord) /\ Len(insClaims') = Len(insClaims)
  /\ paidClaims' \in Seq(Nat) /\ Len(paidClaims') = Len(paidClaims)
  /\ \A j \in DOMAIN insClaims :
       insClaims'[j].policy = insClaims[j].policy /\ insClaims'[j].amount = insClaims[j].amount
  /\ \A j \in DOMAIN insClaims \ {id} :
       insClaims'[j].status = insClaims[j].status /\ paidClaims'[j] = paidClaims[j]
  /\ insClaims'[id].status # "Pending" /\ paidClaims'[id] = paidClaims[id] + k
  /\ DOMAIN cover' = DOMAIN cover
  /\ \A i \in DOMAIN cover :
       /\ cover'[i].deductible = cover[i].deductible
       /\ cover'[i].claimed = cover[i].claimed
            + (IF i = insClaims[id].policy THEN k * PayoutOf(insClaims[id]) ELSE 0)

LEMMA PayoutStays ==
  ASSUME NEW j, insClaims'[j].policy = insClaims[j].policy, insClaims'[j].amount = insClaims[j].amount,
         cover'[insClaims[j].policy].deductible = cover[insClaims[j].policy].deductible
  PROVE  PayoutOf(insClaims[j])' = PayoutOf(insClaims[j])
BY DEF PayoutOf, LessOrZero

LEMMA ChargeStays ==
  ASSUME NEW j, NEW i, insClaims'[j].policy = insClaims[j].policy, paidClaims'[j] = paidClaims[j],
         PayoutOf(insClaims[j])' = PayoutOf(insClaims[j])
  PROVE  Charge(j, i)' = Charge(j, i)
BY DEF Charge

LEMMA ChargedAfter ==
  ASSUME \A j \in DOMAIN insClaims' : paidClaims'[j] <= 1,
         \A i \in DOMAIN cover' : cover'[i].claimed = SumFunctionOnSet(Charges(i)', DOMAIN insClaims')
  PROVE  ClaimsArePaidOnce'
BY DEF ClaimsArePaidOnce, SumFunction, Charges, Charge

LEMMA OnePaid ==
  ASSUME PolicyBooks, ClaimBooks, NEW id \in DOMAIN insClaims, NEW k \in Nat, paidClaims[id] + k <= 1,
         Settles(id, k)
  PROVE  ClaimBooks'
<1>1. /\ DOMAIN insClaims = 1..Len(insClaims) /\ Len(insClaims) \in Nat /\ IsFiniteSet(DOMAIN insClaims)
      /\ Len(paidClaims) = Len(insClaims) /\ \A j \in DOMAIN insClaims : paidClaims[j] \in Nat
  BY ClaimFacts DEF ClaimBooks
<1>2. DOMAIN insClaims' = DOMAIN insClaims /\ Len(paidClaims') = Len(insClaims')
  BY <1>1, LenProperties DEF Settles
<1>3. \A j \in DOMAIN insClaims :
        insClaims[j].policy \in DOMAIN cover /\ (insClaims[j].status = "Pending" => paidClaims[j] = 0)
  BY DEF ClaimBooks
<1>4. ASSUME NEW j \in DOMAIN insClaims
      PROVE  PayoutOf(insClaims[j])' = PayoutOf(insClaims[j])
  <2>1. /\ insClaims'[j].policy = insClaims[j].policy /\ insClaims'[j].amount = insClaims[j].amount
        /\ cover'[insClaims[j].policy].deductible = cover[insClaims[j].policy].deductible
    BY <1>3 DEF Settles
  <2> QED BY <2>1, PayoutStays
<1>5. \A j \in DOMAIN insClaims' :
        insClaims'[j].policy \in DOMAIN cover' /\ (insClaims'[j].status = "Pending" => paidClaims'[j] = 0)
  BY <1>2, <1>3 DEF Settles
<1>6. /\ \A j \in DOMAIN insClaims : paidClaims[j] <= 1
      /\ \A i \in DOMAIN cover : cover[i].claimed = SumFunctionOnSet(Charges(i), DOMAIN insClaims)
  BY ClaimsChargeOnce DEF ClaimBooks
<1>7. \A j \in DOMAIN insClaims' : paidClaims'[j] <= 1 BY <1>2, <1>6 DEF Settles
<1>8. ASSUME NEW i \in DOMAIN cover
      PROVE  cover'[i].claimed = SumFunctionOnSet(Charges(i)', DOMAIN insClaims')
  <2> DEFINE f == Charges(i)
             g == Charges(i)'
             p == PayoutOf(insClaims[id])
             extra == IF i = insClaims[id].policy THEN k * p ELSE 0
  <2>1. \A j \in DOMAIN insClaims : f[j] \in Nat /\ f[j] = Charge(j, i) BY ChargesTyped
  <2>2. \A j \in DOMAIN insClaims : g[j] = Charge(j, i)' BY <1>2 DEF Charges
  <2>3. \A j \in DOMAIN insClaims \ {id} : g[j] = f[j]
    <3> SUFFICES ASSUME NEW j \in DOMAIN insClaims \ {id} PROVE g[j] = f[j] OBVIOUS
    <3>1. insClaims'[j].policy = insClaims[j].policy /\ paidClaims'[j] = paidClaims[j] BY DEF Settles
    <3>2. Charge(j, i)' = Charge(j, i) BY <1>4, <3>1, ChargeStays
    <3> QED BY <2>1, <2>2, <3>2
  <2>4. p \in Nat /\ paidClaims[id] \in Nat BY <1>1, ChargesTyped
  <2>5. (paidClaims[id] + k) * p = paidClaims[id] * p + k * p /\ k * p \in Nat BY <2>4
  <2>6. extra \in Nat BY <2>5
  <2>7. g[id] = f[id] + extra
    <3>1. insClaims'[id].policy = insClaims[id].policy /\ paidClaims'[id] = paidClaims[id] + k BY DEF Settles
    <3>2. Charge(id, i)' = IF insClaims[id].policy = i THEN (paidClaims[id] + k) * p ELSE 0
      BY <1>4, <3>1 DEF Charge
    <3>3. Charge(id, i) = IF insClaims[id].policy = i THEN paidClaims[id] * p ELSE 0 BY DEF Charge
    <3>4. f[id] = Charge(id, i) /\ g[id] = Charge(id, i)' /\ f[id] \in Nat BY <2>1, <2>2
    <3> HIDE DEF f, g, p
    <3> QED BY <2>5, <3>2, <3>3, <3>4
  <2>8. cover'[i].claimed = cover[i].claimed + extra BY DEF Settles
  <2>9. cover[i].claimed = SumFunctionOnSet(f, DOMAIN insClaims) BY <1>6 DEF f
  <2> HIDE DEF f, g, extra
  <2>10. SumFunctionOnSet(g, DOMAIN insClaims) = SumFunctionOnSet(f, DOMAIN insClaims) + extra
    <3> DEFINE D == DOMAIN insClaims
    <3>1. /\ IsFiniteSet(D) /\ id \in D /\ \A j \in D : f[j] \in Nat
          /\ \A j \in D \ {id} : g[j] = f[j]
      BY <1>1, <2>1, <2>3
    <3> HIDE DEF D
    <3>2. SumFunctionOnSet(g, D) = SumFunctionOnSet(f, D) + extra BY <2>6, <2>7, <3>1, ChargeGrows
    <3> QED BY <3>2 DEF D
  <2>11. cover'[i].claimed = SumFunctionOnSet(g, DOMAIN insClaims) BY <2>8, <2>9, <2>10
  <2> QED BY <1>2, <2>11 DEF g
<1>9. ClaimsArePaidOnce'
  <2>1. DOMAIN cover' = DOMAIN cover BY DEF Settles
  <2> QED BY <1>7, <1>8, <2>1, ChargedAfter
<1>10. insClaims' \in Seq(ClaimRecord') /\ paidClaims' \in Seq(Nat) BY DEF Settles, ClaimRecord, ClaimStatuses
<1> QED BY <1>2, <1>5, <1>9, <1>10 DEF ClaimBooks

(* A claim joins the list, pending or paid at once.                          *)
Joins(p, k) ==
  LET n == Len(insClaims) + 1 IN
  /\ insClaims' \in Seq(ClaimRecord) /\ Len(insClaims') = n
  /\ paidClaims' \in Seq(Nat) /\ Len(paidClaims') = Len(paidClaims) + 1
  /\ \A j \in DOMAIN insClaims :
       /\ insClaims'[j].policy = insClaims[j].policy /\ insClaims'[j].amount = insClaims[j].amount
       /\ insClaims'[j].status = insClaims[j].status /\ paidClaims'[j] = paidClaims[j]
  /\ insClaims'[n].policy = p /\ paidClaims'[n] = k
  /\ insClaims'[n].status = "Pending" => k = 0
  /\ DOMAIN cover' = DOMAIN cover
  /\ \A i \in DOMAIN cover :
       /\ cover'[i].deductible = cover[i].deductible
       /\ cover'[i].claimed = cover[i].claimed
            + (IF i = p THEN k * LessOrZero(insClaims'[n].amount, cover[p].deductible) ELSE 0)

LEMMA OneMore ==
  ASSUME PolicyBooks, ClaimBooks, NEW k \in 0..1, NEW p \in DOMAIN cover, Joins(p, k)
  PROVE  ClaimBooks'
<1> DEFINE D == DOMAIN insClaims
<1>0. PICK n \in Nat : n = Len(insClaims) + 1 BY ClaimFacts
<1>1. /\ D = 1..Len(insClaims) /\ Len(insClaims) \in Nat /\ IsFiniteSet(D)
      /\ Len(paidClaims) = Len(insClaims) /\ \A j \in D : paidClaims[j] \in Nat
  BY ClaimFacts DEF ClaimBooks
<1>2. DOMAIN insClaims' = D \cup {n} /\ n \notin D /\ Len(paidClaims') = Len(insClaims')
      /\ DOMAIN insClaims' = 1..Len(insClaims')
  <2>1. Len(insClaims') = n /\ insClaims' \in Seq(ClaimRecord) /\ Len(paidClaims') = Len(paidClaims) + 1
    BY <1>0 DEF Joins
  <2> QED BY <1>0, <1>1, <2>1, LenProperties
<1>3. \A j \in D : insClaims[j].policy \in DOMAIN cover /\ (insClaims[j].status = "Pending" => paidClaims[j] = 0)
  BY DEF ClaimBooks
<1>4. ASSUME NEW j \in D
      PROVE  PayoutOf(insClaims[j])' = PayoutOf(insClaims[j])
  <2>1. /\ insClaims'[j].policy = insClaims[j].policy /\ insClaims'[j].amount = insClaims[j].amount
        /\ cover'[insClaims[j].policy].deductible = cover[insClaims[j].policy].deductible
    BY <1>3 DEF Joins
  <2> QED BY <2>1, PayoutStays
<1>5. \A j \in DOMAIN insClaims' :
        insClaims'[j].policy \in DOMAIN cover' /\ (insClaims'[j].status = "Pending" => paidClaims'[j] = 0)
  BY <1>0, <1>2, <1>3 DEF Joins
<1>6. /\ \A j \in D : paidClaims[j] <= 1
      /\ \A i \in DOMAIN cover : cover[i].claimed = SumFunctionOnSet(Charges(i), D)
  BY ClaimsChargeOnce DEF ClaimBooks
<1>7. \A j \in DOMAIN insClaims' : paidClaims'[j] <= 1 BY <1>0, <1>2, <1>6 DEF Joins
<1>8. ASSUME NEW i \in DOMAIN cover
      PROVE  cover'[i].claimed = SumFunctionOnSet(Charges(i)', DOMAIN insClaims')
  <2> DEFINE f == Charges(i)
             g == Charges(i)'
             pay == LessOrZero(insClaims'[n].amount, cover[p].deductible)
             extra == IF i = p THEN k * pay ELSE 0
  <2>1. \A j \in D : f[j] \in Nat /\ f[j] = Charge(j, i) BY ChargesTyped
  <2>2. \A j \in D \cup {n} : g[j] = Charge(j, i)' BY <1>2 DEF Charges
  <2>3. \A j \in D : g[j] = f[j]
    <3> SUFFICES ASSUME NEW j \in D PROVE g[j] = f[j] OBVIOUS
    <3>1. insClaims'[j].policy = insClaims[j].policy /\ paidClaims'[j] = paidClaims[j] BY DEF Joins
    <3>2. Charge(j, i)' = Charge(j, i) BY <1>4, <3>1, ChargeStays
    <3> QED BY <2>1, <2>2, <3>2
  <2>4. g[n] = extra
    <3>1. /\ insClaims'[n].policy = p /\ paidClaims'[n] = k
          /\ cover'[p].deductible = cover[p].deductible
      BY <1>0 DEF Joins
    <3>2. PayoutOf(insClaims[n])' = pay BY <3>1 DEF PayoutOf
    <3>3. Charge(n, i)' = IF p = i THEN k * pay ELSE 0 BY <3>1, <3>2 DEF Charge
    <3> QED BY <2>2, <3>3
  <2>5. extra \in Nat
    <3>1. insClaims'[n] \in ClaimRecord BY <1>2, LenProperties DEF Joins
    <3>2. cover[p] \in CoverRecord BY PolicyFacts
    <3>3. pay \in Nat BY <3>1, <3>2 DEF ClaimRecord, CoverRecord, LessOrZero
    <3>4. k * pay \in Nat
      <4> HIDE DEF pay
      <4> QED BY <3>3
    <3> QED BY <3>4
  <2>6. cover'[i].claimed = cover[i].claimed + extra BY <1>0 DEF Joins
  <2>8. cover[i].claimed = SumFunctionOnSet(f, D) BY <1>6 DEF f
  <2>10. \A j \in D : f[j] \in Nat BY <2>1
  <2> HIDE DEF f, g, extra, D
  <2>7. SumFunctionOnSet(g, D \cup {n}) = SumFunctionOnSet(f, D) + extra
    <3> DEFINE E == D \cup {n}
    <3>1. IsFiniteSet(D) /\ n \notin D BY <1>1, <1>2
    <3>2. \A j \in D : f[j] \in Nat /\ g[j] = f[j] BY <2>3, <2>10
    <3>3. E = D \cup {n} OBVIOUS
    <3> HIDE DEF E
    <3>4. SumFunctionOnSet(g, E) = SumFunctionOnSet(f, D) + extra
      BY <2>4, <2>5, <3>1, <3>2, <3>3, ChargeJoins
    <3> QED BY <3>3, <3>4
  <2>9. cover'[i].claimed = SumFunctionOnSet(g, D \cup {n}) BY <2>6, <2>7, <2>8
  <2> QED BY <1>2, <2>9 DEF g
<1>9. ClaimsArePaidOnce'
  <2>1. DOMAIN cover' = DOMAIN cover BY DEF Joins
  <2> QED BY <1>7, <1>8, <2>1, ChargedAfter
<1>10. insClaims' \in Seq(ClaimRecord') /\ paidClaims' \in Seq(Nat) BY DEF Joins, ClaimRecord, ClaimStatuses
<1> QED BY <1>2, <1>5, <1>9, <1>10 DEF ClaimBooks

(* The claims are left alone, and a new policy has been charged nothing.     *)
LEMMA ClaimsUntouched ==
  ASSUME PolicyBooks, ClaimBooks, insClaims' = insClaims, paidClaims' = paidClaims,
         DOMAIN cover \subseteq DOMAIN cover',
         \A i \in DOMAIN cover : cover'[i].deductible = cover[i].deductible /\ cover'[i].claimed = cover[i].claimed,
         \A i \in DOMAIN cover' \ DOMAIN cover : cover'[i].claimed = 0
  PROVE  ClaimBooks'
<1> DEFINE D == DOMAIN insClaims
<1>1. \A j \in D : insClaims[j].policy \in DOMAIN cover BY DEF ClaimBooks
<1>2. ASSUME NEW j \in D
      PROVE  PayoutOf(insClaims[j])' = PayoutOf(insClaims[j])
  BY <1>1, PayoutStays
<1>3. /\ \A j \in D : paidClaims[j] <= 1
      /\ \A i \in DOMAIN cover : cover[i].claimed = SumFunctionOnSet(Charges(i), D)
  BY ClaimsChargeOnce DEF ClaimBooks
<1>4. IsFiniteSet(D) BY ClaimFacts
<1>5. ASSUME NEW i \in DOMAIN cover' PROVE cover'[i].claimed = SumFunctionOnSet(Charges(i)', D)
  <2>1. \A j \in D : Charges(i)'[j] = Charge(j, i)' BY DEF Charges
  <2>2. CASE i \in DOMAIN cover
    <3>1. \A j \in D : Charges(i)[j] = Charge(j, i) BY DEF Charges
    <3>2. \A j \in D : Charge(j, i)' = Charge(j, i) BY <1>2, ChargeStays
    <3>3. \A j \in D : Charges(i)'[j] = Charges(i)[j] BY <2>1, <3>1, <3>2
    <3>4. SumFunctionOnSet(Charges(i)', D) = SumFunctionOnSet(Charges(i), D)
      <4> DEFINE f == Charges(i)
                 g == Charges(i)'
      <4>1. \A j \in D : g[j] = f[j] BY <3>3
      <4> HIDE DEF f, g, D
      <4>2. SumFunctionOnSet(g, D) = SumFunctionOnSet(f, D) BY <1>4, <4>1, SumAgree
      <4> QED BY <4>2 DEF f, g
    <3> QED BY <1>3, <2>2, <3>4
  <2>3. CASE i \notin DOMAIN cover
    <3> DEFINE g == Charges(i)'
    <3>1. \A j \in D : Charge(j, i)' = 0 BY <1>1, <2>3 DEF Charge
    <3>2. \A j \in D : g[j] = 0 BY <2>1, <3>1
    <3> HIDE DEF g, D
    <3>3. SumFunctionOnSet(g, D) = 0 BY <1>4, <3>2, SumZero
    <3> QED BY <2>3, <3>3 DEF g
  <2> QED BY <2>2, <2>3
<1>6. ClaimsArePaidOnce' BY <1>3, <1>5, ChargedAfter
<1>7. insClaims' \in Seq(ClaimRecord') BY DEF ClaimBooks, ClaimRecord, ClaimStatuses
<1> QED BY <1>1, <1>6, <1>7 DEF ClaimBooks

-----------------------------------------------------------------------------
(* What a step does to the policies                                          *)

(* Policies stay as they are, but for those in ids, which are in force and   *)
(* no more; a sale changes a policy's holder with its token's owner.         *)
LEMMA PoliciesFollow ==
  ASSUME PolicyBooks, pool.active \in Nat, NEW ids, ids \subseteq InForce,
         cover' \in Seq(CoverRecord), Len(cover') = Len(cover),
         token' \in Seq(TokenRecord), Len(token') = Len(token), listings' \subseteq DOMAIN token,
         TokenFollowsPolicy', InForce' \subseteq InForce \ ids,
         pool'.active = LessOrZero(pool.active, Cardinality(ids))
  PROVE  PolicyBooks'
<1>1. IsFiniteSet(InForce) /\ Cardinality(InForce) \in Nat BY PolicyFacts
<1>2. IsFiniteSet(InForce \ ids) /\ Cardinality(InForce \ ids) = Cardinality(InForce) - Cardinality(InForce \cap ids)
  BY <1>1, FS_Difference
<1>3. InForce \cap ids = ids OBVIOUS
<1>4. IsFiniteSet(ids) BY <1>1, FS_Subset
<1>5. Cardinality(ids) \in Nat BY <1>4, FS_CardinalityType
<1>6. Cardinality(InForce') <= Cardinality(InForce \ ids) /\ Cardinality(InForce') \in Nat
  <2>1. IsFiniteSet(InForce') BY <1>2, FS_Subset
  <2>2. Cardinality(InForce') \in Nat BY <2>1, FS_CardinalityType
  <2> HIDE DEF InForce
  <2>3. Cardinality(InForce') <= Cardinality(InForce \ ids) BY <1>2, FS_Subset
  <2> QED BY <2>2, <2>3
<1>7. Cardinality(InForce) <= pool.active BY DEF PolicyBooks, PoliciesInForceCount, InForce
<1>8. Cardinality(InForce') <= pool'.active
  <2>1. Cardinality(InForce \ ids) = Cardinality(InForce) - Cardinality(ids) BY <1>2, <1>3
  <2>2. Cardinality(InForce \ ids) \in Nat BY <1>2, FS_CardinalityType
  <2> QED BY <1>1, <1>5, <1>6, <1>7, <2>1, <2>2 DEF LessOrZero
<1>9. PoliciesInForceCount' BY <1>8 DEF PoliciesInForceCount, InForce
<1>10. listings' \subseteq DOMAIN token' /\ Len(token') = Len(cover')
  <2>1. token \in Seq(TokenRecord) /\ Len(token) = Len(cover) BY DEF PolicyBooks
  <2>2. DOMAIN token = 1..Len(token) /\ DOMAIN token' = 1..Len(token') BY <2>1, LenProperties
  <2> QED BY <2>1, <2>2
<1>11. cover' \in Seq(CoverRecord') /\ token' \in Seq(TokenRecord')
  BY DEF CoverRecord, TokenRecord, CoverStatuses
<1> QED BY <1>9, <1>10, <1>11 DEF PolicyBooks

(* Nothing of it changes.                                                    *)
LEMMA PoliciesUntouched ==
  ASSUME PolicyBooks, UNCHANGED <<cover, market>>, pool'.active = pool.active
  PROVE  PolicyBooks'
BY DEF PolicyBooks, TokenFollowsPolicy, PoliciesInForceCount, market, CoverRecord, TokenRecord, CoverStatuses

(* The holders of the policies and the market stay.                          *)
LEMMA HoldersStay ==
  ASSUME PolicyBooks, UNCHANGED market, DOMAIN cover' = DOMAIN cover,
         \A i \in DOMAIN cover : cover'[i].holder = cover[i].holder
  PROVE  TokenFollowsPolicy'
BY DEF PolicyBooks, TokenFollowsPolicy, market

LEMMA OneOfSeq ==
  ASSUME NEW S, NEW s \in Seq(S), NEW i \in DOMAIN s, NEW e \in S, NEW t, t = [s EXCEPT ![i] = e]
  PROVE  /\ t \in Seq(S) /\ Len(t) = Len(s) /\ DOMAIN t = DOMAIN s /\ t[i] = e
         /\ \A j \in DOMAIN s \ {i} : t[j] = s[j]
<1>1. DOMAIN s = 1..Len(s) BY LenProperties
<1>2. t \in Seq(S) /\ Len(t) = Len(s) BY <1>1, ExceptSeq
<1>3. DOMAIN t = DOMAIN s /\ t[i] = e /\ \A j \in DOMAIN s \ {i} : t[j] = s[j] OBVIOUS
<1> QED BY <1>2, <1>3

LEMMA OneAppended ==
  ASSUME NEW S, NEW s \in Seq(S), NEW e \in S, NEW t, t = Append(s, e)
  PROVE  /\ t \in Seq(S) /\ Len(t) = Len(s) + 1 /\ DOMAIN t = DOMAIN s \cup {Len(s) + 1}
         /\ Len(s) \in Nat /\ Len(s) + 1 \notin DOMAIN s
         /\ t[Len(s) + 1] = e /\ \A j \in DOMAIN s : t[j] = s[j]
<1>1. DOMAIN s = 1..Len(s) /\ Len(s) \in Nat BY LenProperties
<1>2. /\ t \in Seq(S) /\ Len(t) = Len(s) + 1 /\ t[Len(s) + 1] = e
      /\ \A j \in 1..Len(s) : t[j] = s[j]
  BY AppendProperties
<1>3. DOMAIN t = 1..(Len(s) + 1) BY <1>2, LenProperties
<1>4. 1..(Len(s) + 1) = 1..Len(s) \cup {Len(s) + 1} /\ Len(s) + 1 \notin 1..Len(s) BY <1>1
<1> QED BY <1>1, <1>2, <1>3, <1>4

-----------------------------------------------------------------------------
(* Claims                                                                    *)

LEMMA DecidedClaim ==
  ASSUME NEW c \in ClaimRecord, NEW status \in ClaimStatuses, NEW by \in Accounts
  PROVE  /\ Assessed(c, status, by) \in ClaimRecord
         /\ Assessed(c, status, by).policy = c.policy /\ Assessed(c, status, by).amount = c.amount
         /\ Assessed(c, status, by).status = status
BY DEF Assessed, ClaimRecord

LEMMA ChargedPolicy ==
  ASSUME NEW c \in CoverRecord, NEW payout \in Nat
  PROVE  /\ Charged(c, payout) \in CoverRecord /\ Charged(c, payout).claimed = c.claimed + payout
         /\ Charged(c, payout).holder = c.holder /\ Charged(c, payout).deductible = c.deductible
         /\ Charged(c, payout).status \in {c.status, "Claimed"}
<1> DEFINE t == c.claimed + payout
           s == IF t >= c.amount THEN "Claimed" ELSE c.status
<1>1. t \in Nat BY DEF CoverRecord
<1>2. s \in CoverStatuses BY DEF CoverRecord, CoverStatuses
<1>3. Charged(c, payout) = [c EXCEPT !.claimed = t, !.status = s] BY DEF Charged, CoverRecord
<1>4. s \in {c.status, "Claimed"} OBVIOUS
<1> HIDE DEF s
<1>5. Charged(c, payout).claimed = t BY <1>3 DEF CoverRecord
<1> HIDE DEF t
<1>6. Charged(c, payout) \in CoverRecord BY <1>1, <1>2, <1>3 DEF CoverRecord
<1>7. /\ Charged(c, payout).holder = c.holder /\ Charged(c, payout).deductible = c.deductible
      /\ Charged(c, payout).status = s
  BY <1>3 DEF CoverRecord
<1> QED BY <1>4, <1>5, <1>6, <1>7 DEF t

LEMMA RecoveryIsNat ==
  ASSUME NEW payout \in Nat
  PROVE  Recovery(payout) \in Nat
<1>1. Retention \in Nat /\ RecoveryLimit \in Nat BY InsuranceAssumption
<1>2. LessOrZero(payout, Retention) \in Nat BY <1>1 DEF LessOrZero
<1> QED BY <1>1, <1>2 DEF Recovery

(* What a step leaves of the policies when it charges payout to policy p.    *)
Charging(p, payout) ==
  /\ cover' \in Seq(CoverRecord) /\ Len(cover') = Len(cover) /\ DOMAIN cover' = DOMAIN cover
  /\ \A i \in DOMAIN cover :
       /\ cover'[i].holder = cover[i].holder /\ cover'[i].deductible = cover[i].deductible
       /\ cover'[i].claimed = cover[i].claimed + (IF i = p THEN payout ELSE 0)
       /\ cover'[i].status \in {cover[i].status, "Claimed"}

LEMMA ChargesNothing ==
  ASSUME PolicyBooks, UNCHANGED cover, NEW p
  PROVE  Charging(p, 0)
<1>1. cover \in Seq(CoverRecord) BY DEF PolicyBooks
<1>2. \A i \in DOMAIN cover : cover[i].claimed \in Nat BY PolicyFacts DEF CoverRecord
<1> QED BY <1>1, <1>2 DEF Charging

LEMMA ChargesOne ==
  ASSUME PolicyBooks, NEW p \in DOMAIN cover, NEW payout \in Nat,
         cover' = [cover EXCEPT ![p] = Charged(@, payout)]
  PROVE  Charging(p, payout)
<1>1. cover \in Seq(CoverRecord) /\ \A i \in DOMAIN cover : cover[i] \in CoverRecord
  BY PolicyFacts DEF PolicyBooks
<1> DEFINE e == Charged(cover[p], payout)
<1>2. cover' = [cover EXCEPT ![p] = e] OBVIOUS
<1>3. /\ e \in CoverRecord /\ e.claimed = cover[p].claimed + payout
      /\ e.holder = cover[p].holder /\ e.deductible = cover[p].deductible
      /\ e.status \in {cover[p].status, "Claimed"}
  BY <1>1, ChargedPolicy
<1> HIDE DEF e
<1>4. /\ cover' \in Seq(CoverRecord) /\ Len(cover') = Len(cover) /\ DOMAIN cover' = DOMAIN cover
      /\ cover'[p] = e /\ \A j \in DOMAIN cover \ {p} : cover'[j] = cover[j]
  BY <1>1, <1>2, <1>3, OneOfSeq
<1>5. \A i \in DOMAIN cover : cover[i].claimed \in Nat BY <1>1 DEF CoverRecord
<1>6. ASSUME NEW i \in DOMAIN cover
      PROVE  /\ cover'[i].holder = cover[i].holder /\ cover'[i].deductible = cover[i].deductible
             /\ cover'[i].claimed = cover[i].claimed + (IF i = p THEN payout ELSE 0)
             /\ cover'[i].status \in {cover[i].status, "Claimed"}
  <2>1. CASE i = p BY <1>3, <1>4, <2>1
  <2>2. CASE i # p BY <1>4, <1>5, <2>2
  <2> QED BY <2>1, <2>2
<1> QED BY <1>4, <1>6 DEF Charging

LEMMA ChargingKeepsBooks ==
  ASSUME PolicyBooks, NEW p, NEW payout \in Nat, Charging(p, payout), UNCHANGED market,
         pool.active \in Nat, pool'.active = pool.active
  PROVE  PolicyBooks'
<1>1. /\ cover' \in Seq(CoverRecord) /\ Len(cover') = Len(cover) /\ DOMAIN cover' = DOMAIN cover
      /\ \A i \in DOMAIN cover : /\ cover'[i].holder = cover[i].holder
                                 /\ cover'[i].status \in {cover[i].status, "Claimed"}
  BY DEF Charging
<1>2. TokenFollowsPolicy' BY <1>1, HoldersStay
<1>3. InForce' \subseteq InForce \ {} BY <1>1 DEF InForce
<1>4. pool'.active = LessOrZero(pool.active, Cardinality({})) BY FS_EmptySet DEF LessOrZero
<1>5. /\ token' \in Seq(TokenRecord) /\ Len(token') = Len(token) /\ listings' \subseteq DOMAIN token
  BY DEF PolicyBooks, market
<1> QED BY <1>1, <1>2, <1>3, <1>4, <1>5, PoliciesFollow

(* execute_payout.                                                           *)
LEMMA ClaimSettled ==
  ASSUME PoolTyped, PolicyBooks, recovered \in Nat, NEW filed \in Seq(ClaimRecord), NEW id \in DOMAIN filed,
         filed[id].policy \in DOMAIN cover, NEW by \in Accounts, Settle(filed, id, by)
  PROVE  /\ insClaims' \in Seq(ClaimRecord) /\ Len(insClaims') = Len(filed)
         /\ \A j \in DOMAIN filed : /\ insClaims'[j].policy = filed[j].policy
                                    /\ insClaims'[j].amount = filed[j].amount
         /\ \A j \in DOMAIN filed \ {id} : insClaims'[j].status = filed[j].status
         /\ insClaims'[id].status # "Pending"
         /\ PayoutOf(filed[id]) \in Nat /\ Charging(filed[id].policy, PayoutOf(filed[id]))
         /\ pool' \in PoolRecord /\ pool'.capital = pool.capital /\ pool'.index = pool.index
         /\ pool'.active = pool.active /\ recovered' \in Nat
<1> DEFINE claim == filed[id]
           payout == PayoutOf(claim)
<1>1. \A j \in DOMAIN filed : filed[j] \in ClaimRecord BY LenProperties
<1>2. cover[claim.policy] \in CoverRecord BY PolicyFacts
<1>3. payout \in Nat BY <1>1, <1>2, SMTT(20) DEF ClaimRecord, CoverRecord, PayoutOf, LessOrZero
<1>4. pool \in PoolRecord /\ pool.available \in Nat BY PoolFacts
<1>5. ASSUME NEW status \in {"Approved", "Paid"}, insClaims' = [filed EXCEPT ![id] = Assessed(@, status, by)]
      PROVE  /\ insClaims' \in Seq(ClaimRecord) /\ Len(insClaims') = Len(filed)
             /\ \A j \in DOMAIN filed : /\ insClaims'[j].policy = filed[j].policy
                                        /\ insClaims'[j].amount = filed[j].amount
             /\ \A j \in DOMAIN filed \ {id} : insClaims'[j].status = filed[j].status
             /\ insClaims'[id].status # "Pending"
  <2> DEFINE e == Assessed(claim, status, by)
  <2>1. insClaims' = [filed EXCEPT ![id] = e] BY <1>5
  <2>2. /\ e \in ClaimRecord /\ e.policy = claim.policy /\ e.amount = claim.amount /\ e.status = status
    <3>1. claim \in ClaimRecord /\ status \in ClaimStatuses BY <1>1 DEF ClaimStatuses
    <3> QED BY <3>1, DecidedClaim
  <2> HIDE DEF e
  <2>3. /\ insClaims' \in Seq(ClaimRecord) /\ Len(insClaims') = Len(filed)
        /\ insClaims'[id] = e /\ \A j \in DOMAIN filed \ {id} : insClaims'[j] = filed[j]
    BY <2>1, <2>2, OneOfSeq
  <2> QED BY <2>2, <2>3
<1>6. CASE payout = 0
  <2>1. insClaims' = [filed EXCEPT ![id] = Assessed(@, "Approved", by)] /\ UNCHANGED <<pool, cover, recovered>>
    BY <1>6 DEF Settle
  <2>2. Charging(claim.policy, payout) BY <1>6, <2>1, ChargesNothing
  <2> HIDE DEF claim, payout
  <2>3. pool' \in PoolRecord /\ pool' = pool /\ recovered' \in Nat BY <1>4, <2>1
  <2> QED BY <1>3, <1>5, <2>1, <2>2, <2>3 DEF claim, payout
<1>7. CASE payout # 0
  <2>1. /\ payout <= pool.available /\ insClaims' = [filed EXCEPT ![id] = Assessed(@, "Paid", by)]
        /\ pool' = [pool EXCEPT !.available = @ - payout]
        /\ cover' = [cover EXCEPT ![claim.policy] = Charged(@, payout)]
        /\ recovered' = recovered + Recovery(payout)
    BY <1>7 DEF Settle
  <2>2. Charging(claim.policy, payout) BY <1>3, <2>1, ChargesOne
  <2>3. /\ pool' \in PoolRecord /\ pool'.capital = pool.capital /\ pool'.index = pool.index
        /\ pool'.active = pool.active
    <3> DEFINE rest == pool.available - payout
    <3>1. rest \in Nat BY <1>3, <1>4, <2>1
    <3>2. pool' = [pool EXCEPT !.available = rest] BY <2>1
    <3> HIDE DEF rest
    <3> QED BY <1>4, <3>1, <3>2 DEF PoolRecord
  <2>4. recovered' \in Nat BY <1>3, <2>1, RecoveryIsNat
  <2>5. insClaims' = [filed EXCEPT ![id] = Assessed(@, "Paid", by)] BY <2>1
  <2> QED BY <1>3, <1>5, <2>2, <2>3, <2>4, <2>5
<1> QED BY <1>6, <1>7

(* One claim is settled, and what it pays, if k is 1, is charged.            *)
LEMMA ClaimSettles ==
  ASSUME InsIInv, NEW id \in DOMAIN insClaims, NEW k \in 0..1, paidClaims[id] + k <= 1,
         Settles(id, k), Charging(insClaims[id].policy, k * PayoutOf(insClaims[id])),
         pool' \in PoolRecord, pool'.capital = pool.capital, pool'.index = pool.index,
         pool'.active = pool.active, recovered' \in Nat, UntouchedByProcessing
  PROVE  InsIInv'
<1>1. LiquidityIInv /\ PoolTyped /\ PolicyBooks /\ ClaimBooks /\ OtherBooks
  BY DEF InsIInv, LiquidityIInv
<1>2. insTime \in Nat /\ insPaused \in BOOLEAN /\ pool.active \in Nat BY <1>1, PoolFacts DEF PoolTyped
<1>3. UNCHANGED <<stake, debt, vesting, taken, moves, accrued, insTime, insPaused>>
  BY DEF UntouchedByProcessing, liquidity
<1>4. LiquidityIInv' BY <1>1, <1>2, <1>3, PoolUntouched
<1>5. ClaimBooks'
  <2>1. k \in Nat OBVIOUS
  <2> QED BY <1>1, <2>1, OnePaid
<1>6. PolicyBooks'
  <2> DEFINE payout == k * PayoutOf(insClaims[id])
  <2>1. payout \in Nat
    <3>1. PayoutOf(insClaims[id]) \in Nat
      <4>1. insClaims[id].policy \in DOMAIN cover BY <1>1 DEF ClaimBooks
      <4> QED BY <1>1, <4>1, ChargesTyped
    <3> QED BY <3>1
  <2>2. UNCHANGED market BY DEF UntouchedByProcessing
  <2>3. Charging(insClaims[id].policy, payout) OBVIOUS
  <2> HIDE DEF payout
  <2> QED BY <1>1, <1>2, <2>1, <2>2, <2>3, ChargingKeepsBooks
<1>7. OtherBooks' BY <1>1 DEF OtherBooks, UntouchedByProcessing, adminBooks
<1> QED BY <1>4, <1>5, <1>6, <1>7 DEF InsIInv

LEMMA StepApproves ==
  ASSUME InsIInv, NEW caller \in Accounts, NEW id \in DOMAIN insClaims, Approves(caller, id),
         UntouchedByProcessing
  PROVE  InsIInv'
<1>1. PoolTyped /\ PolicyBooks /\ ClaimBooks /\ recovered \in Nat
  BY DEF InsIInv, LiquidityIInv, OtherBooks
<1>2. insClaims \in Seq(ClaimRecord) /\ paidClaims \in Seq(Nat) /\ DOMAIN paidClaims = DOMAIN insClaims
      /\ insClaims[id].policy \in DOMAIN cover /\ insClaims[id] \in ClaimRecord
  BY <1>1, ClaimFacts DEF ClaimBooks
<1>3. insClaims[id].status = "Pending" /\ Settle(insClaims, id, caller)
      /\ paidClaims' = [paidClaims EXCEPT ![id] = @ + 1]
  BY DEF Approves, Unsettled
<1>4. paidClaims[id] = 0 BY <1>1, <1>3 DEF ClaimBooks
<1>5. /\ insClaims' \in Seq(ClaimRecord) /\ Len(insClaims') = Len(insClaims)
      /\ \A j \in DOMAIN insClaims : /\ insClaims'[j].policy = insClaims[j].policy
                                     /\ insClaims'[j].amount = insClaims[j].amount
      /\ \A j \in DOMAIN insClaims \ {id} : insClaims'[j].status = insClaims[j].status
      /\ insClaims'[id].status # "Pending"
      /\ PayoutOf(insClaims[id]) \in Nat /\ Charging(insClaims[id].policy, PayoutOf(insClaims[id]))
      /\ pool' \in PoolRecord /\ pool'.capital = pool.capital /\ pool'.index = pool.index
      /\ pool'.active = pool.active /\ recovered' \in Nat
  BY <1>1, <1>2, <1>3, ClaimSettled
<1>6. /\ paidClaims' \in Seq(Nat) /\ Len(paidClaims') = Len(paidClaims) /\ paidClaims'[id] = paidClaims[id] + 1
      /\ \A j \in DOMAIN insClaims \ {id} : paidClaims'[j] = paidClaims[j]
  <2>1. paidClaims' = [paidClaims EXCEPT ![id] = 1] BY <1>2, <1>3, <1>4
  <2>2. id \in DOMAIN paidClaims BY <1>2
  <2>3. /\ paidClaims' \in Seq(Nat) /\ Len(paidClaims') = Len(paidClaims) /\ paidClaims'[id] = 1
        /\ \A j \in DOMAIN paidClaims \ {id} : paidClaims'[j] = paidClaims[j]
    BY <1>2, <2>1, <2>2, OneOfSeq
  <2> QED BY <1>2, <1>4, <2>3
<1>7. PayoutOf(insClaims[id]) = 1 * PayoutOf(insClaims[id]) BY <1>5
<1>8. Settles(id, 1) BY <1>5, <1>6, <1>7 DEF Settles, Charging
<1>9. Charging(insClaims[id].policy, 1 * PayoutOf(insClaims[id])) BY <1>5, <1>7
<1>10. paidClaims[id] + 1 <= 1 /\ 1 \in 0..1 BY <1>4
<1> QED BY <1>5, <1>8, <1>9, <1>10, ClaimSettles

(* A claim is rejected, moved to dispute, or approved by an item of a batch  *)
(* that then fails for want of capital: nothing is paid.                     *)
LEMMA StepSettlesUnpaid ==
  ASSUME InsIInv, NEW id \in DOMAIN insClaims, NEW e \in ClaimRecord,
         insClaims' = [insClaims EXCEPT ![id] = e], e.policy = insClaims[id].policy,
         e.amount = insClaims[id].amount, e.status # "Pending",
         UNCHANGED <<pool, cover, paidClaims>>, recovered' \in Nat, UntouchedByProcessing
  PROVE  InsIInv'
<1>1. PoolTyped /\ PolicyBooks /\ ClaimBooks BY DEF InsIInv, LiquidityIInv
<1>2. /\ insClaims \in Seq(ClaimRecord) /\ paidClaims \in Seq(Nat)
      /\ insClaims[id].policy \in DOMAIN cover /\ paidClaims[id] \in Nat /\ paidClaims[id] <= 1
  BY <1>1, ClaimFacts DEF ClaimBooks, ClaimsArePaidOnce
<1>3. /\ insClaims' \in Seq(ClaimRecord) /\ Len(insClaims') = Len(insClaims)
      /\ insClaims'[id] = e /\ \A j \in DOMAIN insClaims \ {id} : insClaims'[j] = insClaims[j]
  BY <1>2, OneOfSeq
<1>4. Charging(insClaims[id].policy, 0) BY <1>1, ChargesNothing
<1>5. PayoutOf(insClaims[id]) \in Nat BY <1>1, <1>2, ChargesTyped
<1>6. 0 * PayoutOf(insClaims[id]) = 0 BY <1>5
<1>7. \A j \in DOMAIN insClaims : /\ insClaims'[j].policy = insClaims[j].policy
                                  /\ insClaims'[j].amount = insClaims[j].amount
  <2>1. ASSUME NEW j \in DOMAIN insClaims
        PROVE  insClaims'[j].policy = insClaims[j].policy /\ insClaims'[j].amount = insClaims[j].amount
    <3>1. CASE j = id BY <1>3, <3>1
    <3>2. CASE j # id BY <1>3, <3>2
    <3> QED BY <3>1, <3>2
  <2> QED BY <2>1
<1>8. Settles(id, 0)
  <2>1. /\ paidClaims' \in Seq(Nat) /\ Len(paidClaims') = Len(paidClaims) /\ DOMAIN cover' = DOMAIN cover
        /\ paidClaims'[id] = paidClaims[id] + 0 /\ insClaims'[id].status # "Pending"
    BY <1>2, <1>3
  <2>2. \A j \in DOMAIN insClaims \ {id} :
          insClaims'[j].status = insClaims[j].status /\ paidClaims'[j] = paidClaims[j]
    BY <1>3
  <2>3. \A i \in DOMAIN cover :
          /\ cover'[i].deductible = cover[i].deductible
          /\ cover'[i].claimed = cover[i].claimed
               + (IF i = insClaims[id].policy THEN 0 * PayoutOf(insClaims[id]) ELSE 0)
    BY <1>4, <1>6 DEF Charging
  <2> QED BY <1>3, <1>7, <2>1, <2>2, <2>3 DEF Settles
<1>9. pool' \in PoolRecord /\ pool' = pool BY <1>1, PoolFacts
<1>10. paidClaims[id] + 0 <= 1 /\ 0 \in 0..1 BY <1>2
<1>11. Charging(insClaims[id].policy, 0 * PayoutOf(insClaims[id])) BY <1>4, <1>6
<1> QED BY <1>8, <1>9, <1>10, <1>11, ClaimSettles

LEMMA StepProcesses ==
  ASSUME InsIInv, NEW caller \in Accounts, NEW id \in DOMAIN insClaims,
         ProcessClaim(caller, id) \/ BatchItem(caller, id) \/ MoveToDispute(id)
  PROVE  InsIInv'
<1>1. PoolTyped /\ PolicyBooks /\ ClaimBooks /\ recovered \in Nat BY DEF InsIInv, LiquidityIInv, OtherBooks
<1>2. insClaims[id] \in ClaimRecord /\ insClaims[id].policy \in DOMAIN cover BY <1>1, ClaimFacts DEF ClaimBooks
<1>3. PayoutOf(insClaims[id]) \in Nat BY <1>1, <1>2, ChargesTyped
<1>4. ASSUME NEW status \in {"Approved", "Rejected"}, UntouchedByProcessing, recovered' \in Nat,
             insClaims' = [insClaims EXCEPT ![id] = Assessed(@, status, caller)],
             UNCHANGED <<pool, cover, paidClaims>>
      PROVE  InsIInv'
  <2> DEFINE e == Assessed(insClaims[id], status, caller)
  <2>1. status \in ClaimStatuses BY DEF ClaimStatuses
  <2>2. /\ e \in ClaimRecord /\ e.policy = insClaims[id].policy /\ e.amount = insClaims[id].amount
        /\ e.status = status
    BY <1>2, <2>1, DecidedClaim
  <2>3. insClaims' = [insClaims EXCEPT ![id] = e] BY <1>4
  <2>4. e.status # "Pending" BY <2>2
  <2> HIDE DEF e
  <2>5. UNCHANGED <<pool, cover, paidClaims>> /\ recovered' \in Nat /\ UntouchedByProcessing BY <1>4
  <2> QED BY <2>2, <2>3, <2>4, <2>5, StepSettlesUnpaid
<1>5. CASE Approves(caller, id) /\ UntouchedByProcessing BY <1>5, StepApproves
<1>6. CASE Rejects(caller, id) /\ UntouchedByProcessing
  <2>1. /\ insClaims' = [insClaims EXCEPT ![id] = Assessed(@, "Rejected", caller)]
        /\ UNCHANGED <<pool, cover, paidClaims>> /\ recovered' \in Nat
    BY <1>1, <1>6 DEF Rejects
  <2> QED BY <1>4, <1>6, <2>1
<1>7. CASE FailsUnpaid(caller, id) /\ UntouchedByProcessing
  <2>1. /\ insClaims' = [insClaims EXCEPT ![id] = Assessed(@, "Approved", caller)]
        /\ UNCHANGED <<pool, cover, paidClaims>> /\ recovered' = recovered + Recovery(PayoutOf(insClaims[id]))
    BY <1>7 DEF FailsUnpaid
  <2>2. recovered' \in Nat BY <1>1, <1>3, <2>1, RecoveryIsNat
  <2> QED BY <1>4, <1>7, <2>1, <2>2
<1>8. CASE MoveToDispute(id)
  <2> DEFINE e == [insClaims[id] EXCEPT !.status = "Disputed"]
  <2>1. e \in ClaimRecord /\ e.policy = insClaims[id].policy /\ e.amount = insClaims[id].amount
        /\ e.status # "Pending"
    BY <1>2 DEF ClaimRecord, ClaimStatuses
  <2>2. /\ insClaims' = [insClaims EXCEPT ![id] = e] /\ UNCHANGED <<pool, cover, paidClaims>>
        /\ recovered' \in Nat /\ UntouchedByProcessing
    BY <1>1, <1>8 DEF MoveToDispute
  <2> HIDE DEF e
  <2> QED BY <2>1, <2>2, StepSettlesUnpaid
<1> QED BY <1>5, <1>6, <1>7, <1>8 DEF ProcessClaim, BatchItem

(* A claim joins the list and, if k is 1, is settled at once.                *)
AddsClaim ==
  UNCHANGED <<insTime, insPaused, liquidity, accrued, market, reinsured, adminBooks>>

LEMMA ClaimJoins ==
  ASSUME InsIInv, NEW p \in DOMAIN cover, NEW k \in 0..1, Joins(p, k), NEW payout \in Nat,
         Charging(p, payout), pool' \in PoolRecord, pool'.capital = pool.capital,
         pool'.index = pool.index, pool'.active = pool.active, recovered' \in Nat, AddsClaim
  PROVE  InsIInv'
<1>1. LiquidityIInv /\ PoolTyped /\ PolicyBooks /\ ClaimBooks /\ OtherBooks
  BY DEF InsIInv, LiquidityIInv
<1>2. insTime \in Nat /\ insPaused \in BOOLEAN /\ pool.active \in Nat BY <1>1, PoolFacts DEF PoolTyped
<1>3. UNCHANGED <<stake, debt, vesting, taken, moves, accrued, insTime, insPaused>>
  BY DEF AddsClaim, liquidity
<1>4. LiquidityIInv' BY <1>1, <1>2, <1>3, PoolUntouched
<1>5. ClaimBooks' BY <1>1, OneMore
<1>6. UNCHANGED market BY DEF AddsClaim
<1>7. PolicyBooks' BY <1>1, <1>2, <1>6, ChargingKeepsBooks
<1>8. OtherBooks' BY <1>1 DEF OtherBooks, AddsClaim, adminBooks
<1> QED BY <1>4, <1>5, <1>7, <1>8 DEF InsIInv

LEMMA NewClaimTyped ==
  ASSUME InsIInv, NEW caller \in Accounts, NEW i \in DOMAIN cover, NEW amount \in ClaimAmounts
  PROVE  /\ NewClaim(caller, i, amount) \in ClaimRecord /\ NewClaim(caller, i, amount).policy = i
         /\ NewClaim(caller, i, amount).amount = amount /\ NewClaim(caller, i, amount).status = "Pending"
<1>1. insTime + DisputeWindow \in Nat BY InsuranceAssumption, PoolFacts DEF InsIInv, LiquidityIInv
<1>2. i \in Nat BY PolicyFacts DEF InsIInv
<1>3. amount \in Nat BY InsuranceAssumption
<1> QED BY <1>1, <1>2, <1>3 DEF NewClaim, ClaimRecord, ClaimStatuses

LEMMA StepSubmits ==
  ASSUME InsIInv, NEW caller \in Accounts, NEW i \in DOMAIN cover, NEW amount \in ClaimAmounts,
         NEW evidence, NEW number, SubmitClaim(caller, i, amount, evidence, number)
  PROVE  InsIInv'
<1> DEFINE e == NewClaim(caller, i, amount)
<1>1. PoolTyped /\ PolicyBooks /\ ClaimBooks /\ recovered \in Nat BY DEF InsIInv, LiquidityIInv, OtherBooks
<1>2. insClaims \in Seq(ClaimRecord) /\ paidClaims \in Seq(Nat) /\ Len(paidClaims) = Len(insClaims)
  BY <1>1 DEF ClaimBooks
<1>3. e \in ClaimRecord /\ e.policy = i /\ e.amount = amount /\ e.status = "Pending" BY NewClaimTyped
<1>4. /\ insClaims' = Append(insClaims, e) /\ paidClaims' = Append(paidClaims, 0)
      /\ UNCHANGED <<pool, cover>> /\ recovered' = recovered
  BY DEF SubmitClaim, reinsurance
<1>5. AddsClaim BY DEF SubmitClaim, AddsClaim, reinsurance
<1> HIDE DEF e
<1>6. /\ insClaims' \in Seq(ClaimRecord) /\ Len(insClaims') = Len(insClaims) + 1
      /\ insClaims'[Len(insClaims) + 1] = e /\ \A j \in DOMAIN insClaims : insClaims'[j] = insClaims[j]
  BY <1>2, <1>3, <1>4, OneAppended
<1>7. /\ paidClaims' \in Seq(Nat) /\ Len(paidClaims') = Len(paidClaims) + 1
      /\ paidClaims'[Len(insClaims) + 1] = 0 /\ \A j \in DOMAIN insClaims : paidClaims'[j] = paidClaims[j]
  <2>1. 0 \in Nat OBVIOUS
  <2>2. /\ paidClaims' \in Seq(Nat) /\ Len(paidClaims') = Len(paidClaims) + 1
        /\ paidClaims'[Len(paidClaims) + 1] = 0 /\ \A j \in DOMAIN paidClaims : paidClaims'[j] = paidClaims[j]
    BY <1>2, <1>4, <2>1, OneAppended
  <2>3. DOMAIN paidClaims = DOMAIN insClaims BY <1>1, ClaimFacts
  <2> QED BY <1>2, <2>2, <2>3
<1>8. Charging(i, 0) BY <1>1, <1>4, ChargesNothing
<1>9. Joins(i, 0)
  <2>1. \A j \in DOMAIN insClaims :
          /\ insClaims'[j].policy = insClaims[j].policy /\ insClaims'[j].amount = insClaims[j].amount
          /\ insClaims'[j].status = insClaims[j].status /\ paidClaims'[j] = paidClaims[j]
    BY <1>6, <1>7
  <2>2. LessOrZero(insClaims'[Len(insClaims) + 1].amount, cover[i].deductible) \in Nat
    <3>1. cover[i] \in CoverRecord BY <1>1, PolicyFacts
    <3> QED BY <1>3, <1>6, <3>1 DEF LessOrZero, CoverRecord, ClaimRecord
  <2>3. 0 * LessOrZero(insClaims'[Len(insClaims) + 1].amount, cover[i].deductible) = 0 BY <2>2
  <2>4. \A j \in DOMAIN cover :
         /\ cover'[j].deductible = cover[j].deductible
         /\ cover'[j].claimed = cover[j].claimed
              + (IF j = i THEN 0 * LessOrZero(insClaims'[Len(insClaims) + 1].amount, cover[i].deductible) ELSE 0)
    BY <1>8, <2>3 DEF Charging
  <2>5. insClaims'[Len(insClaims) + 1].policy = i /\ DOMAIN cover' = DOMAIN cover BY <1>3, <1>4, <1>6
  <2> QED BY <1>6, <1>7, <2>1, <2>4, <2>5 DEF Joins
<1>10. pool' \in PoolRecord /\ pool' = pool BY <1>1, <1>4, PoolFacts
<1>11. recovered' \in Nat /\ 0 \in 0..1 /\ 0 \in Nat BY <1>1, <1>4
<1> QED BY <1>5, <1>8, <1>9, <1>10, <1>11, ClaimJoins

LEMMA StepSubmitsParametric ==
  ASSUME InsIInv, NEW caller \in Accounts, NEW i \in DOMAIN cover, NEW amount \in ClaimAmounts,
         NEW evidence, NEW number, SubmitParametricClaim(caller, i, amount, evidence, number)
  PROVE  InsIInv'
<1> DEFINE e == NewClaim(caller, i, amount)
           filed == Append(insClaims, e)
           pay == LessOrZero(amount, cover[i].deductible)
<1>0. PICK n \in Nat : n = Len(insClaims) + 1 BY ClaimFacts DEF InsIInv
<1>1. PoolTyped /\ PolicyBooks /\ ClaimBooks /\ recovered \in Nat BY DEF InsIInv, LiquidityIInv, OtherBooks
<1>2. insClaims \in Seq(ClaimRecord) /\ paidClaims \in Seq(Nat) /\ Len(paidClaims) = Len(insClaims)
  BY <1>1 DEF ClaimBooks
<1>3. e \in ClaimRecord /\ e.policy = i /\ e.amount = amount /\ e.status = "Pending" BY NewClaimTyped
<1>4. Settle(filed, n, caller) /\ paidClaims' = Append(paidClaims, 1)
  BY <1>0 DEF SubmitParametricClaim
<1>5. AddsClaim BY DEF SubmitParametricClaim, AddsClaim
<1> HIDE DEF e
<1>6. /\ filed \in Seq(ClaimRecord) /\ Len(filed) = n /\ DOMAIN filed = DOMAIN insClaims \cup {n}
      /\ n \notin DOMAIN insClaims /\ filed[n] = e /\ \A j \in DOMAIN insClaims : filed[j] = insClaims[j]
  BY <1>0, <1>2, <1>3, OneAppended
<1> HIDE DEF filed
<1>7. filed[n].policy \in DOMAIN cover /\ n \in DOMAIN filed BY <1>3, <1>6
<1>8. PayoutOf(filed[n]) = pay BY <1>3, <1>6 DEF PayoutOf
<1>9. /\ insClaims' \in Seq(ClaimRecord) /\ Len(insClaims') = Len(filed)
      /\ \A j \in DOMAIN filed : /\ insClaims'[j].policy = filed[j].policy
                                 /\ insClaims'[j].amount = filed[j].amount
      /\ \A j \in DOMAIN filed \ {n} : insClaims'[j].status = filed[j].status
      /\ insClaims'[n].status # "Pending"
      /\ PayoutOf(filed[n]) \in Nat /\ Charging(filed[n].policy, PayoutOf(filed[n]))
      /\ pool' \in PoolRecord /\ pool'.capital = pool.capital /\ pool'.index = pool.index
      /\ pool'.active = pool.active /\ recovered' \in Nat
  BY <1>1, <1>4, <1>6, <1>7, ClaimSettled
<1>10. pay \in Nat /\ Charging(i, pay) BY <1>3, <1>6, <1>8, <1>9
<1> HIDE DEF pay
<1>11. /\ paidClaims' \in Seq(Nat) /\ Len(paidClaims') = Len(paidClaims) + 1
       /\ paidClaims'[n] = 1 /\ \A j \in DOMAIN insClaims : paidClaims'[j] = paidClaims[j]
  <2>1. 1 \in Nat OBVIOUS
  <2>2. /\ paidClaims' \in Seq(Nat) /\ Len(paidClaims') = Len(paidClaims) + 1
        /\ paidClaims'[Len(paidClaims) + 1] = 1 /\ \A j \in DOMAIN paidClaims : paidClaims'[j] = paidClaims[j]
    BY <1>2, <1>4, <2>1, OneAppended
  <2>3. DOMAIN paidClaims = DOMAIN insClaims BY <1>1, ClaimFacts
  <2> QED BY <1>0, <1>2, <2>2, <2>3
<1>12. Joins(i, 1)
  <2>1. \A j \in DOMAIN insClaims :
          /\ insClaims'[j].policy = insClaims[j].policy /\ insClaims'[j].amount = insClaims[j].amount
          /\ insClaims'[j].status = insClaims[j].status /\ paidClaims'[j] = paidClaims[j]
    BY <1>6, <1>9, <1>11
  <2>2. insClaims'[n].policy = i /\ insClaims'[n].amount = amount BY <1>3, <1>6, <1>9
  <2>3. 1 * LessOrZero(insClaims'[n].amount, cover[i].deductible) = pay BY <1>10, <2>2 DEF pay
  <2>4. \A j \in DOMAIN cover :
         /\ cover'[j].deductible = cover[j].deductible
         /\ cover'[j].claimed = cover[j].claimed
              + (IF j = i THEN 1 * LessOrZero(insClaims'[n].amount, cover[i].deductible) ELSE 0)
    BY <1>10, <2>3 DEF Charging
  <2>5. DOMAIN cover' = DOMAIN cover BY <1>10 DEF Charging
  <2> QED BY <1>0, <1>6, <1>9, <1>11, <2>1, <2>2, <2>4, <2>5 DEF Joins
<1>13. 1 \in 0..1 OBVIOUS
<1> QED BY <1>5, <1>9, <1>10, <1>12, <1>13, ClaimJoins

-----------------------------------------------------------------------------
(* Policies that begin, go on and end                                        *)

LEMMA ShareTyped ==
  ASSUME NEW paid \in Nat
  PROVE  PoolShare(paid) \in Nat
<1>1. FeeRate \in Nat /\ FeeRate <= 10000 BY InsuranceAssumption
<1>2. paid * FeeRate \in Nat /\ paid * FeeRate <= paid * 10000
  <2>1. FeeRate * paid <= 10000 * paid BY <1>1, ProductGrows
  <2>2. FeeRate * paid = paid * FeeRate /\ 10000 * paid = paid * 10000 /\ paid * FeeRate \in Nat BY <1>1
  <2> QED BY <2>1, <2>2
<1>3. (paid * FeeRate) \div 10000 \in 0..paid
  <2> DEFINE n == paid * FeeRate
  <2>1. n \in Nat /\ n <= paid * 10000 /\ 10000 \in Nat \ {0} BY <1>2
  <2> HIDE DEF n
  <2>2. n \div 10000 \in 0..paid BY <2>1, QuotientWithin
  <2> QED BY <2>2 DEF n
<1> DEFINE fee == (paid * FeeRate) \div 10000
<1>4. PoolShare(paid) = paid - fee BY DEF PoolShare
<1>5. fee \in 0..paid BY <1>3
<1> HIDE DEF fee
<1> QED BY <1>4, <1>5

LEMMA DeductibleTyped ==
  ASSUME NEW property, NEW amount \in Nat
  PROVE  DeductibleOf(property, amount) \in Nat
<1>1. RiskMultiplier(assessment[property].score) \in Nat BY DEF RiskMultiplier
<1>2. DeductibleScale \in Nat \ {0} BY InsuranceAssumption
<1> DEFINE m == RiskMultiplier(assessment[property].score)
           n == amount * 500 * m
<1>3. DeductibleOf(property, amount) = n \div DeductibleScale BY DEF DeductibleOf
<1>4. n \in Nat
  <2>1. m \in Nat BY <1>1
  <2> HIDE DEF m
  <2>2. amount * 500 \in Nat OBVIOUS
  <2> QED BY <2>1, <2>2
<1> HIDE DEF n
<1> QED BY <1>2, <1>3, <1>4, QuotientFits

(* A premium joins the pool, and the pool's count becomes active.            *)
LEMMA PremiumJoins ==
  ASSUME LiquidityIInv, NEW share \in Nat, NEW active \in Nat,
         pool' = [WithPremium(share) EXCEPT !.active = active], AccruePremium(share),
         UNCHANGED <<insTime, insPaused, liquidity>>
  PROVE  LiquidityIInv' /\ pool'.active = active
<1>1. PoolTyped BY DEF LiquidityIInv
<1>2. /\ pool \in PoolRecord /\ Precision \in Nat /\ pool.capital \in Nat /\ pool.available \in Nat
      /\ pool.index \in Nat /\ accrued \in Nat
  BY <1>1, PoolFacts
<1> DEFINE gain  == (share * Precision) \div pool.capital
           index == IF pool.capital = 0 THEN pool.index ELSE pool.index + gain
           avail == pool.available + share
<1>3. index \in Nat
  <2>1. CASE pool.capital = 0 BY <1>2, <2>1
  <2>2. CASE pool.capital # 0
    <3>1. share * Precision \in Nat /\ pool.capital \in Nat \ {0} BY <1>2, <2>2
    <3>2. gain \in Nat BY <3>1, QuotientFits
    <3> HIDE DEF gain
    <3> QED BY <1>2, <2>2, <3>2
  <2> QED BY <2>1, <2>2
<1>4. avail \in Nat BY <1>2
<1>5. WithPremium(share) = [pool EXCEPT !.available = avail, !.index = index]
  BY <1>2 DEF WithPremium, PoolRecord
<1> HIDE DEF avail, index
<1>6. /\ WithPremium(share) \in PoolRecord /\ WithPremium(share).capital = pool.capital
  BY <1>2, <1>3, <1>4, <1>5 DEF PoolRecord
<1>7. /\ pool' \in PoolRecord /\ pool'.capital = pool.capital /\ pool'.index = WithPremium(share).index
      /\ pool'.active = active
  BY <1>6 DEF PoolRecord
<1>8. accrued' \in Nat
  <2>1. accrued' = IF pool.capital = 0 THEN accrued ELSE accrued + share BY DEF AccruePremium
  <2> QED BY <1>2, <2>1
<1>9. UNCHANGED <<stake, debt, vesting, taken, moves, insTime, insPaused>> BY DEF liquidity
<1>10. PoolTyped'
  <2>1. pool' \in PoolRecord' BY <1>7 DEF PoolRecord, VestingTerms
  <2> QED BY <1>1, <1>8, <1>9, <2>1 DEF PoolTyped, VestingRecord
<1>11. LiquidityIInv' BY <1>7, <1>9, <1>10, PremiumIn
<1> QED BY <1>7, <1>11

LEMMA StepCreates ==
  ASSUME InsIInv, NEW holder \in Accounts, NEW property \in Insured, NEW kind, NEW amount \in Nat,
         NEW seconds \in Nat, NEW paid \in Nat, NEW parametric \in BOOLEAN,
         CreatePolicy(holder, property, kind, amount, seconds, paid, parametric)
  PROVE  InsIInv'
<1> DEFINE e == PolicyRecord(holder, property, amount, seconds, parametric)
           t == MintedToken(holder)
           n == Len(cover) + 1
<1>1. LiquidityIInv /\ PoolTyped /\ PolicyBooks /\ ClaimBooks /\ OtherBooks BY DEF InsIInv, LiquidityIInv
<1>2. amount \in Nat /\ seconds \in Nat /\ paid \in Nat OBVIOUS
<1>3. insTime \in Nat /\ pool \in PoolRecord /\ pool.active \in Nat BY <1>1, PoolFacts
<1>4. /\ e \in CoverRecord /\ e.claimed = 0 /\ e.holder = holder /\ t \in TokenRecord
      /\ t.owner = holder /\ t.price = NoOffer
  <2>1. DeductibleOf(property, amount) \in Nat BY <1>2, DeductibleTyped
  <2>2. insTime + seconds \in Nat BY <1>2, <1>3
  <2>3. e \in CoverRecord /\ e.claimed = 0 /\ e.holder = holder
    BY <1>2, <2>1, <2>2 DEF PolicyRecord, CoverRecord, CoverStatuses
  <2> QED BY <2>3 DEF MintedToken, TokenRecord, NoOffer
<1>5. /\ pool' = [WithPremium(PoolShare(paid)) EXCEPT !.active = @ + 1] /\ AccruePremium(PoolShare(paid))
      /\ cover' = Append(cover, e) /\ token' = Append(token, t)
      /\ UNCHANGED <<insTime, insPaused, liquidity>> /\ listings' = listings
      /\ insClaims' = insClaims /\ paidClaims' = paidClaims /\ UNCHANGED <<reinsurance, adminBooks>>
  BY DEF CreatePolicy, claimBooks
<1>6. LiquidityIInv' /\ pool'.active = pool.active + 1
  <2>1. pool' = [WithPremium(PoolShare(paid)) EXCEPT !.active = pool.active + 1]
    <3>1. WithPremium(PoolShare(paid)).active = pool.active BY <1>3 DEF WithPremium, PoolRecord
    <3> QED BY <1>5, <3>1
  <2>2. PoolShare(paid) \in Nat /\ pool.active + 1 \in Nat BY <1>2, <1>3, ShareTyped
  <2>3. AccruePremium(PoolShare(paid)) /\ UNCHANGED <<insTime, insPaused, liquidity>> BY <1>5
  <2> QED BY <1>1, <2>1, <2>2, <2>3, PremiumJoins
<1>7. cover \in Seq(CoverRecord) /\ token \in Seq(TokenRecord) /\ Len(token) = Len(cover)
      /\ listings \subseteq DOMAIN token /\ DOMAIN token = DOMAIN cover
  BY <1>1, PolicyFacts DEF PolicyBooks
<1> HIDE DEF e, t
<1>8. /\ cover' \in Seq(CoverRecord) /\ Len(cover') = n /\ DOMAIN cover' = DOMAIN cover \cup {n}
      /\ n \notin DOMAIN cover /\ cover'[n] = e /\ \A j \in DOMAIN cover : cover'[j] = cover[j]
  BY <1>4, <1>5, <1>7, OneAppended
<1>9. /\ token' \in Seq(TokenRecord) /\ Len(token') = n /\ DOMAIN token' = DOMAIN cover \cup {n}
      /\ token'[n] = t /\ \A j \in DOMAIN cover : token'[j] = token[j]
  <2>1. /\ token' \in Seq(TokenRecord) /\ Len(token') = Len(token) + 1
        /\ DOMAIN token' = DOMAIN token \cup {Len(token) + 1}
        /\ token'[Len(token) + 1] = t /\ \A j \in DOMAIN token : token'[j] = token[j]
    BY <1>4, <1>5, <1>7, OneAppended
  <2> QED BY <1>7, <2>1
<1>10. PolicyBooks'
  <2> HIDE DEF n
  <2>1. TokenFollowsPolicy'
    <3>1. ASSUME NEW i \in DOMAIN cover
          PROVE  token'[i].owner = cover'[i].holder /\ (i \in listings' <=> token'[i].price # NoOffer)
      <4>1. token[i].owner = cover[i].holder /\ (i \in listings <=> token[i].price # NoOffer)
        BY <1>1 DEF PolicyBooks, TokenFollowsPolicy
      <4> QED BY <1>5, <1>8, <1>9, <4>1
    <3>2. token'[n].owner = cover'[n].holder /\ n \notin listings' /\ token'[n].price = NoOffer
      BY <1>4, <1>5, <1>7, <1>8, <1>9
    <3> QED BY <1>8, <3>1, <3>2 DEF TokenFollowsPolicy, NoOffer
  <2>2. PoliciesInForceCount'
    <3>1. IsFiniteSet(InForce) /\ Cardinality(InForce) \in Nat BY <1>1, PolicyFacts
    <3>2. Cardinality(InForce) <= pool.active BY <1>1 DEF PolicyBooks, PoliciesInForceCount, InForce
    <3>3. InForce' \subseteq InForce \cup {n} BY <1>8 DEF InForce
    <3>4. IsFiniteSet(InForce \cup {n}) /\ Cardinality(InForce \cup {n}) <= Cardinality(InForce) + 1
      <4>1. n \notin InForce BY <1>8 DEF InForce
      <4>2. IsFiniteSet(InForce) BY <3>1
      <4>3. IsFiniteSet(InForce \cup {n}) BY <4>2, FS_AddElement
      <4>4. Cardinality(InForce \cup {n}) = Cardinality(InForce) + 1 BY <4>1, <4>2, FS_AddElement
      <4> QED BY <3>1, <4>3, <4>4
    <3>5. Cardinality(InForce \cup {n}) \in Nat BY <3>4, FS_CardinalityType
    <3>6. IsFiniteSet(InForce') BY <3>3, <3>4, FS_Subset
    <3>7. Cardinality(InForce') \in Nat BY <3>6, FS_CardinalityType
    <3>8. Cardinality(InForce') <= Cardinality(InForce \cup {n})
      <4> HIDE DEF InForce
      <4> QED BY <3>3, <3>4, FS_Subset
    <3>9. Cardinality(InForce') <= pool'.active BY <1>3, <1>6, <3>1, <3>2, <3>4, <3>5, <3>7, <3>8
    <3> QED BY <3>9 DEF PoliciesInForceCount, InForce
  <2>3. cover' \in Seq(CoverRecord') /\ token' \in Seq(TokenRecord')
    BY <1>8, <1>9 DEF CoverRecord, TokenRecord, CoverStatuses
  <2>4. listings' \subseteq DOMAIN token' /\ Len(token') = Len(cover') BY <1>5, <1>7, <1>8, <1>9
  <2> QED BY <2>1, <2>2, <2>3, <2>4 DEF PolicyBooks
<1>11. ClaimBooks'
  <2>1. DOMAIN cover \subseteq DOMAIN cover' /\ \A i \in DOMAIN cover' \ DOMAIN cover : cover'[i].claimed = 0
    BY <1>4, <1>8
  <2>2. insClaims' = insClaims /\ paidClaims' = paidClaims BY <1>5
  <2>3. \A i \in DOMAIN cover : cover'[i].deductible = cover[i].deductible /\ cover'[i].claimed = cover[i].claimed
    BY <1>8
  <2> QED BY <1>1, <2>1, <2>2, <2>3, ClaimsUntouched
<1>12. OtherBooks' BY <1>1, <1>5 DEF OtherBooks, reinsurance, adminBooks
<1> QED BY <1>6, <1>10, <1>11, <1>12 DEF InsIInv

(* The pool, the claims and the rest are left alone by what changes the      *)
(* policies' dates and statuses, their holders and the market.               *)
LEMMA RestStays ==
  ASSUME InsIInv, insTime' = insTime, insPaused' = insPaused, UNCHANGED <<liquidity, accrued>>,
         pool' \in PoolRecord, pool'.capital = pool.capital, pool'.index = pool.index,
         insClaims' = insClaims, paidClaims' = paidClaims, UNCHANGED <<reinsurance, adminBooks>>,
         DOMAIN cover' = DOMAIN cover,
         \A i \in DOMAIN cover : cover'[i].deductible = cover[i].deductible /\ cover'[i].claimed = cover[i].claimed
  PROVE  LiquidityIInv' /\ ClaimBooks' /\ OtherBooks'
<1>1. LiquidityIInv /\ PoolTyped /\ PolicyBooks /\ ClaimBooks /\ OtherBooks BY DEF InsIInv, LiquidityIInv
<1>2. insTime \in Nat /\ insPaused \in BOOLEAN BY <1>1 DEF PoolTyped
<1>3. UNCHANGED <<stake, debt, vesting, taken, moves, accrued>> BY DEF liquidity
<1>4. LiquidityIInv' BY <1>1, <1>2, <1>3, PoolUntouched
<1>5. ClaimBooks' BY <1>1, ClaimsUntouched
<1>6. OtherBooks' BY <1>1 DEF OtherBooks, reinsurance, adminBooks
<1> QED BY <1>4, <1>5, <1>6

LEMMA RenewedPolicy ==
  ASSUME NEW c \in CoverRecord, NEW seconds \in Nat
  PROVE  /\ Renewed(c, seconds) \in CoverRecord /\ Renewed(c, seconds).claimed = c.claimed
         /\ Renewed(c, seconds).holder = c.holder /\ Renewed(c, seconds).deductible = c.deductible
<1> DEFINE t == c.end + seconds
<1>1. t \in Nat BY DEF CoverRecord
<1>2. Renewed(c, seconds) = [c EXCEPT !.end = t, !.status = "Renewed"] BY DEF Renewed, CoverRecord
<1> HIDE DEF t
<1> QED BY <1>1, <1>2 DEF CoverRecord, CoverStatuses

LEMMA StepRenews ==
  ASSUME InsIInv, NEW i \in DOMAIN cover, NEW seconds \in Nat, NEW paid \in Nat,
         RenewPolicy(i, seconds, paid)
  PROVE  InsIInv'
<1> DEFINE e == Renewed(cover[i], seconds)
<1>1. LiquidityIInv /\ PoolTyped /\ PolicyBooks /\ ClaimBooks /\ OtherBooks BY DEF InsIInv, LiquidityIInv
<1>2. seconds \in Nat /\ paid \in Nat OBVIOUS
<1>3. pool \in PoolRecord /\ pool.active \in Nat BY <1>1, PoolFacts
<1>4. cover \in Seq(CoverRecord) /\ cover[i] \in CoverRecord BY <1>1, PolicyFacts DEF PolicyBooks
<1>5. /\ e \in CoverRecord /\ e.claimed = cover[i].claimed /\ e.holder = cover[i].holder
      /\ e.deductible = cover[i].deductible
  BY <1>2, <1>4, RenewedPolicy
<1>6. /\ cover[i].status \in {"Active", "Renewed"} /\ cover' = [cover EXCEPT ![i] = e]
      /\ pool' = WithPremium(PoolShare(paid)) /\ AccruePremium(PoolShare(paid))
      /\ UNCHANGED <<insTime, insPaused, liquidity>> /\ UNCHANGED market
      /\ insClaims' = insClaims /\ paidClaims' = paidClaims /\ UNCHANGED <<reinsurance, adminBooks>>
  BY DEF RenewPolicy, claimBooks
<1>7. LiquidityIInv' /\ pool'.active = pool.active
  <2>1. pool' = [WithPremium(PoolShare(paid)) EXCEPT !.active = pool.active]
    <3>1. WithPremium(PoolShare(paid)).active = pool.active
          /\ [WithPremium(PoolShare(paid)) EXCEPT !.active = pool.active] = WithPremium(PoolShare(paid))
      BY <1>3 DEF WithPremium, PoolRecord
    <3> QED BY <1>6, <3>1
  <2>2. PoolShare(paid) \in Nat BY <1>2, ShareTyped
  <2>3. AccruePremium(PoolShare(paid)) /\ UNCHANGED <<insTime, insPaused, liquidity>> BY <1>6
  <2> QED BY <1>1, <1>3, <2>1, <2>2, <2>3, PremiumJoins
<1> HIDE DEF e
<1>8. /\ cover' \in Seq(CoverRecord) /\ Len(cover') = Len(cover) /\ DOMAIN cover' = DOMAIN cover
      /\ cover'[i] = e /\ \A j \in DOMAIN cover \ {i} : cover'[j] = cover[j]
  BY <1>4, <1>5, <1>6, OneOfSeq
<1>9. \A j \in DOMAIN cover :
        /\ cover'[j].holder = cover[j].holder /\ cover'[j].deductible = cover[j].deductible
        /\ cover'[j].claimed = cover[j].claimed
  <2>1. ASSUME NEW j \in DOMAIN cover
        PROVE  /\ cover'[j].holder = cover[j].holder /\ cover'[j].deductible = cover[j].deductible
               /\ cover'[j].claimed = cover[j].claimed
    <3>1. CASE j = i BY <1>5, <1>8, <3>1
    <3>2. CASE j # i BY <1>8, <3>2
    <3> QED BY <3>1, <3>2
  <2> QED BY <2>1
<1>10. PolicyBooks'
  <2>1. TokenFollowsPolicy' BY <1>1, <1>6, <1>8, <1>9, HoldersStay
  <2>2. InForce' \subseteq InForce \ {} BY <1>6, <1>8 DEF InForce
  <2>3. pool'.active = LessOrZero(pool.active, Cardinality({})) BY <1>3, <1>7, FS_EmptySet DEF LessOrZero
  <2>4. /\ token' \in Seq(TokenRecord) /\ Len(token') = Len(token) /\ listings' \subseteq DOMAIN token
    BY <1>1, <1>6 DEF PolicyBooks, market
  <2> QED BY <1>1, <1>3, <1>8, <2>1, <2>2, <2>3, <2>4, PoliciesFollow
<1>11. ClaimBooks'
  <2>1. DOMAIN cover \subseteq DOMAIN cover' /\ \A j \in DOMAIN cover' \ DOMAIN cover : cover'[j].claimed = 0
    BY <1>8
  <2> QED BY <1>1, <1>6, <1>9, <2>1, ClaimsUntouched
<1>12. OtherBooks' BY <1>1, <1>6 DEF OtherBooks, reinsurance, adminBooks
<1> QED BY <1>7, <1>10, <1>11, <1>12 DEF InsIInv

LEMMA StepStops ==
  ASSUME InsIInv, NEW ids \in SUBSET InForce, NEW status \in {"Cancelled", "Expired"}, Stops(ids, status)
  PROVE  InsIInv'
<1>1. PoolTyped /\ PolicyBooks BY DEF InsIInv, LiquidityIInv
<1>2. pool \in PoolRecord /\ pool.active \in Nat BY <1>1, PoolFacts
<1>3. /\ cover \in Seq(CoverRecord) /\ DOMAIN cover = 1..Len(cover) /\ Len(cover) \in Nat
      /\ \A i \in DOMAIN cover : cover[i] \in CoverRecord
  BY <1>1, PolicyFacts DEF PolicyBooks
<1>4. /\ cover' = [i \in DOMAIN cover |-> IF i \in ids THEN [cover[i] EXCEPT !.status = status] ELSE cover[i]]
      /\ pool' = [pool EXCEPT !.active = LessOrZero(@, Cardinality(ids))]
      /\ UNCHANGED <<insTime, insPaused, liquidity, accrued>> /\ UNCHANGED market
      /\ insClaims' = insClaims /\ paidClaims' = paidClaims /\ UNCHANGED <<reinsurance, adminBooks>>
  BY DEF Stops, claimBooks
<1>5. ASSUME NEW i \in DOMAIN cover
      PROVE  /\ cover'[i] \in CoverRecord /\ cover'[i].holder = cover[i].holder
             /\ cover'[i].deductible = cover[i].deductible /\ cover'[i].claimed = cover[i].claimed
             /\ cover'[i].status = IF i \in ids THEN status ELSE cover[i].status
  <2>1. cover[i] \in CoverRecord /\ status \in CoverStatuses BY <1>3 DEF CoverStatuses
  <2>2. CASE i \in ids
    <3>1. cover'[i] = [cover[i] EXCEPT !.status = status] BY <1>4, <2>2
    <3> QED BY <2>1, <2>2, <3>1 DEF CoverRecord
  <2>3. CASE i \notin ids BY <1>4, <2>1, <2>3
  <2> QED BY <2>2, <2>3
<1>6. DOMAIN cover' = DOMAIN cover BY <1>4
<1>7. cover' \in Seq(CoverRecord) /\ Len(cover') = Len(cover)
  <2>1. cover' = [i \in 1..Len(cover) |-> cover'[i]] BY <1>3, <1>4
  <2>2. cover' \in [1..Len(cover) -> CoverRecord] BY <1>3, <1>5, <2>1
  <2>3. cover' \in Seq(CoverRecord) BY <1>3, <2>2, SeqDef
  <2>4. DOMAIN cover' = 1..Len(cover') /\ Len(cover') \in Nat BY <2>3, LenProperties
  <2> QED BY <1>3, <1>6, <2>3, <2>4
<1>8. Cardinality(ids) \in Nat
  <2>1. IsFiniteSet(InForce) BY <1>1, PolicyFacts
  <2>2. IsFiniteSet(ids) BY <2>1, FS_Subset
  <2> QED BY <2>2, FS_CardinalityType
<1>9. /\ pool' \in PoolRecord /\ pool'.capital = pool.capital /\ pool'.index = pool.index
      /\ pool'.active = LessOrZero(pool.active, Cardinality(ids))
  <2> DEFINE left == LessOrZero(pool.active, Cardinality(ids))
  <2>1. left \in Nat BY <1>2, <1>8 DEF LessOrZero
  <2>2. pool' = [pool EXCEPT !.active = left] BY <1>4
  <2> HIDE DEF left
  <2>3. /\ pool' \in PoolRecord /\ pool'.capital = pool.capital /\ pool'.index = pool.index
        /\ pool'.active = left
    BY <1>2, <2>1, <2>2 DEF PoolRecord
  <2> QED BY <2>3 DEF left
<1>10. PolicyBooks'
  <2>1. \A i \in DOMAIN cover : cover'[i].holder = cover[i].holder BY <1>5
  <2>2. TokenFollowsPolicy' BY <1>1, <1>4, <1>6, <2>1, HoldersStay
  <2>3. InForce' \subseteq InForce \ ids BY <1>5, <1>6 DEF InForce
  <2>4. /\ token' \in Seq(TokenRecord) /\ Len(token') = Len(token) /\ listings' \subseteq DOMAIN token
    BY <1>1, <1>4 DEF PolicyBooks, market
  <2> QED BY <1>1, <1>2, <1>7, <1>9, <2>2, <2>3, <2>4, PoliciesFollow
<1>11. LiquidityIInv' /\ ClaimBooks' /\ OtherBooks'
  <2>1. insTime' = insTime /\ insPaused' = insPaused /\ UNCHANGED <<liquidity, accrued>> BY <1>4
  <2>2. insClaims' = insClaims /\ paidClaims' = paidClaims /\ UNCHANGED <<reinsurance, adminBooks>> BY <1>4
  <2>3. \A i \in DOMAIN cover : cover'[i].deductible = cover[i].deductible /\ cover'[i].claimed = cover[i].claimed
    BY <1>5
  <2> QED BY <1>6, <1>9, <2>1, <2>2, <2>3, RestStays
<1> QED BY <1>10, <1>11 DEF InsIInv

-----------------------------------------------------------------------------
(* The market, the admin and what touches none of these books                *)

(* The policies' holders and their tokens change hands together.             *)
LEMMA TokensMove ==
  ASSUME InsIInv, insTime' = insTime, insPaused' = insPaused, UNCHANGED <<liquidity, accrued>>,
         pool' = pool, insClaims' = insClaims, paidClaims' = paidClaims,
         UNCHANGED <<reinsurance, adminBooks>>,
         cover' \in Seq(CoverRecord), Len(cover') = Len(cover), DOMAIN cover' = DOMAIN cover,
         \A i \in DOMAIN cover : /\ cover'[i].deductible = cover[i].deductible
                                 /\ cover'[i].claimed = cover[i].claimed
                                 /\ cover'[i].status = cover[i].status,
         token' \in Seq(TokenRecord), Len(token') = Len(token), listings' \subseteq DOMAIN token,
         TokenFollowsPolicy'
  PROVE  InsIInv'
<1>1. PoolTyped /\ PolicyBooks BY DEF InsIInv, LiquidityIInv
<1>2. pool \in PoolRecord /\ pool.active \in Nat BY <1>1, PoolFacts
<1>3. LiquidityIInv' /\ ClaimBooks' /\ OtherBooks'
  <2>1. pool' \in PoolRecord /\ pool'.capital = pool.capital /\ pool'.index = pool.index BY <1>2
  <2>2. \A i \in DOMAIN cover : cover'[i].deductible = cover[i].deductible /\ cover'[i].claimed = cover[i].claimed
    OBVIOUS
  <2> QED BY <2>1, <2>2, RestStays
<1>4. InForce' \subseteq InForce \ {} BY DEF InForce
<1>5. pool'.active = LessOrZero(pool.active, Cardinality({})) BY <1>2, FS_EmptySet DEF LessOrZero
<1>6. PolicyBooks' BY <1>1, <1>2, <1>4, <1>5, PoliciesFollow
<1> QED BY <1>3, <1>6 DEF InsIInv

LEMMA StepLists ==
  ASSUME InsIInv, NEW i \in DOMAIN token, NEW price \in AskPrices, ListToken(i, price)
  PROVE  InsIInv'
<1> DEFINE e == [token[i] EXCEPT !.price = price]
<1>1. PolicyBooks BY DEF InsIInv
<1>2. /\ token \in Seq(TokenRecord) /\ token[i] \in TokenRecord /\ cover \in Seq(CoverRecord)
      /\ listings \subseteq DOMAIN token /\ DOMAIN token = DOMAIN cover
  BY <1>1, PolicyFacts DEF PolicyBooks
<1>3. price \in Nat \ {0} BY InsuranceAssumption
<1>4. e \in TokenRecord /\ e.owner = token[i].owner /\ e.price = price BY <1>2, <1>3 DEF TokenRecord
<1>5. /\ token' = [token EXCEPT ![i] = e] /\ listings' = listings \cup {i} /\ cover' = cover
      /\ UNCHANGED <<insTime, insPaused, pool, liquidity, accrued, reinsurance, adminBooks>>
      /\ insClaims' = insClaims /\ paidClaims' = paidClaims
  BY DEF ListToken, claimBooks
<1> HIDE DEF e
<1>6. /\ token' \in Seq(TokenRecord) /\ Len(token') = Len(token) /\ token'[i] = e
      /\ \A j \in DOMAIN token \ {i} : token'[j] = token[j]
  BY <1>2, <1>4, <1>5, OneOfSeq
<1>7. TokenFollowsPolicy'
  <2>1. ASSUME NEW j \in DOMAIN cover
        PROVE  token'[j].owner = cover'[j].holder /\ (j \in listings' <=> token'[j].price # NoOffer)
    <3>1. token[j].owner = cover[j].holder /\ (j \in listings <=> token[j].price # NoOffer)
      BY <1>1 DEF PolicyBooks, TokenFollowsPolicy
    <3>2. CASE j = i BY <1>3, <1>4, <1>5, <1>6, <3>1, <3>2 DEF NoOffer
    <3>3. CASE j # i BY <1>2, <1>5, <1>6, <3>1, <3>3
    <3> QED BY <3>2, <3>3
  <2> QED BY <1>5, <2>1 DEF TokenFollowsPolicy, NoOffer
<1>8. listings' \subseteq DOMAIN token BY <1>2, <1>5
<1> QED BY <1>2, <1>5, <1>6, <1>7, <1>8, TokensMove

LEMMA StepSells ==
  ASSUME InsIInv, NEW buyer \in Accounts, NEW i \in DOMAIN token, NEW paid, PurchaseToken(buyer, i, paid)
  PROVE  InsIInv'
<1> DEFINE e == [token[i] EXCEPT !.owner = buyer, !.price = NoOffer]
           c == [cover[i] EXCEPT !.holder = buyer]
<1>1. PolicyBooks BY DEF InsIInv
<1>2. /\ token \in Seq(TokenRecord) /\ token[i] \in TokenRecord
      /\ cover \in Seq(CoverRecord) /\ cover[i] \in CoverRecord
      /\ listings \subseteq DOMAIN token /\ DOMAIN token = DOMAIN cover
  BY <1>1, PolicyFacts DEF PolicyBooks
<1>3. e \in TokenRecord /\ e.owner = buyer /\ e.price = NoOffer BY <1>2 DEF TokenRecord, NoOffer
<1>4. /\ c \in CoverRecord /\ c.holder = buyer /\ c.deductible = cover[i].deductible
      /\ c.claimed = cover[i].claimed /\ c.status = cover[i].status
  BY <1>2 DEF CoverRecord
<1>5. /\ token' = [token EXCEPT ![i] = e] /\ listings' = listings \ {i}
      /\ cover' = [cover EXCEPT ![i] = c]
      /\ UNCHANGED <<insTime, insPaused, pool, liquidity, accrued, reinsurance, adminBooks>>
      /\ insClaims' = insClaims /\ paidClaims' = paidClaims
  BY DEF PurchaseToken, claimBooks
<1> HIDE DEF e, c
<1>6. /\ token' \in Seq(TokenRecord) /\ Len(token') = Len(token) /\ token'[i] = e
      /\ \A j \in DOMAIN token \ {i} : token'[j] = token[j]
  BY <1>2, <1>3, <1>5, OneOfSeq
<1>7. /\ cover' \in Seq(CoverRecord) /\ Len(cover') = Len(cover) /\ DOMAIN cover' = DOMAIN cover
      /\ cover'[i] = c /\ \A j \in DOMAIN cover \ {i} : cover'[j] = cover[j]
  <2>1. i \in DOMAIN cover /\ cover \in Seq(CoverRecord) BY <1>2
  <2>2. c \in CoverRecord /\ cover' = [cover EXCEPT ![i] = c] BY <1>4, <1>5
  <2> QED BY <2>1, <2>2, OneOfSeq
<1>8. TokenFollowsPolicy'
  <2>1. ASSUME NEW j \in DOMAIN cover
        PROVE  token'[j].owner = cover'[j].holder /\ (j \in listings' <=> token'[j].price # NoOffer)
    <3>1. token[j].owner = cover[j].holder /\ (j \in listings <=> token[j].price # NoOffer)
      BY <1>1 DEF PolicyBooks, TokenFollowsPolicy
    <3>2. CASE j = i BY <1>3, <1>4, <1>5, <1>6, <1>7, <3>2
    <3>3. CASE j # i BY <1>2, <1>5, <1>6, <1>7, <3>1, <3>3
    <3> QED BY <3>2, <3>3
  <2> QED BY <1>7, <2>1 DEF TokenFollowsPolicy, NoOffer
<1>9. listings' \subseteq DOMAIN token BY <1>2, <1>5
<1>10. \A j \in DOMAIN cover : /\ cover'[j].deductible = cover[j].deductible
                               /\ cover'[j].claimed = cover[j].claimed
                               /\ cover'[j].status = cover[j].status
  <2>1. ASSUME NEW j \in DOMAIN cover
        PROVE  /\ cover'[j].deductible = cover[j].deductible /\ cover'[j].claimed = cover[j].claimed
               /\ cover'[j].status = cover[j].status
    <3>1. CASE j = i BY <1>4, <1>7, <3>1
    <3>2. CASE j # i BY <1>7, <3>2
    <3> QED BY <3>1, <3>2
  <2> QED BY <2>1
<1> QED BY <1>5, <1>6, <1>7, <1>8, <1>9, <1>10, TokensMove

(* Steps that leave the pool, the policies and the claims alone.             *)
LEMMA BooksStay ==
  ASSUME InsIInv, UNCHANGED <<insTime, insPaused, pool, liquidity, accrued, cover, market>>,
         insClaims' = insClaims, paidClaims' = paidClaims, OtherBooks'
  PROVE  InsIInv'
<1>1. PoolTyped /\ LiquidityIInv /\ PolicyBooks /\ ClaimBooks BY DEF InsIInv, LiquidityIInv
<1>2. pool \in PoolRecord /\ insTime \in Nat /\ insPaused \in BOOLEAN BY <1>1 DEF PoolTyped
<1>3. LiquidityIInv'
  <2>1. UNCHANGED <<stake, debt, vesting, taken, moves, accrued>> BY DEF liquidity
  <2> QED BY <1>1, <1>2, <2>1, PoolUntouched
<1>4. PolicyBooks' BY <1>1, PoliciesUntouched
<1>5. ClaimBooks'
  <2>1. /\ DOMAIN cover \subseteq DOMAIN cover'
        /\ \A i \in DOMAIN cover : cover'[i].deductible = cover[i].deductible /\ cover'[i].claimed = cover[i].claimed
        /\ \A i \in DOMAIN cover' \ DOMAIN cover : cover'[i].claimed = 0
    OBVIOUS
  <2> QED BY <1>1, <2>1, ClaimsUntouched
<1> QED BY <1>3, <1>4, <1>5 DEF InsIInv

LEMMA StepAdministers ==
  ASSUME InsIInv, NEW caller \in Accounts, NEW a \in Accounts,
         \/ ProposeSetAdmin(caller, a) \/ GrantAdmin(caller, a) \/ RevokeAdmin(caller, a)
         \/ ExecuteSetAdmin(caller) \/ CancelPendingAdmin(caller)
  PROVE  InsIInv'
<1>1. OtherBooks BY DEF InsIInv
<1>2. HandsOver
  BY DEF ProposeSetAdmin, GrantAdmin, RevokeAdmin, ExecuteSetAdmin, CancelPendingAdmin
<1>3. reinsured' = reinsured /\ recovered' = recovered BY <1>2 DEF HandsOver, reinsurance
<1>4. insAdmin' \in Accounts /\ (proposal' = NoProposal \/ proposal'.to \in Accounts)
  <2>1. CASE ProposeSetAdmin(caller, a) BY <1>1, <2>1 DEF OtherBooks, ProposeSetAdmin
  <2>2. CASE GrantAdmin(caller, a) \/ RevokeAdmin(caller, a)
    BY <1>1, <2>2 DEF OtherBooks, GrantAdmin, RevokeAdmin
  <2>3. CASE ExecuteSetAdmin(caller) BY <1>1, <2>3 DEF OtherBooks, ExecuteSetAdmin
  <2>4. CASE CancelPendingAdmin(caller) BY <1>1, <2>4 DEF OtherBooks, CancelPendingAdmin
  <2> QED BY <2>1, <2>2, <2>3, <2>4
<1>5. OtherBooks' BY <1>1, <1>3, <1>4 DEF OtherBooks, NoProposal
<1>6. /\ UNCHANGED <<insTime, insPaused, pool, liquidity, accrued, cover, market>>
      /\ insClaims' = insClaims /\ paidClaims' = paidClaims
  BY <1>2 DEF HandsOver, claimBooks
<1> QED BY <1>5, <1>6, BooksStay

(* Risk assessments, evidence and the agreement with the reinsurer.          *)
LEMMA StepBeside ==
  ASSUME InsIInv, Evidence \/ Reinsuring \/ \E p, score, s : UpdateRiskAssessment(p, score, s)
  PROVE  InsIInv'
<1>1. OtherBooks BY DEF InsIInv
<1>2. /\ UNCHANGED <<insTime, insPaused, pool, liquidity, accrued, cover, market, adminBooks>>
      /\ recovered' = recovered /\ insClaims' = insClaims /\ paidClaims' = paidClaims
      /\ reinsured' \in Nat
  <2>1. CASE Evidence
    <3>1. ASSUME NEW a, NEW id, SubmitEvidence(a, id)
          PROVE  UNCHANGED <<insTime, insPaused, pool, liquidity, accrued, cover, market, claimBooks,
                             reinsurance, adminBooks>>
      BY <3>1 DEF SubmitEvidence
    <3>2. ASSUME NEW a, NEW n, NEW valid, VerifyEvidence(a, n, valid)
          PROVE  UNCHANGED <<insTime, insPaused, pool, liquidity, accrued, cover, market, claimBooks,
                             reinsurance, adminBooks>>
      BY <3>2 DEF VerifyEvidence
    <3>3. UNCHANGED <<insTime, insPaused, pool, liquidity, accrued, cover, market, claimBooks,
                      reinsurance, adminBooks>>
      BY <2>1, <3>1, <3>2 DEF Evidence
    <3> QED BY <1>1, <3>3 DEF OtherBooks, claimBooks, reinsurance
  <2>2. CASE Reinsuring
    <3>1. PICK s \in Terms : RegisterReinsurance(s) BY <2>2 DEF Reinsuring
    <3>2. s \in Nat /\ insTime \in Nat BY InsuranceAssumption DEF InsIInv, LiquidityIInv, PoolTyped
    <3> QED BY <3>1, <3>2 DEF RegisterReinsurance, claimBooks
  <2>3. CASE \E p, score, s : UpdateRiskAssessment(p, score, s)
    BY <1>1, <2>3 DEF OtherBooks, UpdateRiskAssessment, claimBooks, reinsurance
  <2> QED BY <2>1, <2>2, <2>3
<1>3. OtherBooks' BY <1>1, <1>2 DEF OtherBooks, adminBooks
<1> QED BY <1>2, <1>3, BooksStay

(* Steps that touch the pool alone, and no count of the policies in force.   *)
LEMMA BooksBesidePool ==
  ASSUME InsIInv, LiquidityIInv', pool'.active = pool.active,
         UNCHANGED <<cover, market, claimBooks, reinsurance, adminBooks>>
  PROVE  InsIInv'
<1>1. PolicyBooks /\ ClaimBooks /\ OtherBooks BY DEF InsIInv
<1>2. insClaims' = insClaims /\ paidClaims' = paidClaims BY DEF claimBooks
<1>3. PolicyBooks' BY <1>1, PoliciesUntouched
<1>4. ClaimBooks'
  <2>1. /\ DOMAIN cover \subseteq DOMAIN cover'
        /\ \A i \in DOMAIN cover : cover'[i].deductible = cover[i].deductible /\ cover'[i].claimed = cover[i].claimed
        /\ \A i \in DOMAIN cover' \ DOMAIN cover : cover'[i].claimed = 0
    OBVIOUS
  <2> QED BY <1>1, <1>2, <2>1, ClaimsUntouched
<1>5. OtherBooks' BY <1>1 DEF OtherBooks, reinsurance, adminBooks
<1> QED BY <1>3, <1>4, <1>5 DEF InsIInv

LEMMA StepOfPoolAlone ==
  ASSUME InsIInv, PoolStep
  PROVE  InsIInv'
<1>1. LiquidityIInv /\ PoolTyped BY DEF InsIInv, LiquidityIInv
<1>2. /\ Providing \/ SwitchPause \/ InsTick
      /\ UNCHANGED <<cover, market, claimBooks, reinsurance, adminBooks>>
  BY DEF PoolStep
<1>3. LiquidityIInv' BY <1>1, <1>2, StepOfPool
<1>4. pool'.active = pool.active
  <2>1. pool \in PoolRecord BY <1>1, PoolFacts
  <2>2. CASE SwitchPause \/ InsTick BY <2>2 DEF SwitchPause, InsTick
  <2>3. CASE Providing
    <3>1. ASSUME NEW a \in Accounts, NEW amount \in Stakes, DepositLiquidity(a, amount)
          PROVE  pool'.active = pool.active
      BY <2>1, <3>1 DEF DepositLiquidity, PoolRecord
    <3>2. ASSUME NEW a \in Accounts, NEW amount \in Stakes, WithdrawLiquidity(a, amount)
          PROVE  pool'.active = pool.active
      <4> DEFINE vests   == VestingSeconds > 0
                 penalty == IF vests THEN Penalty(IntoVesting(a)) ELSE 0
                 out     == IF vests THEN amount ELSE PendingOf(a) + amount
                 c       == pool.capital - amount
                 v       == pool.available + penalty - out
      <4>1. pool' = [pool EXCEPT !.capital = c, !.available = v] BY <3>2 DEF WithdrawLiquidity
      <4> HIDE DEF c, v
      <4> QED BY <2>1, <4>1 DEF PoolRecord
    <3>3. ASSUME NEW a \in Accounts, ClaimPoolRewards(a)
          PROVE  pool'.active = pool.active
      BY <2>1, <3>3 DEF ClaimPoolRewards, PoolRecord
    <3>4. ASSUME NEW a \in Accounts, ReinvestRewards(a)
          PROVE  pool'.active = pool.active
      BY <2>1, <3>4 DEF ReinvestRewards, PoolRecord
    <3>5. ASSUME NEW a \in Accounts, ClaimVestedRewards(a)
          PROVE  pool'.active = pool.active
      BY <2>1, <3>5 DEF ClaimVestedRewards, PoolRecord
    <3>6. ASSUME NEW terms \in Vestings, ConfigurePoolVesting(terms)
          PROVE  pool'.active = pool.active
      BY <2>1, <3>6 DEF ConfigurePoolVesting, PoolRecord
    <3> QED BY <2>3, <3>1, <3>2, <3>3, <3>4, <3>5, <3>6 DEF Providing
  <2> QED BY <1>2, <2>2, <2>3
<1> QED BY <1>2, <1>3, <1>4, BooksBesidePool

-----------------------------------------------------------------------------
(* The theorems                                                              *)

LEMMA ContractStarts ==
  ASSUME InsInit
  PROVE  InsIInv
<1>1. LiquidityInit BY DEF InsInit
<1>2. LiquidityIInv BY <1>1, PoolStarts
<1>3. /\ cover = <<>> /\ token = <<>> /\ listings = {} /\ insClaims = <<>> /\ paidClaims = <<>>
      /\ reinsured = 0 /\ recovered = 0 /\ insAdmin \in Accounts /\ proposal = NoProposal
  BY DEF InsInit
<1>4. /\ cover \in Seq(CoverRecord) /\ token \in Seq(TokenRecord) /\ insClaims \in Seq(ClaimRecord)
      /\ paidClaims \in Seq(Nat)
  BY <1>3, EmptySeq
<1>5. DOMAIN cover = {} /\ DOMAIN insClaims = {} BY <1>3
<1>6. PoliciesInForceCount
  <2>1. {i \in DOMAIN cover : cover[i].status \in {"Active", "Renewed"}} = {} BY <1>5
  <2>2. pool.active \in Nat BY <1>2, PoolFacts DEF LiquidityIInv
  <2>3. Cardinality({i \in DOMAIN cover : cover[i].status \in {"Active", "Renewed"}}) = 0
    BY <2>1, FS_EmptySet
  <2> QED BY <2>2, <2>3 DEF PoliciesInForceCount
<1>7. PolicyBooks BY <1>3, <1>4, <1>5, <1>6 DEF PolicyBooks, TokenFollowsPolicy
<1>8. ClaimBooks BY <1>3, <1>4, <1>5 DEF ClaimBooks, ClaimsArePaidOnce
<1>9. OtherBooks BY <1>3 DEF OtherBooks
<1> QED BY <1>2, <1>7, <1>8, <1>9 DEF InsIInv

LEMMA StepOfContract ==
  ASSUME InsIInv, InsNext
  PROVE  InsIInv'
<1>1. CASE PoolStep BY <1>1, StepOfPoolAlone
<1>2. CASE Insuring
  <2>1. ASSUME NEW h \in Accounts, NEW p \in Insured, NEW kind \in Kinds, NEW amount \in Coverages,
               NEW s \in Terms, NEW paid \in Payments, NEW parametric \in BOOLEAN,
               CreatePolicy(h, p, kind, amount, s, paid, parametric)
        PROVE  InsIInv'
    <3>1. amount \in Nat /\ s \in Nat /\ paid \in Nat BY InsuranceAssumption
    <3> QED BY <2>1, <3>1, StepCreates
  <2>2. ASSUME NEW i \in DOMAIN cover, NEW s \in Terms, NEW paid \in Payments, RenewPolicy(i, s, paid)
        PROVE  InsIInv'
    <3>1. s \in Nat /\ paid \in Nat BY InsuranceAssumption
    <3> QED BY <2>2, <3>1, StepRenews
  <2>3. ASSUME NEW i \in DOMAIN cover, CancelPolicy(i) PROVE InsIInv'
    <3>1. {i} \in SUBSET InForce /\ Stops({i}, "Cancelled") BY <2>3 DEF CancelPolicy, InForce
    <3> QED BY <3>1, StepStops
  <2>4. ASSUME NEW limit \in 0..1, ExpirePolicies(limit) PROVE InsIInv'
    <3> DEFINE overdue == {i \in DOMAIN cover : Overdue(i)}
               first   == {i \in overdue : limit = 0 \/ Cardinality({j \in overdue : j <= i}) <= limit}
    <3>1. first \in SUBSET InForce BY DEF Overdue, InForce
    <3>2. Stops(first, "Expired") BY <2>4 DEF ExpirePolicies
    <3> HIDE DEF first
    <3> QED BY <3>1, <3>2, StepStops
  <2>5. CASE \E p \in Insured, score \in Scores, s \in Validity : UpdateRiskAssessment(p, score, s)
    BY <2>5, StepBeside
  <2> QED BY <1>2, <2>1, <2>2, <2>3, <2>4, <2>5 DEF Insuring
<1>3. CASE Claiming
  <2>1. ASSUME NEW a \in Accounts, NEW i \in DOMAIN cover, NEW amount \in ClaimAmounts,
               NEW evidence \in EvidenceTypes, NEW number \in 0..MaxInsClaims,
               SubmitClaim(a, i, amount, evidence, number) \/ SubmitParametricClaim(a, i, amount, evidence, number)
        PROVE  InsIInv'
    BY <2>1, StepSubmits, StepSubmitsParametric
  <2>2. ASSUME NEW a \in Accounts, NEW id \in DOMAIN insClaims, ProcessClaim(a, id) \/ BatchItem(a, id)
        PROVE  InsIInv'
    BY <2>2, StepProcesses
  <2>3. ASSUME NEW id \in DOMAIN insClaims, MoveToDispute(id) PROVE InsIInv'
    <3>1. insAdmin \in Accounts BY DEF InsIInv, OtherBooks
    <3> QED BY <2>3, <3>1, StepProcesses
  <2> QED BY <1>3, <2>1, <2>2, <2>3 DEF Claiming
<1>4. CASE Evidence \/ Reinsuring BY <1>4, StepBeside
<1>5. CASE Marketing
  <2>1. ASSUME NEW i \in DOMAIN token, NEW price \in AskPrices, ListToken(i, price) PROVE InsIInv'
    BY <2>1, StepLists
  <2>2. ASSUME NEW a \in Accounts, NEW i \in DOMAIN token, NEW paid \in AskPrices, PurchaseToken(a, i, paid)
        PROVE  InsIInv'
    BY <2>2, StepSells
  <2> QED BY <1>5, <2>1, <2>2 DEF Marketing
<1>6. CASE Administering
  <2>1. PICK caller \in Accounts, a \in Accounts :
          \/ ProposeSetAdmin(caller, a) \/ GrantAdmin(caller, a) \/ RevokeAdmin(caller, a)
          \/ ExecuteSetAdmin(caller) \/ CancelPendingAdmin(caller)
    BY <1>6 DEF Administering
  <2> QED BY <2>1, StepAdministers
<1> QED BY <1>1, <1>2, <1>3, <1>4, <1>5, <1>6 DEF InsNext

LEMMA ContractStutters ==
  ASSUME InsIInv, UNCHANGED insVars
  PROVE  InsIInv'
<1>1. OtherBooks BY DEF InsIInv
<1>2. /\ UNCHANGED <<insTime, insPaused, pool, liquidity, accrued, cover, market, reinsurance, adminBooks>>
      /\ insClaims' = insClaims /\ paidClaims' = paidClaims
  BY DEF insVars, claimBooks
<1>3. OtherBooks' BY <1>1, <1>2 DEF OtherBooks, reinsurance, adminBooks
<1> QED BY <1>2, <1>3, BooksStay

(* The books of the contract stay as InsIInv describes them, through every   *)
(* operation of providers, policyholders, assessors and the admin.           *)
THEOREM InsuranceInvariant == InsSpec => []InsIInv
<1>1. InsInit => InsIInv BY ContractStarts
<1>2. InsIInv /\ [InsNext]_insVars => InsIInv' BY StepOfContract, ContractStutters
<1> QED BY <1>1, <1>2, PTL DEF InsSpec

LEMMA InsuranceWellTyped == InsIInv => InsTypeOK
<1> SUFFICES ASSUME InsIInv PROVE InsTypeOK OBVIOUS
<1>1. LiquidityIInv /\ PolicyBooks /\ ClaimBooks /\ OtherBooks BY DEF InsIInv
<1>2. LiquidityTypeOK BY <1>1, PoolWellTyped
<1>3. \A i \in DOMAIN cover :
          /\ cover[i].holder \in Accounts /\ cover[i].claimed \in Nat
          /\ cover[i].status \in {"Active", "Renewed", "Cancelled", "Expired", "Claimed"}
    BY <1>1, PolicyFacts DEF CoverRecord, CoverStatuses
<1>4. Len(token) = Len(cover) /\ Len(paidClaims) = Len(insClaims) BY <1>1 DEF PolicyBooks, ClaimBooks
<1>5. \A id \in DOMAIN insClaims :
          insClaims[id].status \in ClaimStatuses /\ insClaims[id].policy \in DOMAIN cover
    BY <1>1, ClaimFacts DEF ClaimRecord, ClaimBooks
<1>6. reinsured \in Nat /\ recovered \in Nat /\ insAdmin \in Accounts BY <1>1 DEF OtherBooks
<1> QED BY <1>2, <1>3, <1>4, <1>5, <1>6 DEF InsTypeOK

(* Each policy has a token, each claim is of a policy, and every amount the  *)
(* contract keeps is a natural number: no subtraction goes below zero.       *)
THEOREM InsuranceTypes == InsSpec => []InsTypeOK
BY InsuranceWellTyped, InsuranceInvariant, PTL

(* The stake that premiums are divided by is the providers', what they are   *)
(* paid as rewards stays within the premiums, and no policy in force is left *)
(* uncounted.                                                                *)
THEOREM InsurancePool == InsSpec => []PoolBooksAgree
<1>1. InsIInv => PoolBooksAgree
  BY RewardsFollow DEF InsIInv, LiquidityIInv, PolicyBooks, PoolBooksAgree
<1> QED BY <1>1, InsuranceInvariant, PTL

(* A policy has been charged what its approved claims paid, each of them     *)
(* once, by whatever way they were settled.                                  *)
THEOREM InsuranceClaims == InsSpec => []ClaimsArePaidOnce
<1>1. InsIInv => ClaimsArePaidOnce BY DEF InsIInv, ClaimBooks
<1> QED BY <1>1, InsuranceInvariant, PTL

(* Whoever owns the token of a policy holds the policy, and what is on the   *)
(* market is what has a price.                                               *)
THEOREM InsuranceTokens == InsSpec => []TokenFollowsPolicy
<1>1. InsIInv => TokenFollowsPolicy BY DEF InsIInv, PolicyBooks
<1> QED BY <1>1, InsuranceInvariant, PTL

-----------------------------------------------------------------------------
(* The oracle: quotes are prices and weights of finitely many sources.       *)
Quote == [price : Nat, weight : Nat]

AreQuotes(quotes, S) == S \in SUBSET Sources /\ quotes \in [S -> Quote]

LEMMA TotalIsNumber ==
  ASSUME NEW S \in SUBSET Sources, NEW f \in [S -> Nat]
  PROVE  IsFiniteSet(S) /\ Total(f) = SumFunctionOnSet(f, S) /\ Total(f) \in Nat
<1>1. IsFiniteSet(S) BY OracleAssumption, FS_Subset
<1>2. DOMAIN f = S /\ \A s \in S : f[s] \in Nat OBVIOUS
<1>3. SumFunctionOnSet(f, S) \in Nat BY <1>1, <1>2, SumNat
<1> QED BY <1>1, <1>2, <1>3 DEF Total

(* An outlier is left out, whatever its distance is compared with: the       *)
(* quotes kept are quotes of some of the sources.                            *)
LEMMA KeptAreQuotes ==
  ASSUME NEW quotes, NEW S, AreQuotes(quotes, S)
  PROVE  \E K \in SUBSET S : AreQuotes(FilterOutliers(quotes), K) /\ \A s \in K : FilterOutliers(quotes)[s] = quotes[s]
<1> DEFINE kept == FilterOutliers(quotes)
           near == {s \in DOMAIN quotes : Distance(quotes[s].price, Mean(quotes)) <= IntSqrt(Variance(quotes)) * OutlierThreshold}
<1>1. S \in SUBSET Sources /\ quotes \in [S -> Quote] BY DEF AreQuotes
<1>2. DOMAIN quotes = S BY <1>1
<1>3. kept = quotes \/ kept = Restrict(quotes, near) BY DEF FilterOutliers
<1>4. near \subseteq S BY <1>2
<1> HIDE DEF near, kept
<1>5. CASE kept = quotes BY <1>1, <1>5 DEF AreQuotes, kept
<1>6. CASE kept = Restrict(quotes, near)
  <2>1. kept = [s \in near |-> quotes[s]] BY <1>6 DEF Restrict
  <2>2. AreQuotes(kept, near) /\ \A s \in near : kept[s] = quotes[s] BY <1>1, <1>4, <2>1 DEF AreQuotes
  <2> QED BY <1>4, <2>2 DEF kept
<1> QED BY <1>3, <1>5, <1>6

(* With m the lowest and n the highest price, the weighted sum of the prices *)
(* lies between m and n times the weights.                                   *)
LEMMA WeightedBetween ==
  ASSUME NEW quotes, NEW S, AreQuotes(quotes, S), NEW m \in Nat, NEW n \in Nat,
         \A s \in S : m <= quotes[s].price /\ quotes[s].price <= n
  PROVE  /\ Weight(quotes) \in Nat /\ Weighted(quotes) \in Nat
         /\ Weight(quotes) * m <= Weighted(quotes) /\ Weighted(quotes) <= Weight(quotes) * n
<1>1. S \in SUBSET Sources /\ quotes \in [S -> Quote] BY DEF AreQuotes
<1>2. PICK weights, products, lows, highs :
        /\ weights = [s \in S |-> quotes[s].weight] /\ products = [s \in S |-> quotes[s].price * quotes[s].weight]
        /\ lows = [s \in S |-> quotes[s].weight * m] /\ highs = [s \in S |-> quotes[s].weight * n]
  OBVIOUS
<1>3. \A s \in S : quotes[s].price \in Nat /\ quotes[s].weight \in Nat BY <1>1 DEF Quote
<1>4. ASSUME NEW s \in S
      PROVE  /\ weights[s] \in Nat /\ products[s] \in Nat /\ lows[s] \in Nat /\ highs[s] \in Nat
             /\ lows[s] = weights[s] * m /\ highs[s] = weights[s] * n
             /\ lows[s] <= products[s] /\ products[s] <= highs[s]
  <2>1. PICK x \in Nat, w \in Nat : x = quotes[s].price /\ w = quotes[s].weight BY <1>3
  <2>2. weights[s] = w /\ products[s] = x * w /\ lows[s] = w * m /\ highs[s] = w * n BY <1>2, <2>1
  <2>3. m * w \in Nat /\ x * w \in Nat /\ m * w <= x * w BY <2>1, ProductGrows
  <2>4. n * w \in Nat /\ x * w <= n * w BY <2>1, ProductGrows
  <2>5. w * m = m * w /\ w * n = n * w BY <2>1
  <2> QED BY <2>1, <2>2, <2>3, <2>4, <2>5
<1>5. weights \in [S -> Nat] /\ products \in [S -> Nat] BY <1>2, <1>4
<1>6. IsFiniteSet(S) /\ Total(weights) = SumFunctionOnSet(weights, S) /\ Total(weights) \in Nat
  BY <1>1, <1>5, TotalIsNumber
<1>7. Total(products) = SumFunctionOnSet(products, S) /\ Total(products) \in Nat
  BY <1>1, <1>5, TotalIsNumber
<1>8. Weight(quotes) = Total(weights) /\ Weighted(quotes) = Total(products)
  <2>1. DOMAIN quotes = S BY <1>1
  <2> QED BY <1>2, <2>1 DEF Weight, Weighted
<1>9. SumFunctionOnSet(lows, S) = SumFunctionOnSet(weights, S) * m
  <2>1. \A s \in S : weights[s] \in Int /\ lows[s] = weights[s] * m BY <1>4
  <2>2. m \in Int OBVIOUS
  <2> QED BY <1>6, <2>1, <2>2, SumScaled
<1>10. SumFunctionOnSet(highs, S) = SumFunctionOnSet(weights, S) * n
  <2>1. \A s \in S : weights[s] \in Int /\ highs[s] = weights[s] * n BY <1>4
  <2>2. n \in Int OBVIOUS
  <2> QED BY <1>6, <2>1, <2>2, SumScaled
<1>11. SumFunctionOnSet(lows, S) <= SumFunctionOnSet(products, S)
  <2>1. \A s \in S : lows[s] \in Int /\ products[s] \in Int /\ lows[s] <= products[s] BY <1>4
  <2> QED BY <1>6, <2>1, SumMonotone
<1>12. SumFunctionOnSet(products, S) <= SumFunctionOnSet(highs, S)
  <2>1. \A s \in S : products[s] \in Int /\ highs[s] \in Int /\ products[s] <= highs[s] BY <1>4
  <2> QED BY <1>6, <2>1, SumMonotone
<1> QED BY <1>6, <1>7, <1>8, <1>9, <1>10, <1>11, <1>12

(* Rounding down does not leave the range.                                   *)
LEMMA QuotientBetween ==
  ASSUME NEW t \in Nat, NEW w \in Nat \ {0}, NEW m \in Nat, NEW n \in Nat, w * m <= t, t <= w * n
  PROVE  t \div w \in Nat /\ m <= t \div w /\ t \div w <= n
<1>1. t \div w \in 0..n
  <2>1. t <= n * w OBVIOUS
  <2> QED BY <2>1, QuotientWithin
<1>2. PICK q \in Nat : q = t \div w BY <1>1
<1>3. t < q * w + w BY <1>2, QuotientFits
<1>4. ASSUME q < m PROVE FALSE
  <2>1. PICK k \in Nat : k = q + 1 /\ k <= m BY <1>4
  <2>2. k * w \in Nat /\ m * w \in Nat /\ k * w <= m * w BY <2>1, ProductGrows
  <2>3. k * w = q * w + w BY <2>1
  <2>4. m * w <= t OBVIOUS
  <2>5. q * w \in Nat OBVIOUS
  <2> QED BY <1>3, <2>2, <2>3, <2>4, <2>5
<1> QED BY <1>1, <1>2, <1>4

(* A valuation from quotes lies between two of them.                         *)
LEMMA AggregateBetween ==
  ASSUME NEW quotes, NEW S, AreQuotes(quotes, S), CanAggregate(quotes)
  PROVE  /\ AggregatePrices(quotes) \in Nat
         /\ \E low, high \in {quotes[s].price : s \in DOMAIN quotes} :
              low <= AggregatePrices(quotes) /\ AggregatePrices(quotes) <= high
<1>1. S \in SUBSET Sources /\ quotes \in [S -> Quote] BY DEF AreQuotes
<1>2. PICK kept : kept = FilterOutliers(quotes) OBVIOUS
<1>3. PICK K \in SUBSET S : AreQuotes(kept, K) /\ \A s \in K : kept[s] = quotes[s] BY <1>2, KeptAreQuotes
<1>4. K # {} /\ Weight(kept) > 0
  <2>1. kept \in [K -> Quote] BY <1>3 DEF AreQuotes
  <2>2. DOMAIN kept = K BY <2>1
  <2> QED BY <1>2, <2>2 DEF CanAggregate
<1>5. PICK prices : prices = {kept[s].price : s \in K} OBVIOUS
<1>6. IsFiniteSet(prices) /\ prices \subseteq Nat /\ prices # {}
  <2>1. IsFiniteSet(K) BY <1>1, <1>3, OracleAssumption, FS_Subset
  <2>2. IsFiniteSet(prices)
    <3>1. PICK f : f = [s \in K |-> kept[s].price] OBVIOUS
    <3>2. f \in Surjection(K, prices) BY <1>5, <3>1 DEF Surjection
    <3> QED BY <2>1, <3>2, FS_Surjection
  <2>3. \A s \in K : kept[s].price \in Nat BY <1>3 DEF AreQuotes, Quote
  <2> QED BY <1>4, <1>5, <2>2, <2>3
<1>7. PICK high \in prices : \A x \in prices : x <= high BY <1>6, GreatestNumber
<1>8. PICK low \in prices : \A x \in prices : low <= x BY <1>6, LeastNumber
<1>9. low \in Nat /\ high \in Nat BY <1>6
<1>10. \A s \in K : low <= kept[s].price /\ kept[s].price <= high BY <1>5, <1>7, <1>8
<1>11. /\ Weight(kept) \in Nat /\ Weighted(kept) \in Nat
       /\ Weight(kept) * low <= Weighted(kept) /\ Weighted(kept) <= Weight(kept) * high
  BY <1>3, <1>9, <1>10, WeightedBetween
<1>12. PICK w, t, q : w = Weight(kept) /\ t = Weighted(kept) /\ q = t \div w OBVIOUS
<1>13. q \in Nat /\ low <= q /\ q <= high
  <2>1. w \in Nat \ {0} /\ t \in Nat /\ w * low <= t /\ t <= w * high BY <1>4, <1>11, <1>12
  <2> QED BY <1>9, <1>12, <2>1, QuotientBetween
<1>14. q = AggregatePrices(quotes) BY <1>2, <1>12 DEF AggregatePrices, WeightedAverage
<1>15. prices \subseteq {quotes[s].price : s \in DOMAIN quotes} BY <1>1, <1>3, <1>5
<1> QED BY <1>7, <1>8, <1>13, <1>14, <1>15

LEMMA DistanceIsNumber ==
  ASSUME NEW a \in Nat, NEW b \in Nat
  PROVE  Distance(a, b) \in Nat /\ Distance(a, b) * Distance(a, b) \in Nat
<1>1. PICK d : d = Distance(a, b) OBVIOUS
<1>2. d \in Nat BY <1>1 DEF Distance
<1>3. d * d \in Nat BY <1>2
<1> QED BY <1>1, <1>2, <1>3

LEMMA AverageIsNumber ==
  ASSUME NEW quotes, NEW S, AreQuotes(quotes, S), S # {}
  PROVE  /\ Cardinality(DOMAIN quotes) \in Nat \ {0} /\ DOMAIN quotes = S
         /\ Mean(quotes) \in Nat /\ Variance(quotes) \in Nat
<1>1. S \in SUBSET Sources /\ quotes \in [S -> Quote] /\ DOMAIN quotes = S BY DEF AreQuotes
<1>2. PICK n : n = Cardinality(DOMAIN quotes) OBVIOUS
<1>3. n \in Nat \ {0}
  <2>1. IsFiniteSet(S) BY <1>1, OracleAssumption, FS_Subset
  <2> QED BY <1>1, <1>2, <2>1, FS_CardinalityType, FS_EmptySet
<1>4. \A s \in S : quotes[s].price \in Nat BY <1>1 DEF Quote
<1>5. Mean(quotes) \in Nat
  <2>1. PICK prices : prices = [s \in S |-> quotes[s].price] OBVIOUS
  <2>2. prices \in [S -> Nat] BY <1>4, <2>1
  <2>3. Total(prices) \in Nat BY <1>1, <2>2, TotalIsNumber
  <2>4. Total(prices) \div n \in Nat BY <1>3, <2>3, QuotientFits
  <2> QED BY <1>1, <1>2, <2>1, <2>4 DEF Mean
<1>6. Variance(quotes) \in Nat
  <2>1. PICK squares : squares = [s \in S |->
          Distance(quotes[s].price, Mean(quotes)) * Distance(quotes[s].price, Mean(quotes))]
    OBVIOUS
  <2>2. squares \in [S -> Nat] BY <1>4, <1>5, <2>1, DistanceIsNumber
  <2>3. Total(squares) \in Nat BY <1>1, <2>2, TotalIsNumber
  <2>4. Total(squares) \div n \in Nat BY <1>3, <2>3, QuotientFits
  <2> QED BY <1>1, <1>2, <2>1, <2>4 DEF Variance
<1> QED BY <1>1, <1>2, <1>3, <1>5, <1>6

LEMMA NewtonIsNumber ==
  ASSUME NEW v \in Nat, NEW x \in Nat
  PROVE  Newton(v, x) \in Nat
<1>1. CASE x > 0
  <2>1. v \div x \in Nat BY <1>1, QuotientFits
  <2>2. x + v \div x \in Nat BY <2>1
  <2>3. (x + v \div x) \div 2 \in Nat
    <3>1. PICK y \in Nat, two \in Nat \ {0} : y = x + v \div x /\ two = 2 BY <2>2
    <3>2. y \div two \in Nat BY QuotientFits
    <3> QED BY <3>1, <3>2
  <2> QED BY <1>1, <2>3 DEF Newton
<1>2. CASE ~ x > 0 BY <1>2 DEF Newton
<1> QED BY <1>1, <1>2

(* The confidence is 75 at most for the sources and 25 for their agreement.  *)
LEMMA ConfidenceIsPercentage ==
  ASSUME NEW quotes, NEW S, AreQuotes(quotes, S), S # {}
  PROVE  ConfidenceScore(quotes) \in Nat /\ ConfidenceScore(quotes) <= 100
<1>1. PICK size, variance, mean :
        size = Cardinality(DOMAIN quotes) /\ variance = Variance(quotes) /\ mean = Mean(quotes)
  OBVIOUS
<1>2. size \in Nat /\ variance \in Nat /\ mean \in Nat BY <1>1, AverageIsNumber
<1>3. PICK n1, n2, n3, n4, root :
        /\ n1 = Newton(variance, variance) /\ n2 = Newton(variance, n1) /\ n3 = Newton(variance, n2)
        /\ n4 = Newton(variance, n3) /\ root = Newton(variance, n4)
  OBVIOUS
<1>4. n1 \in Nat /\ n2 \in Nat /\ n3 \in Nat /\ n4 \in Nat
  <2>1. n1 \in Nat BY <1>2, <1>3, NewtonIsNumber
  <2>2. n2 \in Nat BY <1>2, <1>3, <2>1, NewtonIsNumber
  <2>3. n3 \in Nat BY <1>2, <1>3, <2>2, NewtonIsNumber
  <2>4. n4 \in Nat BY <1>2, <1>3, <2>3, NewtonIsNumber
  <2> QED BY <2>1, <2>2, <2>3, <2>4
<1>5. root \in Nat BY <1>2, <1>3, <1>4, NewtonIsNumber
<1>6. PICK cv : cv = IF mean > 0 THEN (root * 10000) \div mean ELSE 10000 OBVIOUS
<1>7. cv \in Nat
  <2>1. CASE mean > 0
    <3>1. root * 10000 \in Nat BY <1>5
    <3>2. (root * 10000) \div mean \in Nat BY <1>2, <2>1, <3>1, QuotientFits
    <3> QED BY <1>6, <2>1, <3>2
  <2>2. CASE ~ mean > 0 BY <1>6, <2>2
  <2> QED BY <2>1, <2>2
<1>8. PICK agreement : agreement = IF cv <= 10000 THEN (10000 - cv) \div 400 ELSE 0 OBVIOUS
<1>9. agreement \in 0..25
  <2>1. CASE cv <= 10000
    <3>1. 10000 - cv \in Nat /\ 10000 - cv <= 25 * 400 BY <1>7, <2>1
    <3>2. (10000 - cv) \div 400 \in 0..25 BY <3>1, QuotientWithin
    <3> QED BY <1>8, <2>1, <3>2
  <2>2. CASE ~ cv <= 10000 BY <1>8, <2>2
  <2> QED BY <2>1, <2>2
<1>10. ConfidenceScore(quotes) = (IF size >= 3 THEN 75 ELSE 25 * size) + agreement
  BY <1>1, <1>3, <1>6, <1>8 DEF ConfidenceScore
<1>11. (IF size >= 3 THEN 75 ELSE 25 * size) \in 0..75 BY <1>2
<1> QED BY <1>9, <1>10, <1>11

-----------------------------------------------------------------------------
(* The inductive invariant: the valuations are numbers, because a manual     *)
(* source quotes the valuation, and the sources have weights.                *)
OracleInv ==
  /\ DOMAIN valuation = Properties /\ \A p \in Properties : valuation[p].value \in Nat
  /\ DOMAIN quoted = Properties
  /\ DOMAIN sources = Sources /\ \A s \in Sources : sources[s] # NoSource => sources[s].weight \in Nat
  /\ activeSources \subseteq Sources
  /\ ValuationWithinQuotes

LEMMA OracleStarts == OracleInit => OracleInv
BY DEF OracleInit, OracleInv, ValuationWithinQuotes, NoValuation

LEMMA ValuationStored ==
  ASSUME OracleInv, NEW p \in Properties, NEW value \in Nat, NEW confidence, NEW prices,
         Store(p, value, confidence, prices), UNCHANGED sourceVars,
         prices # {} => /\ confidence <= 100
                        /\ \E low, high \in prices : low <= value /\ value <= high
  PROVE  OracleInv'
<1>1. PICK new : new = [value |-> value, confidence |-> confidence] OBVIOUS
<1>2. valuation' = [valuation EXCEPT ![p] = new] /\ quoted' = [quoted EXCEPT ![p] = prices] BY <1>1 DEF Store
<1>3. /\ valuation'[p] = new /\ \A x \in Properties \ {p} : valuation'[x] = valuation[x]
      /\ DOMAIN valuation' = Properties
      /\ quoted'[p] = prices /\ \A x \in Properties \ {p} : quoted'[x] = quoted[x]
      /\ DOMAIN quoted' = Properties
  BY <1>2 DEF OracleInv
<1>4. new.value = value /\ new.confidence = confidence BY <1>1
<1>5. ASSUME NEW x \in Properties
      PROVE  /\ valuation'[x].value \in Nat
             /\ quoted'[x] # {} => /\ \E low, high \in quoted'[x] : low <= valuation'[x].value /\ valuation'[x].value <= high
                                   /\ valuation'[x].confidence <= 100
  <2>1. CASE x = p BY <1>3, <1>4, <2>1
  <2>2. CASE x # p
    <3>1. valuation'[x] = valuation[x] /\ quoted'[x] = quoted[x] BY <1>3, <2>2
    <3> QED BY <3>1 DEF OracleInv, ValuationWithinQuotes
  <2> QED BY <2>1, <2>2
<1>6. ValuationWithinQuotes' BY <1>5 DEF ValuationWithinQuotes
<1>7. sources' = sources /\ activeSources' = activeSources BY DEF sourceVars
<1> QED BY <1>3, <1>5, <1>6, <1>7 DEF OracleInv

LEMMA CollectedAreQuotes ==
  ASSUME OracleInv, NEW p \in Properties, NEW feed \in [Sources -> OraclePrices]
  PROVE  \E S : AreQuotes(CollectPrices(p, feed), S)
<1>1. PICK S : S = {s \in activeSources : Readable(s)} OBVIOUS
<1>2. S \in SUBSET Sources BY <1>1 DEF OracleInv
<1>3. ASSUME NEW s \in S PROVE PriceFrom(s, p, feed) \in Nat /\ sources[s].weight \in Nat
  <2>1. feed[s] \in Nat /\ ManualDefault \in Nat BY <1>2, OracleAssumption
  <2>2. valuation[p].value \in Nat BY DEF OracleInv
  <2>3. sources[s] # NoSource BY <1>1 DEF Readable
  <2> QED BY <1>2, <2>1, <2>2, <2>3 DEF PriceFrom, OracleInv
<1>4. CollectPrices(p, feed) = [s \in S |-> [price |-> PriceFrom(s, p, feed), weight |-> sources[s].weight]]
  BY <1>1 DEF CollectPrices
<1> QED BY <1>2, <1>3, <1>4 DEF AreQuotes, Quote

LEMMA OracleKeeps == OracleInv /\ [OracleNext]_oracleVars => OracleInv'
<1> SUFFICES ASSUME OracleInv, [OracleNext]_oracleVars PROVE OracleInv' OBVIOUS
<1>1. ASSUME NEW p \in Properties, NEW value \in OraclePrices, NEW confidence, SubmitValuation(p, value, confidence)
      PROVE  OracleInv'
  <2>1. value \in Nat BY OracleAssumption
  <2>2. Store(p, value, confidence, {}) /\ UNCHANGED sourceVars BY <1>1 DEF SubmitValuation
  <2> QED BY <2>1, <2>2, ValuationStored
<1>2. ASSUME NEW p \in Properties, NEW feed \in [Sources -> OraclePrices], UpdateFromSources(p, feed)
      PROVE  OracleInv'
  <2>1. PICK quotes, prices : quotes = CollectPrices(p, feed) /\ prices = {quotes[s].price : s \in DOMAIN quotes}
    OBVIOUS
  <2>2. PICK S : AreQuotes(quotes, S) BY <2>1, CollectedAreQuotes
  <2>3. /\ CanAggregate(quotes) /\ Store(p, AggregatePrices(quotes), ConfidenceScore(quotes), prices)
        /\ UNCHANGED sourceVars
    BY <1>2, <2>1 DEF UpdateFromSources
  <2>4. /\ AggregatePrices(quotes) \in Nat
        /\ \E low, high \in prices : low <= AggregatePrices(quotes) /\ AggregatePrices(quotes) <= high
    BY <2>1, <2>2, <2>3, AggregateBetween
  <2>5. DOMAIN quotes = S BY <2>2 DEF AreQuotes
  <2>6. S # {} BY <2>1, <2>4, <2>5
  <2>7. ConfidenceScore(quotes) <= 100 BY <2>2, <2>6, ConfidenceIsPercentage
  <2>8. PICK value, confidence : value = AggregatePrices(quotes) /\ confidence = ConfidenceScore(quotes) OBVIOUS
  <2> QED BY <2>3, <2>4, <2>7, <2>8, ValuationStored
<1>3. ASSUME UNCHANGED <<valuation, quoted>>, DOMAIN sources' = Sources, activeSources' \subseteq Sources,
             \A s \in Sources : sources'[s] # NoSource => sources'[s].weight \in Nat
      PROVE  OracleInv'
  BY <1>3 DEF OracleInv, ValuationWithinQuotes
<1>4. ASSUME UNCHANGED <<valuation, quoted, sources, activeSources>> PROVE OracleInv'
  BY <1>3, <1>4 DEF OracleInv
<1>5. ASSUME NEW s \in Sources, NEW config \in SourceConfigs, AddSource(s, config) PROVE OracleInv'
  <2>1. config.weight \in Nat BY OracleAssumption
  <2>2. /\ sources' = [sources EXCEPT ![s] = config] /\ activeSources' \subseteq activeSources \cup {s}
        /\ UNCHANGED <<valuation, quoted>>
    BY <1>5 DEF AddSource, valuationVars
  <2>3. DOMAIN sources' = Sources /\ sources'[s] = config /\ \A x \in Sources \ {s} : sources'[x] = sources[x]
    BY <2>2 DEF OracleInv
  <2> QED BY <1>3, <2>1, <2>2, <2>3 DEF OracleInv
<1>6. ASSUME NEW s \in Sources, RemoveSource(s) PROVE OracleInv'
  <2>1. /\ sources' = [sources EXCEPT ![s] = NoSource] /\ activeSources' \subseteq activeSources
        /\ UNCHANGED <<valuation, quoted>>
    BY <1>6 DEF RemoveSource, valuationVars
  <2>2. DOMAIN sources' = Sources /\ sources'[s] = NoSource /\ \A x \in Sources \ {s} : sources'[x] = sources[x]
    BY <2>1 DEF OracleInv
  <2> QED BY <1>3, <2>1, <2>2 DEF OracleInv
<1>7. ASSUME NEW s \in Sources, NEW success, UpdateReputation(s, success) PROVE OracleInv'
  <2>1. /\ activeSources' \subseteq activeSources /\ UNCHANGED <<valuation, quoted>>
        /\ \/ sources' = sources
           \/ sources[s] # NoSource /\ sources' = [sources EXCEPT ![s].active = FALSE]
    BY <1>7 DEF UpdateReputation, valuationVars
  <2>2. CASE sources' = sources BY <1>3, <2>1, <2>2 DEF OracleInv
  <2>3. CASE sources[s] # NoSource /\ sources' = [sources EXCEPT ![s].active = FALSE]
    <3>1. PICK new : new = [sources[s] EXCEPT !.active = FALSE] OBVIOUS
    <3>2. sources' = [sources EXCEPT ![s] = new] BY <2>3, <3>1
    <3>3. DOMAIN sources' = Sources /\ sources'[s] = new /\ \A x \in Sources \ {s} : sources'[x] = sources[x]
      BY <3>2 DEF OracleInv
    <3>4. new.weight = sources[s].weight BY <3>1
    <3> QED BY <1>3, <2>1, <2>3, <3>3, <3>4 DEF OracleInv
  <2> QED BY <2>1, <2>2, <2>3
<1>8. CASE Valuing BY <1>1, <1>2, <1>8 DEF Valuing
<1>9. CASE Alerting \/ Requesting
  BY <1>4, <1>9 DEF Alerting, Requesting, SetPriceAlert, OracleTick, RequestValuation, valuationVars, sourceVars
<1>10. CASE Adding
  <2>1. CASE SetAiContract BY <1>4, <2>1 DEF SetAiContract, valuationVars, sourceVars
  <2> QED BY <1>5, <1>10, <2>1 DEF Adding
<1>11. CASE Policing BY <1>6, <1>7, <1>11 DEF Policing
<1>12. CASE UNCHANGED oracleVars BY <1>4, <1>12 DEF oracleVars
<1> QED BY <1>8, <1>9, <1>10, <1>11, <1>12 DEF OracleNext

(* A valuation from sources lies between two of the prices they quoted, and  *)
(* its confidence is a percentage, for any sources, weights and prices.      *)
THEOREM OracleValuations == OracleSpec => []ValuationWithinQuotes
<1>1. OracleInv => ValuationWithinQuotes BY DEF OracleInv
<1> QED BY <1>1, OracleStarts, OracleKeeps, PTL DEF OracleSpec

-----------------------------------------------------------------------------
(* The types of the ledger of shares: no balance and no supply goes below    *)
(* zero, as nothing is burned or sent that the holder does not have.         *)
LEMMA SharesStayTyped ==
  ASSUME FracTypeOK, [FracNext]_fracVars
  PROVE  FracTypeOK'
<1>1. ASSUME UNCHANGED fracVars PROVE FracTypeOK' BY <1>1 DEF FracTypeOK, fracVars
<1>2. ASSUME NEW t \in ShareTokens, NEW h \in Holders, NEW caller, NEW amount \in Nat,
             MintShares(caller, t, h, amount)
      PROVE  FracTypeOK'
  <2>1. shareBalance[t][h] + amount \in Nat /\ shareSupply[t] + amount \in Nat BY DEF FracTypeOK
  <2>2. /\ shareBalance' \in [ShareTokens -> [Holders -> Nat]] /\ shareSupply' \in [ShareTokens -> Nat]
        /\ UNCHANGED <<minter, kyc, dividendIndex, lastIndex, doubled>>
    BY <1>2, <2>1 DEF FracTypeOK, MintShares
  <2> QED BY <2>2 DEF FracTypeOK
<1>3. ASSUME NEW t \in ShareTokens, NEW h \in Holders, NEW caller, NEW amount \in Nat,
             BurnShares(caller, t, h, amount)
      PROVE  FracTypeOK'
  <2>1. shareBalance[t][h] - amount \in Nat /\ shareSupply[t] - amount \in Nat
    BY <1>3 DEF FracTypeOK, BurnShares
  <2>2. /\ shareBalance' \in [ShareTokens -> [Holders -> Nat]] /\ shareSupply' \in [ShareTokens -> Nat]
        /\ UNCHANGED <<minter, kyc, dividendIndex, lastIndex, doubled>>
    BY <1>3, <2>1 DEF FracTypeOK, BurnShares
  <2> QED BY <2>2 DEF FracTypeOK
<1>4. ASSUME NEW t \in ShareTokens, NEW h \in Holders, NEW from \in Holders, NEW amount \in Nat,
             TransferShares(from, t, h, amount)
      PROVE  FracTypeOK'
  <2>1. /\ shareBalance[t][from] - amount \in Nat /\ shareBalance[t][h] + amount \in Nat
        /\ doubled[t] + amount \in Nat
    BY <1>4 DEF FracTypeOK, TransferShares
  <2>2. PICK out \in Nat, in \in Nat :
          out = shareBalance[t][from] - amount /\ in = shareBalance[t][h] + amount
    BY <2>1
  <2>3. shareBalance' = [shareBalance EXCEPT ![t][from] = out, ![t][h] = in]
    BY <1>4, <2>2 DEF TransferShares
  <2>4. shareBalance' \in [ShareTokens -> [Holders -> Nat]] BY <2>3 DEF FracTypeOK
  <2>5. doubled' \in [ShareTokens -> Nat]
    BY <1>4, <2>1 DEF FracTypeOK, TransferShares
  <2>6. UNCHANGED <<shareSupply, minter, kyc, dividendIndex, lastIndex>> BY <1>4 DEF TransferShares
  <2> QED BY <2>4, <2>5, <2>6 DEF FracTypeOK
<1>5. ASSUME NEW t \in ShareTokens, NEW h, NEW total \in Nat, DistributeDividends(h, t, total)
      PROVE  FracTypeOK'
  <2>1. PICK n \in Nat \ {0} : n = shareSupply[t] BY <1>5 DEF FracTypeOK, DistributeDividends
  <2>2. total \div n \in Nat BY <2>1, QuotientFits
  <2>3. dividendIndex[t] + total \div n \in Nat BY <2>2 DEF FracTypeOK
  <2>4. /\ dividendIndex' \in [ShareTokens -> Nat]
        /\ UNCHANGED <<shareBalance, shareSupply, minter, kyc, lastIndex, doubled>>
    BY <1>5, <2>1, <2>3 DEF FracTypeOK, DistributeDividends
  <2> QED BY <2>4 DEF FracTypeOK
<1>6. ASSUME NEW t \in ShareTokens, NEW h \in Holders,
             ClaimDividends(h, t) \/ (\E passed \in BOOLEAN : SetKyc(h, passed)) \/ SetMinter(t, h)
      PROVE  FracTypeOK'
  <2>1. CASE ClaimDividends(h, t) BY <2>1 DEF FracTypeOK, ClaimDividends
  <2>2. ASSUME NEW passed \in BOOLEAN, SetKyc(h, passed) PROVE FracTypeOK' BY <2>2 DEF FracTypeOK, SetKyc
  <2>3. CASE SetMinter(t, h) BY <2>3 DEF FracTypeOK, SetMinter
  <2> QED BY <1>6, <2>1, <2>2, <2>3
<1>7. CASE FracNext
  <2>1. PICK t \in ShareTokens, h \in Holders :
          \/ \E caller \in Holders, amount \in ShareAmounts :
               MintShares(caller, t, h, amount) \/ BurnShares(caller, t, h, amount)
                 \/ TransferShares(caller, t, h, amount)
          \/ \E total \in DividendAmounts : DistributeDividends(h, t, total)
          \/ ClaimDividends(h, t)
          \/ \E passed \in BOOLEAN : SetKyc(h, passed)
          \/ SetMinter(t, h)
    BY Zenon, <1>7 DEF FracNext
  <2>2. ShareAmounts \subseteq Nat /\ DividendAmounts \subseteq Nat BY FractionalAssumption
  <2> QED BY <1>2, <1>3, <1>4, <1>5, <1>6, <2>1, <2>2
<1> QED BY <1>1, <1>7

LEMMA SharesStartTyped == FracInit => FracTypeOK
BY DEF FracInit, FracTypeOK

-----------------------------------------------------------------------------
(* The types of the fee manager, beside its books and its auctions.          *)
FeeClock ==
  feeTime \in 0..FeeLastTime /\ lastReset \in 0..feeTime /\ recentOps \in 0..OpsWindow

FeeIInv == RewardsInv /\ AuctionInv /\ FeeClock

LEMMA FeeClockKept ==
  ASSUME FeeClock, [FeeNext]_feeVars
  PROVE  FeeClock'
<1>1. ASSUME UNCHANGED <<feeTime, lastReset, recentOps>> PROVE FeeClock' BY <1>1 DEF FeeClock
<1>2. ASSUME NEW amount, RecordFee(amount) PROVE FeeClock'
  BY <1>2, FeeAssumption DEF RecordFee, FeeClock, AtMost
<1>3. CASE Collecting
  <2>1. CASE FeeTick BY <2>1, FeeAssumption DEF FeeTick, FeeClock
  <2>2. CASE DistributeFees BY <1>1, <2>2 DEF DistributeFees
  <2>3. ASSUME NEW amount, NEW transferred, CollectFee(amount, transferred) PROVE FeeClock'
    BY <1>2, <2>3 DEF CollectFee
  <2>4. ASSUME NEW a, AddValidator(a) \/ RemoveValidator(a) \/ ClaimRewards(a) PROVE FeeClock'
    BY <1>1, <2>4 DEF AddValidator, RemoveValidator, ClaimRewards
  <2>5. ASSUME NEW rates, SetDistributionRates(rates) PROVE FeeClock'
    BY <1>1, <2>5 DEF SetDistributionRates
  <2> QED BY <1>2, <1>3, <2>1, <2>2, <2>3, <2>4, <2>5 DEF Collecting
<1>4. CASE Auctioning BY <1>1, <1>4 DEF Auctioning, CreateAuction, PlaceBid, SettleAuction
<1>5. CASE Pricing BY <1>1, <1>5 DEF Pricing, UpdateFeeParams, SetOperationConfig
<1>6. CASE UNCHANGED feeVars BY <1>1, <1>6 DEF feeVars
<1> QED BY <1>3, <1>4, <1>5, <1>6 DEF FeeNext

LEMMA FeesWellTyped == FeeIInv => FeeTypeOK
<1> SUFFICES ASSUME FeeIInv PROVE FeeTypeOK OBVIOUS
<1>1. DOMAIN bidsOf = DOMAIN auctions
  <2>1. PICK n \in Nat : auctions \in [1..n -> AuctionRecord] /\ bidsOf \in [1..n -> [FeeAccounts -> Int]]
    BY DEF FeeIInv, AuctionInv
  <2> QED BY <2>1
<1> QED BY <1>1 DEF FeeIInv, RewardsInv, RewardsTyped, FeeClock, FeeTypeOK

-----------------------------------------------------------------------------
(* The types of the registry: rules are only added and changed, so that a    *)
(* record never names a jurisdiction without rules.                          *)
RecordTyped(d) ==
  d # NoData => /\ d.status \in {"Verified", "Rejected", "Expired"} /\ d.risk \in RiskLevels
                /\ d.jurisdiction \in DOMAIN rules

RegistryTyped ==
  /\ registryTime \in Nat /\ verifiers \subseteq RegistryAccounts
  /\ \A a \in Subjects : RecordTyped(data[a])
  /\ \A a \in Subjects : inquiryOf[a] \in 0..Len(inquiries)

RegistryIInv == RegistryInv /\ RegistryTyped

LEMMA RecordChanges ==
  ASSUME RegistryInv, RegistryTyped, NEW a \in Subjects, NEW d,
         data' = [data EXCEPT ![a] = d], RecordTyped(d),
         UNCHANGED <<registryTime, verifiers, rules>>,
         \A b \in Subjects : inquiryOf'[b] \in 0..Len(inquiries')
  PROVE  RegistryTyped'
<1>1. \A b \in Subjects : RecordTyped(data[b]) BY DEF RegistryTyped
<1>2. DOMAIN data = Subjects BY DEF RegistryInv
<1>3. \A b \in Subjects : RecordTyped(data'[b]) BY <1>1, <1>2
<1> QED BY <1>3 DEF RegistryTyped, RecordTyped

LEMMA RegistryStaysTyped ==
  ASSUME RegistryInv, RegistryTyped, [ComplianceNext]_complianceVars
  PROVE  RegistryTyped'
<1>1. /\ registryTime \in Nat /\ verifiers \subseteq RegistryAccounts
      /\ \A a \in Subjects : RecordTyped(data[a]) /\ inquiryOf[a] \in 0..Len(inquiries)
  BY DEF RegistryTyped
<1>2. ASSUME UNCHANGED <<rules, data, inquiries, inquiryOf>>, registryTime' \in Nat,
             verifiers' \subseteq RegistryAccounts
      PROVE  RegistryTyped'
  BY <1>1, <1>2 DEF RegistryTyped, RecordTyped
<1>3. CASE UNCHANGED complianceVars BY <1>1, <1>2, <1>3 DEF complianceVars
<1>4. CASE RegistryTick BY <1>1, <1>2, <1>4 DEF RegistryTick
<1>5. ASSUME NEW a \in RegistryAccounts, AddVerifier(a) PROVE RegistryTyped'
  BY <1>1, <1>2, <1>5 DEF AddVerifier
<1>6. ASSUME NEW j, NEW r, UpdateJurisdictionRules(j, r) PROVE RegistryTyped'
  <2>1. DOMAIN rules \subseteq DOMAIN rules' /\ UNCHANGED <<registryTime, verifiers, data, inquiries, inquiryOf>>
    BY <1>6 DEF UpdateJurisdictionRules
  <2> QED BY <1>1, <2>1 DEF RegistryTyped, RecordTyped
<1>7. ASSUME NEW a \in Subjects, NEW j, NEW risk \in RiskGrades, NEW doc, NEW bio, NEW score,
             Verifies(a, j, risk, doc, bio, score), UNCHANGED <<registryTime, verifiers, rules, inquiryOf>>,
             Len(inquiries') = Len(inquiries)
      PROVE  RegistryTyped'
  <2> DEFINE d == [status |-> "Verified", jurisdiction |-> j, risk |-> risk,
                   aml |-> FALSE, sanctions |-> FALSE, consent |-> "NotGiven",
                   expiry |-> registryTime + ValidFor, retention |-> registryTime + rules[j].retention]
  <2>1. data' = [data EXCEPT ![a] = d] /\ j \in DOMAIN rules BY <1>7 DEF Verifies
  <2>2. RecordTyped(d) BY <2>1, RiskAssumption DEF RecordTyped
  <2> HIDE DEF d
  <2> QED BY <1>1, <1>7, <2>1, <2>2, RecordChanges
<1>8. ASSUME NEW caller, NEW a \in Subjects, NEW j, NEW risk \in RiskGrades, NEW doc, NEW bio, NEW score,
             SubmitVerification(caller, a, j, risk, doc, bio, score)
      PROVE  RegistryTyped'
  BY <1>7, <1>8 DEF SubmitVerification
<1>9. ASSUME NEW caller, NEW r \in DOMAIN inquiries, NEW risk \in RiskGrades, NEW doc, NEW bio, NEW score,
             ProcessVerificationRequest(caller, r, risk, doc, bio, score)
      PROVE  RegistryTyped'
  <2>1. inquiries \in Seq(Inquiry) BY DEF RegistryInv
  <2>2. inquiries[r] \in Inquiry BY <2>1
  <2>3. inquiries[r].account \in Subjects BY <2>2 DEF Inquiry
  <2>4. Len(inquiries') = Len(inquiries) BY <1>9, <2>1 DEF ProcessVerificationRequest
  <2> QED BY <1>7, <1>9, <2>3, <2>4 DEF ProcessVerificationRequest
<1>10. ASSUME NEW a \in Subjects, Known(a), NEW d, data' = [data EXCEPT ![a] = d],
              d.jurisdiction = data[a].jurisdiction, d.status \in {data[a].status, "Rejected", "Expired"},
              d.risk \in {data[a].risk, "Prohibited", "High", "Medium"},
              UNCHANGED <<registryTime, verifiers, rules, inquiries, inquiryOf>>
       PROVE  RegistryTyped'
  <2>1. RecordTyped(data[a]) /\ data[a] # NoData BY <1>1, <1>10 DEF Known
  <2>2. RecordTyped(d) BY <1>10, <2>1 DEF RecordTyped, RiskLevels
  <2> QED BY <1>1, <1>10, <2>2, RecordChanges
<1>11. ASSUME NEW a \in Subjects,
              \/ \E passed \in BOOLEAN, factors \in 0..3, caller \in RegistryAccounts :
                   UpdateAmlStatus(caller, a, passed, factors)
              \/ \E passed \in BOOLEAN, caller \in RegistryAccounts :
                   UpdateSanctionsStatus(caller, a, passed)
              \/ \E caller \in RegistryAccounts : RevokeVerification(caller, a)
              \/ \E consent \in {"Given", "Withdrawn"}, caller \in RegistryAccounts :
                   UpdateConsent(caller, a, consent)
              \/ RequestDataDeletion(a)
       PROVE  RegistryTyped'
  <2>1. /\ Known(a) /\ UNCHANGED <<registryTime, verifiers, rules, inquiries, inquiryOf>>
    BY <1>11, Zenon DEF UpdateAmlStatus, UpdateSanctionsStatus, RevokeVerification, UpdateConsent,
                        RequestDataDeletion, CheckDataRetention
  <2>2. DOMAIN data[a] = {"status", "jurisdiction", "risk", "aml", "sanctions", "consent", "expiry", "retention"}
    BY <2>1 DEF RegistryInv, Earns, Known
  <2>3. DOMAIN data = Subjects BY DEF RegistryInv
  <2>4. ASSUME NEW caller, NEW passed \in BOOLEAN, NEW factors \in 0..3, UpdateAmlStatus(caller, a, passed, factors)
        PROVE  RegistryTyped'
    <3> DEFINE rejected == ~ passed \/ factors >= 3
               status == IF rejected THEN "Rejected" ELSE data[a].status
               risk == IF rejected THEN "Prohibited" ELSE IF factors = 2 THEN "High"
                       ELSE IF factors = 1 THEN "Medium" ELSE data[a].risk
               d == [data[a] EXCEPT !.aml = passed, !.status = status, !.risk = risk]
    <3>1. data' = [data EXCEPT ![a] = d] BY <2>3, <2>4 DEF UpdateAmlStatus
    <3>2. /\ status \in {data[a].status, "Rejected", "Expired"}
          /\ risk \in {data[a].risk, "Prohibited", "High", "Medium"}
      OBVIOUS
    <3>3. d.jurisdiction = data[a].jurisdiction /\ d.status = status /\ d.risk = risk BY <2>2
    <3> HIDE DEF d, status, risk
    <3> QED BY <1>10, <2>1, <3>1, <3>2, <3>3
  <2>5. ASSUME NEW caller, NEW passed \in BOOLEAN, UpdateSanctionsStatus(caller, a, passed)
        PROVE  RegistryTyped'
    <3> DEFINE status == IF passed THEN data[a].status ELSE "Rejected"
               risk == IF passed THEN data[a].risk ELSE "Prohibited"
               d == [data[a] EXCEPT !.sanctions = passed, !.status = status, !.risk = risk]
    <3>1. data' = [data EXCEPT ![a] = d] BY <2>3, <2>5 DEF UpdateSanctionsStatus
    <3>2. /\ status \in {data[a].status, "Rejected", "Expired"}
          /\ risk \in {data[a].risk, "Prohibited", "High", "Medium"}
      OBVIOUS
    <3>3. d.jurisdiction = data[a].jurisdiction /\ d.status = status /\ d.risk = risk BY <2>2
    <3> HIDE DEF d, status, risk
    <3> QED BY <1>10, <2>1, <3>1, <3>2, <3>3
  <2>6. ASSUME NEW status \in {"Rejected", "Expired"}, data' = [data EXCEPT ![a].status = status]
        PROVE  RegistryTyped'
    <3> DEFINE d == [data[a] EXCEPT !.status = status]
    <3>1. data' = [data EXCEPT ![a] = d] BY <2>3, <2>6
    <3>2. d.jurisdiction = data[a].jurisdiction /\ d.status = status /\ d.risk = data[a].risk BY <2>2
    <3> HIDE DEF d
    <3> QED BY <1>10, <2>1, <3>1, <3>2
  <2>7. ASSUME NEW consent, data' = [data EXCEPT ![a].consent = consent] PROVE RegistryTyped'
    <3> DEFINE d == [data[a] EXCEPT !.consent = consent]
    <3>1. data' = [data EXCEPT ![a] = d] BY <2>3, <2>7
    <3>2. d.jurisdiction = data[a].jurisdiction /\ d.status = data[a].status /\ d.risk = data[a].risk BY <2>2
    <3> HIDE DEF d
    <3> QED BY <1>10, <2>1, <3>1, <3>2
  <2>8. \A caller : RevokeVerification(caller, a) => data' = [data EXCEPT ![a].status = "Rejected"]
    BY DEF RevokeVerification
  <2>9. RequestDataDeletion(a) => data' = [data EXCEPT ![a].status = "Expired"] BY DEF RequestDataDeletion
  <2>10. \A caller, consent : UpdateConsent(caller, a, consent) => data' = [data EXCEPT ![a].consent = consent]
    BY DEF UpdateConsent
  <2> QED BY <1>11, <2>4, <2>5, <2>6, <2>7, <2>8, <2>9, <2>10
<1>12. ASSUME NEW a \in Subjects, NEW j, CreateVerificationRequest(a, j) PROVE RegistryTyped'
  <2>1. inquiries \in Seq(Inquiry) /\ inquiryOf \in [Subjects -> Nat] BY DEF RegistryInv
  <2>2. PICK n \in Nat : n = Len(inquiries) BY <2>1
  <2>3. Len(inquiries') = n + 1 BY <1>12, <2>1, <2>2 DEF CreateVerificationRequest
  <2>4. inquiryOf' = [inquiryOf EXCEPT ![a] = n + 1] /\ UNCHANGED <<registryTime, verifiers, rules, data>>
    BY <1>12, <2>2 DEF CreateVerificationRequest
  <2>5. \A b \in Subjects : inquiryOf'[b] \in 0..(n + 1) BY <1>1, <2>1, <2>2, <2>4
  <2> QED BY <1>1, <2>3, <2>4, <2>5 DEF RegistryTyped, RecordTyped
<1> QED BY <1>3, <1>4, <1>5, <1>6, <1>8, <1>9, <1>11, <1>12 DEF ComplianceNext

LEMMA RegistryWellTyped == RegistryTyped => ComplianceTypeOK
BY DEF RegistryTyped, RecordTyped, ComplianceTypeOK, Known

LEMMA RegistryStartsTyped == ComplianceInit => RegistryTyped
BY ComplianceAssumption DEF ComplianceInit, RegistryTyped, RecordTyped

-----------------------------------------------------------------------------
(* The types of the verification of proofs, beside its books.                *)
ZkCallersTyped ==
  /\ zkTime \in 0..ZkLastTime /\ zkVerifiers \subseteq ZkCallers
  /\ DOMAIN privacy = Provers /\ \A a \in Provers : privacy[a].level \in 0..5

ZkIInv == ZkInv /\ ZkCallersTyped

LEMMA ZkCallersKept ==
  ASSUME ZkInv, ZkCallersTyped, [ZkNext]_zkVars
  PROVE  ZkCallersTyped'
<1>1. ASSUME UNCHANGED <<zkTime, zkVerifiers, privacy>> PROVE ZkCallersTyped' BY <1>1 DEF ZkCallersTyped
<1>2. CASE Proving BY <1>1, <1>2 DEF Proving, SubmitZkProofs, VerifyAndStoreProof
<1>3. CASE Reviewing BY <1>1, <1>3 DEF Reviewing, VerifyZkProof, BatchVerifyZkProofs, SetBooks
<1>4. CASE KeyKeeping
  <2>1. ASSUME NEW caller, NEW v \in ZkCallers, AddApprovedVerifier(caller, v) \/ RemoveApprovedVerifier(caller, v)
        PROVE  ZkCallersTyped'
    BY <2>1 DEF ZkCallersTyped, AddApprovedVerifier, RemoveApprovedVerifier
  <2>2. ASSUME NEW caller, NEW kind, NEW key, SetVerificationKey(caller, kind, key) \/ DeactivateVerificationKey(caller, kind)
        PROVE  ZkCallersTyped'
    BY <1>1, <2>2 DEF SetVerificationKey, DeactivateVerificationKey
  <2>3. ASSUME NEW caller, NEW kind, DeactivateVerificationKey(caller, kind) PROVE ZkCallersTyped'
    BY <1>1, <2>3 DEF DeactivateVerificationKey
  <2> QED BY <1>4, <2>1, <2>2, <2>3 DEF KeyKeeping
<1>5. CASE Preferring
  <2>1. ASSUME NEW a \in Provers, NEW level \in 0..5, NEW consent, SetPrivacy(a, level, consent)
        PROVE  ZkCallersTyped'
    BY <2>1 DEF ZkCallersTyped, SetPrivacy
  <2>2. \A a \in Provers : privacy[a].level \in 0..5 BY DEF ZkCallersTyped
  <2>3. ASSUME NEW a, NEW caller, NEW action, CreateAudit(caller, a, action) PROVE ZkCallersTyped'
    BY <1>1, <2>3 DEF CreateAudit
  <2>4. ASSUME NEW a \in Provers, GrantProofConsent(a) \/ RevokeProofConsent(a) PROVE ZkCallersTyped'
    BY <2>1, <2>2, <2>4 DEF GrantProofConsent, RevokeProofConsent
  <2>5. ASSUME NEW a \in Provers, NEW level \in PrivacyLevels,
               UpdatePrivacyPreferences(a, level) \/ UpdatePrivacyOnDashboard(a, level)
        PROVE  ZkCallersTyped'
    <3>1. level \in Nat BY ZkAssumption
    <3>2. level \in 0..5 BY <2>5, <3>1 DEF UpdatePrivacyPreferences, UpdatePrivacyOnDashboard
    <3> QED BY <2>1, <2>5, <3>2 DEF UpdatePrivacyPreferences, UpdatePrivacyOnDashboard
  <2> QED BY <1>5, <2>3, <2>4, <2>5 DEF Preferring
<1>6. CASE ZkTick
  <2>1. zkTime \in Nat /\ ZkLastTime \in Nat BY ZkAssumption DEF ZkInv
  <2> QED BY <1>6, <2>1 DEF ZkTick, ZkCallersTyped
<1>7. CASE UNCHANGED zkVars BY <1>1, <1>7 DEF zkVars
<1> QED BY <1>2, <1>3, <1>4, <1>5, <1>6, <1>7 DEF ZkNext

LEMMA ZkWellTyped == ZkIInv => ZkTypeOK
<1> SUFFICES ASSUME ZkIInv PROVE ZkTypeOK OBVIOUS
<1>1. ASSUME NEW a \in Provers
      PROVE  zkProofs[a] \in Seq(ProofRecord) /\ summaries[a].status \in ProofStatus
  BY DEF ZkIInv, ZkInv, BooksInOrder, ZkBooks, AccountInOrder
<1>2. ProofRecord = [kind : ZkKinds, fits : ZkFits, status : ProofStatus \ {"NotSubmitted"}, expires : Nat]
  <2>1. ProofStatus \ {"NotSubmitted"} = {"Pending", "Verified", "Rejected"} BY DEF ProofStatus
  <2> QED BY <2>1 DEF ProofRecord
<1> QED BY <1>1, <1>2 DEF ZkIInv, ZkInv, KeysKnown, ZkCallersTyped, ZkTypeOK

LEMMA ZkStartsTyped == ZkInit => ZkCallersTyped
BY ZkAssumption DEF ZkInit, ZkCallersTyped, Preferred

-----------------------------------------------------------------------------
(* The types of the backend's events: no poll reads past the head of the     *)
(* chain, so that the block polled last is one that exists; and no job is    *)
(* tried more often than RetryMax times.                                     *)
WithinHead ==
  /\ lastPolledBlock <= chainHead
  /\ \A p \in Polls : polls[p].at # "idle" => polls[p].to <= chainHead

HooksTyped ==
  /\ DOMAIN webhooks = Hooks
  /\ \A h \in Hooks : webhooks[h] \in {"none", "active", "dead", "purged"}

AttemptsBounded ==
  /\ \A i \in DOMAIN queue : queue[i].attempt < RetryMax
  /\ \A job \in retries : job.attempt < RetryMax
  /\ sending # NoJob => sending.attempt < RetryMax

DeliveriesTyped == WithinHead /\ HooksTyped /\ AttemptsBounded

IngestIInv == IngestInv /\ DeliveriesTyped

LEMMA PollStaysWithin ==
  ASSUME IngestInv, WithinHead, NEW p \in Polls, NEW state, Await(p, state),
         state.at = "idle" \/ state.to <= chainHead, chainHead' = chainHead,
         lastPolledBlock' <= chainHead
  PROVE  WithinHead'
<1>1. polls = [q \in Polls |-> polls[q]] BY DEF IngestInv, IngestTyped, PollsTyped
<1>2. DOMAIN polls = Polls BY <1>1
<1>3. \A q \in Polls : polls'[q] = IF q = p THEN state ELSE polls[q] BY <1>2 DEF Await
<1> QED BY <1>3 DEF WithinHead

LEMMA RoundStaysWithin ==
  ASSUME IngestInv, WithinHead, NEW p \in Polls, NEW rest, Continue(p, rest), polls[p].at # "idle",
         chainHead' = chainHead
  PROVE  WithinHead'
<1>1. polls[p].to <= chainHead /\ lastPolledBlock <= chainHead BY DEF WithinHead
<1>2. CASE rest = <<>>
  <2>1. Await(p, IdlePoll) /\ lastPolledBlock' = polls[p].to BY <1>2 DEF Continue
  <2> QED BY <1>1, <2>1, PollStaysWithin DEF IdlePoll
<1>3. CASE rest # <<>>
  <2>1. PICK state : state = [at |-> "reading", to |-> polls[p].to, rest |-> rest] OBVIOUS
  <2>2. Await(p, state) /\ lastPolledBlock' = lastPolledBlock BY <1>3, <2>1 DEF Continue
  <2>3. state.to <= chainHead BY <1>1, <2>1
  <2> QED BY <1>1, <2>2, <2>3, PollStaysWithin
<1> QED BY <1>2, <1>3

LEMMA HeadStaysAhead ==
  ASSUME IngestInv, WithinHead, [IngestNext]_ingestVars
  PROVE  WithinHead'
<1>1. /\ chainHead \in Nat /\ lastPolledBlock <= chainHead /\ lastPolledBlock \in Nat
      /\ polls = [q \in Polls |-> polls[q]]
      /\ \A p \in Polls : polls[p].at # "idle" => polls[p].to <= chainHead /\ polls[p].to \in Nat
  BY IngestionAssumption DEF IngestInv, IngestTyped, PollsTyped, PollState, WithinHead
<1>2. ASSUME UNCHANGED <<chainHead, pollVars>> PROVE WithinHead' BY <1>2 DEF WithinHead, pollVars
<1>3. CASE NewBlock
  <2>1. UNCHANGED pollVars /\ chainHead' = chainHead + 1 BY <1>3 DEF NewBlock
  <2> QED BY <1>1, <2>1 DEF WithinHead, pollVars
<1>4. CASE Restart BY <1>1, <1>4 DEF Restart, WithinHead, IdlePoll
<1>5. ASSUME NEW p \in Polls, AskLatest(p) PROVE WithinHead'
  <2>1. PICK state : state = [at |-> "checking", to |-> chainHead] OBVIOUS
  <2>2. Await(p, state) /\ UNCHANGED <<chainHead, lastPolledBlock>> BY <1>5, <2>1 DEF AskLatest
  <2>3. state.to <= chainHead BY <1>1, <2>1
  <2> QED BY <1>1, <2>2, <2>3, PollStaysWithin
<1>6. ASSUME NEW p \in Polls, CheckLatest(p) PROVE WithinHead'
  <2>1. PICK state : state = IF polls[p].to <= lastPolledBlock THEN IdlePoll
                             ELSE [at |-> "fetching", from |-> lastPolledBlock + 1, to |-> polls[p].to]
    OBVIOUS
  <2>2. Await(p, state) /\ UNCHANGED <<chainHead, lastPolledBlock>> /\ polls[p].at # "idle"
    BY <1>6, <2>1 DEF CheckLatest, At
  <2>3. state.at = "idle" \/ state.to <= chainHead BY <1>1, <2>1, <2>2 DEF IdlePoll
  <2> QED BY <1>1, <2>2, <2>3, PollStaysWithin
<1>7. ASSUME NEW p \in Polls, PollFails(p) PROVE WithinHead'
  <2>1. Await(p, IdlePoll) /\ UNCHANGED <<chainHead, lastPolledBlock>> /\ IdlePoll.at = "idle"
    BY <1>7 DEF PollFails, IdlePoll
  <2> QED BY <1>1, <2>1, PollStaysWithin
<1>8. ASSUME NEW p \in Polls, FetchEvents(p) PROVE WithinHead'
  BY <1>8, RoundStaysWithin DEF FetchEvents, At
<1>9. ASSUME NEW p \in Polls, EventFails(p) PROVE WithinHead'
  BY <1>9, RoundStaysWithin DEF EventFails
<1>10. ASSUME NEW p \in Polls, NEW state, Await(p, state), state.to = polls[p].to, polls[p].at # "idle",
              UNCHANGED <<chainHead, lastPolledBlock>>
       PROVE  WithinHead'
  BY <1>1, <1>10, PollStaysWithin
<1>11. ASSUME NEW p \in Polls, ReadTail(p) PROVE WithinHead'
  <2>1. PICK state : state = [at |-> "saving", to |-> polls[p].to, rest |-> polls[p].rest, previousHash |-> TailHash]
    OBVIOUS
  <2> QED BY <1>10, <1>11, <2>1 DEF ReadTail, At
<1>12. ASSUME NEW p \in Polls, SaveEntry(p) PROVE WithinHead'
  <2>1. PICK state : state = [at |-> "resolving", to |-> polls[p].to, rest |-> polls[p].rest] OBVIOUS
  <2> QED BY <1>10, <1>12, <2>1 DEF SaveEntry, At
<1>13. ASSUME NEW p \in Polls, NEW hooks, Enqueuing(p, hooks), polls[p].at # "idle", chainHead' = chainHead
       PROVE  WithinHead'
  <2>1. CASE hooks = {} BY <1>13, <2>1, RoundStaysWithin DEF Enqueuing
  <2>2. CASE hooks # {}
    <3>1. PICK state : state = [at |-> "enqueuing", to |-> polls[p].to, rest |-> polls[p].rest, hooks |-> hooks]
      OBVIOUS
    <3> QED BY <1>10, <1>13, <2>2, <3>1 DEF Enqueuing
  <2> QED BY <2>1, <2>2
<1>14. ASSUME NEW p \in Polls, NEW h, ResolveWebhooks(p) \/ EnqueueJob(p, h) PROVE WithinHead'
  <2>1. CASE ResolveWebhooks(p) BY <1>13, <2>1 DEF ResolveWebhooks, At
  <2>2. CASE EnqueueJob(p, h) BY <1>13, <2>2 DEF EnqueueJob, At
  <2> QED BY <1>14, <2>1, <2>2
<1>15. ASSUME NEW p \in Polls, ResolveWebhooks(p) PROVE WithinHead' BY <1>14, <1>15
<1>16. CASE SendNext \/ Accepted \/ Refused \/ RetryTimer
  BY <1>2, <1>16 DEF SendNext, Accepted, Refused, RetryTimer
<1>17. ASSUME NEW h, RegisterWebhook(h) \/ Replay(h) \/ PurgeDlq(h) PROVE WithinHead'
  BY <1>2, <1>17 DEF RegisterWebhook, Replay, PurgeDlq, SetWebhook
<1>18. CASE UNCHANGED ingestVars BY <1>2, <1>18 DEF ingestVars
<1> QED BY <1>3, <1>4, <1>5, <1>6, <1>7, <1>8, <1>9, <1>11, <1>12, <1>14, <1>15, <1>16, <1>17, <1>18
     DEF IngestNext

LEMMA DeliveriesStayBounded ==
  ASSUME IngestInv, HooksTyped, AttemptsBounded, [IngestNext]_ingestVars
  PROVE  HooksTyped' /\ AttemptsBounded'
<1>1. ASSUME UNCHANGED webhooks, UNCHANGED jobVars PROVE HooksTyped' /\ AttemptsBounded'
  BY <1>1 DEF HooksTyped, AttemptsBounded, jobVars
<1>2. queue \in Seq(Job) /\ retries \in SUBSET Job /\ sending \in Job \cup {NoJob}
  BY DEF IngestInv, IngestTyped, JobsTyped
<1>3. RetryMax \in Nat \ {0} BY IngestionAssumption
<1>4. CASE NewBlock BY <1>1, <1>4 DEF NewBlock
<1>5. CASE Restart BY <1>5 DEF Restart, HooksTyped, AttemptsBounded
<1>6. ASSUME NEW p,
             \/ AskLatest(p) \/ CheckLatest(p) \/ FetchEvents(p) \/ PollFails(p)
             \/ ReadTail(p) \/ SaveEntry(p) \/ ResolveWebhooks(p) \/ EventFails(p)
      PROVE  HooksTyped' /\ AttemptsBounded'
  BY <1>1, <1>6 DEF AskLatest, CheckLatest, FetchEvents, PollFails, ReadTail, SaveEntry, ResolveWebhooks, EventFails
<1>7. ASSUME NEW job \in Job, job.attempt < RetryMax, queue' = Append(queue, job), UNCHANGED <<webhooks, sending>>,
             retries' \in SUBSET retries
      PROVE  HooksTyped' /\ AttemptsBounded'
  <2>1. \A i \in DOMAIN queue' : queue'[i] = job \/ (i \in DOMAIN queue /\ queue'[i] = queue[i]) BY <1>2, <1>7
  <2> QED BY <1>7, <2>1 DEF HooksTyped, AttemptsBounded
<1>8. ASSUME NEW p \in Polls, NEW h \in Hooks, EnqueueJob(p, h) PROVE HooksTyped' /\ AttemptsBounded'
  <2>1. PICK job : job = [hook |-> h, event |-> Head(polls[p].rest), attempt |-> 0] OBVIOUS
  <2>2. Head(polls[p].rest) \in ChainEvent
    <3>1. PollState(polls[p]) /\ polls[p].at = "enqueuing" BY <1>8 DEF IngestInv, IngestTyped, PollsTyped, EnqueueJob, At
    <3>2. polls[p].rest \in Seq(ChainEvent) /\ polls[p].rest # <<>> BY <3>1 DEF PollState, Looping
    <3> QED BY <3>2
  <2>3. job \in Job /\ job.attempt < RetryMax BY <1>3, <2>1, <2>2 DEF Job
  <2>4. queue' = Append(queue, job) /\ UNCHANGED <<webhooks, sending, retries>> BY <1>8, <2>1 DEF EnqueueJob
  <2> QED BY <1>7, <2>3, <2>4
<1>9. CASE SendNext
  <2>1. queue # <<>> /\ sending' = Head(queue) /\ queue' = Tail(queue) /\ UNCHANGED <<webhooks, retries>>
    BY <1>9 DEF SendNext
  <2>2. \A i \in DOMAIN queue' : i + 1 \in DOMAIN queue /\ queue'[i] = queue[i + 1] BY <1>2, <2>1
  <2>3. 1 \in DOMAIN queue /\ sending' = queue[1] BY <1>2, <2>1
  <2> QED BY <2>1, <2>2, <2>3 DEF HooksTyped, AttemptsBounded
<1>10. CASE Accepted BY <1>10 DEF Accepted, HooksTyped, AttemptsBounded
<1>11. CASE Refused
  <2>1. sending \in Job /\ sending' = NoJob /\ UNCHANGED queue BY <1>2, <1>11 DEF Refused
  <2>2. PICK next \in Nat : next = sending.attempt + 1 BY <2>1 DEF Job
  <2>3. \/ webhooks' = [webhooks EXCEPT ![sending.hook] = IF @ = "purged" THEN @ ELSE "dead"] /\ UNCHANGED retries
        \/ next < RetryMax /\ retries' = retries \cup {[sending EXCEPT !.attempt = next]} /\ UNCHANGED webhooks
        \/ UNCHANGED <<webhooks, retries>>
    BY <1>11, <2>2 DEF Refused
  <2>4. CASE webhooks' = [webhooks EXCEPT ![sending.hook] = IF @ = "purged" THEN @ ELSE "dead"] /\ UNCHANGED retries
    BY <2>1, <2>4 DEF HooksTyped, AttemptsBounded
  <2>5. CASE next < RetryMax /\ retries' = retries \cup {[sending EXCEPT !.attempt = next]} /\ UNCHANGED webhooks
    <3>1. PICK again : again = [sending EXCEPT !.attempt = next] OBVIOUS
    <3>2. again.attempt = next BY <2>1, <3>1 DEF Job
    <3>3. retries' = retries \cup {again} BY <2>5, <3>1
    <3> QED BY <2>1, <2>5, <3>2, <3>3 DEF HooksTyped, AttemptsBounded
  <2>6. CASE UNCHANGED <<webhooks, retries>> BY <2>1, <2>6 DEF HooksTyped, AttemptsBounded
  <2> QED BY <2>3, <2>4, <2>5, <2>6
<1>12. CASE RetryTimer
  <2>1. PICK job \in retries : queue' = Append(queue, job) /\ retries' = retries \ {job} BY <1>12 DEF RetryTimer
  <2>2. job \in Job /\ job.attempt < RetryMax BY <1>2, <2>1 DEF AttemptsBounded
  <2> QED BY <1>7, <1>12, <2>1, <2>2 DEF RetryTimer
<1>13. ASSUME NEW h \in Hooks, RegisterWebhook(h) \/ Replay(h) \/ PurgeDlq(h) PROVE HooksTyped' /\ AttemptsBounded'
  BY <1>13 DEF RegisterWebhook, Replay, PurgeDlq, SetWebhook, HooksTyped, AttemptsBounded, jobVars
<1>14. CASE UNCHANGED ingestVars BY <1>1, <1>14 DEF ingestVars
<1> QED BY <1>4, <1>5, <1>6, <1>8, <1>9, <1>10, <1>11, <1>12, <1>13, <1>14 DEF IngestNext

LEMMA EventsWellTyped == IngestIInv => IngestTypeOK
<1> SUFFICES ASSUME IngestIInv PROVE IngestTypeOK OBVIOUS
<1>1. IngestInv /\ WithinHead /\ HooksTyped /\ AttemptsBounded BY DEF IngestIInv, DeliveriesTyped
<1>2. PollsTyped /\ JobsTyped BY <1>1 DEF IngestInv, IngestTyped
<1>3. chainHead \in 0..Len(Blocks) /\ lastPolledBlock \in 0..chainHead
  BY <1>1, <1>2, IngestionAssumption DEF PollsTyped, WithinHead
<1>4. \A p \in Polls : polls[p].at \in {"idle", "checking", "fetching", "reading", "saving", "resolving", "enqueuing"}
  BY <1>2 DEF PollsTyped, PollState, Looping, Saved
<1>5. ASSUME NEW job \in Jobs PROVE job.attempt \in 0..RetryMax - 1
  <2>1. job \in Job /\ job.attempt < RetryMax
    <3>1. CASE job \in ToSet(queue) BY <1>1, <1>2, <3>1 DEF ToSet, AttemptsBounded, JobsTyped
    <3>2. CASE job \in retries BY <1>1, <1>2, <3>2 DEF AttemptsBounded, JobsTyped
    <3>3. CASE job = sending /\ sending # NoJob BY <1>1, <1>2, <3>3 DEF AttemptsBounded, JobsTyped
    <3> QED BY <1>5, <3>1, <3>2, <3>3 DEF Jobs
  <2>2. job.attempt \in Nat BY <2>1 DEF Job
  <2> QED BY <2>1, <2>2, IngestionAssumption
<1> QED BY <1>1, <1>3, <1>4, <1>5 DEF HooksTyped, IngestTypeOK

LEMMA DeliveriesStart == IngestInit => DeliveriesTyped
BY DEF IngestInit, DeliveriesTyped, WithinHead, HooksTyped, AttemptsBounded, IdlePoll

-----------------------------------------------------------------------------
(* The types of the client's queue follow from its invariant.                *)
LEMMA QueueWellTyped == QueueInv => QueueTypeOK
<1> SUFFICES ASSUME QueueInv PROVE QueueTypeOK OBVIOUS
<1>1. /\ {online, open} \subseteq BOOLEAN /\ completed \in 0..MaxSessions /\ recording \subseteq 1..completed
      /\ {pending, stored, mirror} \subseteq Seq(Sessions)
      /\ \A d \in drains : d.left \in Seq(Sessions) /\ d.saving \in BOOLEAN
      /\ \A s \in Sessions : recorded[s] \in Nat
  BY DEF QueueInv, QueueTyped, IsQueueOf, IsDrain
<1>2. recording \subseteq Sessions BY <1>1, QueueAssumption DEF Sessions
<1> QED BY <1>1, <1>2 DEF QueueTypeOK

-----------------------------------------------------------------------------
(* The types of the oracle.  A source that is switched off keeps its weight, *)
(* so its terms are those of a configuration or of one made inactive.        *)
SourceTerms == SourceConfigs \cup {[c EXCEPT !.active = FALSE] : c \in SourceConfigs} \cup {NoSource}

SourcesTyped ==
  /\ sources \in [Sources -> SourceTerms] /\ activeSources \subseteq Sources
  /\ reputation \in [Sources -> 0..MaxRep]

HistoryTyped ==
  /\ DOMAIN valuationHistory = Properties
  /\ \A p \in Properties : valuationHistory[p] \in Seq(Nat) /\ Len(valuationHistory[p]) <= HistoryCap

(* The valuation is replaced before it is compared with itself, so no alert  *)
(* but one at zero percent is ever raised.                                   *)
AlertsTyped ==
  /\ DOMAIN alerts = Properties /\ \A p \in Properties : alerts[p] \subseteq Thresholds
  /\ raised \subseteq {<<p, 0>> : p \in Properties}

RequestsTyped == oracleTime \in 0..OracleLastTime /\ pendingSince \in [Properties -> -1..OracleLastTime]

OracleIInv == OracleInv /\ SourcesTyped /\ HistoryTyped /\ AlertsTyped /\ RequestsTyped

LEMMA HistoryFits ==
  ASSUME NEW old \in Seq(Nat), NEW value \in Nat, NEW new, Len(old) <= HistoryCap, HistoryCap \in Nat \ {0},
         new = SubSeq(Append(old, value),
                      IF Len(Append(old, value)) > HistoryCap THEN Len(Append(old, value)) - HistoryCap + 1 ELSE 1,
                      Len(Append(old, value)))
  PROVE  new \in Seq(Nat) /\ Len(new) <= HistoryCap
<1>1. PICK all, first : /\ all = Append(old, value)
                        /\ first = IF Len(all) > HistoryCap THEN Len(all) - HistoryCap + 1 ELSE 1
  OBVIOUS
<1>2. all \in Seq(Nat) /\ Len(all) = Len(old) + 1 BY <1>1
<1>3. first \in 1..Len(all) /\ Len(all) - first + 1 <= HistoryCap BY <1>1, <1>2
<1>4. new = SubSeq(all, first, Len(all)) BY <1>1
<1>5. first \in Int /\ Len(all) \in Int /\ \A i \in first..Len(all) : all[i] \in Nat BY <1>2, <1>3
<1>6. SubSeq(all, first, Len(all)) \in Seq(Nat) /\ Len(SubSeq(all, first, Len(all))) = Len(all) - first + 1
  BY <1>3, <1>5, SubSeqProperties
<1> QED BY <1>3, <1>4, <1>6

LEMMA NoChange ==
  ASSUME NEW value \in Nat
  PROVE  PercentageChange(value, value) = 0
<1>1. Distance(value, value) = 0 BY DEF Distance
<1>2. value # 0 => (0 * 100) \div value = 0
  <2> SUFFICES ASSUME value # 0 PROVE 0 \div value = 0 OBVIOUS
  <2>1. 0 \div value \in 0..0 BY QuotientWithin
  <2> QED BY <2>1
<1> QED BY <1>1, <1>2 DEF PercentageChange

LEMMA StoredTyped ==
  ASSUME OracleIInv, NEW p \in Properties, NEW value \in Nat, NEW confidence, NEW prices,
         Store(p, value, confidence, prices), UNCHANGED alerts
  PROVE  HistoryTyped' /\ AlertsTyped'
<1>1. DOMAIN valuation = Properties /\ HistoryTyped /\ AlertsTyped BY DEF OracleIInv, OracleInv
<1>2. PICK new : new = [value |-> value, confidence |-> confidence] OBVIOUS
<1>3. valuation' = [valuation EXCEPT ![p] = new] BY <1>2 DEF Store
<1>4. valuation'[p].value = value BY <1>1, <1>2, <1>3
<1>5. raised' = raised \cup Alerted(p, value, value) BY <1>4 DEF Store
<1>6. Alerted(p, value, value) \subseteq {<<p, 0>>}
  <2>1. ASSUME NEW t \in alerts[p], PercentageChange(value, value) >= t PROVE t = 0
    <3>1. t \in Nat BY <1>1, OracleAssumption DEF AlertsTyped
    <3> QED BY <2>1, <3>1, NoChange
  <2> QED BY <2>1 DEF Alerted
<1>7. AlertsTyped' BY <1>1, <1>5, <1>6 DEF AlertsTyped
<1>8. PICK old, latest : /\ old = valuationHistory[p]
                         /\ latest = SubSeq(Append(old, value),
                              IF Len(Append(old, value)) > HistoryCap
                              THEN Len(Append(old, value)) - HistoryCap + 1 ELSE 1, Len(Append(old, value)))
  OBVIOUS
<1>9. valuationHistory' = [valuationHistory EXCEPT ![p] = latest] BY <1>8 DEF Store, StoreHistorical
<1>10. latest \in Seq(Nat) /\ Len(latest) <= HistoryCap
  <2>1. old \in Seq(Nat) /\ Len(old) <= HistoryCap BY <1>1, <1>8 DEF HistoryTyped
  <2> QED BY <1>8, <2>1, HistoryFits, OracleAssumption
<1>11. HistoryTyped' BY <1>1, <1>9, <1>10 DEF HistoryTyped
<1> QED BY <1>7, <1>11

LEMMA OracleStartsTyped == OracleInit => OracleIInv
<1> SUFFICES ASSUME OracleInit PROVE OracleIInv OBVIOUS
<1>1. OracleInv BY OracleStarts
<1>2. SourcesTyped BY OracleAssumption DEF OracleInit, SourcesTyped, SourceTerms
<1>3. HistoryTyped
  <2>1. HistoryCap \in Nat BY OracleAssumption
  <2> QED BY <2>1 DEF OracleInit, HistoryTyped
<1>4. AlertsTyped BY DEF OracleInit, AlertsTyped
<1>5. RequestsTyped
  <2>1. OracleLastTime \in Nat BY OracleAssumption
  <2>2. -1 \in -1..OracleLastTime /\ 0 \in 0..OracleLastTime BY <2>1
  <2> QED BY <2>2 DEF OracleInit, RequestsTyped
<1> QED BY <1>1, <1>2, <1>3, <1>4, <1>5 DEF OracleIInv

LEMMA SourcesStayTyped ==
  ASSUME SourcesTyped, NEW s \in Sources,
         (\E config \in SourceConfigs : AddSource(s, config)) \/ RemoveSource(s)
         \/ \E success \in BOOLEAN : UpdateReputation(s, success)
  PROVE  SourcesTyped'
<1>1. ASSUME NEW new \in SourceTerms, sources' = [sources EXCEPT ![s] = new]
      PROVE  sources' \in [Sources -> SourceTerms]
  BY <1>1 DEF SourcesTyped
<1>2. ASSUME NEW config \in SourceConfigs, AddSource(s, config) PROVE SourcesTyped'
  <2>1. config \in SourceTerms BY DEF SourceTerms
  <2>2. sources' \in [Sources -> SourceTerms] BY <1>1, <1>2, <2>1 DEF AddSource
  <2> QED BY <1>2, <2>2 DEF AddSource, SourcesTyped
<1>3. CASE RemoveSource(s)
  <2>1. NoSource \in SourceTerms BY DEF SourceTerms
  <2>2. sources' \in [Sources -> SourceTerms] BY <1>1, <1>3, <2>1 DEF RemoveSource
  <2> QED BY <1>3, <2>2 DEF RemoveSource, SourcesTyped
<1>4. ASSUME NEW success \in BOOLEAN, UpdateReputation(s, success) PROVE SourcesTyped'
  <2>1. PICK old, new :
          /\ old = reputation[s]
          /\ new = IF success THEN (IF old + RepGain > MaxRep THEN MaxRep ELSE old + RepGain)
                   ELSE (IF old < RepLoss THEN 0 ELSE old - RepLoss)
    OBVIOUS
  <2>2. old \in 0..MaxRep /\ {RepGain, RepLoss, MaxRep} \subseteq Nat
    BY <2>1, OracleAssumption DEF SourcesTyped
  <2>3. new \in 0..MaxRep BY <2>1, <2>2
  <2>4. /\ reputation' = [reputation EXCEPT ![s] = new] /\ activeSources' \subseteq activeSources
        /\ \/ sources' = sources
           \/ sources[s] # NoSource /\ sources' = [sources EXCEPT ![s].active = FALSE]
    BY <1>4, <2>1 DEF UpdateReputation
  <2>5. reputation' \in [Sources -> 0..MaxRep] BY <2>3, <2>4 DEF SourcesTyped
  <2>6. sources' \in [Sources -> SourceTerms]
    <3>1. CASE sources' = sources BY <3>1 DEF SourcesTyped
    <3>2. CASE sources[s] # NoSource /\ sources' = [sources EXCEPT ![s].active = FALSE]
      <4>1. PICK term : term = [sources[s] EXCEPT !.active = FALSE] OBVIOUS
      <4>2. sources' = [sources EXCEPT ![s] = term] BY <3>2, <4>1
      <4>3. term \in SourceTerms
        <5>1. CASE sources[s] \in SourceConfigs BY <4>1, <5>1 DEF SourceTerms
        <5>2. CASE sources[s] \notin SourceConfigs
          <6>1. PICK c \in SourceConfigs : sources[s] = [c EXCEPT !.active = FALSE]
            BY <3>2, <5>2 DEF SourcesTyped, SourceTerms
          <6>2. c \in [active : BOOLEAN, weight : Nat, kind : {"feed", "manual", "ai"}] BY OracleAssumption
          <6>3. term = sources[s] BY <4>1, <6>1, <6>2
          <6> QED BY <6>1, <6>3 DEF SourceTerms
        <5> QED BY <5>1, <5>2
      <4> QED BY <1>1, <4>2, <4>3
    <3> QED BY <2>4, <3>1, <3>2
  <2> QED BY <2>4, <2>5, <2>6 DEF SourcesTyped
<1> QED BY <1>2, <1>3, <1>4

LEMMA OracleStaysTyped == OracleIInv /\ OracleNext => OracleIInv'
<1> SUFFICES ASSUME OracleIInv, OracleNext PROVE OracleIInv' OBVIOUS
<1>1. OracleInv' BY OracleKeeps DEF OracleIInv
<1>2. OracleInv /\ SourcesTyped /\ HistoryTyped /\ AlertsTyped /\ RequestsTyped BY DEF OracleIInv
<1>3. UNCHANGED sourceVars => SourcesTyped' BY <1>2 DEF SourcesTyped, sourceVars
<1>4. UNCHANGED valuationVars => HistoryTyped' BY <1>2 DEF HistoryTyped, valuationVars
<1>5. UNCHANGED <<raised, alerts>> => AlertsTyped' BY <1>2 DEF AlertsTyped
<1>6. UNCHANGED <<oracleTime, pendingSince>> => RequestsTyped' BY <1>2 DEF RequestsTyped
<1>7. UNCHANGED valuationVars => raised' = raised BY DEF valuationVars
<1>8. ASSUME NEW p \in Properties, NEW value \in OraclePrices, NEW confidence, SubmitValuation(p, value, confidence)
      PROVE  SourcesTyped' /\ HistoryTyped' /\ AlertsTyped' /\ RequestsTyped'
  <2>1. value \in Nat BY OracleAssumption
  <2>2. HistoryTyped' /\ AlertsTyped' BY <1>8, <2>1, StoredTyped DEF SubmitValuation
  <2> QED BY <1>3, <1>6, <1>8, <2>2 DEF SubmitValuation
<1>9. ASSUME NEW p \in Properties, NEW feed \in [Sources -> OraclePrices], UpdateFromSources(p, feed)
      PROVE  SourcesTyped' /\ HistoryTyped' /\ AlertsTyped' /\ RequestsTyped'
  <2>1. PICK quotes : quotes = CollectPrices(p, feed) OBVIOUS
  <2>2. PICK S : AreQuotes(quotes, S) BY <1>2, <2>1, CollectedAreQuotes
  <2>3. CanAggregate(quotes) BY <1>9, <2>1 DEF UpdateFromSources
  <2>4. AggregatePrices(quotes) \in Nat BY <2>2, <2>3, AggregateBetween
  <2>5. PICK value, confidence, prices :
          /\ value = AggregatePrices(quotes) /\ confidence = ConfidenceScore(quotes)
          /\ prices = {quotes[s].price : s \in DOMAIN quotes}
    OBVIOUS
  <2>6. Store(p, value, confidence, prices) /\ UNCHANGED <<sourceVars, oracleTime, alerts>>
        /\ pendingSince' = [pendingSince EXCEPT ![p] = -1]
    BY <1>9, <2>1, <2>5 DEF UpdateFromSources
  <2>7. HistoryTyped' /\ AlertsTyped' BY <2>4, <2>5, <2>6, StoredTyped
  <2>8. -1 \in -1..OracleLastTime BY OracleAssumption
  <2>9. RequestsTyped' BY <1>2, <2>6, <2>8 DEF RequestsTyped
  <2> QED BY <1>3, <2>6, <2>7, <2>9
<1>10. ASSUME NEW p \in Properties, NEW threshold \in Thresholds, SetPriceAlert(p, threshold)
       PROVE  SourcesTyped' /\ HistoryTyped' /\ AlertsTyped' /\ RequestsTyped'
  <2>1. AlertsTyped' BY <1>2, <1>7, <1>10 DEF AlertsTyped, SetPriceAlert
  <2> QED BY <1>3, <1>4, <1>6, <1>10, <2>1 DEF SetPriceAlert
<1>11. ASSUME Requesting PROVE SourcesTyped' /\ HistoryTyped' /\ AlertsTyped' /\ RequestsTyped'
  <2>1. UNCHANGED <<sourceVars, valuationVars, alerts>>
    BY <1>11 DEF Requesting, OracleTick, RequestValuation
  <2>2. RequestsTyped'
    <3>1. CASE OracleTick BY <1>2, <3>1, OracleAssumption DEF OracleTick, RequestsTyped
    <3>2. ASSUME NEW p \in Properties, RequestValuation(p) PROVE RequestsTyped'
      <4>1. oracleTime \in -1..OracleLastTime BY <1>2, OracleAssumption DEF RequestsTyped
      <4> QED BY <1>2, <3>2, <4>1 DEF RequestValuation, RequestsTyped
    <3> QED BY <1>11, <3>1, <3>2 DEF Requesting
  <2> QED BY <1>3, <1>4, <1>5, <1>7, <2>1, <2>2
<1>12. ASSUME SetAiContract PROVE SourcesTyped' /\ HistoryTyped' /\ AlertsTyped' /\ RequestsTyped'
  BY <1>3, <1>4, <1>5, <1>6, <1>7, <1>12 DEF SetAiContract
<1>13. ASSUME NEW s \in Sources,
              (\E config \in SourceConfigs : AddSource(s, config)) \/ RemoveSource(s)
              \/ \E success \in BOOLEAN : UpdateReputation(s, success)
       PROVE  SourcesTyped' /\ HistoryTyped' /\ AlertsTyped' /\ RequestsTyped'
  <2>1. UNCHANGED <<valuationVars, oracleTime, pendingSince, alerts>>
    BY <1>13 DEF AddSource, RemoveSource, UpdateReputation
  <2>2. SourcesTyped' BY <1>2, <1>13, SourcesStayTyped
  <2> QED BY <1>4, <1>5, <1>6, <1>7, <2>1, <2>2
<1>14. SourcesTyped' /\ HistoryTyped' /\ AlertsTyped' /\ RequestsTyped'
  <2>1. CASE Valuing BY <1>8, <1>9, <2>1 DEF Valuing
  <2>2. CASE Alerting BY <1>10, <2>2 DEF Alerting
  <2>3. CASE Adding BY <1>12, <1>13, <2>3 DEF Adding
  <2>4. CASE Policing BY <1>13, <2>4 DEF Policing
  <2> QED BY <1>11, <2>1, <2>2, <2>3, <2>4 DEF OracleNext
<1> QED BY <1>1, <1>14 DEF OracleIInv

LEMMA ValuationsWellTyped == OracleIInv => OracleTypeOK
BY DEF OracleIInv, OracleInv, SourcesTyped, SourceTerms, HistoryTyped, AlertsTyped, RequestsTyped, OracleTypeOK

-----------------------------------------------------------------------------
(* The contracts together.  Each step of the composition is one of a single  *)
(* component, whichever is deployed; the pool's provider, the policies and   *)
(* the claims it picks are among those of the components.                    *)
ContractsIInv ==
  /\ OracleIInv /\ FeeIInv /\ FracTypeOK /\ InsIInv /\ RegistryIInv /\ ZkIInv
  /\ IngestIInv /\ KeyInv /\ QueueInv /\ BreakerInv

LEMMA StepPrepares == InsIInv /\ Prepare => InsIInv'
<1> SUFFICES ASSUME InsIInv, Prepare PROVE InsIInv' OBVIOUS
<1>1. CASE UpdateRiskAssessment(1, 90, 3) BY <1>1, StepBeside
<1>2. CASE /\ DepositLiquidity("alice", 4)
           /\ UNCHANGED <<assessment, cover, market, claimBooks, items, reinsurance, adminBooks>>
  <2>1. LiquidityIInv /\ pool \in PoolRecord BY DEF InsIInv, LiquidityIInv, PoolTyped
  <2>2. LiquidityIInv' BY <1>2, <2>1, DeployedAssumption, StepDepositsStake
  <2>3. pool'.active = pool.active BY <1>2, <2>1 DEF DepositLiquidity, PoolRecord
  <2> QED BY <1>2, <2>2, <2>3, BooksBesidePool
<1> QED BY <1>1, <1>2 DEF Prepare

LEMMA StepInsures ==
  ASSUME InsIInv, NEW parametric \in BOOLEAN, Insure(parametric)
  PROVE  InsIInv'
BY StepCreates, DeployedAssumption DEF Insure

LEMMA StepInsurance == InsIInv /\ InsuranceStep => InsIInv'
<1> SUFFICES ASSUME InsIInv, InsuranceStep PROVE InsIInv' OBVIOUS
<1>1. ASSUME PoolStep \/ Clock PROVE InsIInv'
  <2>1. PoolStep BY <1>1 DEF Clock, PoolStep
  <2> QED BY <2>1, StepOfPoolAlone
<1>2. ASSUME Insuring \/ Claiming \/ Evidence \/ Marketing \/ Administering \/ Reinsuring PROVE InsIInv'
  BY <1>2, StepOfContract DEF InsNext
<1>3. ASSUME Prepare PROVE InsIInv' BY <1>3, StepPrepares
<1>4. ASSUME NEW parametric \in BOOLEAN, Insure(parametric) PROVE InsIInv' BY <1>4, StepInsures
<1>5. ASSUME CreatePolicy("alice", 1, "Fire", 1, 1, 2, FALSE) PROVE InsIInv'
  BY <1>5, StepCreates, DeployedAssumption
<1>6. ASSUME NEW i \in DOMAIN cover, RenewPolicy(i, 1, 2) PROVE InsIInv' BY <1>6, StepRenews
<1>7. ASSUME NEW limit \in 0..1, ExpirePolicies(limit) PROVE InsIInv' BY <1>2, <1>7 DEF Insuring
<1>8. ASSUME NEW a \in Accounts, cover # <<>>, SubmitClaim(a, 1, 4, "photo", 0) PROVE InsIInv'
  <2>1. cover \in Seq(CoverRecord) BY DEF InsIInv, PolicyBooks
  <2>2. 1 \in DOMAIN cover BY <1>8, <2>1
  <2> QED BY <1>8, <2>2, StepSubmits, DeployedAssumption
<1>9. ASSUME NEW a \in Accounts, NEW id \in DOMAIN insClaims, ProcessClaim(a, id) PROVE InsIInv'
  BY <1>9, StepProcesses
<1>10. \/ PoolStep \/ Prepare \/ CreatePolicy("alice", 1, "Fire", 1, 1, 2, FALSE)
       \/ \E i \in DOMAIN cover : RenewPolicy(i, 1, 2)
       \/ Clock \/ Insuring \/ Marketing \/ Claiming \/ Reinsuring \/ Evidence \/ Administering
       \/ \E parametric \in BOOLEAN : Insure(parametric)
       \/ \E limit \in 0..1 : ExpirePolicies(limit)
       \/ \E a \in Accounts : \/ cover # <<>> /\ SubmitClaim(a, 1, 4, "photo", 0)
                              \/ \E id \in DOMAIN insClaims : ProcessClaim(a, id)
  BY Zenon DEF InsuranceStep
<1> QED BY <1>1, <1>2, <1>3, <1>4, <1>5, <1>6, <1>7, <1>8, <1>9, <1>10

LEMMA OracleIdle == OracleIInv /\ UNCHANGED oracleVars => OracleIInv'
<1> SUFFICES ASSUME OracleIInv, UNCHANGED oracleVars PROVE OracleIInv' OBVIOUS
<1>1. OracleInv' BY OracleKeeps DEF OracleIInv
<1>2. SourcesTyped' /\ HistoryTyped' /\ AlertsTyped' /\ RequestsTyped'
  BY DEF OracleIInv, oracleVars, SourcesTyped, HistoryTyped, AlertsTyped, RequestsTyped
<1> QED BY <1>1, <1>2 DEF OracleIInv

LEMMA FeesKept == FeeIInv /\ [FeeNext]_feeVars => FeeIInv'
BY StepRewards, StepAuctions, FeeClockKept DEF FeeIInv

LEMMA ComponentsKept ==
  /\ FracTypeOK /\ [FracNext]_fracVars => FracTypeOK'
  /\ RegistryIInv /\ [ComplianceNext]_complianceVars => RegistryIInv'
  /\ ZkIInv /\ [ZkNext]_zkVars => ZkIInv'
  /\ IngestIInv /\ [IngestNext]_ingestVars => IngestIInv'
  /\ KeyInv /\ [KeyNext]_keyVariables => KeyInv'
  /\ QueueInv /\ [QueueNext]_queueVars => QueueInv'
  /\ BreakerInv /\ [Next]_vars => BreakerInv'
<1>1. FracTypeOK /\ [FracNext]_fracVars => FracTypeOK' BY SharesStayTyped
<1>2. RegistryIInv /\ [ComplianceNext]_complianceVars => RegistryIInv'
  BY StepRegistry, RegistryStaysTyped DEF RegistryIInv
<1>3. ZkIInv /\ [ZkNext]_zkVars => ZkIInv' BY ZkStep, ZkCallersKept DEF ZkIInv
<1>4. IngestIInv /\ [IngestNext]_ingestVars => IngestIInv'
  BY StepIngest, HeadStaysAhead, DeliveriesStayBounded DEF IngestIInv, DeliveriesTyped
<1>5. KeyInv /\ [KeyNext]_keyVariables => KeyInv' BY StepKeys
<1>6. BreakerInv /\ [Next]_vars => BreakerInv' BY StepBreaker DEF BreakerKept
<1> QED BY <1>1, <1>2, <1>3, <1>4, <1>5, <1>6, QueueStep

(* The steps of a deployment are steps of its component.                     *)
LEMMA StepsOfComponents ==
  /\ (OracleStep => OracleNext) /\ (FeeStep => FeeNext)
  /\ (RegistryStep => ComplianceNext) /\ (ProofStep => ZkNext)
<1>1. OracleStep => OracleNext BY DEF OracleStep, OracleNext
<1>2. FeeStep => FeeNext
  <2>1. FeeTick \/ RecordFee(7) => Collecting BY DeployedAssumption DEF Collecting
  <2> QED BY <2>1 DEF FeeStep, FeeNext
<1>3. RegistryStep => ComplianceNext BY DEF RegistryStep
<1>4. ProofStep => ZkNext BY DEF ProofStep, ZkNext
<1> QED BY <1>1, <1>2, <1>3, <1>4

LEMMA ContractsStep == ContractsIInv /\ [ContractsNext]_contractsVars => ContractsIInv'
<1> SUFFICES ASSUME ContractsIInv, [ContractsNext]_contractsVars PROVE ContractsIInv' OBVIOUS
<1>1. /\ OracleIInv /\ FeeIInv /\ FracTypeOK /\ InsIInv /\ RegistryIInv /\ ZkIInv
      /\ IngestIInv /\ KeyInv /\ QueueInv /\ BreakerInv
  BY DEF ContractsIInv
<1>2. ASSUME OracleNext \/ UNCHANGED oracleVars PROVE OracleIInv' BY <1>1, <1>2, OracleStaysTyped, OracleIdle
<1>3. ASSUME InsuranceStep \/ UNCHANGED insVars PROVE InsIInv' BY <1>1, <1>3, StepInsurance, ContractStutters
<1>4. ASSUME [FeeNext]_feeVars, [FracNext]_fracVars, [ComplianceNext]_complianceVars, [ZkNext]_zkVars,
             [IngestNext]_ingestVars, [KeyNext]_keyVariables, [QueueNext]_queueVars, [Next]_vars
      PROVE  /\ FeeIInv' /\ FracTypeOK' /\ RegistryIInv' /\ ZkIInv' /\ IngestIInv' /\ KeyInv'
             /\ QueueInv' /\ BreakerInv'
  BY <1>1, <1>4, FeesKept, ComponentsKept
<1>5. /\ (OracleStep => OracleNext) /\ (FeeStep => FeeNext)
      /\ (RegistryStep => ComplianceNext) /\ (ProofStep => ZkNext)
  BY StepsOfComponents
<1>6. \/ OracleNext \/ UNCHANGED oracleVars
  BY <1>5 DEF ContractsNext, contractsVars, inkVars
<1>7. InsuranceStep \/ UNCHANGED insVars BY DEF ContractsNext, contractsVars, inkVars
<1>8. [FeeNext]_feeVars /\ [FracNext]_fracVars BY <1>5 DEF ContractsNext, contractsVars, inkVars
<1>9. [ComplianceNext]_complianceVars /\ [ZkNext]_zkVars BY <1>5 DEF ContractsNext, contractsVars
<1>10. [IngestNext]_ingestVars /\ [KeyNext]_keyVariables BY DEF ContractsNext, contractsVars, apiVars
<1>11. [QueueNext]_queueVars /\ [Next]_vars BY DEF ContractsNext, contractsVars
<1> QED BY <1>2, <1>3, <1>4, <1>6, <1>7, <1>8, <1>9, <1>10, <1>11 DEF ContractsIInv

LEMMA ContractsStart == ContractsInit => ContractsIInv
<1> SUFFICES ASSUME ContractsInit PROVE ContractsIInv OBVIOUS
<1>1. /\ OracleInit /\ FeeInit /\ FracInit /\ InsInit /\ ComplianceInit /\ ZkInit
      /\ IngestInit /\ KeyInit /\ QueueInit /\ Init
  BY DEF ContractsInit
<1>2. OracleIInv /\ FracTypeOK /\ InsIInv BY <1>1, OracleStartsTyped, SharesStartTyped, ContractStarts
<1>3. FeeIInv
  <2>1. FeeClock BY <1>1, FeeAssumption DEF FeeInit, FeeClock
  <2> QED BY <1>1, <2>1, RewardsStart, AuctionsStart DEF FeeIInv
<1>4. RegistryIInv BY <1>1, RegistryStarts, RegistryStartsTyped DEF RegistryIInv
<1>5. ZkIInv BY <1>1, ZkStarts, ZkStartsTyped DEF ZkIInv
<1>6. IngestIInv BY <1>1, IngestStarts, DeliveriesStart DEF IngestIInv
<1>7. KeyInv /\ QueueInv /\ BreakerInv BY <1>1, KeysStart, QueueStarts, BreakerStarts
<1> QED BY <1>2, <1>3, <1>4, <1>5, <1>6, <1>7 DEF ContractsIInv

(* Types of all the components of the composition: every amount, index,      *)
(* counter and time that one of them keeps stays within its bounds.          *)
THEOREM ContractsTypes == ContractsSpec => []ContractsTypeOK
<1>1. ContractsIInv => ContractsTypeOK
  BY ValuationsWellTyped, FeesWellTyped, InsuranceWellTyped, RegistryWellTyped, ZkWellTyped, EventsWellTyped,
     QueueWellTyped DEF ContractsIInv, RegistryIInv, KeyInv, BreakerInv, ContractsTypeOK
<1> QED BY <1>1, ContractsStart, ContractsStep, PTL DEF ContractsSpec
=============================================================================

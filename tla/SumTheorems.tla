----------------------------- MODULE SumTheorems -----------------------------
(* Sums over finite sets: what SumFunctionOnSet of the community modules     *)
(* returns and how it changes when the function does; what is rounded off by *)
(* a quotient; the least and greatest of numbers, the sizes of sets, and     *)
(* sums of integers that wrap.                                               *)
(* Nothing here is about the contracts, whose proofs cite it.                *)
EXTENDS Integers, FiniteSets, Functions, Int128, FiniteSetTheorems, FunctionTheorems,
  WellFoundedInduction, TLAPS

(* The element of a set that a sum over it takes next.                       *)
Pick(s) == CHOOSE x \in s : TRUE

(* The sums of f over all subsets of S, each from a smaller one.             *)
IsSumTable(g, f, S) ==
  g = [s \in SUBSET S |-> IF s = {} THEN 0 ELSE f[Pick(s)] + g[s \ {Pick(s)}]]

SumTable(f, S) == CHOOSE g : IsSumTable(g, f, S)

(* The community modules' sum over a set is the entry of this table.         *)
LEMMA SumIsTable ==
  ASSUME NEW f, NEW S
  PROVE  SumFunctionOnSet(f, S) = SumTable(f, S)[S]
BY DEF SumFunctionOnSet, FoldFunctionOnSet, MapThenFoldSet, SumTable, IsSumTable, Pick

(* Among the subsets of a finite set that fail, one has no failing strict    *)
(* subset: the induction that the proofs below use.                          *)
LEMMA SmallestFailure ==
  ASSUME NEW S, IsFiniteSet(S), NEW Bad, Bad \subseteq SUBSET S, Bad # {}
  PROVE  \E T \in Bad : \A U \in SUBSET T : U # T => U \notin Bad
<1>1. FiniteSubsetsOf(S) = SUBSET S
  BY FS_FiniteSubsetsOfFinite
<1>2. IsWellFoundedOn(StrictSubsetOrdering(S), SUBSET S)
  BY <1>1, FS_StrictSubsetOrderingWellFounded
<1>3. PICK T \in Bad : \A U \in Bad : <<U, T>> \notin StrictSubsetOrdering(S)
  BY <1>2, WFMin
<1>4. \A U \in SUBSET T : U # T /\ U \in Bad => <<U, T>> \in StrictSubsetOrdering(S)
  BY DEF StrictSubsetOrdering
<1>5. \A U \in SUBSET T : U # T => U \notin Bad
  BY <1>3, <1>4
<1> QED BY <1>5

(* Two tables of the same function agree where both are defined.             *)
LEMMA TablesAgree ==
  ASSUME NEW S, IsFiniteSet(S), NEW T \in SUBSET S, NEW f, NEW g, NEW h,
         IsSumTable(g, f, S), IsSumTable(h, f, T)
  PROVE  \A s \in SUBSET T : g[s] = h[s]
<1> DEFINE Bad == {s \in SUBSET T : g[s] # h[s]}
<1> SUFFICES Bad = {} OBVIOUS
<1> SUFFICES ASSUME Bad # {} PROVE FALSE OBVIOUS
<1>1. IsFiniteSet(T) BY FS_Subset
<1>2. PICK s \in Bad : \A u \in SUBSET s : u # s => u \notin Bad
  <2>1. Bad \subseteq SUBSET T OBVIOUS
  <2> HIDE DEF Bad
  <2> QED BY <1>1, <2>1, SmallestFailure
<1>3. CASE s = {}
  BY <1>3 DEF IsSumTable
<1>4. CASE s # {}
  <2> DEFINE u == s \ {Pick(s)}
  <2>1. Pick(s) \in s BY <1>4 DEF Pick
  <2>2. u \in SUBSET T /\ u # s /\ u \subseteq s BY <2>1
  <2>3. g[u] = h[u] BY <1>2, <2>2
  <2>4. g[s] = f[Pick(s)] + g[u] BY <1>4 DEF IsSumTable
  <2>5. h[s] = f[Pick(s)] + h[u] BY <1>4 DEF IsSumTable
  <2> QED BY <2>3, <2>4, <2>5
<1> QED BY <1>3, <1>4

(* Every function has a table over a finite set.                             *)
LEMMA TableExists ==
  ASSUME NEW S, IsFiniteSet(S), NEW f
  PROVE  IsSumTable(SumTable(f, S), f, S)
<1> DEFINE Bad == {T \in SUBSET S : ~ \E g : IsSumTable(g, f, T)}
<1>1. SUFFICES Bad = {} BY DEF SumTable
<1> SUFFICES ASSUME Bad # {} PROVE FALSE OBVIOUS
<1>2. PICK T \in Bad : \A U \in SUBSET T : U # T => U \notin Bad
  <2>1. Bad \subseteq SUBSET S OBVIOUS
  <2> HIDE DEF Bad
  <2> QED BY <2>1, SmallestFailure
<1>3. \A U \in SUBSET T : U # T => IsSumTable(SumTable(f, U), f, U)
  BY <1>2 DEF SumTable
<1> DEFINE Below(s) == SumTable(f, s \ {Pick(s)})[s \ {Pick(s)}]
           G == [s \in SUBSET T |-> IF s = {} THEN 0 ELSE f[Pick(s)] + Below(s)]
<1>4. ASSUME NEW s \in SUBSET T, s # {}
      PROVE  G[s] = f[Pick(s)] + G[s \ {Pick(s)}]
  <2> DEFINE t == s \ {Pick(s)}
  <2>1. Pick(s) \in s BY <1>4 DEF Pick
  <2>2. t \in SUBSET T /\ t # T BY <2>1
  <2>3. IsSumTable(SumTable(f, t), f, t) BY <1>3, <2>2
  <2>4. G[s] = f[Pick(s)] + SumTable(f, t)[t] BY <1>4
  <2>5. CASE t = {}
    <3>1. SumTable(f, t)[t] = 0 BY <2>3, <2>5 DEF IsSumTable
    <3>2. G[t] = 0 BY <2>5
    <3> QED BY <3>1, <3>2, <2>4
  <2>6. CASE t # {}
    <3> DEFINE u == t \ {Pick(t)}
    <3>1. Pick(t) \in t BY <2>6 DEF Pick
    <3>2. u \in SUBSET T /\ u # T /\ u \subseteq t BY <3>1, <2>2
    <3>3. IsSumTable(SumTable(f, u), f, u) BY <1>3, <3>2
    <3>4. IsFiniteSet(t) BY FS_Subset, <2>2
    <3>5. SumTable(f, t)[u] = SumTable(f, u)[u]
      BY <2>3, <3>2, <3>3, <3>4, TablesAgree
    <3>6. SumTable(f, t)[t] = f[Pick(t)] + SumTable(f, t)[u]
      BY <2>3, <2>6 DEF IsSumTable
    <3>7. G[t] = f[Pick(t)] + SumTable(f, u)[u] BY <2>6, <2>2
    <3> QED BY <2>4, <3>5, <3>6, <3>7
  <2> QED BY <2>5, <2>6
<1>5. IsSumTable(G, f, T)
  <2>1. G = [s \in SUBSET T |-> IF s = {} THEN 0 ELSE f[Pick(s)] + G[s \ {Pick(s)}]]
    <3> HIDE DEF Below
    <3> QED BY <1>4
  <2> QED BY <2>1 DEF IsSumTable
<1> QED BY <1>2, <1>5

(* A table over a set also holds the sums over its subsets.                  *)
LEMMA SumSubTable ==
  ASSUME NEW S, IsFiniteSet(S), NEW T \in SUBSET S, NEW f
  PROVE  SumTable(f, S)[T] = SumFunctionOnSet(f, T)
<1>1. IsFiniteSet(T) BY FS_Subset
<1>2. IsSumTable(SumTable(f, S), f, S) /\ IsSumTable(SumTable(f, T), f, T)
  BY <1>1, TableExists
<1>3. \A s \in SUBSET T : SumTable(f, S)[s] = SumTable(f, T)[s]
  BY <1>2, TablesAgree
<1> QED BY <1>3, SumIsTable

(* The empty sum is zero.                                                    *)
THEOREM SumEmpty ==
  ASSUME NEW f
  PROVE  SumFunctionOnSet(f, {}) = 0
<1>1. IsSumTable(SumTable(f, {}), f, {}) BY TableExists, FS_EmptySet
<1>2. SumTable(f, {})[{}] = 0 BY <1>1 DEF IsSumTable
<1> QED BY <1>2, SumIsTable

(* A sum is the picked element's value plus the rest.                        *)
LEMMA SumPick ==
  ASSUME NEW S, IsFiniteSet(S), S # {}, NEW f
  PROVE  /\ Pick(S) \in S
         /\ SumFunctionOnSet(f, S) = f[Pick(S)] + SumFunctionOnSet(f, S \ {Pick(S)})
<1>1. Pick(S) \in S BY DEF Pick
<1>2. IsSumTable(SumTable(f, S), f, S) BY TableExists
<1>3. SumTable(f, S)[S] = f[Pick(S)] + SumTable(f, S)[S \ {Pick(S)}]
  BY <1>2 DEF IsSumTable
<1> QED BY <1>1, <1>3, SumSubTable, SumIsTable

(* Integers sum to an integer.                                               *)
THEOREM SumType ==
  ASSUME NEW S, IsFiniteSet(S), NEW f, \A x \in S : f[x] \in Int
  PROVE  SumFunctionOnSet(f, S) \in Int
<1> DEFINE Bad == {T \in SUBSET S : SumFunctionOnSet(f, T) \notin Int}
<1> SUFFICES ASSUME Bad # {} PROVE FALSE OBVIOUS
<1>1. PICK T \in Bad : \A U \in SUBSET T : U # T => U \notin Bad
  <2>1. Bad \subseteq SUBSET S OBVIOUS
  <2> HIDE DEF Bad
  <2> QED BY <2>1, SmallestFailure
<1>2. T # {} BY SumEmpty
<1>3. IsFiniteSet(T) BY FS_Subset
<1>4. /\ Pick(T) \in T
      /\ SumFunctionOnSet(f, T) = f[Pick(T)] + SumFunctionOnSet(f, T \ {Pick(T)})
  BY <1>2, <1>3, SumPick
<1>5. SumFunctionOnSet(f, T \ {Pick(T)}) \in Int
  BY <1>1, <1>4
<1> QED BY <1>4, <1>5

(* Any element may be taken out of a sum, not only the picked one.           *)
LEMMA SumTake ==
  ASSUME NEW S, IsFiniteSet(S), NEW f, \A y \in S : f[y] \in Int, NEW x \in S
  PROVE  SumFunctionOnSet(f, S) = f[x] + SumFunctionOnSet(f, S \ {x})
<1> DEFINE Splits(T, y) == SumFunctionOnSet(f, T) = f[y] + SumFunctionOnSet(f, T \ {y})
           Bad == {T \in SUBSET S : \E y \in T : ~ Splits(T, y)}
<1> SUFFICES ASSUME Bad # {} PROVE FALSE OBVIOUS
<1>1. PICK T \in Bad : \A U \in SUBSET T : U # T => U \notin Bad
  <2>1. Bad \subseteq SUBSET S OBVIOUS
  <2> HIDE DEF Bad
  <2> QED BY <2>1, SmallestFailure
<1>2. PICK y \in T : ~ Splits(T, y) OBVIOUS
<1>3. T \in SUBSET S /\ IsFiniteSet(T) BY FS_Subset
<1> DEFINE c == Pick(T)
<1>4. c \in T /\ Splits(T, c) BY <1>2, <1>3, SumPick
<1>5. c # y BY <1>2, <1>4
<1>6. Splits(T \ {c}, y) BY <1>1, <1>3, <1>4, <1>5
<1>7. Splits(T \ {y}, c) BY <1>1, <1>2, <1>3, <1>4, <1>5
<1>8. (T \ {c}) \ {y} = (T \ {y}) \ {c} OBVIOUS
<1>9. SumFunctionOnSet(f, (T \ {c}) \ {y}) \in Int
  <2>1. IsFiniteSet((T \ {c}) \ {y}) BY <1>3, FS_Subset
  <2>2. \A z \in (T \ {c}) \ {y} : f[z] \in Int BY <1>3
  <2> QED BY <2>1, <2>2, SumType
<1>10. f[c] \in Int /\ f[y] \in Int BY <1>2, <1>3, <1>4
<1> DEFINE r == SumFunctionOnSet(f, (T \ {c}) \ {y})
<1>11. SumFunctionOnSet(f, T) = f[c] + (f[y] + r) BY <1>4, <1>6, Zenon
<1>12. SumFunctionOnSet(f, T \ {y}) = f[c] + r BY <1>7, <1>8, Zenon
<1>13. SumFunctionOnSet(f, T) # f[y] + SumFunctionOnSet(f, T \ {y}) BY <1>2
<1>14. r \in Int BY <1>9
<1> HIDE DEF r, c
<1> QED BY <1>10, <1>11, <1>12, <1>13, <1>14

(* Naturals sum to a natural.                                                *)
LEMMA SumNat ==
  ASSUME NEW S, IsFiniteSet(S), NEW f, \A x \in S : f[x] \in Nat
  PROVE  SumFunctionOnSet(f, S) \in Nat
<1> DEFINE Bad == {T \in SUBSET S : SumFunctionOnSet(f, T) \notin Nat}
<1> SUFFICES ASSUME Bad # {} PROVE FALSE OBVIOUS
<1>1. PICK T \in Bad : \A U \in SUBSET T : U # T => U \notin Bad
  <2>1. Bad \subseteq SUBSET S OBVIOUS
  <2> HIDE DEF Bad
  <2> QED BY <2>1, SmallestFailure
<1>2. T # {} BY SumEmpty
<1>3. IsFiniteSet(T) BY FS_Subset
<1>4. /\ Pick(T) \in T
      /\ SumFunctionOnSet(f, T) = f[Pick(T)] + SumFunctionOnSet(f, T \ {Pick(T)})
  BY <1>2, <1>3, SumPick
<1>5. SumFunctionOnSet(f, T \ {Pick(T)}) \in Nat BY <1>1, <1>4
<1> QED BY <1>4, <1>5

(* Functions that agree on a set have the same sum over it.                  *)
LEMMA SumAgree ==
  ASSUME NEW S, IsFiniteSet(S), NEW f, NEW g, \A x \in S : f[x] = g[x]
  PROVE  SumFunctionOnSet(f, S) = SumFunctionOnSet(g, S)
<1> DEFINE Bad == {T \in SUBSET S : SumFunctionOnSet(f, T) # SumFunctionOnSet(g, T)}
<1> SUFFICES ASSUME Bad # {} PROVE FALSE OBVIOUS
<1>1. PICK T \in Bad : \A U \in SUBSET T : U # T => U \notin Bad
  <2>1. Bad \subseteq SUBSET S OBVIOUS
  <2> HIDE DEF Bad
  <2> QED BY <2>1, SmallestFailure
<1>2. T # {} BY SumEmpty
<1>3. IsFiniteSet(T) BY FS_Subset
<1>4. /\ Pick(T) \in T
      /\ SumFunctionOnSet(f, T) = f[Pick(T)] + SumFunctionOnSet(f, T \ {Pick(T)})
      /\ SumFunctionOnSet(g, T) = g[Pick(T)] + SumFunctionOnSet(g, T \ {Pick(T)})
  BY <1>2, <1>3, SumPick
<1>5. SumFunctionOnSet(f, T \ {Pick(T)}) = SumFunctionOnSet(g, T \ {Pick(T)})
  BY <1>1, <1>4
<1> QED BY <1>4, <1>5

(* Sums of functions add up.                                                 *)
THEOREM SumOfSums ==
  ASSUME NEW S, IsFiniteSet(S), NEW f, NEW g, NEW h,
         \A x \in S : f[x] \in Int /\ g[x] \in Int /\ h[x] = f[x] + g[x]
  PROVE  SumFunctionOnSet(h, S) = SumFunctionOnSet(f, S) + SumFunctionOnSet(g, S)
<1> DEFINE Bad == {T \in SUBSET S :
                     SumFunctionOnSet(h, T) # SumFunctionOnSet(f, T) + SumFunctionOnSet(g, T)}
<1> SUFFICES ASSUME Bad # {} PROVE FALSE OBVIOUS
<1>1. PICK T \in Bad : \A U \in SUBSET T : U # T => U \notin Bad
  <2>1. Bad \subseteq SUBSET S OBVIOUS
  <2> HIDE DEF Bad
  <2> QED BY <2>1, SmallestFailure
<1>2. T # {}
  <2>1. SumFunctionOnSet(h, {}) = 0 /\ SumFunctionOnSet(f, {}) = 0
        /\ SumFunctionOnSet(g, {}) = 0
    BY SumEmpty
  <2>2. {} \notin Bad BY <2>1
  <2> QED BY <2>2
<1>3. IsFiniteSet(T) /\ IsFiniteSet(T \ {Pick(T)}) BY FS_Subset
<1>4. /\ Pick(T) \in T
      /\ SumFunctionOnSet(f, T) = f[Pick(T)] + SumFunctionOnSet(f, T \ {Pick(T)})
      /\ SumFunctionOnSet(g, T) = g[Pick(T)] + SumFunctionOnSet(g, T \ {Pick(T)})
      /\ SumFunctionOnSet(h, T) = h[Pick(T)] + SumFunctionOnSet(h, T \ {Pick(T)})
  BY <1>2, <1>3, SumPick
<1>5. SumFunctionOnSet(h, T \ {Pick(T)}) =
        SumFunctionOnSet(f, T \ {Pick(T)}) + SumFunctionOnSet(g, T \ {Pick(T)})
  BY <1>1, <1>4
<1>6. /\ SumFunctionOnSet(f, T \ {Pick(T)}) \in Int
      /\ SumFunctionOnSet(g, T \ {Pick(T)}) \in Int
  <2>1. \A z \in T \ {Pick(T)} : f[z] \in Int /\ g[z] \in Int OBVIOUS
  <2> QED BY <1>3, <2>1, SumType
<1>7. h[Pick(T)] = f[Pick(T)] + g[Pick(T)] /\ f[Pick(T)] \in Int /\ g[Pick(T)] \in Int
  BY <1>4
<1> QED BY <1>4, <1>5, <1>6, <1>7

(* Changing one value changes the sum by the difference.                     *)
THEOREM SumUpdate ==
  ASSUME NEW S, IsFiniteSet(S), NEW f, \A y \in S : f[y] \in Int,
         NEW x \in S, NEW v \in Int, NEW g, g[x] = v,
         \A y \in S \ {x} : g[y] = f[y]
  PROVE  SumFunctionOnSet(g, S) = SumFunctionOnSet(f, S) - f[x] + v
<1>1. IsFiniteSet(S \ {x}) BY FS_Subset
<1>2. SumFunctionOnSet(g, S \ {x}) = SumFunctionOnSet(f, S \ {x}) BY <1>1, SumAgree
<1>3. SumFunctionOnSet(f, S) = f[x] + SumFunctionOnSet(f, S \ {x}) BY SumTake
<1>4. \A y \in S : g[y] \in Int OBVIOUS
<1>5. SumFunctionOnSet(g, S) = g[x] + SumFunctionOnSet(g, S \ {x}) BY <1>4, SumTake
<1>6. SumFunctionOnSet(f, S \ {x}) \in Int BY <1>1, SumType
<1> QED BY <1>2, <1>3, <1>5, <1>6

(* A new element adds its value to a sum.                                    *)
LEMMA SumAdds ==
  ASSUME NEW S, IsFiniteSet(S), NEW x, x \notin S, NEW f, NEW g,
         f[x] \in Int, \A y \in S : g[y] \in Int /\ f[y] = g[y]
  PROVE  SumFunctionOnSet(f, S \cup {x}) = SumFunctionOnSet(g, S) + f[x]
<1>1. IsFiniteSet(S \cup {x}) BY FS_AddElement
<1>2. SumFunctionOnSet(f, S \cup {x}) = f[x] + SumFunctionOnSet(f, (S \cup {x}) \ {x})
  BY <1>1, SumTake
<1>3. (S \cup {x}) \ {x} = S OBVIOUS
<1>4. SumFunctionOnSet(f, S) = SumFunctionOnSet(g, S) BY SumAgree
<1>5. SumFunctionOnSet(g, S) \in Int BY SumType
<1>6. SumFunctionOnSet(f, S \cup {x}) = f[x] + SumFunctionOnSet(g, S)
  BY Zenon, <1>2, <1>3, <1>4
<1> QED BY <1>5, <1>6

(* Zeros sum to zero.                                                        *)
THEOREM SumZero ==
  ASSUME NEW S, IsFiniteSet(S), NEW f, \A x \in S : f[x] = 0
  PROVE  SumFunctionOnSet(f, S) = 0
<1> DEFINE Bad == {T \in SUBSET S : SumFunctionOnSet(f, T) # 0}
<1> SUFFICES ASSUME Bad # {} PROVE FALSE OBVIOUS
<1>1. PICK T \in Bad : \A U \in SUBSET T : U # T => U \notin Bad
  <2>1. Bad \subseteq SUBSET S OBVIOUS
  <2> HIDE DEF Bad
  <2> QED BY <2>1, SmallestFailure
<1>2. T # {} BY SumEmpty
<1>3. IsFiniteSet(T) BY FS_Subset
<1>4. /\ Pick(T) \in T
      /\ SumFunctionOnSet(f, T) = f[Pick(T)] + SumFunctionOnSet(f, T \ {Pick(T)})
  BY <1>2, <1>3, SumPick
<1>5. SumFunctionOnSet(f, T \ {Pick(T)}) = 0 BY <1>1, <1>4
<1> QED BY <1>4, <1>5

(* Larger values have a larger sum.                                          *)
THEOREM SumMonotone ==
  ASSUME NEW S, IsFiniteSet(S), NEW f, NEW g, \A x \in S : f[x] \in Int /\ g[x] \in Int /\ f[x] <= g[x]
  PROVE  SumFunctionOnSet(f, S) <= SumFunctionOnSet(g, S)
<1> DEFINE h == [x \in S |-> g[x] - f[x]]
<1>1. \A x \in S : h[x] \in Nat /\ g[x] = f[x] + h[x] OBVIOUS
<1> HIDE DEF h
<1>2. \A x \in S : f[x] \in Int /\ h[x] \in Int /\ g[x] = f[x] + h[x] BY <1>1
<1>3. SumFunctionOnSet(g, S) = SumFunctionOnSet(f, S) + SumFunctionOnSet(h, S) BY <1>2, SumOfSums
<1>4. SumFunctionOnSet(h, S) \in Nat BY <1>1, SumNat
<1>5. SumFunctionOnSet(f, S) \in Int BY SumType
<1> QED BY <1>3, <1>4, <1>5

(* A common factor may be taken out of a sum.                                *)
THEOREM SumScaled ==
  ASSUME NEW S, IsFiniteSet(S), NEW k \in Int, NEW f, NEW g,
         \A x \in S : f[x] \in Int /\ g[x] = f[x] * k
  PROVE  SumFunctionOnSet(g, S) = SumFunctionOnSet(f, S) * k
<1> DEFINE Bad == {T \in SUBSET S : SumFunctionOnSet(g, T) # SumFunctionOnSet(f, T) * k}
<1> SUFFICES ASSUME Bad # {} PROVE FALSE OBVIOUS
<1>1. PICK T \in Bad : \A U \in SUBSET T : U # T => U \notin Bad
  <2>1. Bad \subseteq SUBSET S OBVIOUS
  <2> HIDE DEF Bad
  <2> QED BY <2>1, SmallestFailure
<1>2. T # {}
  <2>1. SumFunctionOnSet(f, {}) = 0 /\ SumFunctionOnSet(g, {}) = 0 BY SumEmpty
  <2>2. {} \notin Bad BY <2>1
  <2> QED BY <2>2
<1>3. IsFiniteSet(T) /\ IsFiniteSet(T \ {Pick(T)}) BY FS_Subset
<1>4. /\ Pick(T) \in T
      /\ SumFunctionOnSet(f, T) = f[Pick(T)] + SumFunctionOnSet(f, T \ {Pick(T)})
      /\ SumFunctionOnSet(g, T) = g[Pick(T)] + SumFunctionOnSet(g, T \ {Pick(T)})
  BY <1>2, <1>3, SumPick
<1>5. SumFunctionOnSet(g, T \ {Pick(T)}) = SumFunctionOnSet(f, T \ {Pick(T)}) * k BY <1>1, <1>4
<1>6. SumFunctionOnSet(f, T \ {Pick(T)}) \in Int
  <2>1. \A z \in T \ {Pick(T)} : f[z] \in Int OBVIOUS
  <2> QED BY <1>3, <2>1, SumType
<1>7. g[Pick(T)] = f[Pick(T)] * k /\ f[Pick(T)] \in Int BY <1>4
<1>8. \A m, n \in Int : (m + n) * k = m * k + n * k OBVIOUS
<1>9. SumFunctionOnSet(g, T) = SumFunctionOnSet(f, T) * k BY <1>4, <1>5, <1>6, <1>7, <1>8
<1> QED BY <1>9

(* The share of each owner in a set of owned amounts.                        *)
SharesOf(a, owner, I, P) ==
  [p \in P |-> SumFunctionOnSet(a, {i \in I : owner[i] = p})]

(* The owners' shares together are the total.                                *)
THEOREM SumOfShares ==
  ASSUME NEW I, IsFiniteSet(I), NEW P, IsFiniteSet(P),
         NEW a, \A i \in I : a[i] \in Int,
         NEW owner, \A i \in I : owner[i] \in P
  PROVE  SumFunctionOnSet(SharesOf(a, owner, I, P), P) = SumFunctionOnSet(a, I)
<1> DEFINE Bad == {J \in SUBSET I :
                     SumFunctionOnSet(SharesOf(a, owner, J, P), P) # SumFunctionOnSet(a, J)}
<1> SUFFICES ASSUME Bad # {} PROVE FALSE OBVIOUS
<1>1. PICK J \in Bad : \A K \in SUBSET J : K # J => K \notin Bad
  <2>1. Bad \subseteq SUBSET I OBVIOUS
  <2> HIDE DEF Bad
  <2> QED BY <2>1, SmallestFailure
<1>2. CASE J = {}
  <2>1. \A p \in P : SharesOf(a, owner, {}, P)[p] = 0
    <3>1. \A p : {i \in {} : owner[i] = p} = {} OBVIOUS
    <3> QED BY <3>1, SumEmpty DEF SharesOf
  <2> QED BY <1>2, <2>1, SumZero, SumEmpty
<1>3. CASE J # {}
  <2>1. PICK j : j \in J BY <1>3
  <2> DEFINE K == J \ {j}
             q == owner[j]
             f == SharesOf(a, owner, K, P)
             g == SharesOf(a, owner, J, P)
             Own(L, p) == {i \in L : owner[i] = p}
  <2>2. /\ J \in SUBSET I /\ K \in SUBSET J /\ K # J /\ q \in P
        /\ IsFiniteSet(J) /\ IsFiniteSet(K)
    BY <2>1, FS_Subset
  <2>3. SumFunctionOnSet(f, P) = SumFunctionOnSet(a, K) BY <1>1, <2>2
  <2>4. SumFunctionOnSet(a, J) = a[j] + SumFunctionOnSet(a, K)
    BY <2>1, <2>2, SumTake
  <2>5. \A L \in SUBSET I, p \in P : SumFunctionOnSet(a, Own(L, p)) \in Int
    <3> TAKE L \in SUBSET I, p \in P
    <3>1. IsFiniteSet(Own(L, p)) BY FS_Subset
    <3>2. \A i \in Own(L, p) : a[i] \in Int OBVIOUS
    <3> HIDE DEF Own
    <3> QED BY <3>1, <3>2, SumType
  <2>6. \A p \in P : f[p] \in Int BY <2>2, <2>5 DEF SharesOf
  <2>7. g[q] = f[q] + a[j]
    <3>1. IsFiniteSet(Own(J, q)) BY <2>2, FS_Subset
    <3>2. j \in Own(J, q) /\ Own(J, q) \ {j} = Own(K, q) BY <2>1
    <3>3. \A i \in Own(J, q) : a[i] \in Int BY <2>2
    <3>4. g[q] = SumFunctionOnSet(a, Own(J, q)) /\ f[q] = SumFunctionOnSet(a, Own(K, q))
      BY <2>2 DEF SharesOf
    <3>5. SumFunctionOnSet(a, Own(J, q)) = a[j] + SumFunctionOnSet(a, Own(J, q) \ {j})
      <4> HIDE DEF Own
      <4> QED BY <3>1, <3>2, <3>3, SumTake
    <3>6. a[j] \in Int /\ f[q] \in Int BY <2>1, <2>2, <2>6
    <3> HIDE DEF f, g, Own
    <3>7. SumFunctionOnSet(a, Own(J, q)) = a[j] + SumFunctionOnSet(a, Own(K, q))
      BY <3>2, <3>5, Zenon
    <3>8. g[q] = a[j] + f[q] BY <3>4, <3>7, Zenon
    <3> QED BY <3>6, <3>8
  <2>8. \A p \in P \ {q} : g[p] = f[p]
    <3> TAKE p \in P \ {q}
    <3>1. Own(J, p) = Own(K, p) BY <2>1
    <3> QED BY <3>1 DEF SharesOf
  <2>9. SumFunctionOnSet(g, P) = SumFunctionOnSet(f, P) - f[q] + (f[q] + a[j])
    <3>1. a[j] \in Int /\ f[q] \in Int BY <2>1, <2>2, <2>6
    <3>2. f[q] + a[j] \in Int BY <3>1
    <3> HIDE DEF f, g, q
    <3> QED BY <2>2, <2>6, <2>7, <2>8, <3>2, SumUpdate
  <2>10. SumFunctionOnSet(f, P) \in Int /\ f[q] \in Int /\ a[j] \in Int
    <3> HIDE DEF f
    <3> QED BY <2>1, <2>2, <2>6, SumType
  <2>11. SumFunctionOnSet(g, P) # SumFunctionOnSet(a, J) OBVIOUS
  <2> HIDE DEF f, g, q
  <2> QED BY <2>3, <2>4, <2>9, <2>10, <2>11
<1> QED BY <1>2, <1>3

-----------------------------------------------------------------------------
(* Products and quotients                                                    *)

(* A product grows with its first factor.                                    *)
LEMMA ProductGrows ==
  ASSUME NEW a \in Nat, NEW b \in Nat, NEW c \in Nat, a <= b
  PROVE  a * c \in Nat /\ b * c \in Nat /\ a * c <= b * c
<1>1. PICK d \in Nat : b = a + d
  <2>1. b - a \in Nat /\ b = a + (b - a) OBVIOUS
  <2> QED BY <2>1
<1>2. b * c = a * c + d * c BY <1>1
<1>3. a * c \in Nat /\ b * c \in Nat /\ d * c \in Nat BY <1>1
<1> QED BY <1>2, <1>3

(* Rounding down gives nothing away, and takes less than one unit.           *)
LEMMA QuotientFits ==
  ASSUME NEW n \in Nat, NEW s \in Nat \ {0}
  PROVE  n \div s \in Nat /\ (n \div s) * s <= n /\ n < (n \div s) * s + s
<1>1. PICK q \in Int, r \in 0..(s - 1) : n = s * q + r /\ q = n \div s OBVIOUS
<1>2. q >= 0
  <2>1. CASE q <= -1
    <3>1. s * q <= -s BY <2>1
    <3> QED BY <1>1, <3>1
  <2> QED BY <2>1
<1>3. s * q = q * s /\ q * s \in Nat BY <1>2
<1> QED BY <1>1, <1>2, <1>3

LEMMA QuotientWithin ==
  ASSUME NEW n \in Nat, NEW s \in Nat \ {0}, NEW b \in Nat, n <= b * s
  PROVE  n \div s \in 0..b
<1> DEFINE q == n \div s
<1>1. q \in Nat /\ q * s <= n BY QuotientFits
<1> HIDE DEF q
<1>2. ASSUME q > b PROVE FALSE
  <2>1. (b + 1) * s <= q * s BY <1>1, <1>2, ProductGrows
  <2>2. (b + 1) * s = b * s + s BY <1>1
  <2>3. b * s \in Nat /\ q * s \in Nat BY <1>1
  <2> QED BY <1>1, <2>1, <2>2, <2>3
<1>3. q \in 0..b BY <1>1, <1>2
<1> QED BY <1>3 DEF q

(* No addend exceeds a sum of natural numbers.                               *)
LEMMA SumCovers ==
  ASSUME NEW S, IsFiniteSet(S), NEW f, \A y \in S : f[y] \in Nat, NEW x \in S
  PROVE  f[x] <= SumFunctionOnSet(f, S)
<1>1. SumFunctionOnSet(f, S) = f[x] + SumFunctionOnSet(f, S \ {x}) BY SumTake
<1>2. IsFiniteSet(S \ {x}) BY FS_Subset
<1>3. SumFunctionOnSet(f, S \ {x}) \in Nat BY <1>2, SumNat
<1> QED BY <1>1, <1>3

(* The same value for the members of a subset and nothing for the others.    *)
LEMMA SumOfEqual ==
  ASSUME NEW S, IsFiniteSet(S), NEW V \in SUBSET S, NEW k \in Int, NEW f,
         \A x \in S : f[x] = IF x \in V THEN k ELSE 0
  PROVE  SumFunctionOnSet(f, S) = k * Cardinality(V)
<1> DEFINE one == [x \in S |-> IF x \in V THEN 1 ELSE 0]
           Bad == {T \in SUBSET S : SumFunctionOnSet(one, T) # Cardinality(T \cap V)}
<1>1. ASSUME Bad # {} PROVE FALSE
  <2>1. PICK T \in Bad : \A U \in SUBSET T : U # T => U \notin Bad
    <3>1. Bad \subseteq SUBSET S OBVIOUS
    <3> HIDE DEF Bad
    <3> QED BY <1>1, <3>1, SmallestFailure
  <2>2. T # {}
    <3>1. SumFunctionOnSet(one, {}) = 0 BY SumEmpty
    <3>2. Cardinality({}) = 0 /\ {} \cap V = {} BY FS_EmptySet
    <3> QED BY <2>1, <3>1, <3>2
  <2> DEFINE p == Pick(T)  rest == T \ {p}
  <2>3. IsFiniteSet(T) /\ IsFiniteSet(T \cap V) BY FS_Subset
  <2>4. p \in T /\ SumFunctionOnSet(one, T) = one[p] + SumFunctionOnSet(one, rest)
    BY <2>2, <2>3, SumPick
  <2>5. SumFunctionOnSet(one, rest) = Cardinality(rest \cap V) BY <2>1, <2>4
  <2>6. T \in SUBSET S BY <2>1
  <2>7. SumFunctionOnSet(one, T) # Cardinality(T \cap V) BY <2>1
  <2>8. CASE p \in V
    <3>1. rest \cap V = (T \cap V) \ {p} /\ p \in T \cap V BY <2>4, <2>8
    <3>2. Cardinality((T \cap V) \ {p}) = Cardinality(T \cap V) - 1
      <4> DEFINE C == T \cap V
      <4>1. IsFiniteSet(C) /\ p \in C BY <2>3, <3>1
      <4> HIDE DEF C, p
      <4>2. Cardinality(C \ {p}) = Cardinality(C) - 1 BY <4>1, FS_RemoveElement
      <4> QED BY <4>2 DEF C
    <3>3. Cardinality(T \cap V) \in Nat BY <2>3, FS_CardinalityType
    <3>4. one[p] = 1 BY <2>4, <2>6, <2>8
    <3> QED BY <2>4, <2>5, <2>7, <3>1, <3>2, <3>3, <3>4
  <2>9. CASE p \notin V
    <3>1. rest \cap V = T \cap V BY <2>9
    <3>2. Cardinality(T \cap V) \in Nat BY <2>3, FS_CardinalityType
    <3>3. one[p] = 0 BY <2>4, <2>6, <2>9
    <3> QED BY <2>4, <2>5, <2>7, <3>1, <3>2, <3>3
  <2> QED BY <2>8, <2>9
<1>2. SumFunctionOnSet(one, S) = Cardinality(V)
  <2>1. S \notin Bad BY <1>1
  <2>2. S \cap V = V OBVIOUS
  <2> QED BY <2>1, <2>2
<1>3. \A x \in S : one[x] \in Int /\ f[x] = one[x] * k OBVIOUS
<1>4. IsFiniteSet(V) BY FS_Subset
<1>5. Cardinality(V) \in Nat BY <1>4, FS_CardinalityType
<1> HIDE DEF one
<1>6. SumFunctionOnSet(f, S) = SumFunctionOnSet(one, S) * k BY <1>3, SumScaled
<1> QED BY <1>2, <1>5, <1>6

-----------------------------------------------------------------------------
(* Numbers and sizes                                                         *)

(* Some number of a set that is not empty is the least of them.              *)
LEMMA LeastNumber ==
  ASSUME NEW S \in SUBSET Nat, S # {}
  PROVE  \E m \in S : \A x \in S : m <= x
<1>1. PICK m \in S : \A y \in S : ~ (<<y, m>> \in OpToRel(<, Nat))
  BY NatLessThanWellFounded, WFMin
<1>2. \A y \in S : ~ (y < m) BY <1>1 DEF OpToRel
<1> QED BY <1>2

(* Two sets whose elements correspond one to one are of one size.            *)
LEMMA SameSize ==
  ASSUME NEW S, IsFiniteSet(S), NEW T, NEW f \in [S -> T],
         \A x, y \in S : f[x] = f[y] => x = y,
         \A t \in T : \E x \in S : f[x] = t
  PROVE  IsFiniteSet(T) /\ Cardinality(T) = Cardinality(S)
<1>1. f \in Bijection(S, T) BY Fun_IsBij
<1>2. ExistsBijection(S, T) BY <1>1, Fun_ExistsBij
<1> QED BY <1>2, FS_Bijection

LEMMA DisjointSizes ==
  ASSUME NEW S, IsFiniteSet(S), NEW T, IsFiniteSet(T), S \cap T = {}
  PROVE  /\ IsFiniteSet(S \cup T) /\ Cardinality(S \cup T) = Cardinality(S) + Cardinality(T)
         /\ Cardinality(S) \in Nat /\ Cardinality(T) \in Nat
<1>1. Cardinality(S \cap T) = 0 BY FS_EmptySet
<1>2. Cardinality(S) \in Nat /\ Cardinality(T) \in Nat BY FS_CardinalityType
<1>3. /\ IsFiniteSet(S \cup T)
      /\ Cardinality(S \cup T) = Cardinality(S) + Cardinality(T) - Cardinality(S \cap T)
  BY FS_Union
<1> QED BY <1>1, <1>2, <1>3

(* A finite set of numbers that is not empty has a greatest one.             *)
LEMMA GreatestNumber ==
  ASSUME NEW S, IsFiniteSet(S), S \subseteq Nat, S # {}
  PROVE  \E m \in S : \A x \in S : x <= m
<1> DEFINE Bad == {T \in SUBSET S : T # {} /\ ~ \E m \in T : \A x \in T : x <= m}
<1>1. Bad \subseteq SUBSET S OBVIOUS
<1>2. CASE Bad = {} BY <1>2
<1>3. CASE Bad # {}
  <2> HIDE DEF Bad
  <2>1. PICK T \in Bad : \A U \in SUBSET T : U # T => U \notin Bad
    BY <1>1, <1>3, SmallestFailure
  <2> USE DEF Bad
  <2>2. PICK x \in T : TRUE BY <2>1
  <2>3. T \ {x} \notin Bad /\ T \in SUBSET S BY <2>1, <2>2
  <2>4. T \ {x} = {} \/ \E m \in T \ {x} : \A y \in T \ {x} : y <= m BY <2>3
  <2>5. CASE T \ {x} = {}
    <3>1. x \in Nat /\ \A y \in T : y = x BY <2>2, <2>3, <2>5
    <3>2. \A y \in T : y <= x BY <3>1
    <3> QED BY <2>1, <2>2, <3>2
  <2>6. CASE \E m \in T \ {x} : \A y \in T \ {x} : y <= m
    <3>1. PICK m \in T \ {x} : \A y \in T \ {x} : y <= m BY <2>6
    <3>2. m \in Nat /\ x \in Nat BY <2>2, <2>3, <3>1
    <3>3. CASE x <= m
      <4>1. \A y \in T : y <= m BY <3>1, <3>3
      <4> QED BY <2>1, <3>1, <4>1
    <3>4. CASE ~ (x <= m)
      <4>1. \A y \in T : y \in Nat BY <2>3
      <4>2. \A y \in T : y <= x BY <3>1, <3>2, <3>4, <4>1
      <4> QED BY <2>1, <2>2, <4>2
    <3> QED BY <3>3, <3>4
  <2> QED BY <2>4, <2>5, <2>6
<1> QED BY <1>2, <1>3

-----------------------------------------------------------------------------
(* The wrapped integers: a sum may be reduced before it is added to.         *)
LEMMA RemainderUnique ==
  ASSUME NEW m \in Nat \ {0}, NEW p \in Int, NEW q \in Int,
         NEW r \in 0..(m - 1), NEW s \in 0..(m - 1), m * p + r = m * q + s
  PROVE  r = s
<1>1. m * (p - q) = s - r OBVIOUS
<1>2. CASE p - q >= 1
  <2>1. m * (p - q) >= m BY <1>2
  <2> QED BY <1>1, <2>1
<1>3. CASE p - q <= -1
  <2>1. m * (p - q) <= -m BY <1>3
  <2> QED BY <1>1, <2>1
<1>4. CASE p - q = 0
  <2>1. p = q BY <1>4
  <2> QED BY <2>1
<1> QED BY <1>2, <1>3, <1>4

LEMMA RemainderOfSum ==
  ASSUME NEW m \in Nat \ {0}, NEW a \in Int, NEW b \in Int
  PROVE  ((a % m) + b) % m = (a + b) % m
<1>1. PICK p \in Int, r \in 0..(m - 1) : a = m * p + r /\ r = a % m OBVIOUS
<1>2. PICK q \in Int, s \in 0..(m - 1) : r + b = m * q + s /\ s = (r + b) % m OBVIOUS
<1>3. PICK k \in Int, t \in 0..(m - 1) : a + b = m * k + t /\ t = (a + b) % m OBVIOUS
<1>4. a + b = m * p + (m * q + s)
  <2>1. m * p \in Int /\ m * q \in Int OBVIOUS
  <2>2. a + b = m * p + (r + b) BY <2>1, <1>1
  <2> QED BY <2>1, <2>2, <1>2
<1>5. m * p + m * q = m * (p + q) OBVIOUS
<1>6. m * (p + q) + s = m * k + t
  <2>1. m * p \in Int /\ m * q \in Int OBVIOUS
  <2> QED BY <2>1, <1>3, <1>4, <1>5
<1>7. s = t BY <1>6, RemainderUnique
<1> QED BY <1>1, <1>2, <1>3, <1>7

(* How far the integers of a release build reach, and where a sum lies.      *)
Half == I128Max + 1
LEMMA I128Halves ==
  ASSUME I128Max \in Nat, NEW x \in Int
  PROVE  /\ Half \in Nat \ {0} /\ 2 * Half \in Nat \ {0}
         /\ I128(x) = ((x + Half) % (2 * Half)) - Half
<1>1. x + I128Max + 1 = x + Half BY DEF Half
<1> QED BY <1>1 DEF I128, Half

LEMMA I128OfSum ==
  ASSUME I128Max \in Nat, NEW a \in Int, NEW b \in Int
  PROVE  I128(a) \in Int /\ I128(I128(a) + b) = I128(a + b)
<1> DEFINE m == 2 * Half
           u == (a + Half) % m
<1>1. Half \in Int /\ m \in Nat \ {0} BY I128Halves
<1>2. u \in Int
  <2>1. a + Half \in Int BY <1>1
  <2> QED BY <1>1, <2>1
<1>3. I128(a) = u - Half BY I128Halves
<1> HIDE DEF u
<1>4. I128(a) + b \in Int BY <1>1, <1>2, <1>3
<1>5. I128(I128(a) + b) = ((I128(a) + b + Half) % m) - Half BY <1>4, I128Halves
<1>6. I128(a + b) = ((a + b + Half) % m) - Half
  <2>1. a + b \in Int OBVIOUS
  <2> QED BY <2>1, I128Halves
<1> HIDE DEF m
<1>7. (u + b) % m = ((a + Half) + b) % m
  <2>1. a + Half \in Int BY <1>1
  <2> QED BY <1>1, <2>1, RemainderOfSum DEF u
<1>8. I128(a) + b + Half = u + b /\ (a + Half) + b = a + b + Half BY <1>1, <1>2, <1>3
<1> QED BY <1>1, <1>2, <1>3, <1>5, <1>6, <1>7, <1>8

LEMMA I128OfZero ==
  ASSUME I128Max \in Nat
  PROVE  I128(0) = 0
<1>1. Half \in Nat \ {0} /\ I128(0) = ((0 + Half) % (2 * Half)) - Half BY I128Halves
<1>2. Half % (2 * Half) = Half
  <2> DEFINE m == 2 * Half
  <2>1. m \in Nat \ {0} /\ Half \in 0..(m - 1) BY <1>1
  <2> HIDE DEF m
  <2>2. PICK q \in Int, s \in 0..(m - 1) : Half = m * q + s /\ s = Half % m
    BY <1>1, <2>1
  <2>3. m * q + s = m * 0 + Half BY <1>1, <2>1, <2>2
  <2>4. s = Half BY <2>1, <2>2, <2>3, RemainderUnique
  <2> QED BY <2>2, <2>4 DEF m
<1> QED BY <1>1, <1>2
=============================================================================

------------------------------ MODULE DaoProofs ------------------------------
(*****************************************************************************)
(* Proofs about the governance contract wired to the slashing contract and   *)
(* the pool, for any users, targets, roles, actions and amounts: what the    *)
(* DAO enacted was carried out exactly once, the records of slashes          *)
(* suffice for its cooldowns, the pool's books agree whatever the DAO does   *)
(* to it, and each part behaves as its own module says.                      *)
(*****************************************************************************)
EXTENDS InsuranceDao, SumTheorems, SequenceTheorems

-----------------------------------------------------------------------------
(* What the DAO enacted                                                      *)

Nothing == [kind |-> "None"]

PoolTyped == stake \in [User -> Nat] /\ totalCapital \in Int /\ availableCapital \in Int

BesidesTyped == besides \in [forfeited : Int, paid : Int, violations : [SL!Case -> Int]]

DaoTyped ==
  /\ PoolTyped /\ violations \in [SL!Case -> Nat]
  /\ time \in 0..LastTime /\ proposals \in Seq(GV!ProposalRecord)
  /\ pendingAction \in [DOMAIN pendingAction -> Action]
  /\ enacted \in [DOMAIN enacted -> Action \cup {Nothing}]

(* The inductive invariant.                                                  *)
DaoInv == DaoTyped /\ BesidesTyped /\ EnactedIsCarriedOut

Executed   == {id \in GV!ProposalId : proposals[id].executed}
SlashesOf(c) == {id \in EnactedOf("Slashing") : <<enacted[id].target, enacted[id].role>> = c}

(* The sum that the pool's module takes is the sum of the community modules. *)
LEMMA SameSum ==
  ASSUME NEW f, NEW S
  PROVE  RP!SumFunctionOnSet(f, S) = SumFunctionOnSet(f, S)
BY DEF RP!SumFunctionOnSet, RP!FoldFunctionOnSet, RP!MapThenFoldSet,
       SumFunctionOnSet, FoldFunctionOnSet, MapThenFoldSet

LEMMA ActionKinds ==
  ASSUME NEW action \in Action \cup {Nothing}
  PROVE  /\ action.kind \in {"Slashing", "FundAllocation", "PauseContract", "ClaimApproval",
                             "PolicyChange", "None"}
         /\ action.kind = "Slashing" =>
              action.target \in User /\ <<action.target, action.role>> \in SL!Case /\ action.amount \in Int
         /\ action.kind = "FundAllocation" => action.amount \in Nat
BY ActionAssumption DEF Nothing, SL!Case

(* There are finitely many enacted actions, and their amounts add up.        *)
LEMMA EnactedAddsUp ==
  ASSUME DaoInv
  PROVE  /\ IsFiniteSet(DOMAIN enacted)
         /\ \A kind \in {"Slashing", "FundAllocation"} :
              /\ IsFiniteSet(EnactedOf(kind)) /\ SumOf(EnactedOf(kind)) \in Int
              /\ \A id \in EnactedOf(kind) : enacted[id].amount \in Int
         /\ \A c : IsFiniteSet(SlashesOf(c)) /\ Cardinality(SlashesOf(c)) \in Nat
<1>1. GV!ProposalId = 1..Len(proposals) /\ Len(proposals) \in Nat
  BY DEF DaoInv, DaoTyped, GV!ProposalId
<1>2. IsFiniteSet(GV!ProposalId) BY <1>1, FS_Interval
<1>3. DOMAIN enacted \subseteq GV!ProposalId BY DEF DaoInv, EnactedIsCarriedOut
<1>4. IsFiniteSet(DOMAIN enacted) BY <1>2, <1>3, FS_Subset
<1>5. ASSUME NEW kind \in {"Slashing", "FundAllocation"}
      PROVE  /\ IsFiniteSet(EnactedOf(kind)) /\ SumOf(EnactedOf(kind)) \in Int
             /\ \A id \in EnactedOf(kind) : enacted[id].amount \in Int
  <2>1. EnactedOf(kind) \subseteq DOMAIN enacted BY DEF EnactedOf
  <2>2. IsFiniteSet(EnactedOf(kind)) BY <1>4, <2>1, FS_Subset
  <2>3. ASSUME NEW id \in EnactedOf(kind) PROVE enacted[id].amount \in Int
    <3>1. enacted[id] \in Action \cup {Nothing} /\ enacted[id].kind = kind
      BY DEF EnactedOf, DaoInv, DaoTyped
    <3> PICK action : action = enacted[id] OBVIOUS
    <3>2. action \in Action \cup {Nothing} /\ action.kind = kind BY <3>1
    <3>3. /\ action.kind = "Slashing" => action.amount \in Int
          /\ action.kind = "FundAllocation" => action.amount \in Nat
      BY <3>2, ActionKinds
    <3>4. action.amount \in Int BY <3>2, <3>3
    <3> QED BY <3>4
  <2> DEFINE ids == EnactedOf(kind)
             f == [id \in ids |-> enacted[id].amount]
  <2>4. \A id \in ids : f[id] \in Int BY <2>3
  <2>5. SumOf(ids) = SumFunctionOnSet(f, ids) BY DEF SumOf
  <2> HIDE DEF f, ids
  <2>6. IsFiniteSet(ids) BY <2>2 DEF ids
  <2>7. SumFunctionOnSet(f, ids) \in Int BY <2>4, <2>6, SumType
  <2> QED BY <2>2, <2>3, <2>5, <2>7 DEF ids
<1>6. ASSUME NEW c PROVE IsFiniteSet(SlashesOf(c)) /\ Cardinality(SlashesOf(c)) \in Nat
  <2>1. SlashesOf(c) \subseteq DOMAIN enacted BY DEF SlashesOf, EnactedOf
  <2>2. IsFiniteSet(SlashesOf(c)) BY <1>4, <2>1, FS_Subset
  <2> QED BY <2>2, FS_CardinalityType
<1> QED BY <1>4, <1>5, <1>6

(* The stakes that were forfeited are an integer.                            *)
LEMMA StakesAddUp ==
  ASSUME NEW f \in [User -> Nat]
  PROVE  SumFunctionOnSet(f, User) \in Nat
<1>1. IsFiniteSet(User) BY PartsAssumption
<1> QED BY <1>1, SumNat

LEMMA PoolFigures ==
  ASSUME PoolTyped
  PROVE  RP!Forfeited \in Int /\ RP!PaidOut \in Int
BY StakesAddUp, SameSum DEF PoolTyped, RP!PaidOut, RP!Forfeited, RP!Staked

(* A step that enacts nothing adds to the two accounts alike.                *)
LEMMA NothingEnacted ==
  ASSUME DaoInv, DaoTyped', BesidesTyped', UNCHANGED enacted, Executed' = Executed,
         RP!Forfeited' = RP!Forfeited + (besides'.forfeited - besides.forfeited),
         RP!PaidOut' = RP!PaidOut + (besides'.paid - besides.paid),
         \A c \in SL!Case :
           violations'[c] = violations[c] + (besides'.violations[c] - besides.violations[c])
  PROVE  DaoInv'
<1>1. \A kind : EnactedOf(kind)' = EnactedOf(kind) BY DEF EnactedOf
<1>2. \A kind : SumOf(EnactedOf(kind))' = SumOf(EnactedOf(kind)) BY <1>1 DEF SumOf
<1>3. \A c : SlashesOf(c)' = SlashesOf(c) BY <1>1 DEF SlashesOf
<1>4. /\ besides.forfeited \in Int /\ besides.paid \in Int
      /\ besides'.forfeited \in Int /\ besides'.paid \in Int
      /\ \A c \in SL!Case : besides.violations[c] \in Int /\ besides'.violations[c] \in Int
  BY DEF DaoInv, BesidesTyped
<1>5. /\ DOMAIN enacted = Executed
      /\ RP!Forfeited = besides.forfeited + SumOf(EnactedOf("Slashing"))
      /\ RP!PaidOut = besides.paid + SumOf(EnactedOf("FundAllocation"))
      /\ \A c \in SL!Case : violations[c] = besides.violations[c] + Cardinality(SlashesOf(c))
  BY DEF DaoInv, EnactedIsCarriedOut, Executed, SlashesOf
<1>6. /\ SumOf(EnactedOf("Slashing")) \in Int /\ SumOf(EnactedOf("FundAllocation")) \in Int
      /\ \A c : Cardinality(SlashesOf(c)) \in Nat
  BY EnactedAddsUp
<1>7. DOMAIN enacted' = Executed' BY <1>5
<1>8. RP!Forfeited' = besides'.forfeited + SumOf(EnactedOf("Slashing"))' BY <1>2, <1>4, <1>5, <1>6
<1>9. RP!PaidOut' = besides'.paid + SumOf(EnactedOf("FundAllocation"))' BY <1>2, <1>4, <1>5, <1>6
<1>10. \A c \in SL!Case : violations'[c] = besides'.violations[c] + Cardinality(SlashesOf(c))'
  <2>1. TAKE c \in SL!Case
  <2>2. Cardinality(SlashesOf(c))' = Cardinality(SlashesOf(c)) BY <1>3
  <2> QED BY <1>4, <1>5, <1>6, <2>2
<1>11. EnactedIsCarriedOut' BY <1>7, <1>8, <1>9, <1>10 DEF EnactedIsCarriedOut, Executed, SlashesOf
<1> QED BY <1>11 DEF DaoInv

(* Any step of others: what it changed is what is set down as besides.       *)
LEMMA OthersKeep ==
  ASSUME DaoInv, DaoTyped', UNCHANGED enacted, Executed' = Executed, Besides
  PROVE  DaoInv'
<1>1. /\ RP!Forfeited \in Int /\ RP!PaidOut \in Int
      /\ RP!Forfeited' \in Int /\ RP!PaidOut' \in Int
  <2>1. /\ stake \in [User -> Nat] /\ totalCapital \in Int /\ availableCapital \in Int
        /\ stake' \in [User -> Nat] /\ totalCapital' \in Int /\ availableCapital' \in Int
    BY DEF DaoInv, DaoTyped, PoolTyped
  <2>2. RP!Staked \in Nat /\ RP!Staked' \in Nat BY <2>1, StakesAddUp, SameSum DEF RP!Staked
  <2> QED BY <2>1, <2>2 DEF RP!PaidOut, RP!Forfeited
<1>2. \A c \in SL!Case : violations[c] \in Int /\ violations'[c] \in Int
  BY DEF DaoInv, DaoTyped
<1>3. /\ besides.forfeited \in Int /\ besides.paid \in Int
      /\ \A c \in SL!Case : besides.violations[c] \in Int
  BY DEF DaoInv, BesidesTyped
<1>4. /\ besides'.forfeited = besides.forfeited + RP!Forfeited' - RP!Forfeited
      /\ besides'.paid = besides.paid + RP!PaidOut' - RP!PaidOut
      /\ \A c \in SL!Case : besides'.violations[c] = besides.violations[c] + violations'[c] - violations[c]
  BY DEF Besides
<1>5. BesidesTyped' BY <1>1, <1>2, <1>3 DEF Besides, BesidesTyped
<1> QED BY <1>1, <1>2, <1>3, <1>4, <1>5, NothingEnacted

-----------------------------------------------------------------------------
(* The calls of the pool                                                     *)

LEMMA OneEntry ==
  ASSUME NEW p \in User, NEW amount \in Nat, NEW batch, batch = <<<<p, amount>>>>
  PROVE  /\ RP!Total(batch) = amount
         /\ RP!Share(batch) = [q \in User |-> IF q = p THEN amount ELSE 0]
<1> DEFINE f == RP!Amounts(batch)
<1>1. DOMAIN batch = {1} /\ batch[1][1] = p /\ batch[1][2] = amount OBVIOUS
<1>2. f[1] = amount BY <1>1 DEF RP!Amounts
<1>3. \A q \in User : RP!Entries(batch, q) = IF q = p THEN {1} ELSE {}
  BY <1>1 DEF RP!Entries
<1> HIDE DEF f
<1>4. SumFunctionOnSet(f, {}) = 0 BY SumEmpty
<1>5. IsFiniteSet({}) /\ {} \cup {1} = {1} BY FS_EmptySet
<1>6. SumFunctionOnSet(f, {} \cup {1}) = SumFunctionOnSet(f, {}) + f[1]
  BY <1>2, <1>5, SumAdds
<1>7. SumFunctionOnSet(f, {1}) = amount BY <1>2, <1>4, <1>5, <1>6
<1>8. RP!Total(batch) = amount BY <1>1, <1>7, SameSum DEF RP!Total, f
<1>9. RP!Share(batch) = [q \in User |-> IF q = p THEN amount ELSE 0]
  BY <1>3, <1>4, <1>7, SameSum DEF RP!Share, f
<1> QED BY <1>8, <1>9

(* One stake changes.                                                        *)
LEMMA OneStake ==
  ASSUME PoolTyped, NEW p \in User, NEW v \in Nat, stake'[p] = v,
         \A q \in User \ {p} : stake'[q] = stake[q]
  PROVE  /\ RP!Staked' = RP!Staked - stake[p] + v
         /\ RP!Staked \in Nat /\ stake[p] \in Nat
<1>1. IsFiniteSet(User) BY PartsAssumption
<1>2. \A q \in User : stake[q] \in Int BY DEF PoolTyped
<1>3. v \in Int OBVIOUS
<1>4. SumFunctionOnSet(stake', User) = SumFunctionOnSet(stake, User) - stake[p] + v
  BY <1>1, <1>2, <1>3, SumUpdate
<1> QED BY <1>4, StakesAddUp, SameSum DEF PoolTyped, RP!Staked

(* A deposit and a withdrawal move capital and stake alike.                  *)
LEMMA PoolMoves ==
  ASSUME PoolTyped, NEW p \in User, NEW amount \in Nat,
         RP!DepositLiquidity(p, amount) \/ RP!WithdrawLiquidity(p, amount)
  PROVE  PoolTyped' /\ RP!PaidOut' = RP!PaidOut /\ RP!Forfeited' = RP!Forfeited
<1> PICK batch : batch = <<<<p, amount>>>> OBVIOUS
<1>1. /\ RP!Total(batch) = amount
      /\ RP!Share(batch) = [q \in User |-> IF q = p THEN amount ELSE 0]
  BY OneEntry
<1>2. RP!DepositLiquidityBatch(batch) \/ RP!WithdrawLiquidityBatch(batch)
  BY DEF RP!DepositLiquidity, RP!WithdrawLiquidity
<1> PICK share : share = RP!Share(batch) OBVIOUS
<1>3. /\ \A q \in User : share[q] = IF q = p THEN amount ELSE 0
      /\ share[p] = amount
  BY <1>1
<1>4. CASE RP!DepositLiquidityBatch(batch)
  <2>1. /\ stake' = [q \in User |-> stake[q] + share[q]]
        /\ totalCapital' = totalCapital + amount /\ availableCapital' = availableCapital + amount
    BY <1>1, <1>4 DEF RP!DepositLiquidityBatch
  <2>2. stake' \in [User -> Nat] BY <1>3, <2>1 DEF PoolTyped
  <2>3. stake'[p] = stake[p] + amount /\ stake[p] + amount \in Nat BY <1>3, <2>1 DEF PoolTyped
  <2>4. \A q \in User \ {p} : stake'[q] = stake[q] BY <1>3, <2>1 DEF PoolTyped
  <2>5. /\ RP!Staked' = RP!Staked - stake[p] + (stake[p] + amount)
        /\ RP!Staked \in Nat /\ stake[p] \in Nat
    BY <2>3, <2>4, OneStake
  <2> QED BY <2>1, <2>2, <2>5 DEF PoolTyped, RP!Forfeited, RP!PaidOut
<1>5. CASE RP!WithdrawLiquidityBatch(batch)
  <2>1. /\ stake' = [q \in User |-> stake[q] - share[q]]
        /\ \A q \in User : stake[q] >= share[q]
        /\ totalCapital' = totalCapital - amount /\ availableCapital' = availableCapital - amount
    BY <1>1, <1>5 DEF RP!WithdrawLiquidityBatch, RP!WithinLimits
  <2>2. stake' \in [User -> Nat] BY <1>3, <2>1 DEF PoolTyped
  <2>3. stake'[p] = stake[p] - amount /\ stake[p] - amount \in Nat BY <1>3, <2>1 DEF PoolTyped
  <2>4. \A q \in User \ {p} : stake'[q] = stake[q] BY <1>3, <2>1 DEF PoolTyped
  <2>5. /\ RP!Staked' = RP!Staked - stake[p] + (stake[p] - amount)
        /\ RP!Staked \in Nat /\ stake[p] \in Nat
    BY <2>3, <2>4, OneStake
  <2> QED BY <2>1, <2>2, <2>5 DEF PoolTyped, RP!Forfeited, RP!PaidOut
<1> QED BY <1>2, <1>4, <1>5

LEMMA PoolPays ==
  ASSUME PoolTyped, NEW recipient, NEW amount \in Nat, RP!PayoutClaim(recipient, amount)
  PROVE  PoolTyped' /\ RP!PaidOut' = RP!PaidOut + amount /\ RP!Forfeited' = RP!Forfeited
<1>1. availableCapital' = availableCapital - amount /\ UNCHANGED <<stake, totalCapital>>
  BY DEF RP!PayoutClaim
<1>2. PoolTyped' /\ RP!Forfeited' = RP!Forfeited BY <1>1 DEF PoolTyped, RP!Forfeited, RP!Staked
<1>3. RP!Forfeited \in Int BY PoolFigures
<1> QED BY <1>1, <1>2, <1>3 DEF PoolTyped, RP!PaidOut

LEMMA PoolAbsorbs ==
  ASSUME PoolTyped, NEW target \in User, NEW amount \in Int, RP!AbsorbSlash(target, amount)
  PROVE  /\ PoolTyped' /\ RP!PaidOut' = RP!PaidOut /\ amount > 0
         /\ RP!Forfeited' = RP!Forfeited + amount
<1>1. /\ amount > 0 /\ stake[target] >= amount
      /\ stake' = [stake EXCEPT ![target] = @ - amount]
      /\ totalCapital' = totalCapital /\ availableCapital' = availableCapital + amount
  BY DEF RP!AbsorbSlash
<1>2. stake[target] - amount \in Nat BY <1>1 DEF PoolTyped
<1>3. /\ stake'[target] = stake[target] - amount
      /\ \A q \in User \ {target} : stake'[q] = stake[q] /\ stake' \in [User -> Nat]
  BY <1>1, <1>2 DEF PoolTyped
<1>4. stake' \in [User -> Nat] BY <1>1, <1>2 DEF PoolTyped
<1>5. /\ RP!Staked' = RP!Staked - stake[target] + (stake[target] - amount)
      /\ RP!Staked \in Nat /\ stake[target] \in Nat
  BY <1>2, <1>3, OneStake
<1> QED BY <1>1, <1>4, <1>5 DEF PoolTyped, RP!Forfeited, RP!PaidOut

-----------------------------------------------------------------------------
(* What an execution does                                                    *)

LEMMA SlashCounts ==
  ASSUME violations \in [SL!Case -> Nat], NEW target, NEW role, NEW amount,
         <<target, role>> \in SL!Case, SL!SlashFunds(target, role, amount)
  PROVE  /\ violations' \in [SL!Case -> Nat]
         /\ \A c \in SL!Case : violations'[c] = violations[c] + (IF <<target, role>> = c THEN 1 ELSE 0)
<1> PICK d : d = <<target, role>> OBVIOUS
<1>1. violations' = [violations EXCEPT ![d] = @ + 1] BY DEF SL!SlashFunds
<1>2. d \in SL!Case /\ violations[d] + 1 \in Nat OBVIOUS
<1>3. violations' \in [SL!Case -> Nat] BY <1>1, <1>2
<1>4. \A c \in SL!Case : violations'[c] = violations[c] + (IF d = c THEN 1 ELSE 0)
  BY <1>1, <1>2
<1> QED BY <1>3, <1>4

LEMMA CarriedOut ==
  ASSUME PoolTyped, violations \in [SL!Case -> Nat], NEW action \in Action \cup {Nothing},
         CarryOut(action)
  PROVE  /\ PoolTyped' /\ violations' \in [SL!Case -> Nat]
         /\ action.kind = "Slashing" =>
              /\ RP!Forfeited' = RP!Forfeited + action.amount /\ RP!PaidOut' = RP!PaidOut
              /\ \A c \in SL!Case : violations'[c] =
                   violations[c] + (IF <<action.target, action.role>> = c THEN 1 ELSE 0)
         /\ action.kind # "Slashing" => RP!Forfeited' = RP!Forfeited /\ violations' = violations
         /\ action.kind = "FundAllocation" => RP!PaidOut' = RP!PaidOut + action.amount
         /\ action.kind \notin {"Slashing", "FundAllocation"} => RP!PaidOut' = RP!PaidOut
<1>1. action.kind \in {"Slashing", "FundAllocation", "PauseContract", "ClaimApproval",
                       "PolicyChange", "None"}
  BY ActionKinds
<1>2. CASE action.kind = "Slashing"
  <2>1. /\ SL!SlashFunds(action.target, action.role, action.amount)
        /\ RP!AbsorbSlash(action.target, action.amount)
    BY <1>2 DEF CarryOut
  <2>2. action.target \in User /\ <<action.target, action.role>> \in SL!Case /\ action.amount \in Int
    BY <1>2, ActionKinds
  <2>3. /\ PoolTyped' /\ RP!PaidOut' = RP!PaidOut
        /\ RP!Forfeited' = RP!Forfeited + action.amount
    BY <2>1, <2>2, PoolAbsorbs
  <2>4. /\ violations' \in [SL!Case -> Nat]
        /\ \A c \in SL!Case : violations'[c] =
             violations[c] + (IF <<action.target, action.role>> = c THEN 1 ELSE 0)
    BY <2>1, <2>2, SlashCounts
  <2> QED BY <1>2, <2>3, <2>4
<1>3. CASE action.kind = "FundAllocation"
  <2>1. RP!PayoutClaim(action.recipient, action.amount) /\ UNCHANGED <<time, slashingState>>
    BY <1>3 DEF CarryOut
  <2>2. action.amount \in Nat BY <1>3, ActionKinds
  <2>3. /\ PoolTyped' /\ RP!PaidOut' = RP!PaidOut + action.amount
        /\ RP!Forfeited' = RP!Forfeited
    BY <2>1, <2>2, PoolPays
  <2>4. violations' = violations BY <2>1 DEF slashingState, slashRecords
  <2> QED BY <1>3, <2>3, <2>4
<1>4. CASE action.kind \in {"PauseContract", "ClaimApproval", "PolicyChange", "None"}
  <2>1. UNCHANGED <<slashRecords, poolState>>
    BY <1>4 DEF CarryOut, slashingState
  <2>2. UNCHANGED <<violations, stake, totalCapital, availableCapital>>
    BY <2>1 DEF slashRecords, poolState
  <2>3. PoolTyped' /\ RP!PaidOut' = RP!PaidOut /\ RP!Forfeited' = RP!Forfeited
    BY <2>2 DEF PoolTyped, RP!PaidOut, RP!Forfeited, RP!Staked
  <2> QED BY <1>4, <2>2, <2>3
<1> QED BY <1>1, <1>2, <1>3, <1>4

LEMMA EnactsOne ==
  ASSUME DaoInv, NEW id, id \notin DOMAIN enacted, NEW action \in Action \cup {Nothing},
         enacted' = [p \in DOMAIN enacted \cup {id} |-> IF p = id THEN action ELSE enacted[p]]
  PROVE  /\ enacted' \in [DOMAIN enacted' -> Action \cup {Nothing}]
         /\ DOMAIN enacted' = DOMAIN enacted \cup {id}
         /\ \A kind \in {"Slashing", "FundAllocation"} :
              SumOf(EnactedOf(kind))' =
                SumOf(EnactedOf(kind)) + (IF action.kind = kind THEN action.amount ELSE 0)
         /\ \A c : SlashesOf(c)' = IF action.kind = "Slashing" /\ <<action.target, action.role>> = c
                                   THEN SlashesOf(c) \cup {id} ELSE SlashesOf(c)
<1>1. /\ DOMAIN enacted' = DOMAIN enacted \cup {id} /\ enacted'[id] = action
      /\ \A p \in DOMAIN enacted : enacted'[p] = enacted[p]
      /\ enacted' = [p \in DOMAIN enacted' |-> enacted'[p]]
  OBVIOUS
<1>2. enacted' \in [DOMAIN enacted' -> Action \cup {Nothing}] BY <1>1 DEF DaoInv, DaoTyped
<1>3. ASSUME NEW kind
      PROVE  EnactedOf(kind)' = IF action.kind = kind THEN EnactedOf(kind) \cup {id} ELSE EnactedOf(kind)
  <2>1. \A p \in DOMAIN enacted \cup {id} :
          enacted'[p].kind = kind <=> \/ p \in DOMAIN enacted /\ enacted[p].kind = kind
                                      \/ p = id /\ action.kind = kind
    BY <1>1
  <2> QED BY <1>1, <2>1 DEF EnactedOf
<1>4. ASSUME NEW kind \in {"Slashing", "FundAllocation"}
      PROVE  SumOf(EnactedOf(kind))' =
               SumOf(EnactedOf(kind)) + (IF action.kind = kind THEN action.amount ELSE 0)
  <2> PICK ids : ids = EnactedOf(kind) OBVIOUS
  <2>1. /\ IsFiniteSet(ids) /\ SumOf(ids) \in Int /\ id \notin ids
        /\ \A p \in ids : p \in DOMAIN enacted /\ enacted[p].amount \in Int
    BY EnactedAddsUp DEF EnactedOf
  <2> DEFINE f == [p \in ids |-> enacted[p].amount]
             g == [p \in ids \cup {id} |-> enacted'[p].amount]
             h == [p \in ids |-> enacted'[p].amount]
  <2>2. \A p \in ids : f[p] \in Int /\ g[p] = f[p] /\ h[p] = f[p] BY <1>1, <2>1
  <2>3. g[id] = action.amount BY <1>1
  <2>4. SumOf(ids) = SumFunctionOnSet(f, ids) BY DEF SumOf
  <2>5. CASE action.kind = kind
    <3>1. SumOf(EnactedOf(kind))' = SumFunctionOnSet(g, ids \cup {id}) BY <1>3, <2>5 DEF SumOf
    <3>2. action.amount \in Int
      <4>1. /\ action.kind = "Slashing" => action.amount \in Int
            /\ action.kind = "FundAllocation" => action.amount \in Nat
        BY ActionKinds
      <4> QED BY <2>5, <4>1
    <3> HIDE DEF f, g
    <3>3. g[id] \in Int /\ \A p \in ids : f[p] \in Int /\ g[p] = f[p] BY <2>2, <2>3, <3>2
    <3>4. SumFunctionOnSet(g, ids \cup {id}) = SumFunctionOnSet(f, ids) + g[id]
      BY <2>1, <3>3, SumAdds
    <3> QED BY <2>3, <2>4, <2>5, <3>1, <3>4
  <2>6. CASE action.kind # kind
    <3>1. SumOf(EnactedOf(kind))' = SumFunctionOnSet(h, ids) BY <1>3, <2>6 DEF SumOf
    <3> HIDE DEF f, h
    <3>2. SumFunctionOnSet(h, ids) = SumFunctionOnSet(f, ids) BY <2>1, <2>2, SumAgree
    <3> QED BY <2>1, <2>4, <2>6, <3>1, <3>2
  <2> QED BY <2>5, <2>6
<1>5. ASSUME NEW c
      PROVE  SlashesOf(c)' = IF action.kind = "Slashing" /\ <<action.target, action.role>> = c
                             THEN SlashesOf(c) \cup {id} ELSE SlashesOf(c)
  <2>1. EnactedOf("Slashing")' = IF action.kind = "Slashing" THEN EnactedOf("Slashing") \cup {id}
                                 ELSE EnactedOf("Slashing")
    BY <1>3
  <2>2. EnactedOf("Slashing") \subseteq DOMAIN enacted BY DEF EnactedOf
  <2>3. \A p \in EnactedOf("Slashing") : enacted'[p] = enacted[p] BY <1>1, <2>2
  <2> QED BY <1>1, <2>1, <2>3 DEF SlashesOf
<1> QED BY <1>1, <1>2, <1>4, <1>5

-----------------------------------------------------------------------------
(* The steps                                                                 *)

LEMMA ProposalList ==
  ASSUME DaoTyped
  PROVE  /\ proposals \in [GV!ProposalId -> GV!ProposalRecord]
         /\ GV!ProposalId = 1..Len(proposals) /\ Len(proposals) \in Nat
BY DEF DaoTyped, GV!ProposalId

LEMMA SameList ==
  ASSUME DaoTyped, proposals' \in [GV!ProposalId -> GV!ProposalRecord]
  PROVE  proposals' \in Seq(GV!ProposalRecord) /\ GV!ProposalId' = GV!ProposalId
<1>1. proposals' \in [1..Len(proposals) -> GV!ProposalRecord] /\ Len(proposals) \in Nat
  BY ProposalList
<1> QED BY <1>1, ProposalList DEF GV!ProposalId

(* An execution marks its proposal.                                          *)
LEMMA ExecutionMarks ==
  ASSUME DaoTyped, NEW id, GV!ExecuteProposal(id)
  PROVE  /\ id \in GV!ProposalId /\ id \notin Executed /\ Executed' = Executed \cup {id}
         /\ proposals' \in Seq(GV!ProposalRecord) /\ GV!ProposalId' = GV!ProposalId
         /\ pendingAction' \in [DOMAIN pendingAction' -> Action]
         /\ Asked(id) \in Action \cup {Nothing}
<1>1. /\ id \in GV!ProposalId /\ ~ proposals[id].executed
      /\ proposals' = [proposals EXCEPT ![id].executed = TRUE]
      /\ pendingAction' = Restrict(pendingAction, DOMAIN pendingAction \ {id})
  BY DEF GV!ExecuteProposal, GV!Executable, GV!Restrict, Restrict
<1>2. proposals \in [GV!ProposalId -> GV!ProposalRecord] BY ProposalList
<1>3. [proposals[id] EXCEPT !.executed = TRUE] \in GV!ProposalRecord
  <2>1. proposals[id] \in GV!ProposalRecord BY <1>1, <1>2
  <2> QED BY <2>1 DEF GV!ProposalRecord
<1>4. /\ proposals' \in [GV!ProposalId -> GV!ProposalRecord]
      /\ proposals'[id] = [proposals[id] EXCEPT !.executed = TRUE]
      /\ \A d \in GV!ProposalId \ {id} : proposals'[d] = proposals[d]
  BY <1>1, <1>2, <1>3
<1>5. proposals'[id].executed
  <2>1. proposals[id] \in GV!ProposalRecord BY <1>1, <1>2
  <2> QED BY <1>4, <2>1 DEF GV!ProposalRecord
<1>6. proposals' \in Seq(GV!ProposalRecord) /\ GV!ProposalId' = GV!ProposalId BY <1>4, SameList
<1>7. Executed' = Executed \cup {id} /\ id \notin Executed BY <1>1, <1>4, <1>5, <1>6 DEF Executed
<1>8. pendingAction' \in [DOMAIN pendingAction' -> Action] BY <1>1 DEF Restrict, DaoTyped
<1>9. Asked(id) \in Action \cup {Nothing} BY DEF Asked, Nothing, DaoTyped
<1> QED BY <1>1, <1>6, <1>7, <1>8, <1>9

LEMMA StepEnacts ==
  ASSUME DaoInv, NEW id, Execute(id)
  PROVE  DaoInv'
<1> PICK action : action = Asked(id) OBVIOUS
<1>1. /\ GV!ExecuteProposal(id) /\ CarryOut(action)
      /\ enacted' = [p \in DOMAIN enacted \cup {id} |-> IF p = id THEN action ELSE enacted[p]]
  BY DEF Execute
<1>2. /\ DaoTyped /\ PoolTyped /\ violations \in [SL!Case -> Nat] /\ BesidesTyped
      /\ DOMAIN enacted = Executed
      /\ RP!Forfeited = besides.forfeited + SumOf(EnactedOf("Slashing"))
      /\ RP!PaidOut = besides.paid + SumOf(EnactedOf("FundAllocation"))
      /\ \A c \in SL!Case : violations[c] = besides.violations[c] + Cardinality(SlashesOf(c))
  BY DEF DaoInv, DaoTyped, EnactedIsCarriedOut, Executed, SlashesOf
<1>3. /\ id \in GV!ProposalId /\ id \notin Executed /\ Executed' = Executed \cup {id}
      /\ proposals' \in Seq(GV!ProposalRecord) /\ GV!ProposalId' = GV!ProposalId
      /\ pendingAction' \in [DOMAIN pendingAction' -> Action]
      /\ action \in Action \cup {Nothing}
  BY <1>1, <1>2, ExecutionMarks
<1>4. /\ PoolTyped' /\ violations' \in [SL!Case -> Nat]
      /\ action.kind = "Slashing" =>
           /\ RP!Forfeited' = RP!Forfeited + action.amount /\ RP!PaidOut' = RP!PaidOut
           /\ \A c \in SL!Case : violations'[c] =
                violations[c] + (IF <<action.target, action.role>> = c THEN 1 ELSE 0)
      /\ action.kind # "Slashing" => RP!Forfeited' = RP!Forfeited /\ violations' = violations
      /\ action.kind = "FundAllocation" => RP!PaidOut' = RP!PaidOut + action.amount
      /\ action.kind \notin {"Slashing", "FundAllocation"} => RP!PaidOut' = RP!PaidOut
  BY <1>1, <1>2, <1>3, CarriedOut
<1>5. /\ enacted' \in [DOMAIN enacted' -> Action \cup {Nothing}]
      /\ DOMAIN enacted' = DOMAIN enacted \cup {id}
      /\ \A kind \in {"Slashing", "FundAllocation"} :
           SumOf(EnactedOf(kind))' =
             SumOf(EnactedOf(kind)) + (IF action.kind = kind THEN action.amount ELSE 0)
      /\ \A c : SlashesOf(c)' = IF action.kind = "Slashing" /\ <<action.target, action.role>> = c
                                THEN SlashesOf(c) \cup {id} ELSE SlashesOf(c)
  BY <1>1, <1>2, <1>3, EnactsOne
<1>6. DaoTyped'
  <2>1. time' = time BY <1>1 DEF GV!ExecuteProposal
  <2> QED BY <1>2, <1>3, <1>4, <1>5, <2>1 DEF DaoTyped
<1>7. DOMAIN enacted' = Executed' BY <1>2, <1>3, <1>5
<1>8. /\ SumOf(EnactedOf("Slashing")) \in Int /\ SumOf(EnactedOf("FundAllocation")) \in Int
      /\ \A c : IsFiniteSet(SlashesOf(c)) /\ Cardinality(SlashesOf(c)) \in Nat
  BY EnactedAddsUp
<1>9. /\ besides' = besides /\ besides.forfeited \in Int /\ besides.paid \in Int
      /\ \A c \in SL!Case : besides.violations[c] \in Int
  BY <1>2 DEF Execute, BesidesTyped
<1>10. /\ action.kind = "Slashing" => action.amount \in Int
       /\ action.kind = "FundAllocation" => action.amount \in Nat
  BY <1>3, ActionKinds
<1>11. RP!Forfeited' = besides'.forfeited + SumOf(EnactedOf("Slashing"))'
  <2>1. SumOf(EnactedOf("Slashing"))' =
          SumOf(EnactedOf("Slashing")) + (IF action.kind = "Slashing" THEN action.amount ELSE 0)
    BY <1>5
  <2> QED BY <1>2, <1>4, <1>8, <1>9, <1>10, <2>1
<1>12. RP!PaidOut' = besides'.paid + SumOf(EnactedOf("FundAllocation"))'
  <2>1. SumOf(EnactedOf("FundAllocation"))' =
          SumOf(EnactedOf("FundAllocation")) + (IF action.kind = "FundAllocation" THEN action.amount ELSE 0)
    BY <1>5
  <2>2. action.kind # "FundAllocation" => RP!PaidOut' = RP!PaidOut BY <1>4
  <2> QED BY <1>2, <1>4, <1>8, <1>9, <1>10, <2>1, <2>2
<1>13. ASSUME NEW c \in SL!Case
      PROVE  violations'[c] = besides'.violations[c] + Cardinality(SlashesOf(c))'
  <2> PICK old : old = SlashesOf(c) OBVIOUS
  <2>1. id \notin old /\ IsFiniteSet(old) /\ Cardinality(old) \in Nat
    BY <1>2, <1>3, <1>8 DEF SlashesOf, EnactedOf
  <2>2. /\ violations[c] \in Nat /\ violations[c] = besides.violations[c] + Cardinality(old)
        /\ besides'.violations[c] = besides.violations[c] /\ besides.violations[c] \in Int
    BY <1>2, <1>9
  <2>3. CASE action.kind = "Slashing" /\ <<action.target, action.role>> = c
    <3>1. SlashesOf(c)' = old \cup {id} BY <1>5, <2>3
    <3>2. Cardinality(old \cup {id}) = Cardinality(old) + 1 BY <2>1, FS_AddElement
    <3>3. violations'[c] = violations[c] + 1 BY <1>4, <2>3
    <3>4. Cardinality(SlashesOf(c))' = Cardinality(old) + 1 BY <3>1, <3>2
    <3> QED BY <2>1, <2>2, <3>3, <3>4
  <2>4. CASE ~ (action.kind = "Slashing" /\ <<action.target, action.role>> = c)
    <3>1. SlashesOf(c)' = old BY <1>5, <2>4
    <3>2. violations'[c] = violations[c] BY <1>4, <2>2, <2>4
    <3>3. Cardinality(SlashesOf(c))' = Cardinality(old) BY <3>1
    <3> QED BY <2>2, <3>2, <3>3
  <2> QED BY <2>3, <2>4
<1>14. EnactedIsCarriedOut' BY <1>7, <1>11, <1>12, <1>13 DEF EnactedIsCarriedOut, Executed, SlashesOf
<1>15. BesidesTyped' BY <1>2, <1>9 DEF BesidesTyped
<1> QED BY <1>6, <1>14, <1>15 DEF DaoInv

(* Ballots change no execution.                                              *)
LEMMA BallotsKeep ==
  ASSUME DaoTyped, GV!OwnStep
  PROVE  /\ proposals' \in Seq(GV!ProposalRecord) /\ Executed' = Executed /\ time' = time
         /\ pendingAction' \in [DOMAIN pendingAction' -> Action]
<1>1. /\ proposals \in [GV!ProposalId -> GV!ProposalRecord]
      /\ GV!ProposalId = 1..Len(proposals) /\ Len(proposals) \in Nat /\ time \in Nat
      /\ proposals \in Seq(GV!ProposalRecord)
  BY ProposalList, PartsAssumption DEF DaoTyped
<1>2. ASSUME NEW action \in Action \cup {NoAction}, NEW threshold \in Threshold,
             GV!CreateProposal(action, threshold)
      PROVE  /\ proposals' \in Seq(GV!ProposalRecord) /\ Executed' = Executed /\ time' = time
             /\ pendingAction' \in [DOMAIN pendingAction' -> Action]
  <2> PICK fresh : fresh = [expiresAt |-> time + VotingPeriod, threshold |-> threshold, yes |-> 0,
                            no |-> 0, finalized |-> FALSE, executed |-> FALSE]
    OBVIOUS
  <2>1. proposals' = Append(proposals, fresh) /\ time' = time BY <1>2 DEF GV!CreateProposal
  <2>2. fresh \in GV!ProposalRecord /\ ~ fresh.executed
    BY <1>1, PartsAssumption DEF GV!ProposalRecord, GV!GovernanceAssumption
  <2>3. /\ proposals' \in Seq(GV!ProposalRecord) /\ Len(proposals') = Len(proposals) + 1
        /\ \A i \in 1..Len(proposals) : proposals'[i] = proposals[i]
        /\ proposals'[Len(proposals) + 1] = fresh
    BY <1>1, <2>1, <2>2, AppendProperties
  <2>4. GV!ProposalId' = 1..(Len(proposals) + 1) BY <2>3 DEF GV!ProposalId
  <2>5. Executed' = Executed BY <1>1, <2>2, <2>3, <2>4 DEF Executed
  <2> PICK added : added = IF action = NoAction THEN {} ELSE {Len(proposals')} OBVIOUS
  <2>6. pendingAction' = [id \in DOMAIN pendingAction \cup added |->
                            IF id \in DOMAIN pendingAction THEN pendingAction[id] ELSE action]
    BY <1>2 DEF GV!CreateProposal
  <2>7. \A id \in DOMAIN pendingAction \cup added :
          (IF id \in DOMAIN pendingAction THEN pendingAction[id] ELSE action) \in Action
    BY DEF DaoTyped
  <2>8. pendingAction' \in [DOMAIN pendingAction' -> Action] BY <2>6, <2>7
  <2> QED BY <2>1, <2>3, <2>5, <2>8
<1>3. ASSUME NEW voter \in Voter, NEW id \in GV!ProposalId, NEW weight \in Weight,
             NEW isYes \in BOOLEAN, GV!Vote(voter, id, weight, isYes)
      PROVE  /\ proposals' \in Seq(GV!ProposalRecord) /\ Executed' = Executed /\ time' = time
             /\ pendingAction' \in [DOMAIN pendingAction' -> Action]
  <2> PICK p : p = GV!Tallied(proposals[id], weight, isYes) OBVIOUS
  <2>1. /\ proposals' = [proposals EXCEPT ![id] = p] /\ UNCHANGED <<time, pendingAction>>
    BY <1>3 DEF GV!Vote
  <2>2. proposals[id] \in GV!ProposalRecord /\ weight \in Int /\ I128Max \in Nat
    BY <1>1, PartsAssumption DEF GV!GovernanceAssumption
  <2>3. proposals[id].yes \in Int /\ proposals[id].no \in Int BY <2>2 DEF GV!ProposalRecord
  <2>4. \A x \in Int : GV!I128(x) \in Int BY <2>2 DEF GV!I128
  <2>5. GV!I128(proposals[id].yes + weight) \in Int /\ GV!I128(proposals[id].no + weight) \in Int
    BY <2>2, <2>3, <2>4
  <2>6. p \in GV!ProposalRecord /\ p.executed = proposals[id].executed
    BY <2>2, <2>5 DEF GV!Tallied, GV!ProposalRecord
  <2>7. /\ proposals' \in [GV!ProposalId -> GV!ProposalRecord]
        /\ \A d \in GV!ProposalId : proposals'[d].executed = proposals[d].executed
    BY <1>1, <2>1, <2>6
  <2>8. proposals' \in Seq(GV!ProposalRecord) /\ GV!ProposalId' = GV!ProposalId BY <2>7, SameList
  <2>9. Executed' = Executed BY <2>7, <2>8 DEF Executed
  <2> QED BY <2>1, <2>8, <2>9 DEF DaoTyped
<1>4. ASSUME NEW id \in GV!ProposalId, GV!FinalizeProposal(id)
      PROVE  /\ proposals' \in Seq(GV!ProposalRecord) /\ Executed' = Executed /\ time' = time
             /\ pendingAction' \in [DOMAIN pendingAction' -> Action]
  <2>1. /\ proposals' = [proposals EXCEPT ![id].finalized = TRUE]
        /\ UNCHANGED <<time, pendingAction>>
    BY <1>4 DEF GV!FinalizeProposal
  <2>2. proposals[id] \in GV!ProposalRecord BY <1>1
  <2>3. /\ [proposals[id] EXCEPT !.finalized = TRUE] \in GV!ProposalRecord
        /\ [proposals[id] EXCEPT !.finalized = TRUE].executed = proposals[id].executed
    BY <2>2 DEF GV!ProposalRecord
  <2>4. /\ proposals' \in [GV!ProposalId -> GV!ProposalRecord]
        /\ \A d \in GV!ProposalId : proposals'[d].executed = proposals[d].executed
    BY <1>1, <2>1, <2>3
  <2>5. proposals' \in Seq(GV!ProposalRecord) /\ GV!ProposalId' = GV!ProposalId BY <2>4, SameList
  <2>6. Executed' = Executed BY <2>4, <2>5 DEF Executed
  <2> QED BY <2>1, <2>5, <2>6 DEF DaoTyped
<1> QED BY <1>2, <1>3, <1>4 DEF GV!OwnStep

(* The slashing contract's own calls.                                        *)
LEMMA SlashingKeeps ==
  ASSUME DaoTyped, SlashingStep
  PROVE  /\ time' = time /\ violations' \in [SL!Case -> Nat]
         /\ UNCHANGED <<poolState, ballots, enacted>>
<1>1. violations \in [SL!Case -> Nat] BY DEF DaoTyped
<1>2. UNCHANGED <<poolState, ballots, enacted>> BY DEF SlashingStep
<1>3. CASE ResumeStep
  <2>1. time' = time
    BY <1>3 DEF ResumeStep, CB!RequestResume, CB!Resume, CB!Sync, CB!Clear, CB!SyncExpiry, CB!SyncActivation
  <2>2. violations' = violations BY <1>3 DEF ResumeStep, slashRecords
  <2> QED BY <1>1, <1>2, <2>1, <2>2
<1>4. CASE SL!AdminStep
  <2>1. time' = time /\ violations' = violations
    BY <1>4 DEF SL!AdminStep, SL!SetRole, SL!AddSlashableRole, SL!RemoveSlashableRole,
                SL!ConfigurePenaltyParameters, SL!records
  <2> QED BY <1>1, <1>2, <2>1
<1>5. ASSUME NEW c \in SL!Case, NEW amount \in SlashAmount, SL!SlashFunds(c[1], c[2], amount)
      PROVE  time' = time /\ violations' \in [SL!Case -> Nat]
  <2>1. time' = time BY <1>5 DEF SL!SlashFunds, SL!CB!Pass, SL!CB!Clear
  <2>2. <<c[1], c[2]>> \in SL!Case BY DEF SL!Case
  <2>3. violations' \in [SL!Case -> Nat] BY <1>1, <1>5, <2>2, SlashCounts
  <2> QED BY <2>1, <2>3
<1> QED BY <1>2, <1>3, <1>4, <1>5 DEF SlashingStep

LEMMA DaoStep == DaoInv /\ [Next]_vars => DaoInv'
<1> SUFFICES ASSUME DaoInv, [Next]_vars PROVE DaoInv' OBVIOUS
<1>1. /\ DaoTyped /\ PoolTyped /\ time \in 0..LastTime /\ LastTime \in Nat
      /\ violations \in [SL!Case -> Nat]
  BY PartsAssumption DEF DaoInv, DaoTyped
<1>2. UNCHANGED <<proposals, pendingAction, enacted>> => Executed' = Executed
  BY DEF Executed, GV!ProposalId
<1>3. CASE Advance /\ Besides
  <2>1. /\ time' = time + 1 /\ time < LastTime
        /\ UNCHANGED <<stake, totalCapital, availableCapital, violations, proposals, pendingAction, enacted>>
    BY <1>3 DEF Advance, GV!BallotTick, GV!governanceState, poolState, slashingState, slashRecords
  <2>2. DaoTyped' BY <1>1, <2>1 DEF DaoTyped, PoolTyped
  <2> QED BY <1>2, <1>3, <2>1, <2>2, OthersKeep
<1>4. CASE PoolStep /\ Besides
  <2>1. PICK user \in User, amount \in Amount :
          \/ RP!DepositLiquidity(user, amount) \/ RP!WithdrawLiquidity(user, amount)
          \/ RP!PayoutClaim(user, amount)      \/ RP!AbsorbSlash(user, amount)
    BY <1>4 DEF PoolStep
  <2>2. UNCHANGED <<time, violations, proposals, pendingAction, enacted>>
    BY <1>4 DEF PoolStep, slashingState, slashRecords, ballots
  <2>3. amount \in Nat /\ amount \in Int BY PartsAssumption
  <2>4. PoolTyped' BY <1>1, <2>1, <2>3, PoolMoves, PoolPays, PoolAbsorbs
  <2>5. DaoTyped' BY <1>1, <2>2, <2>4 DEF DaoTyped
  <2> QED BY <1>2, <1>4, <2>2, <2>5, OthersKeep
<1>5. CASE SlashingStep /\ Besides
  <2>1. /\ time' = time /\ violations' \in [SL!Case -> Nat]
        /\ UNCHANGED <<stake, totalCapital, availableCapital, proposals, pendingAction, enacted>>
    BY <1>1, <1>5, SlashingKeeps DEF poolState, ballots
  <2>2. DaoTyped' BY <1>1, <2>1 DEF DaoTyped, PoolTyped
  <2> QED BY <1>2, <1>5, <2>1, <2>2, OthersKeep
<1>6. CASE BallotStep /\ Besides
  <2>1. GV!OwnStep /\ UNCHANGED <<stake, totalCapital, availableCapital, violations, enacted>>
    BY <1>6 DEF BallotStep, poolState, slashingState, slashRecords
  <2>2. /\ proposals' \in Seq(GV!ProposalRecord) /\ Executed' = Executed /\ time' = time
        /\ pendingAction' \in [DOMAIN pendingAction' -> Action]
    BY <1>1, <2>1, BallotsKeep
  <2>3. DaoTyped' BY <1>1, <2>1, <2>2 DEF DaoTyped, PoolTyped
  <2> QED BY <1>6, <2>1, <2>2, <2>3, OthersKeep
<1>7. ASSUME NEW id, Execute(id) PROVE DaoInv' BY <1>7, StepEnacts
<1>8. CASE UNCHANGED vars
  <2>1. /\ UNCHANGED <<time, stake, totalCapital, availableCapital, violations>>
        /\ UNCHANGED <<proposals, pendingAction, enacted, besides>>
    BY <1>8 DEF vars, poolState, slashingState, slashRecords, ballots
  <2>2. DaoTyped' /\ BesidesTyped' BY <1>1, <2>1 DEF DaoInv, DaoTyped, PoolTyped, BesidesTyped
  <2>3. RP!Forfeited' = RP!Forfeited /\ RP!PaidOut' = RP!PaidOut
    BY <2>1 DEF RP!PaidOut, RP!Forfeited, RP!Staked
  <2>4. RP!Forfeited \in Int /\ RP!PaidOut \in Int BY <1>1, PoolFigures
  <2>5. /\ besides.forfeited \in Int /\ besides.paid \in Int
        /\ \A c \in SL!Case : besides.violations[c] \in Int /\ violations[c] \in Int
    BY <1>1 DEF DaoInv, BesidesTyped
  <2> QED BY <1>2, <2>1, <2>2, <2>3, <2>4, <2>5, NothingEnacted
<1> QED BY <1>3, <1>4, <1>5, <1>6, <1>7, <1>8 DEF Next

LEMMA DaoStarts == Init => DaoInv
<1> SUFFICES ASSUME Init PROVE DaoInv OBVIOUS
<1>1. /\ time = 0 /\ proposals = <<>> /\ pendingAction = <<>> /\ enacted = <<>>
      /\ stake = [p \in User |-> 0] /\ totalCapital = 0 /\ availableCapital = 0
      /\ violations = [c \in SL!Case |-> 0]
  BY DEF Init, GV!GovernanceInit, RP!InitCapital, SL!InitRecords
<1>2. /\ besides.forfeited = 0 /\ besides.paid = 0
      /\ \A c \in SL!Case : besides.violations[c] = 0
      /\ BesidesTyped
  BY DEF Init, BesidesTyped
<1>3. DaoTyped BY <1>1, PartsAssumption DEF DaoTyped, PoolTyped
<1>4. \A kind : EnactedOf(kind) = {} BY <1>1 DEF EnactedOf
<1>5. SumOf({}) = 0 BY SumEmpty DEF SumOf
<1>6. \A c : Cardinality(SlashesOf(c)) = 0 BY <1>4, FS_EmptySet DEF SlashesOf
<1>7. RP!Forfeited = 0 /\ RP!PaidOut = 0
  <2>1. IsFiniteSet(User) /\ \A p \in User : stake[p] = 0 BY <1>1, PartsAssumption
  <2>2. RP!Staked = 0 BY <2>1, SumZero, SameSum DEF RP!Staked
  <2> QED BY <1>1, <2>2 DEF RP!PaidOut, RP!Forfeited
<1>8. DOMAIN enacted = Executed BY <1>1 DEF Executed, GV!ProposalId
<1>9. \A c \in SL!Case : violations[c] = besides.violations[c] + Cardinality(SlashesOf(c))
  BY <1>1, <1>2, <1>6
<1>10. SumOf(EnactedOf("Slashing")) = 0 /\ SumOf(EnactedOf("FundAllocation")) = 0
  <2>1. EnactedOf("Slashing") = {} /\ EnactedOf("FundAllocation") = {} BY <1>4
  <2> QED BY <1>5, <2>1
<1>11. EnactedIsCarriedOut
  BY <1>2, <1>7, <1>8, <1>9, <1>10 DEF EnactedIsCarriedOut, Executed, SlashesOf
<1> QED BY <1>2, <1>3, <1>11 DEF DaoInv

(* What the DAO enacted was carried out exactly once, for any actions and    *)
(* any number of proposals: the forfeited stakes, the claims paid and the    *)
(* violations counted are the sum of the executed actions and of what the    *)
(* other steps did, with nothing missing and nothing twice.                  *)
THEOREM DaoCarriesOut == Spec => []EnactedIsCarriedOut
<1>1. DaoInv => EnactedIsCarriedOut BY DEF DaoInv
<1> QED BY <1>1, DaoStarts, DaoStep, PTL DEF Spec

-----------------------------------------------------------------------------
(* The records of slashes                                                    *)

SlashRecord == [amount : Int, at : Nat]
Full(n)     == IF n < MaxHistory THEN n ELSE MaxHistory

(* No record is older than the one before it, or from the future.            *)
InOrder(records, now) ==
  /\ \A i, j \in 1..Len(records) : i <= j => records[i].at <= records[j].at
  /\ \A i \in 1..Len(records) : records[i].at <= now

(* The inductive invariant.                                                  *)
SlashInv ==
  /\ time \in Nat /\ cooldown \in [DOMAIN cooldown -> Nat]
  /\ violations \in [SL!Case -> Nat]
  /\ history \in [SL!Case -> Seq(SlashRecord)]
  /\ \A c \in SL!Case : Len(history[c]) = Full(violations[c]) /\ InOrder(history[c], time)

(* A slash that is recorded now comes after every record that is kept.       *)
LEMMA OneMoreRecord ==
  ASSUME NEW past \in Seq(SlashRecord), NEW now \in Nat, NEW amount \in Int, NEW n \in Nat,
         Len(past) = Full(n), InOrder(past, now),
         NEW new, new = SL!Recorded(past, [amount |-> amount, at |-> now])
  PROVE  new \in Seq(SlashRecord) /\ Len(new) = Full(n + 1) /\ InOrder(new, now)
<1> PICK record : record = [amount |-> amount, at |-> now] OBVIOUS
<1> PICK kept : kept = IF Len(past) >= MaxHistory THEN Tail(past) ELSE past OBVIOUS
<1>1. MaxHistory \in Nat \ {0} BY SlashingAssumption
<1>2. new = Append(kept, record) /\ record \in SlashRecord /\ record.at = now
  BY DEF SL!Recorded, SlashRecord
<1>3. /\ kept \in Seq(SlashRecord) /\ Len(kept) + 1 = Full(n + 1)
      /\ InOrder(kept, now)
  <2>1. CASE Len(past) >= MaxHistory
    <3>1. Len(past) = MaxHistory /\ n >= MaxHistory BY <1>1, <2>1 DEF Full
    <3>2. past # <<>> BY <1>1, <3>1
    <3>3. /\ kept \in Seq(SlashRecord) /\ Len(kept) = Len(past) - 1
          /\ \A i \in 1..Len(kept) : kept[i] = past[i + 1]
      BY <2>1, <3>2, HeadTailProperties
    <3>4. \A i \in 1..Len(kept) : i + 1 \in 1..Len(past) BY <1>1, <3>1, <3>3
    <3>5. \A i, j \in 1..Len(kept) : i <= j => kept[i].at <= kept[j].at
      <4>1. TAKE i, j \in 1..Len(kept)
      <4>2. i <= j => i + 1 <= j + 1 BY <1>1, <3>1, <3>3
      <4> QED BY <3>3, <3>4, <4>2 DEF InOrder
    <3>6. \A i \in 1..Len(kept) : kept[i].at <= now BY <3>3, <3>4 DEF InOrder
    <3> QED BY <1>1, <3>1, <3>3, <3>5, <3>6 DEF InOrder, Full
  <2>2. CASE ~ (Len(past) >= MaxHistory)
    <3>1. Len(past) \in Nat /\ kept = past BY <2>2, LenProperties
    <3> QED BY <1>1, <2>2, <3>1 DEF Full
  <2> QED BY <2>1, <2>2
<1>4. /\ new \in Seq(SlashRecord) /\ Len(new) = Len(kept) + 1 /\ new[Len(kept) + 1] = record
      /\ \A i \in 1..Len(kept) : new[i] = kept[i]
  <2> PICK elt : elt = record OBVIOUS
  <2> HIDE DEF SlashRecord, Full, InOrder
  <2>1. kept \in Seq(SlashRecord) /\ elt \in SlashRecord BY <1>2, <1>3
  <2>2. /\ Append(kept, elt) \in Seq(SlashRecord) /\ Len(Append(kept, elt)) = Len(kept) + 1
        /\ Append(kept, elt)[Len(kept) + 1] = elt
        /\ \A i \in 1..Len(kept) : Append(kept, elt)[i] = kept[i]
    BY <2>1, AppendProperties
  <2> QED BY <1>2, <2>2
<1>5. Len(kept) \in Nat BY <1>3, LenProperties
<1>6. ASSUME NEW i \in 1..Len(new) PROVE new[i].at <= now
  <2>1. CASE i \in 1..Len(kept) BY <1>3, <1>4, <2>1 DEF InOrder
  <2>2. CASE i = Len(kept) + 1 BY <1>2, <1>4, <2>2
  <2> QED BY <1>4, <1>5, <2>1, <2>2
<1>7. ASSUME NEW i \in 1..Len(new), NEW j \in 1..Len(new), i <= j
      PROVE  new[i].at <= new[j].at
  <2>1. CASE j \in 1..Len(kept)
    <3>1. i \in 1..Len(kept) BY <1>4, <1>5, <1>7, <2>1
    <3> QED BY <1>3, <1>4, <1>7, <2>1, <3>1 DEF InOrder
  <2>2. CASE j = Len(kept) + 1 BY <1>2, <1>4, <1>6, <2>2
  <2> QED BY <1>4, <1>5, <2>1, <2>2
<1>8. InOrder(new, now) BY <1>6, <1>7 DEF InOrder
<1> QED BY <1>3, <1>4, <1>8

(* A step leaves the records alone or is a slash of one case.                *)
Slashed(c, amount) == SL!SlashFunds(c[1], c[2], amount)

LEMMA StepsOfRecords ==
  ASSUME SlashInv, DaoInv, [Next]_vars
  PROVE  \/ /\ time' \in Nat /\ time' >= time /\ UNCHANGED <<violations, history>>
            /\ cooldown' \in [DOMAIN cooldown' -> Nat]
         \/ \E c \in SL!Case, amount \in Int : Slashed(c, amount)
<1> DEFINE Kept == /\ time' \in Nat /\ time' >= time /\ UNCHANGED <<violations, history>>
                   /\ cooldown' \in [DOMAIN cooldown' -> Nat]
<1>1. time \in Nat /\ cooldown \in [DOMAIN cooldown -> Nat] /\ DaoTyped
  BY DEF SlashInv, DaoInv
<1>2. UNCHANGED slashRecords => UNCHANGED <<violations, history, cooldown>> BY DEF slashRecords
<1>3. CASE Advance
  <2>1. time' = time + 1 /\ UNCHANGED slashRecords
    BY <1>3 DEF Advance, GV!BallotTick, slashingState
  <2> QED BY <1>1, <1>2, <2>1
<1>4. CASE PoolStep
  <2>1. time' = time /\ UNCHANGED slashRecords BY <1>4 DEF PoolStep, slashingState
  <2> QED BY <1>1, <1>2, <2>1
<1>5. CASE BallotStep
  <2>1. time' = time BY <1>1, <1>5, BallotsKeep DEF BallotStep
  <2>2. UNCHANGED slashRecords BY <1>5 DEF BallotStep, slashingState
  <2> QED BY <1>1, <1>2, <2>1, <2>2
<1>6. CASE UNCHANGED vars
  <2>1. time' = time /\ UNCHANGED slashRecords BY <1>6 DEF vars, slashingState
  <2> QED BY <1>1, <1>2, <2>1
<1>7. CASE SlashingStep
  <2>1. time' = time BY <1>1, <1>7, SlashingKeeps
  <2>2. CASE ResumeStep
    <3>1. UNCHANGED slashRecords BY <2>2 DEF ResumeStep
    <3> QED BY <1>1, <1>2, <2>1, <3>1
  <2>3. CASE SL!AdminStep
    <3>1. UNCHANGED <<violations, history>>
      BY <2>3 DEF SL!AdminStep, SL!SetRole, SL!AddSlashableRole, SL!RemoveSlashableRole,
                  SL!ConfigurePenaltyParameters, SL!records
    <3>2. \/ cooldown' = cooldown
          \/ \E role \in SlashRole, seconds \in Cooldown :
               cooldown' = [r \in DOMAIN cooldown \cup {role} |->
                              IF r = role THEN seconds ELSE cooldown[r]]
      BY <2>3 DEF SL!AdminStep, SL!SetRole, SL!AddSlashableRole, SL!RemoveSlashableRole,
                  SL!ConfigurePenaltyParameters
    <3>3. \A seconds \in Cooldown : seconds \in Nat
      BY SlashingAssumption, PartsAssumption
    <3>4. cooldown' \in [DOMAIN cooldown' -> Nat] BY <1>1, <3>2, <3>3
    <3> QED BY <1>1, <2>1, <3>1, <3>4
  <2>4. ASSUME NEW c \in SL!Case, NEW amount \in SlashAmount, SL!SlashFunds(c[1], c[2], amount)
        PROVE  \E d \in SL!Case, a \in Int : Slashed(d, a)
    <3>1. amount \in Int BY SlashingAssumption
    <3> QED BY <2>4, <3>1 DEF Slashed
  <2> QED BY <1>7, <2>2, <2>3, <2>4 DEF SlashingStep
<1>8. ASSUME NEW id, Execute(id) PROVE Kept \/ \E c \in SL!Case, amount \in Int : Slashed(c, amount)
  <2> PICK action : action = Asked(id) OBVIOUS
  <2>1. GV!ExecuteProposal(id) /\ CarryOut(action) /\ time' = time
    BY <1>8 DEF Execute, GV!ExecuteProposal
  <2>2. action \in Action \cup {Nothing} BY <1>1, <2>1, ExecutionMarks
  <2>3. CASE action.kind = "Slashing"
    <3>1. SL!SlashFunds(action.target, action.role, action.amount) BY <2>1, <2>3 DEF CarryOut
    <3> PICK c : c = <<action.target, action.role>> OBVIOUS
    <3>2. c \in SL!Case /\ action.amount \in Int BY <2>2, <2>3, ActionKinds
    <3>3. c[1] = action.target /\ c[2] = action.role OBVIOUS
    <3> QED BY <3>1, <3>2, <3>3 DEF Slashed
  <2>4. CASE action.kind # "Slashing"
    <3>1. action.kind \in {"FundAllocation", "PauseContract", "ClaimApproval", "PolicyChange", "None"}
      BY <2>2, <2>4, ActionKinds
    <3>2. UNCHANGED slashRecords BY <2>1, <3>1 DEF CarryOut, slashingState
    <3> QED BY <1>1, <1>2, <2>1, <3>2
  <2> QED BY <2>3, <2>4
<1> QED BY <1>3, <1>4, <1>5, <1>6, <1>7, <1>8 DEF Next

(* What a slash does to the records, and when it may come.                   *)
LEMMA SlashRecorded ==
  ASSUME SlashInv, NEW c \in SL!Case, NEW amount \in Int, Slashed(c, amount)
  PROVE  /\ time' = time /\ UNCHANGED cooldown /\ SL!CanBeSlashed(c[1], c[2])
         /\ violations' \in [SL!Case -> Nat] /\ violations'[c] = violations[c] + 1
         /\ history' \in [SL!Case -> Seq(SlashRecord)]
         /\ Len(history'[c]) = Full(violations[c] + 1) /\ InOrder(history'[c], time)
         /\ \A d \in SL!Case \ {c} : violations'[d] = violations[d] /\ history'[d] = history[d]
<1>1. <<c[1], c[2]>> = c BY DEF SL!Case
<1>2. /\ time' = time /\ UNCHANGED cooldown /\ SL!CanBeSlashed(c[1], c[2])
      /\ violations' = [violations EXCEPT ![c] = @ + 1]
      /\ history' = [history EXCEPT ![c] = SL!Recorded(@, [amount |-> amount, at |-> time])]
  BY <1>1 DEF Slashed, SL!SlashFunds, SL!CB!Pass, SL!CB!Clear, SL!setup
<1>3. /\ violations \in [SL!Case -> Nat] /\ history \in [SL!Case -> Seq(SlashRecord)]
      /\ time \in Nat /\ Len(history[c]) = Full(violations[c]) /\ InOrder(history[c], time)
  BY DEF SlashInv
<1> PICK new : new = SL!Recorded(history[c], [amount |-> amount, at |-> time]) OBVIOUS
<1>4. history' = [history EXCEPT ![c] = new] BY <1>2
<1>5. history[c] \in Seq(SlashRecord) /\ violations[c] \in Nat BY <1>3
<1>6. new \in Seq(SlashRecord) /\ Len(new) = Full(violations[c] + 1) /\ InOrder(new, time)
  BY <1>3, <1>5, OneMoreRecord
<1>7. /\ history' \in [SL!Case -> Seq(SlashRecord)] /\ history'[c] = new
      /\ \A d \in SL!Case \ {c} : history'[d] = history[d]
  BY <1>3, <1>4, <1>6
<1>8. /\ violations' \in [SL!Case -> Nat] /\ violations'[c] = violations[c] + 1
      /\ \A d \in SL!Case \ {c} : violations'[d] = violations[d]
  BY <1>2, <1>3
<1> QED BY <1>2, <1>6, <1>7, <1>8

(* Later, the records are still in order.                                    *)
LEMMA LaterInOrder ==
  ASSUME NEW records \in Seq(SlashRecord), NEW now \in Nat, NEW after \in Nat, after >= now,
         InOrder(records, now)
  PROVE  InOrder(records, after)
<1>1. \A i \in 1..Len(records) : records[i] \in SlashRecord /\ records[i].at <= now
  BY DEF InOrder
<1>2. \A i \in 1..Len(records) : records[i].at \in Nat BY <1>1 DEF SlashRecord
<1>3. \A i \in 1..Len(records) : records[i].at <= after BY <1>1, <1>2
<1> QED BY <1>3 DEF InOrder

LEMMA RecordsStep == SlashInv /\ DaoInv /\ [Next]_vars => SlashInv'
<1> SUFFICES ASSUME SlashInv, DaoInv, [Next]_vars PROVE SlashInv' OBVIOUS
<1>1. /\ time \in Nat /\ cooldown \in [DOMAIN cooldown -> Nat]
      /\ violations \in [SL!Case -> Nat] /\ history \in [SL!Case -> Seq(SlashRecord)]
      /\ \A c \in SL!Case : Len(history[c]) = Full(violations[c]) /\ InOrder(history[c], time)
  BY DEF SlashInv
<1>2. CASE /\ time' \in Nat /\ time' >= time /\ UNCHANGED <<violations, history>>
           /\ cooldown' \in [DOMAIN cooldown' -> Nat]
  <2>1. \A c \in SL!Case : InOrder(history[c], time')
    <3>1. TAKE c \in SL!Case
    <3>2. history[c] \in Seq(SlashRecord) BY <1>1
    <3> QED BY <1>1, <1>2, <3>2, LaterInOrder
  <2>2. \A c \in SL!Case : Len(history[c])' = Full(violations[c])' /\ InOrder(history[c], time)'
    BY <1>1, <1>2, <2>1 DEF Full, InOrder
  <2> QED BY <1>1, <1>2, <2>2 DEF SlashInv
<1>3. ASSUME NEW c \in SL!Case, NEW amount \in Int, Slashed(c, amount) PROVE SlashInv'
  <2>1. /\ time' = time /\ UNCHANGED cooldown
        /\ violations' \in [SL!Case -> Nat] /\ violations'[c] = violations[c] + 1
        /\ history' \in [SL!Case -> Seq(SlashRecord)]
        /\ Len(history'[c]) = Full(violations[c] + 1) /\ InOrder(history'[c], time)
        /\ \A d \in SL!Case \ {c} : violations'[d] = violations[d] /\ history'[d] = history[d]
    BY <1>3, SlashRecorded
  <2>2. ASSUME NEW d \in SL!Case
        PROVE  Len(history'[d]) = Full(violations'[d]) /\ InOrder(history'[d], time')
    <3>1. CASE d = c BY <2>1, <3>1
    <3>2. CASE d # c
      <4>1. history'[d] = history[d] /\ violations'[d] = violations[d] BY <2>1, <3>2
      <4> QED BY <1>1, <2>1, <4>1
    <3> QED BY <3>1, <3>2
  <2>3. \A d \in SL!Case : Len(history[d])' = Full(violations[d])' /\ InOrder(history[d], time)'
    BY <2>2 DEF Full, InOrder
  <2> QED BY <1>1, <2>1, <2>3 DEF SlashInv
<1> QED BY <1>2, <1>3, StepsOfRecords

LEMMA RecordsStart == Init => SlashInv
<1> SUFFICES ASSUME Init PROVE SlashInv OBVIOUS
<1>1. /\ time = 0 /\ cooldown \in [SlashRole -> Cooldown]
      /\ violations = [c \in SL!Case |-> 0] /\ history = [c \in SL!Case |-> <<>>]
  BY DEF Init, GV!GovernanceInit, SL!InitRecords
<1>2. cooldown \in [DOMAIN cooldown -> Nat]
  <2>1. \A seconds \in Cooldown : seconds \in Nat BY SlashingAssumption, PartsAssumption
  <2> QED BY <1>1, <2>1
<1>3. history \in [SL!Case -> Seq(SlashRecord)] /\ violations \in [SL!Case -> Nat] BY <1>1
<1>4. MaxHistory \in Nat \ {0} BY SlashingAssumption
<1>5. \A c \in SL!Case : Len(history[c]) = Full(violations[c]) BY <1>1, <1>4 DEF Full
<1>6. \A c \in SL!Case : InOrder(history[c], time) BY <1>1 DEF InOrder
<1> QED BY <1>1, <1>2, <1>3, <1>5, <1>6 DEF SlashInv

LEMMA WaitIsOver ==
  ASSUME NEW at \in Nat, NEW last \in Nat, NEW wait \in Nat, NEW now \in Nat, NEW end \in Nat,
         at <= last, last + wait <= end, now >= (last + wait) % (end + 1)
  PROVE  now >= at + wait
<1>1. last + wait \in Nat /\ last + wait < end + 1 OBVIOUS
<1>2. \A n, m \in Nat : n < m => n % m = n OBVIOUS
<1>3. (last + wait) % (end + 1) = last + wait BY <1>1, <1>2
<1> QED BY <1>3

(* A cooldown that ends within the range of the clock separates a slash from *)
(* every record before it.                                                   *)
LEMMA CooldownSeparates ==
  ASSUME SlashInv, NEW c \in SL!Case, NEW amount \in Int, Slashed(c, amount),
         c[2] \in DOMAIN cooldown, NEW i \in DOMAIN history[c],
         SL!Last(history[c]).at + cooldown[c[2]] <= MaxTime
  PROVE  time >= history[c][i].at + cooldown[c[2]]
<1> PICK records : records = history[c] OBVIOUS
<1> PICK wait : wait = cooldown[c[2]] OBVIOUS
<1>1. /\ records \in Seq(SlashRecord) /\ wait \in Nat /\ time \in Nat /\ InOrder(records, time)
      /\ MaxTime \in Nat
  BY PartsAssumption DEF SlashInv
<1>2. i \in 1..Len(records) /\ Len(records) \in 1..Len(records)
  <2>1. Len(records) \in Nat /\ DOMAIN records = 1..Len(records) BY <1>1, LenProperties
  <2> QED BY <2>1
<1>3. records # <<>> BY <1>2
<1> PICK last : last = records[Len(records)].at OBVIOUS
<1>4. /\ records[i].at \in Nat /\ last \in Nat /\ records[i].at <= last
  <2>1. records[i] \in SlashRecord /\ records[Len(records)] \in SlashRecord BY <1>1, <1>2
  <2>2. i <= Len(records) BY <1>2
  <2>3. records[i].at <= last BY <1>2, <2>2, <1>1 DEF InOrder
  <2> QED BY <2>1, <2>3 DEF SlashRecord
<1>5. last + wait <= MaxTime BY DEF SL!Last
<1>6. <<c[1], c[2]>> = c BY DEF SL!Case
<1>7. time >= (last + wait) % (MaxTime + 1)
  <2>1. SL!CanBeSlashed(c[1], c[2]) BY SlashRecorded
  <2> QED BY <1>3, <1>6, <2>1 DEF SL!CanBeSlashed, SL!Last
<1>8. wait \in Nat /\ time \in Nat /\ MaxTime \in Nat BY <1>1
<1>9. time >= records[i].at + wait BY <1>4, <1>5, <1>7, <1>8, WaitIsOver
<1> QED BY <1>9

LEMMA SlashesKeepApart ==
  SlashInv /\ DaoInv /\ [Next]_vars =>
    \A c \in SL!Case : violations'[c] > violations[c] /\ c[2] \in DOMAIN cooldown =>
       \A i \in DOMAIN history[c] :
         SL!Last(history[c]).at + cooldown[c[2]] <= MaxTime =>
           time >= history[c][i].at + cooldown[c[2]]
<1> SUFFICES ASSUME SlashInv, DaoInv, [Next]_vars, NEW c \in SL!Case,
                    violations'[c] > violations[c], c[2] \in DOMAIN cooldown,
                    NEW i \in DOMAIN history[c],
                    SL!Last(history[c]).at + cooldown[c[2]] <= MaxTime
             PROVE  time >= history[c][i].at + cooldown[c[2]]
  OBVIOUS
<1>1. violations[c] \in Nat BY DEF SlashInv
<1>2. CASE UNCHANGED <<violations, history>> BY <1>1, <1>2
<1>3. ASSUME NEW d \in SL!Case, NEW amount \in Int, Slashed(d, amount)
      PROVE  time >= history[c][i].at + cooldown[c[2]]
  <2>1. \A e \in SL!Case \ {d} : violations'[e] = violations[e] BY <1>3, SlashRecorded
  <2>2. d = c BY <1>1, <2>1
  <2> QED BY <1>3, <2>2, CooldownSeparates
<1> QED BY <1>2, <1>3, StepsOfRecords

(* What the slashing contract knows of past slashes suffices for its         *)
(* cooldowns, for any targets, roles, cooldowns and actions of the DAO: the  *)
(* count and the history agree, and a new slash keeps the cooldown from all  *)
(* the records before it, unless that ends after the end of time and wraps.  *)
THEOREM DaoSlashes == Spec => SlashesAreOrderly
<1>1. SlashInv => SL!HistoryMatchesCount BY DEF SlashInv, SL!HistoryMatchesCount, Full
<1>2. SlashInv /\ DaoInv /\ [Next]_vars =>
        [\A c \in SL!Case : violations'[c] > violations[c] /\ c[2] \in DOMAIN cooldown =>
           \A i \in DOMAIN history[c] :
             SL!Last(history[c]).at + cooldown[c[2]] <= MaxTime =>
               time >= history[c][i].at + cooldown[c[2]]]_SL!vars
  BY SlashesKeepApart
<1>3. Init => SlashInv /\ DaoInv BY RecordsStart, DaoStarts
<1>4. SlashInv /\ DaoInv /\ [Next]_vars => (SlashInv /\ DaoInv)' BY RecordsStep, DaoStep
<1> QED
  BY <1>1, <1>2, <1>3, <1>4, PTL DEF Spec, SlashesAreOrderly, SL!SlashesAreOrderly,
     SL!SlashesAreSpaced

-----------------------------------------------------------------------------
(* The governance contract keeps to its own specification when its           *)
(* executions call the other contracts, and the pool its books when it is    *)
(* called by executions as well as by its users.                             *)

LEMMA SlashingTakesNoTime == SlashingStep => time' = time
<1> SUFFICES ASSUME SlashingStep PROVE time' = time OBVIOUS
<1>1. CASE ResumeStep
  BY <1>1 DEF ResumeStep, CB!RequestResume, CB!Resume, CB!Sync, CB!Clear, CB!SyncExpiry, CB!SyncActivation
<1>2. CASE SL!AdminStep
  BY <1>2 DEF SL!AdminStep, SL!SetRole, SL!AddSlashableRole, SL!RemoveSlashableRole,
              SL!ConfigurePenaltyParameters
<1>3. ASSUME NEW target, NEW role, NEW amount, SL!SlashFunds(target, role, amount) PROVE time' = time
  BY <1>3 DEF SL!SlashFunds, SL!CB!Pass, SL!CB!Clear
<1> QED BY <1>1, <1>2, <1>3 DEF SlashingStep

(* Each execution, with the calls that it makes, is one of the governance    *)
(* contract alone, and no other contract changes a ballot.                   *)
LEMMA StepOfBallots == [Next]_vars => [GV!GovernanceNext]_(GV!governanceVars)
<1> SUFFICES ASSUME [Next]_vars PROVE GV!GovernanceNext \/ UNCHANGED GV!governanceVars OBVIOUS
<1>1. CASE Advance BY <1>1 DEF Advance, GV!GovernanceNext
<1>2. CASE PoolStep BY <1>2 DEF PoolStep, ballots, GV!governanceVars, GV!governanceState
<1>3. CASE SlashingStep
  <2>1. time' = time BY <1>3, SlashingTakesNoTime
  <2>2. UNCHANGED ballots BY <1>3 DEF SlashingStep
  <2> QED BY <2>1, <2>2 DEF ballots, GV!governanceVars, GV!governanceState
<1>4. CASE BallotStep BY <1>4 DEF BallotStep, GV!GovernanceNext
<1>5. ASSUME NEW id \in GV!ProposalId, Execute(id) PROVE GV!GovernanceNext
  BY <1>5 DEF Execute, GV!GovernanceNext
<1>6. CASE UNCHANGED vars BY <1>6 DEF vars, ballots, GV!governanceVars, GV!governanceState
<1> QED BY <1>1, <1>2, <1>3, <1>4, <1>5, <1>6 DEF Next

(* A slash ends a pause that has run out, as is_paused does, or leaves the   *)
(* breaker alone.                                                            *)
LEMMA SlashPasses ==
  ASSUME NEW target, NEW role, NEW amount, SL!SlashFunds(target, role, amount)
  PROVE  CB!Next \/ UNCHANGED CB!vars
BY DEF SL!SlashFunds, SL!CB!Pass, SL!CB!Expired, SL!CB!Clear, SL!CB!NoTime, SL!CB!breaker,
       CB!Next, CB!Sync, CB!SyncExpiry, CB!Expired, CB!Clear, CB!NoTime, CB!vars, CB!breaker

LEMMA StepOfBreaker == DaoInv /\ [Next]_vars => [CB!Next]_(CB!vars)
<1> SUFFICES ASSUME DaoInv, [Next]_vars PROVE CB!Next \/ UNCHANGED CB!vars OBVIOUS
<1>1. CASE Advance
  <2>1. time \in Nat /\ LastTime \in Nat BY PartsAssumption DEF DaoInv, DaoTyped
  <2>2. time < LastTime /\ time' = time + 1 /\ UNCHANGED breakerState
    BY <1>1 DEF Advance, GV!BallotTick, slashingState
  <2>3. time' \in time + 1..LastTime BY <2>1, <2>2
  <2> QED BY <2>2, <2>3 DEF CB!Next, CB!Advance, CB!breaker, breakerState
<1>2. CASE PoolStep \/ UNCHANGED vars
  BY <1>2 DEF PoolStep, vars, slashingState, breakerState, CB!vars, CB!breaker
<1>3. CASE SlashingStep
  <2>1. CASE ResumeStep BY <2>1 DEF ResumeStep, CB!Next
  <2>2. CASE SL!AdminStep
    <3>1. UNCHANGED <<time, SL!breakerState>>
      BY <2>2 DEF SL!AdminStep, SL!SetRole, SL!AddSlashableRole, SL!RemoveSlashableRole,
                  SL!ConfigurePenaltyParameters
    <3> QED BY <3>1 DEF SL!breakerState, CB!vars, CB!breaker
  <2> QED BY <1>3, <2>1, <2>2, SlashPasses DEF SlashingStep
<1>4. CASE BallotStep
  <2>1. time' = time BY <1>4, BallotsKeep DEF BallotStep, DaoInv
  <2> QED BY <1>4, <2>1 DEF BallotStep, slashingState, breakerState, CB!vars, CB!breaker
<1>5. ASSUME NEW id, Execute(id) PROVE CB!Next \/ UNCHANGED CB!vars
  <2>1. PICK action : action = Asked(id) OBVIOUS
  <2>2. CarryOut(action) /\ time' = time BY <1>5, <2>1 DEF Execute, GV!ExecuteProposal
  <2>3. action \in Action \cup {Nothing} BY <2>1 DEF Asked, Nothing, DaoInv, DaoTyped
  <2>4. action.kind \in {"Slashing", "FundAllocation", "PauseContract", "ClaimApproval", "PolicyChange", "None"}
    BY <2>3, ActionKinds
  <2>5. CASE action.kind = "Slashing" BY <2>2, <2>5, SlashPasses DEF CarryOut
  <2>6. CASE action.kind = "PauseContract"
    <3>1. CB!Pause(action.length) BY <2>2, <2>6 DEF CarryOut
    <3>2. action.length \in Duration BY <2>3, <2>6, ActionAssumption DEF Nothing
    <3> QED BY <3>1, <3>2 DEF CB!Next
  <2>7. CASE action.kind \in {"FundAllocation", "ClaimApproval", "PolicyChange", "None"}
    <3>1. UNCHANGED slashingState BY <2>2, <2>7 DEF CarryOut
    <3> QED BY <2>2, <3>1 DEF slashingState, breakerState, CB!vars, CB!breaker
  <2> QED BY <2>4, <2>5, <2>6, <2>7
<1> QED BY <1>1, <1>2, <1>3, <1>4, <1>5 DEF Next

(* The composition implements the governance contract and the pause protocol *)
(* as they are specified alone: executions that call other contracts are     *)
(* executions, slashes and retries leave the ballots alone, and only a       *)
(* proposal's pause, a resume or the passing of time moves the breaker.      *)
THEOREM DaoImplementsParts == Spec => GV!GovernanceSpec /\ CB!Spec
<1>1. Init => GV!GovernanceInit /\ CB!Init BY DEF Init
<1> QED BY <1>1, StepOfBallots, StepOfBreaker, DaoStarts, DaoStep, PTL DEF Spec, GV!GovernanceSpec, CB!Spec

(* The inductive invariant of the pool's books.                              *)
PoolBooks ==
  /\ PoolTyped /\ DOMAIN balance = RP!Account /\ balance[Pool] \in Int
  /\ RP!LedgerBalances /\ RP!PoolHoldsNetCapital /\ RP!StateRootIsFresh

(* What moved and what was published, with nothing else of the pool changed. *)
LEMMA BooksFollow ==
  ASSUME PoolBooks, PoolTyped', DOMAIN balance' = DOMAIN balance, UNCHANGED version, RP!RefreshStateRoot,
         NEW in \in Int, NEW out \in Int, NEW paid \in Nat, NEW forfeited \in Nat,
         balance'[Pool] = balance[Pool] + in - out, totalCapital' = totalCapital + in,
         out <= paid, claimsPaid' = RP!I128(RP!PaidOut + paid), RP!Forfeited' = RP!Forfeited + forfeited,
         availableCapital' = availableCapital + in - paid + forfeited
  PROVE  PoolBooks' /\ RP!Forfeited' >= RP!Forfeited
<1>1. RP!Forfeited \in Int /\ totalCapital \in Int /\ availableCapital \in Int
  BY PoolFigures DEF PoolBooks, PoolTyped
<1>2. RP!LedgerBalances'
  <2>1. RP!PaidOut' = RP!PaidOut + paid /\ RP!PaidOut \in Int BY <1>1 DEF RP!PaidOut
  <2> QED BY <1>1, <2>1 DEF PoolBooks, RP!LedgerBalances
<1>3. balance'[Pool] \in Int /\ RP!PoolHoldsNetCapital'
  BY <1>1 DEF PoolBooks, RP!PoolHoldsNetCapital
<1>4. RP!StateRootIsFresh' BY DEF RP!RefreshStateRoot, RP!StateRootIsFresh, RP!Root
<1>5. RP!Forfeited' >= RP!Forfeited BY <1>1 DEF PoolBooks
<1> QED BY <1>2, <1>3, <1>4, <1>5 DEF PoolBooks

LEMMA BooksMove ==
  ASSUME PoolBooks, NEW p \in User, NEW amount \in Nat,
         RP!DepositLiquidity(p, amount) \/ RP!WithdrawLiquidity(p, amount)
  PROVE  PoolBooks' /\ RP!Forfeited' >= RP!Forfeited
<1> PICK batch : batch = <<<<p, amount>>>> OBVIOUS
<1>1. RP!Total(batch) = amount BY OneEntry
<1>2. RP!DepositLiquidityBatch(batch) \/ RP!WithdrawLiquidityBatch(batch)
  BY DEF RP!DepositLiquidity, RP!WithdrawLiquidity
<1>3. PoolTyped' /\ claimsPaid' = RP!I128(RP!PaidOut + 0) /\ RP!Forfeited' = RP!Forfeited + 0
  <2>1. PoolTyped' /\ RP!Forfeited' = RP!Forfeited BY PoolMoves DEF PoolBooks
  <2>2. RP!Forfeited \in Int /\ RP!PaidOut \in Int BY PoolFigures DEF PoolBooks
  <2>3. claimsPaid' = claimsPaid BY <1>2 DEF RP!DepositLiquidityBatch, RP!WithdrawLiquidityBatch
  <2>4. claimsPaid = RP!I128(RP!PaidOut) /\ RP!PaidOut + 0 = RP!PaidOut
    BY <2>2 DEF PoolBooks, RP!LedgerBalances
  <2> QED BY <2>1, <2>2, <2>3, <2>4
<1>4. Pool \in RP!Account BY DEF RP!Account
<1>5. /\ balance[Pool] \in Int /\ availableCapital \in Int /\ totalCapital \in Int
      /\ DOMAIN balance = RP!Account
  BY DEF PoolBooks, PoolTyped
<1> PICK less : less = -amount OBVIOUS
<1>6. \E in \in {amount, less} :
        /\ balance'[Pool] = balance[Pool] + in - 0 /\ totalCapital' = totalCapital + in
        /\ availableCapital' = availableCapital + in - 0 + 0
  <2>1. CASE RP!DepositLiquidityBatch(batch)
    <3>1. /\ balance' = [a \in RP!Account |-> IF a = Pool THEN balance[a] + amount
                                              ELSE balance[a] - RP!Share(batch)[a]]
          /\ totalCapital' = totalCapital + amount /\ availableCapital' = availableCapital + amount
      BY <1>1, <2>1 DEF RP!DepositLiquidityBatch
    <3>2. balance'[Pool] = balance[Pool] + amount BY <1>4, <3>1
    <3> QED BY <1>5, <3>1, <3>2
  <2>2. CASE RP!WithdrawLiquidityBatch(batch)
    <3>1. /\ balance' = [a \in RP!Account |-> IF a = Pool THEN balance[a] - amount
                                              ELSE balance[a] + RP!Share(batch)[a]]
          /\ totalCapital' = totalCapital - amount /\ availableCapital' = availableCapital - amount
      BY <1>1, <2>2 DEF RP!WithdrawLiquidityBatch
    <3>2. balance'[Pool] = balance[Pool] - amount BY <1>4, <3>1
    <3> QED BY <1>5, <3>1, <3>2
  <2> QED BY <1>2, <2>1, <2>2
<1>7. DOMAIN balance' = DOMAIN balance /\ version' = version /\ RP!RefreshStateRoot
  BY <1>2, <1>5 DEF RP!DepositLiquidityBatch, RP!WithdrawLiquidityBatch
<1>8. PICK in \in {amount, less} :
        /\ balance'[Pool] = balance[Pool] + in - 0 /\ totalCapital' = totalCapital + in
        /\ availableCapital' = availableCapital + in - 0 + 0
  BY <1>6
<1>9. in \in Int /\ RP!PaidOut \in Int BY PoolFigures DEF PoolBooks
<1> QED BY <1>3, <1>7, <1>8, <1>9, BooksFollow

LEMMA BooksPay ==
  ASSUME PoolBooks, NEW recipient \in RP!Account, NEW amount \in Nat, RP!PayoutClaim(recipient, amount)
  PROVE  PoolBooks' /\ RP!Forfeited' >= RP!Forfeited
<1>1. PoolTyped' /\ RP!Forfeited' = RP!Forfeited
  BY PoolPays DEF PoolBooks
<1>2. /\ RP!Forfeited \in Int /\ RP!PaidOut \in Int
      /\ totalCapital \in Int /\ availableCapital \in Int /\ balance[Pool] \in Int
  BY PoolFigures DEF PoolBooks, PoolTyped
<1>3. /\ RP!Transfer(Pool, recipient, amount) /\ availableCapital' = availableCapital - amount
      /\ UNCHANGED <<totalCapital, version>> /\ RP!RefreshStateRoot
  BY DEF RP!PayoutClaim
<1>4. DOMAIN balance = RP!Account /\ Pool \in RP!Account BY DEF PoolBooks, RP!Account
<1>5. PICK out : out = IF recipient = Pool THEN 0 ELSE amount OBVIOUS
<1>6. DOMAIN balance' = DOMAIN balance /\ balance'[Pool] = balance[Pool] + 0 - out
  BY <1>2, <1>3, <1>4, <1>5 DEF RP!Transfer
<1>7. out \in Int /\ out <= amount BY <1>5
<1>8. /\ totalCapital' = totalCapital + 0 /\ availableCapital' = availableCapital + 0 - amount + 0
      /\ RP!Forfeited' = RP!Forfeited + 0
  BY <1>1, <1>2, <1>3
<1>9. claimsPaid' = RP!I128(RP!PaidOut + amount)
  <2>1. claimsPaid' = I128(I128(RP!PaidOut) + amount)
    BY DEF RP!PayoutClaim, PoolBooks, RP!LedgerBalances, RP!I128, I128
  <2>2. I128(I128(RP!PaidOut) + amount) = I128(RP!PaidOut + amount) BY <1>2, PartsAssumption, I128OfSum DEF GV!GovernanceAssumption
  <2> QED BY <2>1, <2>2 DEF RP!I128, I128
<1> QED BY <1>1, <1>3, <1>6, <1>7, <1>8, <1>9, BooksFollow

LEMMA BooksAbsorb ==
  ASSUME PoolBooks, NEW target \in User, NEW amount \in Int, RP!AbsorbSlash(target, amount)
  PROVE  PoolBooks' /\ RP!Forfeited' >= RP!Forfeited
<1>1. PoolTyped' /\ amount > 0 /\ RP!Forfeited' = RP!Forfeited + amount
  BY PoolAbsorbs DEF PoolBooks
<1>2. /\ RP!PaidOut \in Int /\ totalCapital \in Int /\ availableCapital \in Int
      /\ balance[Pool] \in Int
  BY PoolFigures DEF PoolBooks, PoolTyped
<1>3. /\ UNCHANGED <<balance, totalCapital, claimsPaid, version>>
      /\ availableCapital' = availableCapital + amount
      /\ RP!RefreshStateRoot
  BY DEF RP!AbsorbSlash
<1>4. /\ balance'[Pool] = balance[Pool] + 0 - 0 /\ totalCapital' = totalCapital + 0
      /\ availableCapital' = availableCapital + 0 - 0 + amount
      /\ DOMAIN balance' = DOMAIN balance
      /\ RP!PaidOut + 0 = RP!PaidOut
  BY <1>1, <1>2, <1>3
<1>5. amount \in Nat BY <1>1
<1>6. claimsPaid' = RP!I128(RP!PaidOut + 0) BY <1>3, <1>4 DEF PoolBooks, RP!LedgerBalances
<1> QED BY <1>1, <1>3, <1>4, <1>5, <1>6, BooksFollow

LEMMA BooksIdle ==
  ASSUME PoolBooks, UNCHANGED poolState
  PROVE  PoolBooks' /\ RP!Forfeited' >= RP!Forfeited
<1>1. RP!Forfeited \in Int BY PoolFigures DEF PoolBooks
<1>2. RP!Forfeited' = RP!Forfeited /\ RP!PaidOut' = RP!PaidOut
  BY DEF poolState, RP!PaidOut, RP!Forfeited, RP!Staked
<1>3. RP!LedgerBalances' /\ RP!PoolHoldsNetCapital'
  BY <1>2 DEF PoolBooks, poolState, RP!LedgerBalances, RP!PoolHoldsNetCapital
<1>4. PoolBooks'
  BY <1>3 DEF PoolBooks, PoolTyped, poolState, RP!StateRootIsFresh, RP!Root
<1> QED BY <1>1, <1>2, <1>4

LEMMA BooksStep ==
  ASSUME DaoInv, PoolBooks, [Next]_vars
  PROVE  PoolBooks' /\ RP!Forfeited' >= RP!Forfeited
<1>1. CASE PoolStep
  <2>1. PICK user \in User, amount \in Amount :
          \/ RP!DepositLiquidity(user, amount) \/ RP!WithdrawLiquidity(user, amount)
          \/ RP!PayoutClaim(user, amount)      \/ RP!AbsorbSlash(user, amount)
    BY <1>1 DEF PoolStep
  <2>2. amount \in Nat /\ amount \in Int /\ user \in RP!Account BY PartsAssumption DEF RP!Account
  <2>3. CASE RP!DepositLiquidity(user, amount) \/ RP!WithdrawLiquidity(user, amount)
    BY <2>2, <2>3, BooksMove
  <2>4. CASE RP!PayoutClaim(user, amount) BY <2>2, <2>4, BooksPay
  <2>5. CASE RP!AbsorbSlash(user, amount) BY <2>2, <2>5, BooksAbsorb
  <2> QED BY <2>1, <2>3, <2>4, <2>5
<1>2. CASE Advance \/ SlashingStep \/ BallotStep \/ UNCHANGED vars
  <2>1. UNCHANGED poolState BY <1>2 DEF Advance, SlashingStep, BallotStep, vars
  <2> QED BY <2>1, BooksIdle
<1>3. ASSUME NEW id, Execute(id) PROVE PoolBooks' /\ RP!Forfeited' >= RP!Forfeited
  <2>1. PICK action : action = Asked(id) OBVIOUS
  <2>2. CarryOut(action) BY <1>3, <2>1 DEF Execute
  <2>3. action \in Action \cup {Nothing} BY <2>1 DEF Asked, Nothing, DaoInv, DaoTyped
  <2>4. action.kind \in {"Slashing", "FundAllocation", "PauseContract", "ClaimApproval", "PolicyChange", "None"}
    BY <2>3, ActionKinds
  <2>5. CASE action.kind = "Slashing"
    <3>1. RP!AbsorbSlash(action.target, action.amount) BY <2>2, <2>5 DEF CarryOut
    <3>2. action.target \in User /\ action.amount \in Int BY <2>3, <2>5, ActionKinds
    <3> QED BY <3>1, <3>2, BooksAbsorb
  <2>6. CASE action.kind = "FundAllocation"
    <3>1. RP!PayoutClaim(action.recipient, action.amount) BY <2>2, <2>6 DEF CarryOut
    <3>2. action.recipient \in RP!Account /\ action.amount \in Nat
      BY <2>3, <2>6, ActionAssumption DEF Nothing
    <3> QED BY <3>1, <3>2, BooksPay
  <2>7. CASE action.kind \in {"PauseContract", "ClaimApproval", "PolicyChange", "None"}
    <3>1. UNCHANGED poolState BY <2>2, <2>7 DEF CarryOut
    <3> QED BY <3>1, BooksIdle
  <2> QED BY <2>4, <2>5, <2>6, <2>7
<1> QED BY <1>1, <1>2, <1>3 DEF Next

LEMMA BooksStart == Init => PoolBooks
<1> SUFFICES ASSUME Init PROVE PoolBooks OBVIOUS
<1>1. RP!InitCapital /\ version = 2 BY DEF Init
<1>2. stake = [p \in User |-> 0] /\ totalCapital = 0 /\ claimsPaid = 0 /\ availableCapital = 0
  BY <1>1 DEF RP!InitCapital
<1>3. IsFiniteSet(User) /\ \A p \in User : stake[p] = 0 BY <1>2, PartsAssumption
<1>4. RP!Staked = 0 BY <1>3, SumZero, SameSum DEF RP!Staked
<1>5. RP!LedgerBalances
  <2>1. RP!Forfeited = 0 /\ RP!PaidOut = 0 BY <1>2, <1>4 DEF RP!Forfeited, RP!PaidOut
  <2>2. RP!I128(0) = 0 BY I128OfZero, PartsAssumption DEF GV!GovernanceAssumption, RP!I128, I128
  <2> QED BY <1>2, <2>1, <2>2 DEF RP!LedgerBalances
<1>6. DOMAIN balance = RP!Account /\ balance[Pool] = 0 /\ RP!PoolHoldsNetCapital
  BY <1>1, <1>2, <1>4 DEF RP!InitCapital, RP!Account, RP!PoolHoldsNetCapital, RP!Forfeited
<1>7. RP!StateRootIsFresh BY <1>1 DEF RP!InitCapital, RP!StateRootIsFresh
<1>8. PoolTyped BY <1>2 DEF PoolTyped
<1> QED BY <1>2, <1>5, <1>6, <1>7, <1>8 DEF PoolBooks

(* Whatever users and executed proposals ask of the pool, its ledger         *)
(* balances, its tokens cover the capital net of claims, and the root it     *)
(* publishes is that of the capital as it is.                                *)
THEOREM DaoKeepsPoolBooks == Spec => [](RP!LedgerBalances /\ RP!PoolHoldsNetCapital /\ RP!StateRootIsFresh)
<1>1. DaoInv /\ PoolBooks /\ [Next]_vars => PoolBooks' BY BooksStep
<1>2. PoolBooks => RP!LedgerBalances /\ RP!PoolHoldsNetCapital /\ RP!StateRootIsFresh
  BY DEF PoolBooks
<1> QED BY <1>1, <1>2, BooksStart, DaoStarts, DaoStep, PTL DEF Spec

(* No execution, and no call between two of them, gives a forfeited stake    *)
(* back.                                                                     *)
THEOREM DaoForfeitsAreFinal == Spec => RP!ForfeitsAreFinal
<1>1. DaoInv /\ PoolBooks /\ [Next]_vars => PoolBooks' /\ [RP!Forfeited' >= RP!Forfeited]_(RP!vars)
  BY BooksStep
<1> QED BY <1>1, BooksStart, DaoStarts, DaoStep, PTL DEF Spec, RP!ForfeitsAreFinal
=============================================================================

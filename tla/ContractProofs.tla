---------------------------- MODULE ContractProofs ----------------------------
(*****************************************************************************)
(* Proofs about the components that stand alone: the ledger of fractional    *)
(* shares for any holders and tokens, the auctions of the fee manager and    *)
(* the rewards it owes for any bidders, bids and operations, the compliance  *)
(* registry for any accounts, verifiers and rules, the backend's data keys   *)
(* for any servers, rows and batches, the pause protocol for any timelocks   *)
(* and durations, the ingestion of events for any blocks, webhooks and       *)
(* number of polls at a time, the zero-knowledge proofs of compliance        *)
(* for any accounts, keys, kinds of proof and batches, and the client's      *)
(* queue of completed sessions for any number of them and of visits.         *)
(*****************************************************************************)
EXTENDS Fractional, Fees, Compliance, KeyRotation, CircuitBreaker, Ingestion, ZkCompliance,
        OfflineQueue, SumTheorems, SequenceTheorems

-----------------------------------------------------------------------------
(* The ledger of shares: balances are functions of the holders, and add up.  *)
LedgerInv ==
  /\ shareBalance \in [ShareTokens -> [Holders -> Int]]
  /\ shareSupply \in [ShareTokens -> Int] /\ doubled \in [ShareTokens -> Int]
  /\ HeldIsSupplyAndDoubled

(* Setting the balance of one holder moves the sum by the difference.        *)
LEMMA HolderChanges ==
  ASSUME NEW f \in [Holders -> Int], NEW h \in Holders, NEW v \in Int
  PROVE  /\ [f EXCEPT ![h] = v] \in [Holders -> Int]
         /\ SumFunctionOnSet([f EXCEPT ![h] = v], Holders) = SumFunctionOnSet(f, Holders) - f[h] + v
         /\ SumFunctionOnSet(f, Holders) \in Int
<1> DEFINE g == [f EXCEPT ![h] = v]
<1>1. g \in [Holders -> Int] /\ g[h] = v /\ \A y \in Holders \ {h} : g[y] = f[y] OBVIOUS
<1>2. IsFiniteSet(Holders) BY FractionalAssumption
<1>3. \A y \in Holders : f[y] \in Int OBVIOUS
<1> HIDE DEF g
<1>4. SumFunctionOnSet(g, Holders) = SumFunctionOnSet(f, Holders) - f[h] + v
  BY <1>1, <1>2, <1>3, SumUpdate
<1>5. SumFunctionOnSet(f, Holders) \in Int BY <1>2, <1>3, SumType
<1> QED BY <1>1, <1>4, <1>5 DEF g

(* What a step does to one token's ledger, the other tokens being untouched, *)
(* keeps the invariant when it keeps that token's sum.                       *)
LEMMA OneToken ==
  ASSUME LedgerInv, NEW t \in ShareTokens, NEW f \in [Holders -> Int],
         NEW supply \in Int, NEW extra \in Int,
         shareBalance' = [shareBalance EXCEPT ![t] = f],
         shareSupply' = [shareSupply EXCEPT ![t] = supply],
         doubled' = [doubled EXCEPT ![t] = extra],
         SumFunctionOnSet(f, Holders) = supply + extra
  PROVE  LedgerInv'
<1>1. \A u \in ShareTokens :
        SumFunctionOnSet(shareBalance'[u], Holders) = shareSupply'[u] + doubled'[u]
  BY DEF LedgerInv, HeldIsSupplyAndDoubled, SharesHeld
<1> QED BY <1>1 DEF LedgerInv, HeldIsSupplyAndDoubled, SharesHeld

LEMMA StepShares ==
  ASSUME LedgerInv, [FracNext]_fracVars
  PROVE  LedgerInv'
<1>1. CASE UNCHANGED <<shareBalance, shareSupply, doubled>>
  BY <1>1 DEF LedgerInv, HeldIsSupplyAndDoubled, SharesHeld
<1> DEFINE held(t) == SumFunctionOnSet(shareBalance[t], Holders)
<1>2. \A t \in ShareTokens :
        /\ shareBalance[t] \in [Holders -> Int] /\ shareSupply[t] \in Int /\ doubled[t] \in Int
        /\ held(t) = shareSupply[t] + doubled[t]
  BY DEF LedgerInv, HeldIsSupplyAndDoubled, SharesHeld
<1>3. ASSUME NEW caller, NEW t \in ShareTokens, NEW h \in Holders, NEW amount \in Nat,
             MintShares(caller, t, h, amount)
      PROVE  LedgerInv'
  <2> DEFINE f == [shareBalance[t] EXCEPT ![h] = shareBalance[t][h] + amount]
  <2>1. f \in [Holders -> Int] /\ SumFunctionOnSet(f, Holders) = held(t) + amount
    <3>1. shareBalance[t][h] \in Int /\ shareBalance[t][h] + amount \in Int BY <1>2
    <3>2. held(t) \in Int BY <1>2
    <3>3. /\ f \in [Holders -> Int]
          /\ SumFunctionOnSet(f, Holders) =
               held(t) - shareBalance[t][h] + (shareBalance[t][h] + amount)
      BY <1>2, <3>1, HolderChanges
    <3> HIDE DEF f, held
    <3> QED BY <3>1, <3>2, <3>3
  <2>2. /\ shareBalance' = [shareBalance EXCEPT ![t] = f]
        /\ shareSupply' = [shareSupply EXCEPT ![t] = shareSupply[t] + amount]
        /\ doubled' = [doubled EXCEPT ![t] = doubled[t]]
    BY <1>3 DEF MintShares, LedgerInv
  <2>3. SumFunctionOnSet(f, Holders) = (shareSupply[t] + amount) + doubled[t]
    <3> HIDE DEF f, held
    <3> QED BY <2>1, <1>2
  <2>4. shareSupply[t] + amount \in Int /\ doubled[t] \in Int BY <1>2
  <2> HIDE DEF f
  <2> QED BY <2>1, <2>2, <2>3, <2>4, OneToken
<1>4. ASSUME NEW caller, NEW t \in ShareTokens, NEW h \in Holders, NEW amount \in Nat,
             BurnShares(caller, t, h, amount)
      PROVE  LedgerInv'
  <2> DEFINE f == [shareBalance[t] EXCEPT ![h] = shareBalance[t][h] - amount]
  <2>1. f \in [Holders -> Int] /\ SumFunctionOnSet(f, Holders) = held(t) - amount
    <3>1. shareBalance[t][h] \in Int /\ shareBalance[t][h] - amount \in Int BY <1>2
    <3>2. held(t) \in Int BY <1>2
    <3>3. /\ f \in [Holders -> Int]
          /\ SumFunctionOnSet(f, Holders) =
               held(t) - shareBalance[t][h] + (shareBalance[t][h] - amount)
      BY <1>2, <3>1, HolderChanges
    <3> HIDE DEF f, held
    <3> QED BY <3>1, <3>2, <3>3
  <2>2. /\ shareBalance' = [shareBalance EXCEPT ![t] = f]
        /\ shareSupply' = [shareSupply EXCEPT ![t] = shareSupply[t] - amount]
        /\ doubled' = [doubled EXCEPT ![t] = doubled[t]]
    BY <1>4 DEF BurnShares, LedgerInv
  <2>3. SumFunctionOnSet(f, Holders) = (shareSupply[t] - amount) + doubled[t]
    <3> HIDE DEF f, held
    <3> QED BY <2>1, <1>2
  <2>4. shareSupply[t] - amount \in Int /\ doubled[t] \in Int BY <1>2
  <2> HIDE DEF f
  <2> QED BY <2>1, <2>2, <2>3, <2>4, OneToken
<1>5. ASSUME NEW from \in Holders, NEW t \in ShareTokens, NEW to \in Holders, NEW amount \in Nat,
             TransferShares(from, t, to, amount)
      PROVE  LedgerInv'
  <2> DEFINE b == shareBalance[t]
             paid == [b EXCEPT ![from] = b[from] - amount]
             f == [paid EXCEPT ![to] = b[to] + amount]
             extra == IF from = to THEN doubled[t] + amount ELSE doubled[t]
  <2>1. b \in [Holders -> Int] /\ b[from] \in Int /\ b[to] \in Int /\ held(t) \in Int
        /\ b[from] - amount \in Int /\ b[to] + amount \in Int /\ extra \in Int
    BY <1>2
  <2>2. /\ paid \in [Holders -> Int]
        /\ SumFunctionOnSet(paid, Holders) = held(t) - b[from] + (b[from] - amount)
    <3> HIDE DEF b, extra
    <3> QED BY <2>1, HolderChanges DEF b
  <2>3. paid[to] = IF from = to THEN b[to] - amount ELSE b[to] BY <2>1
  <2>4. /\ f \in [Holders -> Int] /\ SumFunctionOnSet(paid, Holders) \in Int
        /\ SumFunctionOnSet(f, Holders) =
             SumFunctionOnSet(paid, Holders) - paid[to] + (b[to] + amount)
    <3> DEFINE v == b[to] + amount
    <3>1. v \in Int BY <2>1
    <3> HIDE DEF paid, b, extra, v
    <3>2. /\ [paid EXCEPT ![to] = v] \in [Holders -> Int]
          /\ SumFunctionOnSet([paid EXCEPT ![to] = v], Holders) =
               SumFunctionOnSet(paid, Holders) - paid[to] + v
          /\ SumFunctionOnSet(paid, Holders) \in Int
      BY <3>1, <2>2, HolderChanges
    <3> QED BY <3>2 DEF v
  <2>5. SumFunctionOnSet(f, Holders) = shareSupply[t] + extra
    <3>1. held(t) = shareSupply[t] + doubled[t] /\ shareSupply[t] \in Int /\ doubled[t] \in Int
      BY <1>2
    <3>2. extra = IF from = to THEN doubled[t] + amount ELSE doubled[t] OBVIOUS
    <3> HIDE DEF f, paid, b, extra, held
    <3> QED BY <2>1, <2>2, <2>3, <2>4, <3>1, <3>2
  <2>6. /\ shareBalance' = [shareBalance EXCEPT ![t] = f]
        /\ shareSupply' = [shareSupply EXCEPT ![t] = shareSupply[t]]
        /\ doubled' = [doubled EXCEPT ![t] = extra]
    <3>1. shareBalance' = [shareBalance EXCEPT ![t][from] = b[from] - amount,
                                               ![t][to]   = b[to] + amount]
      BY <1>5 DEF TransferShares
    <3>2. shareBalance' = [shareBalance EXCEPT ![t] = f] BY <3>1, <1>2 DEF LedgerInv
    <3>3. shareSupply' = shareSupply BY <1>5 DEF TransferShares
    <3>4. doubled' = IF from = to THEN [doubled EXCEPT ![t] = @ + amount] ELSE doubled
      BY <1>5 DEF TransferShares
    <3> QED BY <3>2, <3>3, <3>4 DEF LedgerInv
  <2>7. shareSupply[t] \in Int BY <1>2
  <2> HIDE DEF f, extra, b, paid
  <2> QED BY <2>1, <2>4, <2>5, <2>6, <2>7, OneToken
<1>6. CASE UNCHANGED fracVars BY <1>1, <1>6 DEF fracVars
<1>7. CASE FracNext
  <2> HIDE DEF held
  <2>1. PICK t \in ShareTokens, h \in Holders :
          \/ \E caller \in Holders, amount \in ShareAmounts :
               MintShares(caller, t, h, amount) \/ BurnShares(caller, t, h, amount)
                 \/ TransferShares(caller, t, h, amount)
          \/ \E total \in DividendAmounts : DistributeDividends(h, t, total)
          \/ ClaimDividends(h, t)
          \/ \E passed \in BOOLEAN : SetKyc(h, passed)
          \/ SetMinter(t, h)
    BY Zenon, <1>7 DEF FracNext
  <2>2. ASSUME \/ \E total \in DividendAmounts : DistributeDividends(h, t, total)
               \/ ClaimDividends(h, t) \/ (\E passed \in BOOLEAN : SetKyc(h, passed))
               \/ SetMinter(t, h)
        PROVE  LedgerInv'
    BY <2>2, <1>1 DEF DistributeDividends, ClaimDividends, SetKyc, SetMinter
  <2>3. ShareAmounts \subseteq Nat BY FractionalAssumption
  <2> QED BY <2>1, <2>2, <2>3, <1>3, <1>4, <1>5
<1> QED BY <1>6, <1>7

(* The balances exceed the supply by exactly what transfers to oneself       *)
(* added: whatever is minted, burned and transferred, nothing else makes or  *)
(* loses a share.                                                            *)
THEOREM SharesAddUp == FracSpec => []HeldIsSupplyAndDoubled
<1>1. FracInit => LedgerInv
  <2> SUFFICES ASSUME FracInit PROVE LedgerInv OBVIOUS
  <2>1. /\ shareBalance \in [ShareTokens -> [Holders -> Int]]
        /\ shareSupply \in [ShareTokens -> Int] /\ doubled \in [ShareTokens -> Int]
    BY DEF FracInit
  <2>2. ASSUME NEW t \in ShareTokens PROVE SharesHeld(t) = shareSupply[t] + doubled[t]
    <3>1. \A h \in Holders : shareBalance[t][h] = 0 BY DEF FracInit
    <3>2. SharesHeld(t) = 0 BY <3>1, SumZero, FractionalAssumption DEF SharesHeld
    <3> QED BY <3>2 DEF FracInit
  <2> QED BY <2>1, <2>2 DEF LedgerInv, HeldIsSupplyAndDoubled
<1>2. LedgerInv /\ [FracNext]_fracVars => LedgerInv' BY StepShares
<1>3. LedgerInv => HeldIsSupplyAndDoubled BY DEF LedgerInv
<1> QED BY <1>1, <1>2, <1>3, PTL DEF FracSpec

-----------------------------------------------------------------------------
(* The auctions: one record and one table of bids each.                      *)
AuctionRecord ==
  [seller : FeeAccounts, minBid : Nat, bid : Nat, bidder : FeeAccounts \cup {NoBidder},
   end : Nat, settled : BOOLEAN]

AuctionInv ==
  /\ feeTime \in Nat
  /\ \E n \in Nat : auctions \in [1..n -> AuctionRecord] /\ bidsOf \in [1..n -> [FeeAccounts -> Int]]
  /\ HighestBidLeads

LEMMA SequenceOfLength ==
  ASSUME NEW S, NEW s \in Seq(S), NEW m, Len(s) = m
  PROVE  s \in [1..m -> S]
OBVIOUS

LEMMA StepAuctions ==
  ASSUME AuctionInv, [FeeNext]_feeVars
  PROVE  AuctionInv'
<1>1. PICK n \in Nat : auctions \in [1..n -> AuctionRecord] /\ bidsOf \in [1..n -> [FeeAccounts -> Int]]
  BY DEF AuctionInv
<1>2. DOMAIN auctions = 1..n /\ feeTime \in Nat BY <1>1 DEF AuctionInv
<1>3. ASSUME NEW i \in 1..n
      PROVE  /\ \A a \in FeeAccounts : bidsOf[i][a] <= auctions[i].bid
             /\ auctions[i].bidder # NoBidder => bidsOf[i][auctions[i].bidder] = auctions[i].bid
  BY <1>2 DEF AuctionInv, HighestBidLeads
<1>4. ASSUME auctions' = auctions, bidsOf' = bidsOf, feeTime' \in Nat PROVE AuctionInv'
  BY <1>4 DEF AuctionInv, HighestBidLeads
<1>5. ASSUME NEW seller \in FeeAccounts, NEW minBid \in Bids, NEW secs \in AuctionSecs,
             CreateAuction(seller, minBid, secs)
      PROVE  AuctionInv'
  <2> DEFINE new == [seller |-> seller, minBid |-> minBid, bid |-> 0, bidder |-> NoBidder,
                     end |-> feeTime + secs, settled |-> FALSE]
             none == [a \in FeeAccounts |-> -1]
  <2>1. /\ auctions' = Append(auctions, new) /\ bidsOf' = Append(bidsOf, none)
        /\ feeTime' = feeTime
    BY <1>5 DEF CreateAuction, Auction
  <2>2. new \in AuctionRecord /\ new.bid = 0 /\ new.bidder = NoBidder
    BY <1>2, FeeAssumption DEF AuctionRecord
  <2>3. none \in [FeeAccounts -> Int] /\ \A a \in FeeAccounts : none[a] <= 0 OBVIOUS
  <2> HIDE DEF new, none
  <2>4. auctions \in Seq(AuctionRecord) /\ bidsOf \in Seq([FeeAccounts -> Int])
        /\ Len(auctions) = n /\ Len(bidsOf) = n
    BY <1>1
  <2>5. /\ auctions' \in Seq(AuctionRecord) /\ Len(auctions') = n + 1
        /\ \A i \in 1..n : auctions'[i] = auctions[i]
        /\ auctions'[n + 1] = new
    BY <2>1, <2>2, <2>4
  <2>6. /\ bidsOf' \in Seq([FeeAccounts -> Int]) /\ Len(bidsOf') = n + 1
        /\ \A i \in 1..n : bidsOf'[i] = bidsOf[i]
        /\ bidsOf'[n + 1] = none
    BY <2>1, <2>3, <2>4
  <2>7. /\ auctions' \in [1..(n + 1) -> AuctionRecord]
        /\ bidsOf' \in [1..(n + 1) -> [FeeAccounts -> Int]]
    BY <2>5, <2>6, SequenceOfLength
  <2>8. ASSUME NEW i \in DOMAIN auctions'
        PROVE  /\ \A a \in FeeAccounts : bidsOf'[i][a] <= auctions'[i].bid
               /\ auctions'[i].bidder # NoBidder => bidsOf'[i][auctions'[i].bidder] = auctions'[i].bid
    <3>1. i \in 1..n \/ i = n + 1 BY <2>7, <2>8
    <3>2. CASE i \in 1..n BY <3>2, <1>3, <2>5, <2>6
    <3>3. CASE i = n + 1 BY <3>3, <2>2, <2>3, <2>5, <2>6
    <3> QED BY <3>1, <3>2, <3>3
  <2>9. n + 1 \in Nat OBVIOUS
  <2> QED BY <1>2, <2>1, <2>7, <2>8, <2>9 DEF AuctionInv, HighestBidLeads
<1>6. ASSUME NEW bidder \in FeeAccounts, NEW i \in 1..n, NEW amount \in Bids,
             PlaceBid(bidder, i, amount)
      PROVE  AuctionInv'
  <2>1. /\ auctions' = [auctions EXCEPT ![i].bid = amount, ![i].bidder = bidder]
        /\ bidsOf' = [bidsOf EXCEPT ![i][bidder] = amount]
        /\ amount > auctions[i].bid /\ amount \in Nat /\ feeTime' = feeTime
    BY <1>6, FeeAssumption DEF PlaceBid, Accepts
  <2>2. /\ auctions' \in [1..n -> AuctionRecord] /\ bidsOf' \in [1..n -> [FeeAccounts -> Int]]
        /\ \A j \in 1..n \ {i} : auctions'[j] = auctions[j] /\ bidsOf'[j] = bidsOf[j]
        /\ auctions'[i].bid = amount /\ auctions'[i].bidder = bidder
        /\ bidsOf'[i] = [bidsOf[i] EXCEPT ![bidder] = amount]
    <3> DEFINE sold == [auctions[i] EXCEPT !.bid = amount, !.bidder = bidder]
               bids == [bidsOf[i] EXCEPT ![bidder] = amount]
    <3>1. auctions' = [auctions EXCEPT ![i] = sold] /\ bidsOf' = [bidsOf EXCEPT ![i] = bids]
      BY <2>1, <1>1
    <3>2. auctions[i] \in AuctionRecord /\ bidsOf[i] \in [FeeAccounts -> Int] BY <1>1
    <3>3. sold \in AuctionRecord /\ sold.bid = amount /\ sold.bidder = bidder
      BY <2>1, <3>2 DEF AuctionRecord
    <3>4. bids \in [FeeAccounts -> Int] BY <2>1, <3>2
    <3> HIDE DEF sold, bids
    <3>5. /\ auctions' \in [1..n -> AuctionRecord] /\ auctions'[i] = sold
          /\ \A j \in 1..n \ {i} : auctions'[j] = auctions[j]
      BY <1>1, <3>1, <3>3
    <3>6. /\ bidsOf' \in [1..n -> [FeeAccounts -> Int]] /\ bidsOf'[i] = bids
          /\ \A j \in 1..n \ {i} : bidsOf'[j] = bidsOf[j]
      BY <1>1, <3>1, <3>4
    <3> QED BY <3>3, <3>5, <3>6 DEF bids
  <2>3. ASSUME NEW a \in FeeAccounts PROVE bidsOf'[i][a] <= amount
    <3>1. bidsOf[i][a] <= auctions[i].bid /\ bidsOf[i][a] \in Int /\ auctions[i].bid \in Nat
      BY <1>1, <1>3 DEF AuctionRecord
    <3>2. bidsOf'[i][a] = IF a = bidder THEN amount ELSE bidsOf[i][a] BY <1>1, <2>2
    <3> QED BY <2>1, <3>1, <3>2
  <2>4. bidsOf'[i][bidder] = amount BY <1>1, <2>2
  <2>5. ASSUME NEW j \in 1..n
        PROVE  /\ \A a \in FeeAccounts : bidsOf'[j][a] <= auctions'[j].bid
               /\ auctions'[j].bidder # NoBidder => bidsOf'[j][auctions'[j].bidder] = auctions'[j].bid
    <3>1. CASE j = i BY <3>1, <2>2, <2>3, <2>4
    <3>2. CASE j # i BY <3>2, <1>3, <2>2
    <3> QED BY <3>1, <3>2
  <2>6. DOMAIN auctions' = 1..n BY <2>2
  <2>7. HighestBidLeads' BY <2>5, <2>6 DEF HighestBidLeads
  <2> QED BY <1>2, <2>1, <2>2, <2>7 DEF AuctionInv
<1>7. ASSUME NEW i \in 1..n, SettleAuction(i) PROVE AuctionInv'
  <2>1. /\ auctions' = [auctions EXCEPT ![i].settled = TRUE] /\ bidsOf' = bidsOf
        /\ feeTime' = feeTime
    BY <1>7 DEF SettleAuction
  <2>2. /\ auctions' \in [1..n -> AuctionRecord]
        /\ \A j \in 1..n : /\ auctions'[j].bid = auctions[j].bid
                           /\ auctions'[j].bidder = auctions[j].bidder
    <3> DEFINE sold == [auctions[i] EXCEPT !.settled = TRUE]
    <3>1. auctions' = [auctions EXCEPT ![i] = sold] BY <2>1
    <3>2. auctions[i] \in AuctionRecord BY <1>1
    <3>3. sold \in AuctionRecord /\ sold.bid = auctions[i].bid /\ sold.bidder = auctions[i].bidder
      BY <3>2 DEF AuctionRecord
    <3> HIDE DEF sold
    <3> QED BY <1>1, <3>1, <3>3
  <2>3. DOMAIN auctions' = 1..n BY <2>2
  <2>4. ASSUME NEW j \in 1..n
        PROVE  /\ \A a \in FeeAccounts : bidsOf'[j][a] <= auctions'[j].bid
               /\ auctions'[j].bidder # NoBidder => bidsOf'[j][auctions'[j].bidder] = auctions'[j].bid
    BY <1>3, <2>1, <2>2
  <2>5. HighestBidLeads' BY <2>3, <2>4 DEF HighestBidLeads
  <2> QED BY <1>1, <1>2, <2>1, <2>2, <2>5 DEF AuctionInv
<1>8. ASSUME UNCHANGED <<feeTime, auctions, bidsOf>> PROVE AuctionInv'
  BY <1>2, <1>4, <1>8
<1>9. \A amount : RecordFee(amount) => UNCHANGED <<feeTime, auctions, bidsOf>>
  BY DEF RecordFee
<1>10. CASE Collecting
  <2>1. CASE FeeTick BY <2>1, <1>2, <1>4 DEF FeeTick
  <2>2. CASE DistributeFees BY <2>2, <1>8 DEF DistributeFees
  <2>3. ASSUME NEW amount, NEW transferred, CollectFee(amount, transferred) PROVE AuctionInv'
    BY <2>3, <1>8, <1>9 DEF CollectFee
  <2>4. ASSUME NEW a, AddValidator(a) \/ RemoveValidator(a) \/ ClaimRewards(a) PROVE AuctionInv'
    BY <2>4, <1>8 DEF AddValidator, RemoveValidator, ClaimRewards
  <2>5. ASSUME NEW rates, SetDistributionRates(rates) PROVE AuctionInv'
    BY <2>5, <1>8 DEF SetDistributionRates
  <2> QED BY <1>8, <1>9, <1>10, <2>1, <2>2, <2>3, <2>4, <2>5 DEF Collecting
<1>11. CASE Pricing BY <1>8, <1>11 DEF Pricing, UpdateFeeParams, SetOperationConfig
<1>12. CASE Auctioning BY <1>2, <1>5, <1>6, <1>7, <1>12 DEF Auctioning
<1>13. CASE UNCHANGED feeVars BY <1>8, <1>13 DEF feeVars
<1> QED BY <1>10, <1>11, <1>12, <1>13 DEF FeeNext

LEMMA AuctionsStart == FeeInit => AuctionInv
<1> SUFFICES ASSUME FeeInit PROVE AuctionInv OBVIOUS
<1>1. feeTime = 0 /\ auctions = <<>> /\ bidsOf = <<>> BY DEF FeeInit
<1>2. auctions \in [1..0 -> AuctionRecord] /\ bidsOf \in [1..0 -> [FeeAccounts -> Int]]
  BY <1>1
<1>3. DOMAIN auctions = {} BY <1>1
<1>4. HighestBidLeads BY <1>3 DEF HighestBidLeads
<1>5. 0 \in Nat OBVIOUS
<1> QED BY <1>1, <1>2, <1>4, <1>5 DEF AuctionInv

(* Whoever bids in whatever order, an auction is led by the highest bid that *)
(* was ever placed in it, and the account that placed it is the one named.   *)
THEOREM AuctionsLedByHighest == FeeSpec => []HighestBidLeads
<1>1. FeeInit => AuctionInv BY AuctionsStart
<1>2. AuctionInv /\ [FeeNext]_feeVars => AuctionInv' BY StepAuctions
<1>3. AuctionInv => HighestBidLeads BY DEF AuctionInv
<1> QED BY <1>1, <1>2, <1>3, PTL DEF FeeSpec

-----------------------------------------------------------------------------
(* The rewards: fees are natural numbers, so that what is collected only     *)
(* grows, and the shares stay within the whole.                              *)
FeeConfig == [base : Nat, min : Nat, max : Nat, sensitivity : Nat, demand : Nat]

FeesTyped ==
  /\ feeTime \in Nat /\ lastReset \in Nat /\ recentOps \in Nat
  /\ defaultConfig \in FeeConfig
  /\ opConfig \in [FeeOps -> FeeConfig \cup {NoConfig}]

RewardsTyped ==
  /\ treasury \in Nat /\ collected \in Nat /\ distributed \in Nat /\ claimed \in Nat
  /\ pendingRewards \in [FeeAccounts -> Nat]
  /\ validators \subseteq FeeAccounts
  /\ shares \in Nat \X Nat /\ shares[1] <= 10000

RewardsInv == FeesTyped /\ RewardsTyped /\ RewardsAreCovered

(* Whatever the congestion, a fee is a natural number.                       *)
LEMMA FeeIsNatural ==
  ASSUME FeesTyped
  PROVE  CalculateFee("PremiumListingBid") \in Nat
<1> DEFINE load == (recentOps * 100) \div OpsWindow
<1>1. load \in Nat
  <2>1. recentOps * 100 \in Nat /\ OpsWindow \in Nat \ {0} BY FeeAssumption DEF FeesTyped
  <2> QED BY <2>1, QuotientFits
<1> HIDE DEF load
<1>2. CongestionIndex \in Nat
  <2>1. CongestionIndex = IF feeTime - lastReset > WindowSecs THEN 0 ELSE AtMost(load, 100)
    BY DEF CongestionIndex, load
  <2> QED BY <1>1, <2>1 DEF AtMost
<1>3. DemandFactorBp \in Int
  <2>1. defaultConfig.demand * CongestionIndex \in Nat BY <1>2 DEF FeesTyped, FeeConfig
  <2> QED BY <2>1 DEF DemandFactorBp
<1>4. ConfigOf("PremiumListingBid") \in FeeConfig
  BY FeeAssumption DEF ConfigOf, FeesTyped
<1>5. ASSUME NEW config \in FeeConfig, NEW congestion \in Nat, NEW demandBp \in Int
      PROVE  DynamicFee(config, congestion, demandBp) \in Nat
  <2> DEFINE congestionBp == (congestion * config.sensitivity * 200) \div 10000
             multiplierBp == 10000 + congestionBp + AtMost(demandBp, 5000)
             fee == (config.base * multiplierBp) \div 10000
  <2>1. {config.base, config.min, config.max, config.sensitivity} \subseteq Nat BY DEF FeeConfig
  <2>2. congestion * config.sensitivity * 200 \in Nat BY <2>1
  <2>3. congestionBp \in Int BY <2>2
  <2> HIDE DEF congestionBp
  <2>4. multiplierBp \in Int BY <2>3 DEF AtMost
  <2> HIDE DEF multiplierBp
  <2>5. config.base * multiplierBp \in Int BY <2>1, <2>4
  <2>6. fee \in Int BY <2>5
  <2> HIDE DEF fee
  <2>7. Clamp(fee, config.min, config.max) \in Nat BY <2>1, <2>6 DEF Clamp, AtLeast, AtMost
  <2> QED BY <2>7 DEF DynamicFee, fee, multiplierBp, congestionBp
<1> QED BY <1>2, <1>3, <1>4, <1>5 DEF CalculateFee

(* The steps that have nothing to do with the books of the rewards.          *)
LEMMA BooksUntouched ==
  ASSUME RewardsTyped, RewardsAreCovered,
         UNCHANGED <<treasury, collected, distributed, pendingRewards, claimed, validators, shares>>
  PROVE  RewardsTyped' /\ RewardsAreCovered'
BY DEF RewardsTyped, RewardsAreCovered

(* What is collected goes to the treasury.                                   *)
LEMMA CollectingCovers ==
  ASSUME RewardsTyped, RewardsAreCovered, NEW amount \in Nat, Collects(amount),
         UNCHANGED <<distributed, pendingRewards, claimed, validators, shares>>
  PROVE  RewardsTyped' /\ RewardsAreCovered'
<1>1. treasury' = treasury + amount /\ collected' = collected + amount BY DEF Collects
<1>2. treasury' \in Nat /\ collected' \in Nat /\ treasury' + distributed <= collected'
  BY <1>1 DEF RewardsTyped, RewardsAreCovered
<1>3. RewardsTyped' BY <1>2 DEF RewardsTyped
<1>4. RewardsAreCovered' BY <1>2 DEF RewardsAreCovered
<1> QED BY <1>3, <1>4

(* The validators together get their share of the treasury at most.          *)
LEMMA SplitFits ==
  ASSUME RewardsTyped
  PROVE  /\ PerValidator \in Nat
         /\ PerValidator * Cardinality(validators) \in Nat
         /\ PerValidator * Cardinality(validators) <= treasury
<1> DEFINE n == Cardinality(validators)
           total == (treasury * shares[1]) \div 10000
<1>1. IsFiniteSet(validators) BY FeeAssumption, FS_Subset DEF RewardsTyped
<1>2. n \in Nat BY <1>1, FS_CardinalityType
<1>3. total \in 0..treasury
  <2> DEFINE share == shares[1]
  <2>1. share \in Nat /\ share <= 10000 /\ treasury \in Nat BY DEF RewardsTyped
  <2> HIDE DEF share
  <2>2. share * treasury \in Nat /\ share * treasury <= 10000 * treasury BY <2>1, ProductGrows
  <2>3. treasury * share \in Nat /\ treasury * share <= treasury * 10000 BY <2>1, <2>2
  <2>4. (treasury * share) \div 10000 \in 0..treasury BY <2>1, <2>3, QuotientWithin
  <2> QED BY <2>4 DEF share
<1>4. PerValidator = IF validators = {} THEN 0 ELSE total \div n BY DEF PerValidator
<1>5. treasury \in Nat BY DEF RewardsTyped
<1> HIDE DEF total
<1>6. CASE validators = {}
  <2>1. PerValidator = 0 BY <1>4, <1>6
  <2> HIDE DEF n
  <2>2. PerValidator * n = 0 BY <1>2, <2>1
  <2> QED BY <1>5, <2>1, <2>2 DEF n
<1>7. CASE validators # {}
  <2>1. n # 0 BY <1>1, <1>7, FS_EmptySet
  <2> DEFINE per == total \div n
  <2>2. PerValidator = per BY <1>4, <1>7
  <2> HIDE DEF n
  <2>3. per \in Nat /\ per * n <= total BY <1>2, <1>3, <2>1, QuotientFits
  <2> HIDE DEF per
  <2>4. per * n \in Nat BY <1>2, <2>3
  <2>5. per * n <= treasury BY <1>3, <1>5, <2>3, <2>4
  <2> QED BY <2>2, <2>3, <2>4, <2>5 DEF n
<1> QED BY <1>6, <1>7

LEMMA DistributingCovers ==
  ASSUME RewardsTyped, RewardsAreCovered, DistributeFees
  PROVE  RewardsTyped' /\ RewardsAreCovered'
<1> DEFINE split == PerValidator * Cardinality(validators)
           each  == [a \in FeeAccounts |-> IF a \in validators THEN PerValidator ELSE 0]
           after == [a \in FeeAccounts |-> pendingRewards[a] + each[a]]
<1>1. /\ pendingRewards' = after /\ distributed' = distributed + split /\ treasury' = 0
      /\ UNCHANGED <<collected, claimed, validators, shares>>
  BY DEF DistributeFees
<1>2. PerValidator \in Nat /\ split \in Nat /\ split <= treasury BY SplitFits
<1>3. IsFiniteSet(FeeAccounts) /\ validators \in SUBSET FeeAccounts
  BY FeeAssumption DEF RewardsTyped
<1>4. pendingRewards \in [FeeAccounts -> Nat] BY DEF RewardsTyped
<1>5. \A a \in FeeAccounts : each[a] = IF a \in validators THEN PerValidator ELSE 0 OBVIOUS
<1>6. \A a \in FeeAccounts : each[a] \in Nat BY <1>2, <1>5
<1> HIDE DEF each
<1>7. after \in [FeeAccounts -> Nat] BY <1>4, <1>6
<1>8. \A a \in FeeAccounts :
        pendingRewards[a] \in Int /\ each[a] \in Int /\ after[a] = pendingRewards[a] + each[a]
  BY <1>4, <1>6
<1> HIDE DEF after, split
<1>9. SumFunctionOnSet(after, FeeAccounts)
        = SumFunctionOnSet(pendingRewards, FeeAccounts) + SumFunctionOnSet(each, FeeAccounts)
  BY <1>3, <1>8, SumOfSums
<1>10. SumFunctionOnSet(each, FeeAccounts) = split
  BY <1>2, <1>3, <1>5, SumOfEqual DEF split
<1>11. SumFunctionOnSet(pendingRewards, FeeAccounts) \in Int BY <1>3, <1>8, SumType
<1>12. SumFunctionOnSet(pendingRewards', FeeAccounts) + claimed' = distributed'
  BY <1>1, <1>2, <1>9, <1>10, <1>11 DEF RewardsTyped, RewardsAreCovered
<1>13. treasury' + distributed' <= collected' /\ distributed' \in Nat /\ treasury' \in Nat
  BY <1>1, <1>2 DEF RewardsTyped, RewardsAreCovered
<1>14. pendingRewards' \in [FeeAccounts -> Nat] BY <1>1, <1>7
<1>15. UNCHANGED <<collected, claimed, validators, shares>> BY <1>1
<1>16. RewardsTyped' BY <1>13, <1>14, <1>15 DEF RewardsTyped
<1>17. RewardsAreCovered' BY <1>12, <1>13 DEF RewardsAreCovered
<1> QED BY <1>16, <1>17

LEMMA ClaimingCovers ==
  ASSUME RewardsTyped, RewardsAreCovered, NEW account \in FeeAccounts, ClaimRewards(account)
  PROVE  RewardsTyped' /\ RewardsAreCovered'
<1> DEFINE after == [pendingRewards EXCEPT ![account] = 0]
<1>1. /\ pendingRewards' = after /\ claimed' = claimed + pendingRewards[account]
      /\ UNCHANGED <<treasury, collected, distributed, validators, shares>>
  BY DEF ClaimRewards
<1>2. IsFiniteSet(FeeAccounts) BY FeeAssumption
<1>3. pendingRewards \in [FeeAccounts -> Nat] BY DEF RewardsTyped
<1>4. /\ after \in [FeeAccounts -> Nat] /\ after[account] = 0
      /\ \A a \in FeeAccounts \ {account} : after[a] = pendingRewards[a]
  BY <1>3
<1> HIDE DEF after
<1>5. \A a \in FeeAccounts : pendingRewards[a] \in Int BY <1>3
<1>6. SumFunctionOnSet(after, FeeAccounts)
        = SumFunctionOnSet(pendingRewards, FeeAccounts) - pendingRewards[account] + 0
  BY <1>2, <1>4, <1>5, SumUpdate
<1>7. SumFunctionOnSet(pendingRewards, FeeAccounts) \in Int BY <1>2, <1>5, SumType
<1>8. pendingRewards[account] \in Nat BY <1>3
<1>9. SumFunctionOnSet(pendingRewards', FeeAccounts) + claimed' = distributed'
  BY <1>1, <1>6, <1>7, <1>8 DEF RewardsTyped, RewardsAreCovered
<1>10. claimed' \in Nat BY <1>1, <1>8 DEF RewardsTyped
<1>11. pendingRewards' \in [FeeAccounts -> Nat] BY <1>1, <1>4
<1>12. UNCHANGED <<treasury, collected, distributed, validators, shares>> BY <1>1
<1> QED BY <1>9, <1>10, <1>11, <1>12 DEF RewardsTyped, RewardsAreCovered

(* Who is a validator, and what the validators' share is, is decided without *)
(* a look at the books.                                                      *)
LEMMA SettingsCover ==
  ASSUME RewardsTyped, RewardsAreCovered,
         \/ \E a \in FeeAccounts : AddValidator(a) \/ RemoveValidator(a)
         \/ \E rates \in Shares : SetDistributionRates(rates)
  PROVE  RewardsTyped' /\ RewardsAreCovered'
<1>1. UNCHANGED <<treasury, collected, distributed, pendingRewards, claimed>>
  BY DEF AddValidator, RemoveValidator, SetDistributionRates
<1>2. validators' \subseteq FeeAccounts /\ shares' \in Nat \X Nat /\ shares'[1] <= 10000
  <2>1. CASE \E a \in FeeAccounts : AddValidator(a) \/ RemoveValidator(a)
    BY <2>1 DEF RewardsTyped, AddValidator, RemoveValidator
  <2>2. ASSUME NEW rates \in Shares, SetDistributionRates(rates)
        PROVE  validators' \subseteq FeeAccounts /\ shares' \in Nat \X Nat /\ shares'[1] <= 10000
    <3>1. rates \in Nat \X Nat BY FeeAssumption
    <3>2. shares' = rates /\ rates[1] + rates[2] <= 10000 /\ validators' = validators
      BY <2>2 DEF SetDistributionRates
    <3>3. rates[1] \in Nat /\ rates[2] \in Nat BY <3>1
    <3>4. rates[1] <= 10000 BY <3>2, <3>3
    <3> QED BY <3>1, <3>2, <3>4 DEF RewardsTyped
  <2> QED BY <2>1, <2>2
<1> QED BY <1>1, <1>2 DEF RewardsTyped, RewardsAreCovered

(* The other half: times, counts and configurations keep their types.        *)
LEMMA FeesStayTyped ==
  ASSUME FeesTyped, [FeeNext]_feeVars
  PROVE  FeesTyped'
<1>1. ASSUME UNCHANGED <<feeTime, lastReset, recentOps, defaultConfig, opConfig>> PROVE FeesTyped'
  BY <1>1 DEF FeesTyped
<1>2. ASSUME NEW amount, RecordFee(amount) PROVE FeesTyped'
  <2>1. lastReset' \in Nat /\ recentOps' \in Nat
    BY <1>2, FeeAssumption DEF RecordFee, FeesTyped, AtMost
  <2>2. UNCHANGED <<feeTime, defaultConfig, opConfig>> BY <1>2 DEF RecordFee
  <2> QED BY <2>1, <2>2 DEF FeesTyped
<1>3. CASE Collecting
  <2>1. CASE FeeTick BY <2>1 DEF FeeTick, FeesTyped
  <2>2. CASE DistributeFees BY <1>1, <2>2 DEF DistributeFees
  <2>3. ASSUME NEW amount, NEW transferred, CollectFee(amount, transferred) PROVE FeesTyped'
    BY <1>2, <2>3 DEF CollectFee
  <2>4. ASSUME NEW a, AddValidator(a) \/ RemoveValidator(a) \/ ClaimRewards(a) PROVE FeesTyped'
    BY <1>1, <2>4 DEF AddValidator, RemoveValidator, ClaimRewards
  <2>5. ASSUME NEW rates, SetDistributionRates(rates) PROVE FeesTyped'
    BY <1>1, <2>5 DEF SetDistributionRates
  <2> QED BY <1>2, <1>3, <2>1, <2>2, <2>3, <2>4, <2>5 DEF Collecting
<1>4. CASE Auctioning
  BY <1>1, <1>4 DEF Auctioning, CreateAuction, PlaceBid, SettleAuction
<1>5. CASE UpdateFeeParams
  <2> DEFINE base == AdjustedBase(defaultConfig, CongestionIndex)
  <2>1. defaultConfig' = [defaultConfig EXCEPT !.base = base] BY <1>5 DEF UpdateFeeParams
  <2>2. defaultConfig \in FeeConfig BY DEF FeesTyped
  <2>3. base \in Nat
    <3>1. \A b \in Nat : (b * 105) \div 100 \in Nat /\ (b * 95) \div 100 \in Nat OBVIOUS
    <3>2. defaultConfig.base \in Nat /\ defaultConfig.min \in Nat /\ defaultConfig.max \in Nat
      BY <2>2 DEF FeeConfig
    <3> QED BY <3>1, <3>2 DEF AdjustedBase, AtMost, AtLeast
  <2> HIDE DEF base
  <2>4. defaultConfig' \in FeeConfig BY <2>1, <2>2, <2>3 DEF FeeConfig
  <2>5. UNCHANGED <<feeTime, lastReset, recentOps, opConfig>> BY <1>5 DEF UpdateFeeParams
  <2> QED BY <2>4, <2>5 DEF FeesTyped
<1>6. ASSUME NEW op \in FeeOps, NEW config \in FeeConfigs, SetOperationConfig(op, config)
      PROVE  FeesTyped'
  <2>1. config \in FeeConfig BY FeeAssumption DEF FeeConfig
  <2>2. opConfig' = [opConfig EXCEPT ![op] = config] BY <1>6 DEF SetOperationConfig
  <2>3. opConfig' \in [FeeOps -> FeeConfig \cup {NoConfig}] BY <2>1, <2>2 DEF FeesTyped
  <2>4. UNCHANGED <<feeTime, lastReset, recentOps, defaultConfig>> BY <1>6 DEF SetOperationConfig
  <2> QED BY <2>3, <2>4 DEF FeesTyped
<1>7. CASE UNCHANGED feeVars BY <1>1, <1>7 DEF feeVars
<1> QED BY <1>3, <1>4, <1>5, <1>6, <1>7 DEF FeeNext, Pricing

LEMMA StepRewards ==
  ASSUME RewardsInv, [FeeNext]_feeVars
  PROVE  RewardsInv'
<1> USE DEF RewardsInv
<1>1. FeesTyped' BY FeesStayTyped
<1> SUFFICES RewardsTyped' /\ RewardsAreCovered' BY <1>1
<1>2. ASSUME NEW amount \in Nat, RecordFee(amount) PROVE RewardsTyped' /\ RewardsAreCovered'
  BY <1>2, CollectingCovers DEF RecordFee
<1>3. CASE Collecting
  <2>1. CASE FeeTick BY <2>1, BooksUntouched DEF FeeTick
  <2>2. CASE DistributeFees BY <2>2, DistributingCovers
  <2>3. CASE \E amount \in FeeAmounts : RecordFee(amount) BY <1>2, <2>3, FeeAssumption
  <2>4. CASE \E amount, transferred \in FeeAmounts : CollectFee(amount, transferred)
    BY <1>2, <2>4, FeeAssumption DEF CollectFee
  <2>5. CASE \E a \in FeeAccounts : ClaimRewards(a) BY <2>5, ClaimingCovers
  <2>6. CASE \/ \E a \in FeeAccounts : AddValidator(a) \/ RemoveValidator(a)
             \/ \E rates \in Shares : SetDistributionRates(rates)
    BY <2>6, SettingsCover
  <2> QED BY <1>3, <2>1, <2>2, <2>3, <2>4, <2>5, <2>6 DEF Collecting
<1>4. ASSUME NEW seller \in FeeAccounts, NEW minBid \in Bids, NEW secs \in AuctionSecs,
             CreateAuction(seller, minBid, secs)
      PROVE  RewardsTyped' /\ RewardsAreCovered'
  BY <1>4, FeeIsNatural, CollectingCovers DEF CreateAuction
<1>5. ASSUME NEW i, SettleAuction(i) \/ \E bidder, amount : PlaceBid(bidder, i, amount)
      PROVE  RewardsTyped' /\ RewardsAreCovered'
  BY <1>5, BooksUntouched DEF SettleAuction, PlaceBid
<1>6. CASE Auctioning BY <1>4, <1>5, <1>6 DEF Auctioning
<1>7. CASE Pricing BY <1>7, BooksUntouched DEF Pricing, UpdateFeeParams, SetOperationConfig
<1>8. CASE UNCHANGED feeVars BY <1>8, BooksUntouched DEF feeVars
<1> QED BY <1>3, <1>6, <1>7, <1>8 DEF FeeNext

LEMMA RewardsStart == FeeInit => RewardsInv
<1> SUFFICES ASSUME FeeInit PROVE RewardsInv OBVIOUS
<1>1. FeesTyped BY FeeAssumption DEF FeeInit, FeesTyped, FeeConfig
<1>2. RewardsTyped BY DEF FeeInit, RewardsTyped
<1>3. \A a \in FeeAccounts : pendingRewards[a] = 0 BY DEF FeeInit
<1>4. SumFunctionOnSet(pendingRewards, FeeAccounts) = 0 BY <1>3, FeeAssumption, SumZero
<1>5. treasury = 0 /\ collected = 0 /\ distributed = 0 /\ claimed = 0 BY DEF FeeInit
<1>6. RewardsAreCovered BY <1>4, <1>5 DEF RewardsAreCovered
<1> QED BY <1>1, <1>2, <1>6 DEF RewardsInv

(* Whoever collects, distributes and claims in whatever order, and whatever  *)
(* validators come and go, nothing is promised that was not collected, and   *)
(* what was distributed is claimed or pending to the last unit.              *)
THEOREM RewardsCovered == FeeSpec => []RewardsAreCovered
<1>1. FeeInit => RewardsInv BY RewardsStart
<1>2. RewardsInv /\ [FeeNext]_feeVars => RewardsInv' BY StepRewards
<1>3. RewardsInv => RewardsAreCovered BY DEF RewardsInv
<1> QED BY <1>1, <1>2, <1>3, PTL DEF FeeSpec

-----------------------------------------------------------------------------
(* The registry: a record keeps what the screenings since the verification   *)
(* made of it, and an account's one pending request is its last.             *)
Refusals == {<<"aml", FALSE>>, <<"sanctions", FALSE>>, <<"verification", FALSE>>}
Finding == {<<"aml", TRUE>>, <<"sanctions", TRUE>>} \cup Refusals

(* What is known of an account, its record being d, follows from what        *)
(* befell it: f is that account's part of "since".                           *)
Earns(d, f) ==
  /\ f \subseteq Finding
  /\ d # NoData =>
       /\ DOMAIN d = {"status", "jurisdiction", "risk", "aml", "sanctions", "consent",
                      "expiry", "retention"}
       /\ d.status \in {"Verified", "Rejected", "Expired"}
       /\ d.status = "Verified" => f \cap Refusals = {}
       /\ d.aml => <<"aml", TRUE>> \in f
       /\ d.sanctions => <<"sanctions", TRUE>> \in f

PendingIsLast ==
  \A r \in DOMAIN inquiries : inquiries[r].status = "Pending" => inquiryOf[inquiries[r].account] = r

Inquiry == [account : Subjects, jurisdiction : Jurisdictions, status : {"Pending", "Verified"}]

RegistryInv ==
  /\ DOMAIN data = Subjects /\ since \in [Subjects -> SUBSET Finding]
  /\ inquiries \in Seq(Inquiry) /\ inquiryOf \in [Subjects -> Nat]
  /\ \A a \in Subjects : Earns(data[a], since[a])
  /\ PendingIsLast

(* The part of the invariant about the records.                              *)
RecordsEarned ==
  /\ DOMAIN data = Subjects /\ since \in [Subjects -> SUBSET Finding]
  /\ \A a \in Subjects : Earns(data[a], since[a])

RequestsListed ==
  inquiries \in Seq(Inquiry) /\ inquiryOf \in [Subjects -> Nat] /\ PendingIsLast

LEMMA OneRecord ==
  ASSUME RecordsEarned, NEW a \in Subjects, NEW d, NEW f,
         data' = [data EXCEPT ![a] = d], since' = [since EXCEPT ![a] = f], Earns(d, f)
  PROVE  RecordsEarned'
<1>1. f \in SUBSET Finding BY DEF Earns
<1>2. DOMAIN data' = Subjects /\ since' \in [Subjects -> SUBSET Finding]
  BY <1>1 DEF RecordsEarned
<1>3. \A b \in Subjects : Earns(data'[b], since'[b])
  <2>1. \A b \in Subjects : /\ data'[b] = IF b = a THEN d ELSE data[b]
                            /\ since'[b] = IF b = a THEN f ELSE since[b]
    BY DEF RecordsEarned
  <2>2. Earns(data'[a], since'[a]) BY <2>1
  <2>3. ASSUME NEW b \in Subjects, b # a PROVE Earns(data'[b], since'[b])
    <3>1. Earns(data[b], since[b]) BY DEF RecordsEarned
    <3>2. data'[b] = data[b] /\ since'[b] = since[b] BY <2>1, <2>3
    <3> QED BY Zenon, <3>1, <3>2
  <2> QED BY <2>2, <2>3
<1> QED BY <1>2, <1>3 DEF RecordsEarned

LEMMA VerifiesEarned ==
  ASSUME RecordsEarned, NEW a \in Subjects, NEW j, NEW risk, NEW doc, NEW bio, NEW score,
         Verifies(a, j, risk, doc, bio, score)
  PROVE  RecordsEarned'
<1> DEFINE d == [status |-> "Verified", jurisdiction |-> j, risk |-> risk,
                 aml |-> FALSE, sanctions |-> FALSE, consent |-> "NotGiven",
                 expiry |-> registryTime + ValidFor, retention |-> registryTime + rules[j].retention]
<1>1. data' = [data EXCEPT ![a] = d] /\ since' = [since EXCEPT ![a] = {}]
  BY Zenon DEF Verifies
<1>2. Earns(d, {}) BY DEF Earns
<1> HIDE DEF d
<1> QED BY <1>1, <1>2, OneRecord

(* A step on the record of one account that is known.                        *)
LEMMA StepRecords ==
  ASSUME RecordsEarned, NEW a \in Subjects, Known(a),
         \/ \E passed \in BOOLEAN, factors \in 0..3 : \E caller : UpdateAmlStatus(caller, a, passed, factors)
         \/ \E passed \in BOOLEAN : \E caller : UpdateSanctionsStatus(caller, a, passed)
         \/ \E caller : RevokeVerification(caller, a)
         \/ \E consent, caller : UpdateConsent(caller, a, consent)
         \/ RequestDataDeletion(a)
  PROVE  RecordsEarned'
<1> DEFINE d == data[a]
           f == since[a]
           fields == {"status", "jurisdiction", "risk", "aml", "sanctions", "consent",
                      "expiry", "retention"}
<1>1. /\ f \subseteq Finding /\ DOMAIN d = fields
      /\ d.status \in {"Verified", "Rejected", "Expired"}
      /\ d.status = "Verified" => f \cap Refusals = {}
      /\ d.aml => <<"aml", TRUE>> \in f
      /\ d.sanctions => <<"sanctions", TRUE>> \in f
  BY DEF RecordsEarned, Earns, Known
<1>2. ASSUME NEW e, DOMAIN e = fields PROVE e # NoData
  <2>1. "aml" \in DOMAIN e /\ "aml" \notin DOMAIN NoData BY <1>2 DEF NoData
  <2> QED BY <2>1
<1>3. DOMAIN data = Subjects /\ since \in [Subjects -> SUBSET Finding] BY DEF RecordsEarned
<1>4. ASSUME NEW caller, NEW passed \in BOOLEAN, NEW factors \in 0..3,
             UpdateAmlStatus(caller, a, passed, factors)
      PROVE  RecordsEarned'
  <2> DEFINE rejected == ~ passed \/ factors >= 3
             status == IF rejected THEN "Rejected" ELSE d.status
             risk == IF rejected THEN "Prohibited" ELSE IF factors = 2 THEN "High"
                     ELSE IF factors = 1 THEN "Medium" ELSE d.risk
             e == [d EXCEPT !.aml = passed, !.status = status, !.risk = risk]
             g == f \cup {<<"aml", passed>>}
  <2>1. data' = [data EXCEPT ![a] = e] /\ since' = [since EXCEPT ![a] = g]
    BY <1>3, <1>4 DEF UpdateAmlStatus, Screened
  <2>2. /\ DOMAIN e = fields /\ e.aml = passed /\ e.sanctions = d.sanctions /\ e.status = status
    BY <1>1
  <2>3. /\ status \in {"Verified", "Rejected", "Expired"}
        /\ status = "Verified" => d.status = "Verified" /\ passed
    <3>1. status = d.status \/ status = "Rejected" OBVIOUS
    <3>2. status = "Verified" => passed OBVIOUS
    <3> HIDE DEF status
    <3> QED BY <1>1, <3>1, <3>2
  <2>4. g \subseteq Finding
    <3>1. <<"aml", TRUE>> \in Finding /\ <<"aml", FALSE>> \in Finding
      BY DEF Finding, Refusals
    <3>2. passed = TRUE \/ passed = FALSE OBVIOUS
    <3>3. <<"aml", passed>> \in Finding BY <3>1, <3>2
    <3> QED BY <1>1, <3>3
  <2>5. status = "Verified" => g \cap Refusals = {}
    <3> SUFFICES ASSUME status = "Verified" PROVE g \cap Refusals = {} OBVIOUS
    <3>1. passed = TRUE /\ f \cap Refusals = {} BY <1>1, <2>3
    <3>2. <<"aml", TRUE>> \notin Refusals BY DEF Refusals
    <3>3. g = f \cup {<<"aml", TRUE>>} BY <3>1
    <3> QED BY <3>1, <3>2, <3>3
  <2>6. (passed => <<"aml", TRUE>> \in g) /\ (d.sanctions => <<"sanctions", TRUE>> \in g)
    BY <1>1
  <2> HIDE DEF d, f, status, risk, e, g, fields
  <2>7. Earns(e, g) BY <2>2, <2>3, <2>4, <2>5, <2>6 DEF Earns, fields
  <2> QED BY <2>1, <2>7, OneRecord
<1>5. ASSUME NEW caller, NEW passed \in BOOLEAN, UpdateSanctionsStatus(caller, a, passed)
      PROVE  RecordsEarned'
  <2> DEFINE status == IF passed THEN d.status ELSE "Rejected"
             risk == IF passed THEN d.risk ELSE "Prohibited"
             e == [d EXCEPT !.sanctions = passed, !.status = status, !.risk = risk]
             g == f \cup {<<"sanctions", passed>>}
  <2>1. data' = [data EXCEPT ![a] = e] /\ since' = [since EXCEPT ![a] = g]
    BY <1>3, <1>5 DEF UpdateSanctionsStatus, Screened
  <2>2. /\ DOMAIN e = fields /\ e.aml = d.aml /\ e.sanctions = passed /\ e.status = status
    BY <1>1
  <2>3. /\ status \in {"Verified", "Rejected", "Expired"}
        /\ status = "Verified" => d.status = "Verified" /\ passed
    <3>1. status = d.status \/ status = "Rejected" OBVIOUS
    <3>2. status = "Verified" => passed OBVIOUS
    <3> HIDE DEF status
    <3> QED BY <1>1, <3>1, <3>2
  <2>4. g \subseteq Finding
    <3>1. <<"sanctions", TRUE>> \in Finding /\ <<"sanctions", FALSE>> \in Finding
      BY DEF Finding, Refusals
    <3>2. passed = TRUE \/ passed = FALSE OBVIOUS
    <3>3. <<"sanctions", passed>> \in Finding BY <3>1, <3>2
    <3> QED BY <1>1, <3>3
  <2>5. status = "Verified" => g \cap Refusals = {}
    <3> SUFFICES ASSUME status = "Verified" PROVE g \cap Refusals = {} OBVIOUS
    <3>1. passed = TRUE /\ f \cap Refusals = {} BY <1>1, <2>3
    <3>2. <<"sanctions", TRUE>> \notin Refusals BY DEF Refusals
    <3>3. g = f \cup {<<"sanctions", TRUE>>} BY <3>1
    <3> QED BY <3>1, <3>2, <3>3
  <2>6. (d.aml => <<"aml", TRUE>> \in g) /\ (passed => <<"sanctions", TRUE>> \in g)
    BY <1>1
  <2> HIDE DEF d, f, status, risk, e, g, fields
  <2>7. Earns(e, g) BY <2>2, <2>3, <2>4, <2>5, <2>6 DEF Earns, fields
  <2> QED BY <2>1, <2>7, OneRecord
<1>6. ASSUME NEW status \in {"Rejected", "Expired"},
             data' = [data EXCEPT ![a].status = status], Screened(a, "verification", FALSE)
      PROVE  RecordsEarned'
  <2> DEFINE e == [d EXCEPT !.status = status]
             g == f \cup {<<"verification", FALSE>>}
  <2>1. data' = [data EXCEPT ![a] = e] /\ since' = [since EXCEPT ![a] = g]
    BY <1>3, <1>6 DEF Screened
  <2>2. DOMAIN e = fields /\ e.aml = d.aml /\ e.sanctions = d.sanctions /\ e.status = status
    BY <1>1
  <2>3. g \subseteq Finding BY <1>1 DEF Finding, Refusals
  <2>4. (d.aml => <<"aml", TRUE>> \in g) /\ (d.sanctions => <<"sanctions", TRUE>> \in g)
    BY <1>1
  <2> HIDE DEF d, f, e, g, fields
  <2>5. Earns(e, g) BY <2>2, <2>3, <2>4 DEF Earns, fields
  <2> QED BY <2>1, <2>5, OneRecord
<1>7. ASSUME NEW caller, NEW consent, UpdateConsent(caller, a, consent)
      PROVE  RecordsEarned'
  <2> DEFINE e == [d EXCEPT !.consent = consent]
  <2>1. data' = [data EXCEPT ![a] = e] /\ since' = [since EXCEPT ![a] = f]
    BY <1>3, <1>7 DEF UpdateConsent
  <2>2. DOMAIN e = fields /\ e.aml = d.aml /\ e.sanctions = d.sanctions /\ e.status = d.status
    BY <1>1
  <2> HIDE DEF d, f, e, fields
  <2>3. Earns(e, f) BY <1>1, <2>2 DEF Earns, fields
  <2> QED BY <2>1, <2>3, OneRecord
<1>8. \A caller : RevokeVerification(caller, a) =>
        data' = [data EXCEPT ![a].status = "Rejected"] /\ Screened(a, "verification", FALSE)
  BY DEF RevokeVerification
<1>9. RequestDataDeletion(a) =>
        data' = [data EXCEPT ![a].status = "Expired"] /\ Screened(a, "verification", FALSE)
  BY DEF RequestDataDeletion
<1> QED BY <1>4, <1>5, <1>6, <1>7, <1>8, <1>9

LEMMA StepRegistry ==
  ASSUME RegistryInv, [ComplianceNext]_complianceVars
  PROVE  RegistryInv'
<1>1. RecordsEarned /\ RequestsListed BY DEF RegistryInv, RecordsEarned, RequestsListed
<1>2. SUFFICES RecordsEarned' /\ RequestsListed'
  BY DEF RegistryInv, RecordsEarned, RequestsListed
<1>3. UNCHANGED <<data, since>> => RecordsEarned' BY <1>1 DEF RecordsEarned
<1>4. UNCHANGED <<inquiries, inquiryOf>> => RequestsListed'
  BY <1>1 DEF RequestsListed, PendingIsLast
<1>5. /\ DOMAIN inquiries = 1..Len(inquiries) /\ Len(inquiries) \in Nat
      /\ \A r \in DOMAIN inquiries : inquiries[r] \in Inquiry
  BY <1>1 DEF RequestsListed
<1>6. CASE RegistryTick BY <1>3, <1>4, <1>6 DEF RegistryTick
<1>7. ASSUME NEW a, AddVerifier(a) PROVE RecordsEarned' /\ RequestsListed'
  BY <1>3, <1>4, <1>7 DEF AddVerifier
<1>8. ASSUME NEW j, NEW r, UpdateJurisdictionRules(j, r) PROVE RecordsEarned' /\ RequestsListed'
  BY <1>3, <1>4, <1>8 DEF UpdateJurisdictionRules
<1>9. ASSUME NEW caller, NEW a \in Subjects, NEW j, NEW risk, NEW doc, NEW bio, NEW score,
             SubmitVerification(caller, a, j, risk, doc, bio, score)
      PROVE  RecordsEarned' /\ RequestsListed'
  BY <1>1, <1>4, <1>9, VerifiesEarned DEF SubmitVerification
<1>10. ASSUME NEW caller, NEW r \in DOMAIN inquiries, NEW risk, NEW doc, NEW bio, NEW score,
              ProcessVerificationRequest(caller, r, risk, doc, bio, score)
       PROVE  RecordsEarned' /\ RequestsListed'
  <2>1. inquiries[r].account \in Subjects BY <1>5 DEF Inquiry
  <2>2. RecordsEarned' BY <1>1, <1>10, <2>1, VerifiesEarned DEF ProcessVerificationRequest
  <2>3. /\ inquiries' = [inquiries EXCEPT ![r].status = "Verified"] /\ inquiryOf' = inquiryOf
    BY <1>10 DEF ProcessVerificationRequest
  <2> DEFINE done == [inquiries[r] EXCEPT !.status = "Verified"]
  <2>4. done \in Inquiry /\ done.status = "Verified" BY <1>5 DEF Inquiry
  <2>5. inquiries' = [inquiries EXCEPT ![r] = done] BY <2>3
  <2> HIDE DEF done
  <2>6. inquiries' \in Seq(Inquiry) BY <1>1, <2>4, <2>5 DEF RequestsListed
  <2>7. PendingIsLast' BY <1>1, <2>3, <2>4, <2>5 DEF RequestsListed, PendingIsLast
  <2> QED BY <1>1, <2>2, <2>3, <2>6, <2>7 DEF RequestsListed
<1>11. ASSUME NEW a \in Subjects,
              \/ \E passed \in BOOLEAN, factors \in 0..3, caller \in RegistryAccounts :
                   UpdateAmlStatus(caller, a, passed, factors)
              \/ \E passed \in BOOLEAN, caller \in RegistryAccounts :
                   UpdateSanctionsStatus(caller, a, passed)
              \/ \E caller \in RegistryAccounts : RevokeVerification(caller, a)
              \/ \E consent \in {"Given", "Withdrawn"}, caller \in RegistryAccounts :
                   UpdateConsent(caller, a, consent)
              \/ RequestDataDeletion(a)
       PROVE  RecordsEarned' /\ RequestsListed'
  <2>1. Known(a) /\ UNCHANGED <<inquiries, inquiryOf>>
    BY <1>11, Zenon DEF UpdateAmlStatus, UpdateSanctionsStatus, RevokeVerification, UpdateConsent,
                        RequestDataDeletion, CheckDataRetention
  <2>2. RecordsEarned' BY <1>1, <1>11, <2>1, StepRecords, Zenon
  <2> QED BY <1>4, <2>1, <2>2
<1>12. ASSUME NEW a \in Subjects, NEW j \in Jurisdictions, CreateVerificationRequest(a, j)
       PROVE  RecordsEarned' /\ RequestsListed'
  <2> DEFINE new == [account |-> a, jurisdiction |-> j, status |-> "Pending"]
             n == Len(inquiries)
  <2>1. /\ inquiryOf[a] # 0 => inquiries[inquiryOf[a]].status # "Pending"
        /\ inquiries' = Append(inquiries, new) /\ inquiryOf' = [inquiryOf EXCEPT ![a] = n + 1]
        /\ UNCHANGED <<data, since>>
    BY <1>12 DEF CreateVerificationRequest
  <2>2. new \in Inquiry /\ new.account = a BY DEF Inquiry
  <2> HIDE DEF new
  <2>3. inquiries \in Seq(Inquiry) /\ inquiryOf \in [Subjects -> Nat] /\ n \in Nat
    BY <1>1 DEF RequestsListed
  <2>4. /\ inquiries' \in Seq(Inquiry) /\ Len(inquiries') = n + 1
        /\ \A r \in 1..n : inquiries'[r] = inquiries[r]
        /\ inquiries'[n + 1] = new
    BY <2>1, <2>2, <2>3
  <2>5. inquiryOf' \in [Subjects -> Nat] /\ inquiryOf'[a] = n + 1
        /\ \A b \in Subjects : b # a => inquiryOf'[b] = inquiryOf[b]
    BY <2>1, <2>3
  <2>6. ASSUME NEW r \in 1..n, inquiries[r].status = "Pending"
        PROVE  /\ inquiryOf[inquiries[r].account] = r /\ inquiries[r].account # a
               /\ inquiries[r].account \in Subjects
    <3>1. r \in DOMAIN inquiries /\ r # 0 BY <1>5
    <3>2. inquiryOf[inquiries[r].account] = r
      BY <1>1, <2>6, <3>1 DEF RequestsListed, PendingIsLast
    <3> QED BY <1>5, <2>1, <2>6, <3>1, <3>2 DEF Inquiry
  <2>7. ASSUME NEW r \in DOMAIN inquiries', inquiries'[r].status = "Pending"
        PROVE  inquiryOf'[inquiries'[r].account] = r
    <3>1. r \in 1..n \/ r = n + 1 BY <2>3, <2>4
    <3>2. CASE r \in 1..n BY <2>4, <2>5, <2>6, <2>7, <3>2
    <3>3. CASE r = n + 1 BY <2>2, <2>4, <2>5, <3>3
    <3> QED BY <3>1, <3>2, <3>3
  <2> QED BY <1>3, <2>1, <2>4, <2>5, <2>7 DEF RequestsListed, PendingIsLast
<1>13. CASE UNCHANGED complianceVars BY <1>3, <1>4, <1>13 DEF complianceVars
<1> QED BY <1>6, <1>7, <1>8, <1>9, <1>10, <1>11, <1>12, <1>13 DEF ComplianceNext

LEMMA RegistryStarts == ComplianceInit => RegistryInv
<1> SUFFICES ASSUME ComplianceInit PROVE RegistryInv OBVIOUS
<1>1. /\ data = [a \in Subjects |-> NoData] /\ since = [a \in Subjects |-> {}]
      /\ inquiries = <<>> /\ inquiryOf = [a \in Subjects |-> 0]
  BY DEF ComplianceInit
<1>2. \A a \in Subjects : Earns(data[a], since[a]) BY <1>1 DEF Earns
<1>3. inquiries \in Seq(Inquiry) /\ PendingIsLast BY <1>1 DEF PendingIsLast
<1> QED BY <1>1, <1>2, <1>3 DEF RegistryInv

(* Whatever verifiers, accounts and time do in whatever order, an account    *)
(* that answers as compliant has passed both screenings since its last       *)
(* verification and failed none, and it has one pending request at most.     *)
THEOREM ComplianceEarned == ComplianceSpec => []ComplianceIsEarned
<1>1. ComplianceInit => RegistryInv BY RegistryStarts
<1>2. RegistryInv /\ [ComplianceNext]_complianceVars => RegistryInv' BY StepRegistry
<1>3. RegistryInv => ComplianceIsEarned
  <2> SUFFICES ASSUME RegistryInv PROVE ComplianceIsEarned OBVIOUS
  <2>1. ASSUME NEW a \in Subjects, Compliant(a)
        PROVE  since[a] = {<<"aml", TRUE>>, <<"sanctions", TRUE>>}
    <3>1. Earns(data[a], since[a]) BY DEF RegistryInv
    <3>2. /\ since[a] \subseteq Finding /\ since[a] \cap Refusals = {}
          /\ <<"aml", TRUE>> \in since[a] /\ <<"sanctions", TRUE>> \in since[a]
      <4>1. data[a] # NoData /\ data[a].status = "Verified" BY <2>1 DEF Compliant, Known
      <4>2. data[a].aml /\ data[a].sanctions BY Zenon, <2>1 DEF Compliant
      <4>3. <<"aml", TRUE>> \in since[a] /\ <<"sanctions", TRUE>> \in since[a]
        BY Zenon, <3>1, <4>1, <4>2 DEF Earns
      <4>4. since[a] \subseteq Finding /\ since[a] \cap Refusals = {}
        BY Zenon, <3>1, <4>1 DEF Earns
      <4> QED BY <4>3, <4>4
    <3>3. Finding \ Refusals \subseteq {<<"aml", TRUE>>, <<"sanctions", TRUE>>} BY DEF Finding
    <3> QED BY <3>2, <3>3
  <2>2. \A r, s \in DOMAIN inquiries :
          inquiries[r].status = "Pending" /\ inquiries[s].status = "Pending"
            /\ inquiries[r].account = inquiries[s].account => r = s
    BY DEF RegistryInv, PendingIsLast
  <2> QED BY <2>1, <2>2 DEF ComplianceIsEarned
<1> QED BY <1>1, <1>2, <1>3, PTL DEF ComplianceSpec

-----------------------------------------------------------------------------
(* Data keys.  While a rotation is under way every server has the keys that  *)
(* the script booted with; what is done is wrapped under the incoming key,   *)
(* and what was created since the script read the rows under the active one. *)
ServersFollow ==
  \A s \in Servers :
    /\ memory[s].active \in {keyEnv.active, keyEnv.previous}
    /\ rotation.state # "none" => Settled(s)

RotationFollows ==
  /\ rotation.state = "running" =>
       /\ rotation.done <= rotation.loaded /\ rotation.loaded <= Len(rows)
       /\ rotation.keys = Boot(keyEnv)
       /\ \A i \in DOMAIN rows :
            /\ i <= rotation.done => rows[i].kek = rotation.incoming
            /\ rotation.loaded < i => rows[i].kek = keyEnv.active
  /\ rotation.state = "through" =>
       /\ rotation.keys.active = rotation.incoming /\ rotation.keys.previous = keyEnv.active
       /\ \A i \in DOMAIN rows : rows[i].kek \in {rotation.incoming, keyEnv.active}

KeyInv == KeyTypeOK /\ ServersFollow /\ RotationFollows /\ KeysAreHeld

(* A row is opened by the keys one has, whatever its version says.           *)
LEMMA AnyKeyOpens ==
  ASSUME NEW keys \in KeyMemory, NEW row \in KeyRow
  PROVE  Opens(keys, row) <=> row.kek \in {keys.active, keys.previous}
<1>1. row.kek # NoKek BY DEF KeyRow, Keks, NoKek
<1>2. ByVersion(keys, row) \subseteq {keys.active, keys.previous} BY DEF ByVersion
<1> QED BY <1>1, <1>2 DEF Opens, Candidates

LEMMA KeyFields ==
  ASSUME KeyTypeOK
  PROVE  /\ rows \in Seq(KeyRow) /\ DOMAIN rows = 1..Len(rows) /\ Len(rows) \in Nat
         /\ \A i \in DOMAIN rows : rows[i] \in KeyRow /\ rows[i].kek \in Keks
         /\ keyEnv.active \in Keks /\ keyEnv.previous \in Keks \cup {NoKek}
         /\ Boot(keyEnv) \in KeyMemory /\ Boot(keyEnv).active = keyEnv.active
         /\ Boot(keyEnv).version = 1
         /\ \A s \in Servers : /\ memory[s] \in KeyMemory
                               /\ memory[s].active \in Keks /\ memory[s].version \in {1, 2}
         /\ rotation.incoming \in Keks /\ rotation.loaded \in Nat /\ rotation.done \in Nat
<1>1. rows \in Seq(KeyRow) BY DEF KeyTypeOK
<1>2. DOMAIN rows = 1..Len(rows) /\ Len(rows) \in Nat BY <1>1
<1>3. \A i \in DOMAIN rows : rows[i] \in KeyRow BY <1>1
<1>4. \A i \in DOMAIN rows : rows[i].kek \in Keks BY <1>3 DEF KeyRow
<1>5. keyEnv.active \in Keks /\ keyEnv.previous \in Keks \cup {NoKek} BY DEF KeyTypeOK
<1>6. /\ Boot(keyEnv) \in KeyMemory /\ Boot(keyEnv).active = keyEnv.active
      /\ Boot(keyEnv).version = 1
  BY <1>5 DEF KeyMemory, Boot
<1>7. \A s \in Servers : memory[s] \in KeyMemory BY DEF KeyTypeOK
<1>8. \A s \in Servers : memory[s].active \in Keks /\ memory[s].version \in {1, 2}
  BY <1>7 DEF KeyMemory
<1>9. rotation.incoming \in Keks /\ rotation.loaded \in Nat /\ rotation.done \in Nat
  BY DEF KeyTypeOK
<1> QED BY <1>1, <1>2, <1>3, <1>4, <1>5, <1>6, <1>7, <1>8, <1>9

LEMMA StepKeys ==
  ASSUME KeyInv, [KeyNext]_keyVariables
  PROVE  KeyInv'
<1> USE DEF KeyInv
<1>0. /\ KeyTypeOK /\ rows \in Seq(KeyRow) /\ Boot(keyEnv) \in KeyMemory
      /\ Boot(keyEnv).active = keyEnv.active /\ Boot(keyEnv).version = 1
      /\ \A i \in DOMAIN rows : rows[i] \in KeyRow /\ rows[i].kek \in Keks
      /\ DOMAIN rows = 1..Len(rows) /\ Len(rows) \in Nat
      /\ rotation.incoming \in Keks /\ rotation.loaded \in Nat /\ rotation.done \in Nat
  BY KeyFields
<1>1. ASSUME NEW s \in Servers, CreateDek(s)
      PROVE  KeyInv'
  <2> DEFINE row == [kek |-> memory[s].active, version |-> memory[s].version]
             n   == Len(rows)
  <2>1. row \in KeyRow /\ row.kek \in {keyEnv.active, keyEnv.previous}
        /\ (rotation.state # "none" => row.kek = keyEnv.active)
    <3>1. memory[s].active \in Keks /\ memory[s].version \in {1, 2} BY <1>0, KeyFields
    <3>2. row \in KeyRow BY <3>1 DEF KeyRow
    <3>3. memory[s].active \in {keyEnv.active, keyEnv.previous} BY DEF ServersFollow
    <3>4. rotation.state # "none" => memory[s].active = keyEnv.active
      BY <1>0 DEF ServersFollow, Settled
    <3> QED BY <3>2, <3>3, <3>4
  <2>2. rows' = Append(rows, row) /\ UNCHANGED <<keyEnv, memory, rotation>>
    BY <1>1 DEF CreateDek
  <2> HIDE DEF row
  <2>3. /\ rows' \in Seq(KeyRow) /\ Len(rows') = n + 1 /\ DOMAIN rows' = 1..n + 1
        /\ rows'[n + 1] = row /\ \A i \in 1..n : rows'[i] = rows[i]
    BY <1>0, <2>1, <2>2
  <2>4. \A i \in DOMAIN rows' : (i \in DOMAIN rows /\ rows'[i] = rows[i]) \/ (i = n + 1 /\ rows'[i] = row)
    BY <1>0, <2>3
  <2>5. KeyTypeOK' BY <1>0, <2>2, <2>3 DEF KeyTypeOK
  <2>6. ServersFollow' BY <2>2 DEF ServersFollow, Settled, Boot
  <2>7. KeysAreHeld' BY <2>1, <2>2, <2>4 DEF KeysAreHeld
  <2>8. RotationFollows'
    <3>1. CASE rotation.state = "running"
      <4>1. /\ rotation.done <= rotation.loaded /\ rotation.loaded <= n
            /\ rotation.keys = Boot(keyEnv)
        BY <3>1 DEF RotationFollows
      <4>2. rotation'.loaded <= Len(rows') BY <1>0, <2>2, <2>3, <4>1
      <4>3. ASSUME NEW i \in DOMAIN rows'
            PROVE  /\ i <= rotation.done => rows'[i].kek = rotation.incoming
                   /\ rotation.loaded < i => rows'[i].kek = keyEnv.active
        <5>1. CASE i \in DOMAIN rows /\ rows'[i] = rows[i] BY <3>1, <5>1 DEF RotationFollows
        <5>2. CASE i = n + 1 /\ rows'[i] = row BY <1>0, <2>1, <3>1, <4>1, <5>2
        <5> QED BY <2>4, <5>1, <5>2
      <4> QED BY <2>2, <3>1, <4>1, <4>2, <4>3 DEF RotationFollows, Boot
    <3>2. CASE rotation.state = "through"
      BY <1>0, <2>1, <2>2, <2>3, <2>4, <3>2 DEF RotationFollows
    <3> QED BY <2>2, <3>1, <3>2 DEF RotationFollows
  <2> QED BY <2>5, <2>6, <2>7, <2>8
<1>2. ASSUME NEW s \in Servers, RestartServer(s)
      PROVE  KeyInv'
  <2>1. memory' = [memory EXCEPT ![s] = Boot(keyEnv)] /\ UNCHANGED <<rows, keyEnv, rotation>>
    BY <1>2 DEF RestartServer
  <2>2. KeyTypeOK' BY <1>0, <2>1 DEF KeyTypeOK
  <2>3. ServersFollow'
    <3>1. \A t \in Servers : memory'[t] = memory[t] \/ memory'[t] = Boot(keyEnv)
      BY <1>0, <2>1 DEF KeyTypeOK
    <3> QED BY <2>1, <3>1 DEF ServersFollow, Settled, Boot
  <2>4. RotationFollows' /\ KeysAreHeld'
    BY <2>1 DEF RotationFollows, KeysAreHeld, Boot
  <2> QED BY <2>2, <2>3, <2>4
<1>3. ASSUME StartRotation
      PROVE  KeyInv'
  <2> DEFINE k == IF rotation.state = "none" THEN rotation.incoming + 1 ELSE rotation.incoming
  <2>1. /\ (rotation.state = "none" /\ rotation.incoming < MaxKeks) \/ rotation.state = "cut off"
        /\ \A s \in Servers : Settled(s)
        /\ rotation' = [state  |-> "running", keys |-> Boot(keyEnv), incoming |-> k,
                        loaded |-> Len(rows), done |-> 0]
        /\ UNCHANGED <<rows, keyEnv, memory>>
    BY <1>3 DEF StartRotation
  <2>2. k \in Keks /\ (rotation.state = "cut off" => k = rotation.incoming)
    <3>1. CASE rotation.state = "none" BY <1>0, <2>1, <3>1, KeyAssumption DEF Keks
    <3>2. CASE rotation.state = "cut off" BY <1>0, <3>2
    <3> QED BY <2>1, <3>1, <3>2
  <2> HIDE DEF k
  <2>3. /\ rotation'.state = "running" /\ rotation'.keys = Boot(keyEnv) /\ rotation'.incoming = k
        /\ rotation'.loaded = Len(rows) /\ rotation'.done = 0
    BY <2>1
  <2>4. KeyTypeOK' BY <1>0, <2>1, <2>2 DEF KeyTypeOK
  <2>5. ServersFollow' BY <2>1 DEF ServersFollow, Settled, Boot
  <2>6. RotationFollows'
    <3>1. \A i \in DOMAIN rows : ~ (i <= 0) /\ ~ (Len(rows) < i) BY <1>0
    <3>2. 0 <= Len(rows) /\ Len(rows) <= Len(rows) BY <1>0
    <3>3. Boot(keyEnv)' = Boot(keyEnv) BY <2>1 DEF Boot
    <3> QED BY <2>1, <2>3, <3>1, <3>2, <3>3 DEF RotationFollows
  <2>7. KeysAreHeld' BY <2>1, <2>2, <2>3 DEF KeysAreHeld
  <2> QED BY <2>4, <2>5, <2>6, <2>7
<1>4. ASSUME RewrapBatch
      PROVE  KeyInv'
  <2> DEFINE end   == IF rotation.done + KeyBatch <= rotation.loaded
                      THEN rotation.done + KeyBatch ELSE rotation.loaded
             batch == rotation.done + 1 .. end
             new   == [kek |-> rotation.incoming, version |-> rotation.keys.version + 1]
  <2>1. /\ rotation.state = "running" /\ rotation.done < rotation.loaded
        /\ rows' = [i \in DOMAIN rows |-> IF i \in batch THEN new ELSE rows[i]]
        /\ rotation' = [rotation EXCEPT !.done = end]
        /\ UNCHANGED <<keyEnv, memory>>
    BY <1>4 DEF RewrapBatch
  <2>2. /\ rotation.done \in Nat /\ rotation.loaded \in Nat /\ rotation.loaded <= Len(rows)
        /\ rotation.keys = Boot(keyEnv)
    BY <1>0, <2>1 DEF KeyTypeOK, RotationFollows
  <2>3. end \in Nat /\ rotation.done < end /\ end <= rotation.loaded
    BY <2>1, <2>2, KeyAssumption
  <2>4. new \in KeyRow /\ new.kek = rotation.incoming
    BY <1>0, <2>2 DEF KeyRow
  <2> HIDE DEF end, new
  <2>5. /\ rows' \in Seq(KeyRow) /\ Len(rows') = Len(rows) /\ DOMAIN rows' = DOMAIN rows
        /\ \A i \in DOMAIN rows : rows'[i] = IF i \in batch THEN new ELSE rows[i]
    BY <1>0, <2>1, <2>4
  <2>6. /\ rotation'.done = end /\ rotation'.state = rotation.state /\ rotation'.keys = rotation.keys
        /\ rotation'.incoming = rotation.incoming /\ rotation'.loaded = rotation.loaded
    BY <1>0, <2>1 DEF KeyTypeOK
  <2>7. KeyTypeOK' BY <1>0, <2>1, <2>3, <2>5 DEF KeyTypeOK
  <2>8. ServersFollow' BY <2>1, <2>6 DEF ServersFollow, Settled, Boot
  <2>9. KeysAreHeld' BY <2>1, <2>4, <2>5, <2>6 DEF KeysAreHeld
  <2>10. RotationFollows'
    <3>1. \A i \in DOMAIN rows : i \in 1..Len(rows) BY <1>0
    <3>2. ASSUME NEW i \in DOMAIN rows
          PROVE  /\ i <= end => rows'[i].kek = rotation.incoming
                 /\ rotation.loaded < i => rows'[i].kek = keyEnv.active
      <4>1. i \in Nat BY <3>1
      <4>2. CASE i \in batch BY <2>2, <2>3, <2>4, <2>5, <4>1, <4>2
      <4>3. CASE i \notin batch
        BY <2>1, <2>2, <2>3, <2>5, <4>1, <4>3 DEF RotationFollows
      <4> QED BY <4>2, <4>3
    <3> QED BY <2>1, <2>2, <2>3, <2>5, <2>6, <3>2 DEF RotationFollows, Boot
  <2> QED BY <2>7, <2>8, <2>9, <2>10
<1>5. ASSUME CutOff
      PROVE  KeyInv'
  <2>1. /\ rotation.state = "running" /\ rotation' = [rotation EXCEPT !.state = "cut off"]
        /\ UNCHANGED <<rows, keyEnv, memory>>
    BY <1>5 DEF CutOff
  <2>2. rotation'.state = "cut off" /\ rotation'.incoming = rotation.incoming
    BY <1>0, <2>1 DEF KeyTypeOK
  <2>3. KeyTypeOK' BY <1>0, <2>1 DEF KeyTypeOK
  <2>4. ServersFollow' BY <2>1, <2>2 DEF ServersFollow, Settled, Boot
  <2>5. RotationFollows' BY <2>2 DEF RotationFollows
  <2>6. KeysAreHeld' BY <2>1, <2>2 DEF KeysAreHeld
  <2> QED BY <2>3, <2>4, <2>5, <2>6
<1>6. ASSUME ActivateKek
      PROVE  KeyInv'
  <2> DEFINE keys == [active |-> rotation.incoming, previous |-> rotation.keys.active,
                      version |-> rotation.keys.version + 1]
  <2>1. /\ rotation.state = "running" /\ rotation.done = rotation.loaded
        /\ rotation' = [rotation EXCEPT !.state = "through", !.keys = keys]
        /\ UNCHANGED <<rows, keyEnv, memory>>
    BY <1>6 DEF ActivateKek
  <2>2. /\ rotation.keys = Boot(keyEnv) /\ rotation.loaded \in Nat
        /\ \A i \in DOMAIN rows : rows[i].kek \in {rotation.incoming, keyEnv.active}
    <3>1. /\ rotation.keys = Boot(keyEnv) /\ rotation.loaded \in Nat
          /\ \A i \in DOMAIN rows :
               /\ i <= rotation.loaded => rows[i].kek = rotation.incoming
               /\ rotation.loaded < i => rows[i].kek = keyEnv.active
      BY <1>0, <2>1 DEF RotationFollows
    <3>2. \A i \in DOMAIN rows : i <= rotation.loaded \/ rotation.loaded < i BY <1>0
    <3> QED BY <3>1, <3>2
  <2>3. keys \in KeyMemory /\ keys.active = rotation.incoming /\ keys.previous = keyEnv.active
    <3>1. rotation.keys.active \in Keks /\ rotation.keys.version + 1 \in {1, 2}
      <4>1. keyEnv.active \in Keks BY <1>0, KeyFields
      <4> QED BY <1>0, <2>2, <4>1
    <3>2. rotation.keys.active = keyEnv.active BY <1>0, <2>2
    <3> QED BY <1>0, <3>1, <3>2 DEF KeyMemory
  <2> HIDE DEF keys
  <2>4. /\ rotation'.state = "through" /\ rotation'.keys = keys
        /\ rotation'.incoming = rotation.incoming
    BY <1>0, <2>1 DEF KeyTypeOK
  <2>5. KeyTypeOK' BY <1>0, <2>1, <2>3 DEF KeyTypeOK
  <2>6. ServersFollow' BY <2>1, <2>4 DEF ServersFollow, Settled, Boot
  <2>7. RotationFollows' BY <2>1, <2>2, <2>3, <2>4 DEF RotationFollows
  <2>8. KeysAreHeld' BY <2>1, <2>4 DEF KeysAreHeld
  <2> QED BY <2>5, <2>6, <2>7, <2>8
<1>7. ASSUME Configure
      PROVE  KeyInv'
  <2>1. /\ rotation.state = "through"
        /\ keyEnv' = [active |-> rotation.keys.active, previous |-> rotation.keys.previous]
        /\ rotation' = [rotation EXCEPT !.state = "none"]
        /\ UNCHANGED <<rows, memory>>
    BY <1>7 DEF Configure
  <2>2. /\ rotation.keys.active = rotation.incoming /\ rotation.keys.previous = keyEnv.active
        /\ \A i \in DOMAIN rows : rows[i].kek \in {rotation.incoming, keyEnv.active}
    BY <2>1 DEF RotationFollows
  <2>3. /\ rotation'.state = "none" /\ keyEnv'.active = rotation.incoming
        /\ keyEnv'.previous = keyEnv.active
    BY <1>0, <2>1, <2>2 DEF KeyTypeOK
  <2>4. KeyTypeOK' BY <1>0, <2>1 DEF KeyTypeOK, KeyMemory
  <2>5. ServersFollow' BY <2>1, <2>3 DEF ServersFollow, Settled, Boot
  <2>6. RotationFollows' BY <2>3 DEF RotationFollows
  <2>7. KeysAreHeld' BY <2>1, <2>2, <2>3 DEF KeysAreHeld
  <2> QED BY <2>4, <2>5, <2>6, <2>7
<1>8. CASE UNCHANGED keyVariables
  BY <1>8 DEF keyVariables, KeyTypeOK, ServersFollow, RotationFollows, KeysAreHeld, Settled, Boot
<1> QED BY <1>1, <1>2, <1>3, <1>4, <1>5, <1>6, <1>7, <1>8 DEF KeyNext

LEMMA KeysStart == KeyInit => KeyInv
<1> SUFFICES ASSUME KeyInit PROVE KeyInv OBVIOUS
<1>1. 1 \in Keks BY KeyAssumption DEF Keks
<1>2. /\ rows = <<>> /\ keyEnv = [active |-> 1, previous |-> NoKek]
      /\ rotation.state = "none" /\ memory = [s \in Servers |-> Boot(keyEnv)]
  BY DEF KeyInit
<1>3. KeyTypeOK BY <1>1, <1>2 DEF KeyInit, KeyTypeOK, KeyMemory, Boot
<1>4. ServersFollow BY <1>2 DEF ServersFollow, Boot
<1>5. RotationFollows /\ KeysAreHeld BY <1>2 DEF RotationFollows, KeysAreHeld
<1> QED BY <1>3, <1>4, <1>5 DEF KeyInv

(* However many rotations follow each other, wherever the script is cut off  *)
(* and whatever the servers create meanwhile, no data key is lost, and       *)
(* between rotations a server that has restarted opens every one.            *)
THEOREM DataKeysReadable == KeySpec => []KeysStayReadable
<1>1. KeyInit => KeyInv BY KeysStart
<1>2. KeyInv /\ [KeyNext]_keyVariables => KeyInv' BY StepKeys
<1>3. KeyInv => KeysStayReadable
  <2> SUFFICES ASSUME KeyInv PROVE KeysStayReadable OBVIOUS
  <2>1. ASSUME rotation.state = "none", NEW s \in Servers, Settled(s), NEW i \in DOMAIN rows
        PROVE  Opens(memory[s], rows[i])
    <3>1. memory[s] \in KeyMemory /\ rows[i] \in KeyRow BY KeyFields DEF KeyInv
    <3>2. rows[i].kek \in {memory[s].active, memory[s].previous}
      BY <2>1 DEF KeyInv, KeysAreHeld, Settled, Boot
    <3> QED BY <3>1, <3>2, AnyKeyOpens
  <2> QED BY <2>1 DEF KeysStayReadable, KeyInv
<1> QED BY <1>1, <1>2, <1>3, PTL DEF KeySpec

-----------------------------------------------------------------------------
(* The pause protocol, for every pair of timelocks, every set of durations   *)
(* and every horizon.                                                        *)

(* How the optional fields hang together: an idle breaker has none of them   *)
(* set, an emergency has no end, and a timed window opens before it closes.  *)
FieldsAgree ==
  /\ scheduledAt = NoTime <=> activatesAt = NoTime
  /\ scheduledAt = NoTime =>
       /\ until = NoTime /\ resumeAt = NoTime
       /\ emergency = FALSE /\ announced = FALSE
  /\ scheduledAt # NoTime /\ emergency = FALSE => until # NoTime /\ activatesAt < until
  /\ emergency = TRUE => until = NoTime /\ activatesAt # NoTime /\ activatesAt <= time

(* How they relate to time: a window that is still to open was scheduled a   *)
(* timelock before, and a request to resume is for the latest schedule.      *)
TimesAgree ==
  /\ scheduledAt <= time /\ resumeAt <= time
  /\ activatesAt > time => activatesAt = scheduledAt + PauseTimelock
  /\ resumeAt # NoTime => scheduledAt <= resumeAt

BreakerInv == TypeOK /\ FieldsAgree /\ TimesAgree /\ AnnouncedIsOpen

(* What a step establishes: the invariant again and the three action         *)
(* properties.                                                               *)
WaitsForTimelock   == ~ Paused /\ Paused' => emergency' \/ time' - scheduledAt' >= PauseTimelock
EndsInTime    == Paused /\ ~ Paused' =>
             \/ ~ emergency /\ time' >= until
             \/ resumeAt >= scheduledAt /\ time - resumeAt >= ResumeTimelock
OnlyExtends == Paused /\ Paused' => emergency' \/ (~ emergency /\ until' >= until)

BreakerKept == BreakerInv' /\ WaitsForTimelock /\ EndsInTime /\ OnlyExtends

(* The idle breaker satisfies the invariant.                                 *)
LEMMA BreakerStarts == Init => BreakerInv
<1> SUFFICES ASSUME Init PROVE BreakerInv OBVIOUS
<1>1. TypeOK
  <2>1. LastTime \in Nat /\ 0 \in 0..LastTime BY BreakerAssumption
  <2>2. rescheduled \in BOOLEAN /\ emergency \in BOOLEAN /\ announced \in BOOLEAN
    BY Zenon DEF Init
  <2> QED BY <2>1, <2>2 DEF Init, TypeOK, Time
<1>2. FieldsAgree BY DEF Init, FieldsAgree, NoTime
<1>3. TimesAgree BY DEF Init, TimesAgree, NoTime
<1>4. AnnouncedIsOpen BY DEF Init, AnnouncedIsOpen
<1> QED BY <1>1, <1>2, <1>3, <1>4 DEF BreakerInv

(* A call of pause, for an idle breaker, a pending window or an open one.    *)
LEMMA StepPause ==
  ASSUME BreakerInv, NEW length \in Duration, Pause(length)
  PROVE  BreakerKept
<1> USE BreakerAssumption DEF BreakerInv, TypeOK, FieldsAgree, TimesAgree, NoTime, Time
<1>1. length \in Nat \ {0} /\ emergency = FALSE
  BY DEF Pause
<1>2. CASE Paused
  BY <1>1, <1>2 DEF Pause, Paused, Activation, WindowEnd, Later, StillAnnounced, AnnouncedIsOpen,
     BreakerKept, WaitsForTimelock, EndsInTime, OnlyExtends
<1>3. CASE ~ Paused
  BY <1>1, <1>3 DEF Pause, Paused, Activation, WindowEnd, StillAnnounced, AnnouncedIsOpen,
     BreakerKept, WaitsForTimelock, EndsInTime, OnlyExtends
<1> QED BY <1>2, <1>3

(* An emergency pause is on at once and has no end.                          *)
LEMMA StepEmergency == BreakerInv /\ EmergencyPause => BreakerKept
BY BreakerAssumption DEF BreakerInv, TypeOK, FieldsAgree, TimesAgree, NoTime, Time, EmergencyPause, Paused,
   AnnouncedIsOpen, BreakerKept, WaitsForTimelock, EndsInTime, OnlyExtends

(* The first call of resume changes nothing but the request.                 *)
LEMMA StepRequest == BreakerInv /\ RequestResume => BreakerKept
BY BreakerAssumption DEF BreakerInv, TypeOK, FieldsAgree, TimesAgree, NoTime, Time, RequestResume, Paused,
   AnnouncedIsOpen, BreakerKept, WaitsForTimelock, EndsInTime, OnlyExtends

(* The second call and an expiry clear the breaker.                          *)
LEMMA StepClear == BreakerInv /\ (Resume \/ SyncExpiry) => BreakerKept
<1> SUFFICES ASSUME BreakerInv, Resume \/ SyncExpiry PROVE BreakerKept OBVIOUS
<1>1. Clear BY DEF Resume, SyncExpiry
<1>2. BreakerInv'
  <2>1. TypeOK' BY <1>1 DEF BreakerInv, Clear, TypeOK, NoTime
  <2>2. FieldsAgree' BY <1>1 DEF Clear, FieldsAgree
  <2>3. TimesAgree' BY <1>1 DEF BreakerInv, TypeOK, Time, Clear, TimesAgree, NoTime
  <2>4. AnnouncedIsOpen' BY <1>1 DEF Clear, AnnouncedIsOpen
  <2> QED BY <2>1, <2>2, <2>3, <2>4 DEF BreakerInv
<1>3. ~ Paused' BY <1>1 DEF Clear, Paused
<1>4. EndsInTime
  <2>1. CASE Resume
    BY <2>1, BreakerAssumption DEF Resume, BreakerInv, TypeOK, TimesAgree, Time, NoTime, EndsInTime
  <2>2. CASE SyncExpiry
    BY <2>2 DEF SyncExpiry, Clear, Expired, EndsInTime
  <2> QED BY <2>1, <2>2
<1> QED BY <1>2, <1>3, <1>4 DEF BreakerKept, WaitsForTimelock, OnlyExtends

(* Announcing an open window.                                                *)
LEMMA StepAnnounce == BreakerInv /\ SyncActivation => BreakerKept
BY BreakerAssumption DEF BreakerInv, TypeOK, FieldsAgree, TimesAgree, NoTime, Time, SyncActivation, Paused,
   AnnouncedIsOpen, BreakerKept, WaitsForTimelock, EndsInTime, OnlyExtends

(* Time passes: a pending window may open, an open one may close.            *)
LEMMA StepTime == BreakerInv /\ Advance => BreakerKept
BY BreakerAssumption DEF BreakerInv, TypeOK, FieldsAgree, TimesAgree, NoTime, Time, Advance, breaker,
   Paused, AnnouncedIsOpen, BreakerKept, WaitsForTimelock, EndsInTime, OnlyExtends

(* A step of somebody else.                                                  *)
LEMMA BreakerStutters == BreakerInv /\ UNCHANGED vars => BreakerKept
BY DEF BreakerInv, TypeOK, FieldsAgree, TimesAgree, vars, breaker, Paused, AnnouncedIsOpen, BreakerKept,
   WaitsForTimelock, EndsInTime, OnlyExtends

(* Every step preserves the invariant and obeys the timelocks.               *)
LEMMA StepBreaker == BreakerInv /\ [Next]_vars => BreakerKept
BY StepPause, StepEmergency, StepRequest, StepClear, StepAnnounce, StepTime, BreakerStutters
   DEF Next, Sync

-----------------------------------------------------------------------------
(* Every reachable state satisfies the invariant.                            *)
THEOREM BreakerInvariant == Spec => []BreakerInv
<1>1. BreakerInv /\ [Next]_vars => BreakerInv' BY StepBreaker DEF BreakerKept
<1> QED BY <1>1, BreakerStarts, PTL DEF Spec

(* Types: in particular no field holds a time that is not one.               *)
THEOREM BreakerTypes == Spec => []TypeOK
BY BreakerInvariant, PTL DEF BreakerInv

(* No call of sync announces a window before it opens.                       *)
THEOREM BreakerAnnouncement == Spec => []AnnouncedIsOpen
BY BreakerInvariant, PTL DEF BreakerInv

(* No order of calls makes a pause effective before its timelock.            *)
THEOREM BreakerWaits == Spec => PauseWaitsForTimelock
<1>1. BreakerInv /\ [Next]_vars => [WaitsForTimelock]_vars BY StepBreaker DEF BreakerKept
<1> QED BY <1>1, BreakerInvariant, PTL DEF Spec, PauseWaitsForTimelock, WaitsForTimelock

(* No order of calls ends a pause early or by a request made for another.    *)
THEOREM BreakerEnds == Spec => PauseEndsInTime
<1>1. BreakerInv /\ [Next]_vars => [EndsInTime]_vars BY StepBreaker DEF BreakerKept
<1> QED BY <1>1, BreakerInvariant, PTL DEF Spec, PauseEndsInTime, EndsInTime

(* Both together: neither timelock can be gone around.                       *)
THEOREM BreakerKeepsTime == Spec => PausesKeepTime
  BY BreakerWaits, BreakerEnds DEF PausesKeepTime

(* Governance never shortens a pause that is on.                             *)
THEOREM BreakerExtends == Spec => PauseNeverShortens
<1>1. BreakerInv /\ [Next]_vars => [OnlyExtends]_vars BY StepBreaker DEF BreakerKept
<1> QED BY <1>1, BreakerInvariant, PTL DEF Spec, PauseNeverShortens, OnlyExtends
-----------------------------------------------------------------------------
(* Flattening a sequence of sequences: FlattenSeq of the community modules   *)
(* is an entry of a table, each made from the one before.                    *)
IsFlattening(f, s, n) ==
  f = [i \in 1..n |-> IF i = 1 THEN s[i] ELSE f[i - 1] \o s[i]]

LEMMA FlattenIsEntry ==
  ASSUME NEW s, Len(s) # 0
  PROVE  FlattenSeq(s) = (CHOOSE f : IsFlattening(f, s, Len(s)))[Len(s)]
BY DEF FlattenSeq, IsFlattening

LEMMA FlatteningExists ==
  ASSUME NEW s, NEW N \in Nat
  PROVE  \E f : IsFlattening(f, s, N)
<1> DEFINE Bad == {n \in Nat : ~ \E f : IsFlattening(f, s, n)}
<1>1. ASSUME Bad # {} PROVE FALSE
  <2>1. PICK n \in Bad : \A m \in Bad : n <= m
    <3>1. Bad \in SUBSET Nat OBVIOUS
    <3> HIDE DEF Bad
    <3> QED BY <1>1, <3>1, LeastNumber
  <2>2. CASE n = 0
    <3> DEFINE none == [i \in 1..0 |-> s[i]]
    <3>1. IsFlattening(none, s, 0) BY DEF IsFlattening
    <3> QED BY <2>1, <2>2, <3>1
  <2>3. CASE n # 0
    <3>1. n - 1 \in Nat /\ n - 1 \notin Bad BY <2>1, <2>3
    <3>2. PICK f : IsFlattening(f, s, n - 1) BY <3>1
    <3> DEFINE g == [i \in 1..n |-> IF i < n THEN f[i]
                                    ELSE IF i = 1 THEN s[i] ELSE f[i - 1] \o s[i]]
    <3>3. \A i \in 1..(n - 1) : f[i] = IF i = 1 THEN s[i] ELSE f[i - 1] \o s[i]
      BY <3>2 DEF IsFlattening
    <3>4. ASSUME NEW i \in 1..n PROVE g[i] = IF i = 1 THEN s[i] ELSE g[i - 1] \o s[i]
      <4>1. CASE i = n
        <5>1. i # 1 => i - 1 \in 1..n /\ i - 1 < n BY <2>1
        <5> QED BY <4>1, <5>1
      <4>2. CASE i # n
        <5>1. i \in 1..(n - 1) BY <2>1, <4>2
        <5>2. i # 1 => i - 1 \in 1..n /\ i - 1 < n BY <2>1, <5>1
        <5> QED BY <3>3, <5>1, <5>2
      <4> QED BY <4>1, <4>2
    <3>5. g = [i \in 1..n |-> g[i]] OBVIOUS
    <3> HIDE DEF g
    <3>6. IsFlattening(g, s, n) BY <3>4, <3>5 DEF IsFlattening
    <3> QED BY <2>1, <3>6
  <2> QED BY <2>2, <2>3
<1> QED BY <1>1

(* The members of a flattened sequence are those of its members.             *)
LEMMA FlattenMembers ==
  ASSUME NEW S, NEW s \in Seq(Seq(S))
  PROVE  /\ FlattenSeq(s) \in Seq(S)
         /\ Range(FlattenSeq(s)) = UNION {Range(s[k]) : k \in 1..Len(s)}
<1>1. CASE Len(s) = 0
  <2>1. FlattenSeq(s) = s BY <1>1 DEF FlattenSeq
  <2>2. s = <<>> BY <1>1
  <2>3. Range(<<>>) = {} BY DEF Range
  <2>4. <<>> \in Seq(S) OBVIOUS
  <2>5. 1..Len(s) = {} BY <1>1
  <2> QED BY <2>1, <2>2, <2>3, <2>4, <2>5
<1>2. CASE Len(s) # 0
  <2> DEFINE f == CHOOSE f : IsFlattening(f, s, Len(s))
             Right(n) == /\ f[n] \in Seq(S)
                         /\ Range(f[n]) = UNION {Range(s[k]) : k \in 1..n}
             Bad == {n \in 1..Len(s) : ~ Right(n)}
  <2>1. Len(s) \in Nat /\ \A i \in 1..Len(s) : s[i] \in Seq(S) OBVIOUS
  <2>2. IsFlattening(f, s, Len(s)) BY <2>1, FlatteningExists
  <2> HIDE DEF f
  <2>3. \A i \in 1..Len(s) : f[i] = IF i = 1 THEN s[i] ELSE f[i - 1] \o s[i]
    BY <2>2 DEF IsFlattening
  <2>4. ASSUME Bad # {} PROVE FALSE
    <3>1. PICK n \in Bad : \A m \in Bad : n <= m
      <4>1. Bad \in SUBSET Nat OBVIOUS
      <4> HIDE DEF Bad
      <4> QED BY <2>4, <4>1, LeastNumber
    <3>2. n \in 1..Len(s) /\ ~ Right(n) BY <3>1
    <3>3. CASE n = 1
      <4>1. f[n] = s[1] BY <2>3, <3>2, <3>3
      <4>2. UNION {Range(s[k]) : k \in 1..1} = Range(s[1]) OBVIOUS
      <4>3. s[1] \in Seq(S) BY <2>1, <3>2, <3>3
      <4> QED BY <3>2, <3>3, <4>1, <4>2, <4>3
    <3>4. CASE n # 1
      <4>1. n - 1 \in 1..Len(s) BY <2>1, <3>2, <3>4
      <4>2. Right(n - 1)
        <5>1. n - 1 \notin Bad
          <6> HIDE DEF Bad
          <6> QED BY <2>1, <3>1, <3>2
        <5> HIDE DEF Right
        <5> QED BY <4>1, <5>1
      <4>3. f[n] = f[n - 1] \o s[n] BY <2>3, <3>2, <3>4
      <4>4. s[n] \in Seq(S) /\ f[n - 1] \in Seq(S) BY <2>1, <3>2, <4>2
      <4>5. f[n] \in Seq(S) /\ Range(f[n]) = Range(f[n - 1]) \cup Range(s[n])
        BY <4>3, <4>4, ConcatProperties, RangeConcatenation
      <4>6. UNION {Range(s[k]) : k \in 1..n} = (UNION {Range(s[k]) : k \in 1..(n - 1)}) \cup Range(s[n])
        <5>1. 1..n = 1..(n - 1) \cup {n} BY <3>2
        <5> QED BY <5>1
      <4> QED BY <3>2, <4>2, <4>5, <4>6
    <3> QED BY <3>3, <3>4
  <2>5. Len(s) \in 1..Len(s) BY <1>2, <2>1
  <2>6. Right(Len(s)) BY <2>4, <2>5
  <2>7. FlattenSeq(s) = f[Len(s)] BY <1>2, FlattenIsEntry DEF f
  <2> QED BY <2>6, <2>7
<1> QED BY <1>1, <1>2


-----------------------------------------------------------------------------
(* The backend.  What a poll awaits with, and the jobs of the queue.         *)
ChainEvent == [tx : STRING, name : STRING]
LogEntry   == [event : ChainEvent, previousHash : Seq(ChainEvent), chainHash : Seq(ChainEvent)]
Job        == [hook : Hooks, event : ChainEvent, attempt : Nat]

Saved   == {"resolving", "enqueuing"}
Looping == {"reading", "saving"} \cup Saved

PollState(s) ==
  /\ s.at \in {"idle", "checking", "fetching"} \cup Looping
  /\ s.at # "idle" => s.to \in 0..Len(Blocks)
  /\ s.at = "fetching" => s.from \in 1..(Len(Blocks) + 1)
  /\ s.at \in Looping => s.rest \in Seq(ChainEvent) /\ s.rest # <<>>
  /\ s.at = "saving" => s.previousHash \in Seq(ChainEvent)

PollsTyped ==
  /\ polls = [p \in Polls |-> polls[p]] /\ \A p \in Polls : PollState(polls[p])
  /\ chainHead \in 0..Len(Blocks) /\ lastPolledBlock \in 0..Len(Blocks)

JobsTyped ==
  /\ queue \in Seq(Job) /\ retries \in SUBSET Job /\ IsFiniteSet(retries)
  /\ sending \in Job \cup {NoJob}

IngestTyped == PollsTyped /\ JobsTyped /\ auditLog \in Seq(LogEntry)

(* Nothing is lost between the blocks and the log: what a poll has gone past *)
(* is in the log or has failed, or is in the rest of what it read.           *)
EventsUpTo(n) == UNION {Range(Blocks[k]) : k \in 1..n}
Handled(e)    == IsLogged(e) \/ e \in failed

Moving(s) ==
  /\ s.at = "fetching" => \A e \in EventsUpTo(s.from - 1) : Handled(e)
  /\ s.at \in Looping  => \A e \in EventsUpTo(s.to) : Handled(e) \/ e \in Range(s.rest)
  /\ s.at \in Saved    => IsLogged(Head(s.rest))

NothingSkipped ==
  /\ \A e \in EventsUpTo(lastPolledBlock) : Handled(e)
  /\ \A p \in Polls : Moving(polls[p])

(* An event is logged by one poll, which alone queues jobs for it: a pair of *)
(* a webhook and an event is with one poll, in one job or accepted.          *)
PairOf(job) == <<job.hook, job.event>>

Taken(pair) ==
  \/ \E i \in 1..Len(queue) : PairOf(queue[i]) = pair
  \/ \E job \in retries : PairOf(job) = pair
  \/ sending # NoJob /\ PairOf(sending) = pair

JobsDiffer ==
  /\ \A i, j \in 1..Len(queue) : PairOf(queue[i]) = PairOf(queue[j]) => i = j
  /\ \A a, b \in retries : PairOf(a) = PairOf(b) => a = b
  /\ \A i \in 1..Len(queue), b \in retries : PairOf(queue[i]) # PairOf(b)
  /\ sending # NoJob =>
       /\ \A i \in 1..Len(queue) : PairOf(queue[i]) # PairOf(sending)
       /\ \A b \in retries : PairOf(b) # PairOf(sending)
  /\ \A pair \in accepted : ~ Taken(pair)

Owes(s, h) == s.at = "resolving" \/ (s.at = "enqueuing" /\ h \in s.hooks)

PollsOweAlone ==
  /\ \A p \in Polls, h \in Hooks : Owes(polls[p], h) =>
       LET pair == <<h, Head(polls[p].rest)>> IN ~ Taken(pair) /\ pair \notin accepted
  /\ \A p, q \in Polls : p # q /\ polls[p].at \in Saved /\ polls[q].at \in Saved =>
       Head(polls[p].rest).tx # Head(polls[q].rest).tx

TakenIsLogged == \A pair : Taken(pair) \/ pair \in accepted => IsLogged(pair[2])

OneJobEach == JobsDiffer /\ PollsOweAlone /\ TakenIsLogged

IngestInv == IngestTyped /\ NothingSkipped /\ OneJobEach

(* The events of some blocks are those of each of them.                      *)
LEMMA EventsOfBlocks ==
  ASSUME NEW first \in 1..(Len(Blocks) + 1), NEW last \in 0..Len(Blocks)
  PROVE  /\ EventsIn(first, last) \in Seq(ChainEvent)
         /\ Range(EventsIn(first, last)) = UNION {Range(Blocks[k]) : k \in first..last}
<1> DEFINE part == SubSeq(Blocks, first, last)
<1>1. Blocks \in Seq(Seq(ChainEvent)) BY IngestionAssumption DEF ChainEvent
<1>2. Len(Blocks) \in Nat /\ first \in Int /\ last \in Int BY <1>1
<1>3. \A k \in first..last : Blocks[k] \in Seq(ChainEvent) BY <1>1, <1>2
<1>4. /\ part \in Seq(Seq(ChainEvent)) /\ Len(part) = IF first <= last THEN last - first + 1 ELSE 0
      /\ \A i \in 1..(last - first + 1) : part[i] = Blocks[first + i - 1]
  BY <1>2, <1>3, SubSeqProperties
<1> HIDE DEF part
<1>5. /\ FlattenSeq(part) \in Seq(ChainEvent)
      /\ Range(FlattenSeq(part)) = UNION {Range(part[k]) : k \in 1..Len(part)}
  BY <1>4, FlattenMembers
<1>6. {Range(part[i]) : i \in 1..Len(part)} = {Range(Blocks[k]) : k \in first..last}
  <2>1. ASSUME NEW i \in 1..Len(part)
        PROVE  \E k \in first..last : Range(part[i]) = Range(Blocks[k])
    <3>1. first + i - 1 \in first..last /\ i \in 1..(last - first + 1) BY <1>2, <1>4
    <3> QED BY <1>4, <3>1
  <2>2. ASSUME NEW k \in first..last
        PROVE  \E i \in 1..Len(part) : Range(part[i]) = Range(Blocks[k])
    <3>1. k - first + 1 \in 1..Len(part) /\ k - first + 1 \in 1..(last - first + 1)
      BY <1>2, <1>4
    <3>2. part[k - first + 1] = Blocks[k]
      <4>1. first + (k - first + 1) - 1 = k BY <1>2
      <4> QED BY <1>4, <3>1, <4>1
    <3> QED BY <3>1, <3>2
  <2>3. ASSUME NEW x \in {Range(part[i]) : i \in 1..Len(part)}
        PROVE  x \in {Range(Blocks[k]) : k \in first..last}
    <3>1. PICK i \in 1..Len(part) : x = Range(part[i]) BY <2>3
    <3>2. PICK k \in first..last : Range(part[i]) = Range(Blocks[k]) BY <2>1
    <3> QED BY <3>1, <3>2
  <2>4. ASSUME NEW x \in {Range(Blocks[k]) : k \in first..last}
        PROVE  x \in {Range(part[i]) : i \in 1..Len(part)}
    <3>1. PICK k \in first..last : x = Range(Blocks[k]) BY <2>4
    <3>2. PICK i \in 1..Len(part) : Range(part[i]) = Range(Blocks[k]) BY <2>2
    <3> QED BY <3>1, <3>2
  <2> QED BY <2>3, <2>4
<1> QED BY <1>5, <1>6 DEF EventsIn, part

(* What is logged stays logged, and a new entry logs its event.              *)
LEMMA LogGrows ==
  ASSUME IngestTyped, NEW entry \in LogEntry, auditLog' = Append(auditLog, entry)
  PROVE  /\ auditLog' \in Seq(LogEntry)
         /\ \A e : IsLogged(e)' <=> IsLogged(e) \/ entry.event.tx = e.tx
<1> DEFINE after == Append(auditLog, entry)
<1>1. auditLog \in Seq(LogEntry) BY DEF IngestTyped
<1>2. PICK n \in Nat : n = Len(auditLog) BY <1>1
<1>3. /\ after \in Seq(LogEntry) /\ DOMAIN after = 1..(n + 1) /\ DOMAIN auditLog = 1..n
      /\ \A i \in 1..n : after[i] = auditLog[i]
      /\ after[n + 1] = entry
  BY <1>1, <1>2, AppendProperties
<1> HIDE DEF after
<1>4. auditLog' = after BY DEF after
<1>5. ASSUME NEW e
      PROVE  (\E i \in DOMAIN after : after[i].event.tx = e.tx)
               <=> IsLogged(e) \/ entry.event.tx = e.tx
  <2>1. ASSUME NEW i \in DOMAIN after, after[i].event.tx = e.tx
        PROVE  IsLogged(e) \/ entry.event.tx = e.tx
    <3>1. i \in 1..n \/ i = n + 1 BY <1>3
    <3> QED BY <1>3, <2>1, <3>1 DEF IsLogged
  <2>2. ASSUME IsLogged(e) PROVE \E i \in DOMAIN after : after[i].event.tx = e.tx
    <3>1. PICK i \in 1..n : auditLog[i].event.tx = e.tx BY <1>3, <2>2 DEF IsLogged
    <3>2. i \in DOMAIN after /\ after[i] = auditLog[i] BY <1>3
    <3> QED BY <3>1, <3>2
  <2>3. ASSUME entry.event.tx = e.tx PROVE \E i \in DOMAIN after : after[i].event.tx = e.tx
    <3>1. n + 1 \in DOMAIN after BY <1>3
    <3> QED BY <1>3, <2>3, <3>1
  <2> QED BY <2>1, <2>2, <2>3
<1>6. \A e : IsLogged(e)' <=> (\E i \in DOMAIN after : after[i].event.tx = e.tx)
  BY <1>4 DEF IsLogged
<1> QED BY <1>3, <1>4, <1>5, <1>6

(* A poll that awaits something else moves no other.                         *)
LEMMA OnePollMoves ==
  ASSUME PollsTyped, NEW p \in Polls, NEW s, Await(p, s)
  PROVE  /\ polls' = [q \in Polls |-> polls'[q]]
         /\ polls'[p] = s /\ \A q \in Polls \ {p} : polls'[q] = polls[q]
<1> DEFINE after == [polls EXCEPT ![p] = s]
<1>1. polls' = after BY DEF Await
<1>2. polls = [q \in Polls |-> polls[q]] BY DEF PollsTyped
<1>3. /\ after = [q \in Polls |-> after[q]]
      /\ after[p] = s /\ \A q \in Polls \ {p} : after[q] = polls[q]
  BY <1>2
<1> HIDE DEF after
<1> QED BY <1>1, <1>3

(* A poll goes on to await something else: what is handled stays handled.    *)
LEMMA PollGoesOn ==
  ASSUME PollsTyped, NothingSkipped, NEW p \in Polls, NEW s, Await(p, s), PollState(s),
         \A e : IsLogged(e) => IsLogged(e)', failed \subseteq failed', chainHead' = chainHead,
         Moving(s)', lastPolledBlock' \in 0..Len(Blocks),
         \A e \in EventsUpTo(lastPolledBlock') : Handled(e)'
  PROVE  PollsTyped' /\ NothingSkipped'
<1>1. /\ polls' = [q \in Polls |-> polls'[q]]
      /\ polls'[p] = s /\ \A q \in Polls \ {p} : polls'[q] = polls[q]
  BY OnePollMoves
<1>2. \A e : Handled(e) => Handled(e)' BY DEF Handled
<1>3. ASSUME NEW q \in Polls PROVE PollState(polls'[q]) /\ Moving(polls[q])'
  <2>1. CASE q = p
    <3>1. Moving(polls[q])'
      BY <1>1, <2>1 DEF Moving
    <3> QED BY <1>1, <2>1, <3>1
  <2>2. CASE q # p
    <3>1. polls'[q] = polls[q] /\ PollState(polls[q]) /\ Moving(polls[q])
      BY <1>1, <2>2 DEF PollsTyped, NothingSkipped
    <3>2. Moving(polls[q])' BY <1>2, <3>1 DEF Moving
    <3> QED BY <3>1, <3>2
  <2> QED BY <2>1, <2>2
<1>4. PollsTyped' BY <1>1, <1>3 DEF PollsTyped, PollState
<1> QED BY <1>3, <1>4 DEF NothingSkipped

(* It has read the events of one more list, or the lot.                      *)
LEMMA PollContinues ==
  ASSUME PollsTyped, NothingSkipped, NEW p \in Polls, polls[p].to \in 0..Len(Blocks),
         NEW rest \in Seq(ChainEvent), Continue(p, rest),
         \A e : IsLogged(e) => IsLogged(e)', failed \subseteq failed', chainHead' = chainHead,
         \A e \in EventsUpTo(polls[p].to) : Handled(e)' \/ e \in Range(rest)
  PROVE  /\ PollsTyped' /\ NothingSkipped' /\ polls'[p].at \notin Saved
         /\ \A q \in Polls \ {p} : polls'[q] = polls[q]
<1>1. \A e : Handled(e) => Handled(e)' BY DEF Handled
<1> PICK next : next = [at |-> "reading", to |-> polls[p].to, rest |-> rest] OBVIOUS
<1>2. CASE rest = <<>>
  <2>1. Await(p, IdlePoll) /\ lastPolledBlock' = polls[p].to BY <1>2 DEF Continue
  <2>2. PollState(IdlePoll) /\ Moving(IdlePoll)' /\ IdlePoll.at \notin Saved
    BY DEF IdlePoll, PollState, Moving, Looping, Saved
  <2>3. Range(rest) = {} BY <1>2 DEF Range
  <2>4. PollsTyped' /\ NothingSkipped' BY <2>1, <2>2, <2>3, PollGoesOn
  <2> QED BY <2>1, <2>2, <2>4, OnePollMoves
<1>3. CASE rest # <<>>
  <2>1. Await(p, next) /\ lastPolledBlock' = lastPolledBlock BY <1>3 DEF Continue
  <2>2. next.at = "reading" /\ next.to = polls[p].to /\ next.rest = rest OBVIOUS
  <2>3. PollState(next) BY <1>3, <2>2 DEF PollState, Looping, Saved
  <2>4. Moving(next)' BY <2>2 DEF Moving, Looping, Saved
  <2>5. \A e \in EventsUpTo(lastPolledBlock') : Handled(e)'
    BY <1>1, <2>1 DEF NothingSkipped
  <2>6. lastPolledBlock' \in 0..Len(Blocks) BY <2>1 DEF PollsTyped
  <2>7. PollsTyped' /\ NothingSkipped' BY <2>1, <2>3, <2>4, <2>5, <2>6, PollGoesOn
  <2>8. next.at \notin Saved BY <2>2 DEF Saved
  <2> QED BY <2>1, <2>7, <2>8, OnePollMoves
<1> QED BY <1>2, <1>3

(* One event less is left of what was read: it is handled by now.            *)
LEMMA EventDone ==
  ASSUME PollsTyped, NothingSkipped, NEW p \in Polls, polls[p].at \in Looping,
         Continue(p, Tail(polls[p].rest)),
         \A e : IsLogged(e) => IsLogged(e)', failed \subseteq failed', chainHead' = chainHead,
         NEW e, e = Head(polls[p].rest), Handled(e)'
  PROVE  /\ PollsTyped' /\ NothingSkipped' /\ polls'[p].at \notin Saved
         /\ \A q \in Polls \ {p} : polls'[q] = polls[q]
<1> PICK rest : rest = polls[p].rest OBVIOUS
<1>1. /\ polls[p].to \in 0..Len(Blocks) /\ rest \in Seq(ChainEvent) /\ rest # <<>>
  BY DEF PollsTyped, PollState, Looping, Saved
<1>2. \A d \in EventsUpTo(polls[p].to) : Handled(d) \/ d \in Range(rest)
  BY DEF NothingSkipped, Moving
<1>3. e = Head(rest) /\ Handled(e)' OBVIOUS
<1>4. Continue(p, Tail(rest)) OBVIOUS
<1>5. \A d : Handled(d) => Handled(d)' BY DEF Handled
<1>6. /\ Tail(rest) \in Seq(ChainEvent)
      /\ \A d \in Range(rest) : d = Head(rest) \/ d \in Range(Tail(rest))
  <2>1. /\ Tail(rest) \in Seq(ChainEvent) /\ Len(Tail(rest)) = Len(rest) - 1
        /\ \A i \in 1..Len(Tail(rest)) : Tail(rest)[i] = rest[i + 1]
    BY <1>1, HeadTailProperties
  <2>2. Head(rest) = rest[1] /\ Len(rest) \in Nat /\ DOMAIN rest = 1..Len(rest) BY <1>1
  <2>3. DOMAIN Tail(rest) = 1..Len(Tail(rest)) BY <2>1
  <2>4. ASSUME NEW d \in Range(rest), d # Head(rest) PROVE d \in Range(Tail(rest))
    <3>1. PICK i \in 1..Len(rest) : d = rest[i] BY <2>2, <2>4 DEF Range
    <3>2. i # 1 BY <2>2, <2>4, <3>1
    <3>3. i - 1 \in 1..Len(Tail(rest)) /\ (i - 1) + 1 = i BY <2>1, <2>2, <3>2
    <3>4. Tail(rest)[i - 1] = d BY <2>1, <3>1, <3>3
    <3> QED BY <2>3, <3>3, <3>4 DEF Range
  <2> QED BY <2>1, <2>4
<1>7. \A d \in EventsUpTo(polls[p].to) : Handled(d)' \/ d \in Range(Tail(rest))
  BY <1>2, <1>3, <1>5, <1>6
<1> QED BY <1>1, <1>4, <1>6, <1>7, PollContinues

(* The webhooks' jobs for the event are queued one by one.                   *)
LEMMA PollEnqueues ==
  ASSUME PollsTyped, NothingSkipped, NEW p \in Polls, polls[p].at \in Saved,
         NEW hooks, Enqueuing(p, hooks), UNCHANGED <<auditLog, failed, chainHead>>
  PROVE  /\ PollsTyped' /\ NothingSkipped'
         /\ \A q \in Polls \ {p} : polls'[q] = polls[q]
         /\ polls'[p].at \in Saved => /\ polls'[p].at = "enqueuing" /\ polls'[p].hooks = hooks
                                      /\ polls'[p].rest = polls[p].rest
<1>1. (\A e : IsLogged(e) => IsLogged(e)') /\ failed \subseteq failed' /\ chainHead' = chainHead
  BY DEF IsLogged
<1>2. polls[p].at \in Looping BY DEF Looping
<1> PICK e : e = Head(polls[p].rest) OBVIOUS
<1>3. Handled(e)' BY <1>1 DEF NothingSkipped, Moving, Handled
<1>4. CASE hooks = {}
  <2>1. Continue(p, Tail(polls[p].rest)) BY <1>4 DEF Enqueuing
  <2> QED BY <1>1, <1>2, <1>3, <2>1, EventDone
<1>5. CASE hooks # {}
  <2> PICK next : next = [at |-> "enqueuing", to |-> polls[p].to, rest |-> polls[p].rest, hooks |-> hooks]
    OBVIOUS
  <2>1. Await(p, next) /\ lastPolledBlock' = lastPolledBlock BY <1>5 DEF Enqueuing
  <2>2. /\ next.at = "enqueuing" /\ next.to = polls[p].to /\ next.rest = polls[p].rest
        /\ next.hooks = hooks
    OBVIOUS
  <2>3. PollState(polls[p]) /\ Moving(polls[p]) BY DEF PollsTyped, NothingSkipped
  <2>4. PollState(next) BY <1>2, <2>2, <2>3 DEF PollState, Looping, Saved
  <2>5. \A d : Handled(d) => Handled(d)' BY <1>1 DEF Handled
  <2>6. Moving(next)' BY <1>1, <1>2, <2>2, <2>3, <2>5 DEF Moving, Looping, Saved
  <2>7. lastPolledBlock' \in 0..Len(Blocks) /\ \A d \in EventsUpTo(lastPolledBlock') : Handled(d)'
    BY <2>1, <2>5 DEF PollsTyped, NothingSkipped
  <2>8. PollsTyped' /\ NothingSkipped' BY <1>1, <2>1, <2>4, <2>6, <2>7, PollGoesOn
  <2> QED BY <2>1, <2>2, <2>8, OnePollMoves
<1> QED BY <1>4, <1>5

(* As long as the jobs stay, only what the poll that moves owes is new.      *)
LEMMA PollOwesAlone ==
  ASSUME OneJobEach, NEW p \in Polls, \A q \in Polls \ {p} : polls'[q] = polls[q],
         UNCHANGED <<jobVars, accepted>>, \A e : IsLogged(e) => IsLogged(e)',
         \A h \in Hooks : Owes(polls'[p], h) =>
           /\ ~ Taken(<<h, Head(polls'[p].rest)>>)
           /\ <<h, Head(polls'[p].rest)>> \notin accepted,
         polls'[p].at \in Saved => \A q \in Polls \ {p} :
           polls[q].at \in Saved => Head(polls[q].rest).tx # Head(polls'[p].rest).tx
  PROVE  OneJobEach'
<1>1. \A pair : Taken(pair)' <=> Taken(pair) BY DEF jobVars, Taken
<1>2. accepted' = accepted OBVIOUS
<1>3. JobsDiffer' BY <1>1, <1>2 DEF jobVars, OneJobEach, JobsDiffer
<1>4. TakenIsLogged' BY <1>1, <1>2 DEF OneJobEach, TakenIsLogged
<1>5. ASSUME NEW q \in Polls, NEW h \in Hooks, Owes(polls'[q], h),
             NEW e, e = Head(polls'[q].rest)
      PROVE  ~ Taken(<<h, e>>)' /\ <<h, e>> \notin accepted'
  <2>1. CASE q = p BY <1>1, <1>2, <1>5, <2>1
  <2>2. CASE q # p
    <3>1. polls'[q] = polls[q] BY <2>2
    <3> QED BY <1>1, <1>2, <1>5, <3>1 DEF OneJobEach, PollsOweAlone
  <2> QED BY <2>1, <2>2
<1>6. ASSUME NEW q \in Polls, NEW r \in Polls, q # r, polls'[q].at \in Saved, polls'[r].at \in Saved
      PROVE  Head(polls'[q].rest).tx # Head(polls'[r].rest).tx
  <2>1. CASE q = p
    <3>1. polls'[r] = polls[r] BY <1>6, <2>1
    <3> QED BY <1>6, <2>1, <3>1
  <2>2. CASE r = p
    <3>1. polls'[q] = polls[q] BY <1>6, <2>2
    <3> QED BY <1>6, <2>2, <3>1
  <2>3. CASE q # p /\ r # p
    <3>1. polls'[q] = polls[q] /\ polls'[r] = polls[r] BY <2>3
    <3> QED BY <1>6, <3>1 DEF OneJobEach, PollsOweAlone
  <2> QED BY <2>1, <2>2, <2>3
<1>7. PollsOweAlone' BY <1>5, <1>6 DEF PollsOweAlone, Owes
<1> QED BY <1>3, <1>4, <1>7 DEF OneJobEach

(* The jobs go from the queue to the worker, to a timer and back.            *)
LEMMA JobsMove ==
  ASSUME OneJobEach, UNCHANGED <<polls, auditLog>>, JobsDiffer',
         \A pair : Taken(pair)' \/ pair \in accepted' => Taken(pair) \/ pair \in accepted
  PROVE  OneJobEach'
<1>1. TakenIsLogged' BY DEF OneJobEach, TakenIsLogged, IsLogged
<1>2. PollsOweAlone' BY DEF OneJobEach, PollsOweAlone, Owes
<1> QED BY <1>1, <1>2 DEF OneJobEach

LEMMA QueueGrows ==
  ASSUME JobsTyped, NEW job \in Job, queue' = Append(queue, job), NEW n, n = Len(queue)
  PROVE  /\ n \in Nat /\ queue' \in Seq(Job) /\ Len(queue') = n + 1
         /\ \A i \in 1..n : queue'[i] = queue[i]
         /\ queue'[n + 1] = job
<1>1. queue \in Seq(Job) BY DEF JobsTyped
<1> DEFINE after == Append(queue, job)
<1>2. /\ n \in Nat /\ after \in Seq(Job) /\ Len(after) = n + 1
      /\ \A i \in 1..n : after[i] = queue[i]
      /\ after[n + 1] = job
  BY <1>1, AppendProperties
<1> HIDE DEF after
<1>3. queue' = after BY DEF after
<1> QED BY <1>2, <1>3

LEMMA StepSend ==
  ASSUME IngestInv, SendNext
  PROVE  JobsTyped' /\ OneJobEach'
<1>1. queue \in Seq(Job) /\ queue # <<>> BY DEF IngestInv, IngestTyped, JobsTyped, SendNext
<1>2. PICK n \in Nat : n = Len(queue) BY <1>1
<1> DEFINE rest == Tail(queue)
<1>3. /\ rest \in Seq(Job) /\ Len(rest) = n - 1 /\ n # 0 /\ Head(queue) = queue[1]
      /\ \A i \in 1..(n - 1) : rest[i] = queue[i + 1]
  BY <1>1, <1>2, HeadTailProperties
<1> HIDE DEF rest
<1>4. queue' = rest /\ sending' = queue[1] /\ sending = NoJob /\ UNCHANGED <<retries, accepted, polls, auditLog>>
  BY <1>3 DEF SendNext, rest, pollVars
<1>5. 1 \in 1..n /\ \A i \in 1..(n - 1) : i + 1 \in 1..n /\ i + 1 # 1 BY <1>3
<1>6. queue[1] \in Job BY <1>1, <1>2, <1>5
<1>7. JobsTyped' BY <1>3, <1>4, <1>6 DEF IngestInv, IngestTyped, JobsTyped
<1>8. /\ \A i, j \in 1..n : PairOf(queue[i]) = PairOf(queue[j]) => i = j
      /\ \A a, b \in retries : PairOf(a) = PairOf(b) => a = b
      /\ \A i \in 1..n, b \in retries : PairOf(queue[i]) # PairOf(b)
      /\ \A pair \in accepted : ~ Taken(pair)
  BY <1>2 DEF IngestInv, OneJobEach, JobsDiffer
<1>9. ASSUME NEW pair, Taken(pair)' PROVE Taken(pair)
  <2>1. \/ \E i \in 1..(n - 1) : PairOf(rest[i]) = pair
        \/ \E job \in retries : PairOf(job) = pair
        \/ PairOf(queue[1]) = pair
    BY <1>3, <1>4, <1>9 DEF Taken
  <2>2. ASSUME NEW i \in 1..n, PairOf(queue[i]) = pair PROVE Taken(pair)
    BY <1>2, <2>2 DEF Taken
  <2>3. CASE \E job \in retries : PairOf(job) = pair BY <2>3 DEF Taken
  <2>4. ASSUME NEW i \in 1..(n - 1), PairOf(rest[i]) = pair PROVE Taken(pair)
    BY <1>3, <1>5, <2>2, <2>4
  <2> QED BY <1>5, <2>1, <2>2, <2>3, <2>4
<1>10. ASSUME NEW i \in 1..(n - 1), NEW j \in 1..(n - 1), PairOf(rest[i]) = PairOf(rest[j]) PROVE i = j
  <2>1. i + 1 = j + 1 BY <1>3, <1>5, <1>8, <1>10
  <2> QED BY <2>1
<1>11. ASSUME NEW i \in 1..(n - 1)
       PROVE  PairOf(rest[i]) # PairOf(queue[1]) /\ \A b \in retries : PairOf(rest[i]) # PairOf(b)
  BY <1>3, <1>5, <1>8
<1>12. \A b \in retries : PairOf(b) # PairOf(queue[1]) BY <1>5, <1>8
<1>13. \A pair \in accepted : ~ Taken(pair)' BY <1>8, <1>9
<1>14. JobsDiffer'
  BY <1>3, <1>4, <1>8, <1>10, <1>11, <1>12, <1>13 DEF JobsDiffer
<1> QED BY <1>4, <1>7, <1>9, <1>14, JobsMove DEF IngestInv

LEMMA StepAccepted ==
  ASSUME IngestInv, Accepted
  PROVE  JobsTyped' /\ OneJobEach'
<1>1. /\ sending # NoJob /\ sending' = NoJob /\ accepted' = accepted \cup {PairOf(sending)}
      /\ UNCHANGED <<queue, retries, polls, auditLog>>
  BY DEF Accepted, PairOf, pollVars
<1>2. JobsTyped' BY <1>1 DEF IngestInv, IngestTyped, JobsTyped
<1>3. \A pair : Taken(pair)' => Taken(pair) /\ pair # PairOf(sending)
  BY <1>1 DEF IngestInv, OneJobEach, JobsDiffer, Taken
<1>4. Taken(PairOf(sending)) BY <1>1 DEF Taken
<1>5. \A pair \in accepted' : ~ Taken(pair)'
  BY <1>1, <1>3 DEF IngestInv, OneJobEach, JobsDiffer
<1>6. JobsDiffer' BY <1>1, <1>5 DEF IngestInv, OneJobEach, JobsDiffer
<1> QED BY <1>1, <1>2, <1>3, <1>4, <1>6, JobsMove DEF IngestInv

LEMMA StepRefused ==
  ASSUME IngestInv, Refused
  PROVE  JobsTyped' /\ OneJobEach'
<1> DEFINE again == [sending EXCEPT !.attempt = sending.attempt + 1]
<1>1. /\ sending # NoJob /\ sending' = NoJob /\ UNCHANGED <<queue, accepted, polls, auditLog>>
      /\ retries' = retries \/ retries' = retries \cup {again}
  BY DEF Refused, pollVars
<1>2. sending \in Job BY <1>1 DEF IngestInv, IngestTyped, JobsTyped
<1>3. again \in Job /\ PairOf(again) = PairOf(sending) BY <1>2 DEF Job, PairOf
<1> HIDE DEF again
<1>4. IsFiniteSet(retries) BY DEF IngestInv, IngestTyped, JobsTyped
<1>5. IsFiniteSet(retries \cup {again}) BY <1>4, FS_AddElement
<1>6. JobsTyped' BY <1>1, <1>3, <1>4, <1>5 DEF IngestInv, IngestTyped, JobsTyped
<1>7. \A pair : Taken(pair)' => Taken(pair) BY <1>1, <1>3 DEF Taken
<1>8. \A pair \in accepted' : ~ Taken(pair)'
  BY <1>1, <1>7 DEF IngestInv, OneJobEach, JobsDiffer
<1>9. /\ \A a, b \in retries' : PairOf(a) = PairOf(b) => a = b
      /\ \A i \in 1..Len(queue'), b \in retries' : PairOf(queue'[i]) # PairOf(b)
  BY <1>1, <1>3 DEF IngestInv, OneJobEach, JobsDiffer
<1>10. JobsDiffer' BY <1>1, <1>8, <1>9 DEF IngestInv, OneJobEach, JobsDiffer
<1> QED BY <1>1, <1>6, <1>7, <1>10, JobsMove DEF IngestInv

LEMMA StepRetry ==
  ASSUME IngestInv, RetryTimer
  PROVE  JobsTyped' /\ OneJobEach'
<1>1. PICK job \in retries : queue' = Append(queue, job) /\ retries' = retries \ {job}
  BY DEF RetryTimer
<1>2. UNCHANGED <<sending, accepted, polls, auditLog>> BY DEF RetryTimer, pollVars
<1>3. JobsTyped BY DEF IngestInv, IngestTyped
<1>4. PICK n : n = Len(queue) OBVIOUS
<1>5. job \in Job BY <1>3 DEF JobsTyped
<1>6. /\ n \in Nat /\ queue' \in Seq(Job) /\ Len(queue') = n + 1
      /\ \A i \in 1..n : queue'[i] = queue[i]
      /\ queue'[n + 1] = job
  BY <1>1, <1>3, <1>4, <1>5, QueueGrows
<1>7. \A i \in 1..(n + 1) : i \in 1..n \/ i = n + 1 BY <1>6
<1>8. JobsTyped'
  <2>1. IsFiniteSet(retries \ {job}) BY <1>3, FS_Subset DEF JobsTyped
  <2> QED BY <1>1, <1>2, <1>3, <1>6, <2>1 DEF JobsTyped
<1>9. ASSUME NEW pair, Taken(pair)' PROVE Taken(pair)
  <2>1. \/ \E i \in 1..(n + 1) : PairOf(queue'[i]) = pair
        \/ \E b \in retries : PairOf(b) = pair
        \/ sending # NoJob /\ PairOf(sending) = pair
    BY <1>1, <1>2, <1>6, <1>9 DEF Taken
  <2>2. ASSUME NEW i \in 1..n, PairOf(queue[i]) = pair PROVE Taken(pair) BY <1>4, <2>2 DEF Taken
  <2>3. CASE \E b \in retries : PairOf(b) = pair BY <2>3 DEF Taken
  <2> QED BY <1>6, <1>7, <2>1, <2>2, <2>3 DEF Taken
<1>10. /\ \A i, j \in 1..n : PairOf(queue[i]) = PairOf(queue[j]) => i = j
       /\ \A a, b \in retries : PairOf(a) = PairOf(b) => a = b
       /\ \A i \in 1..n, b \in retries : PairOf(queue[i]) # PairOf(b)
       /\ sending # NoJob => /\ \A i \in 1..n : PairOf(queue[i]) # PairOf(sending)
                             /\ \A b \in retries : PairOf(b) # PairOf(sending)
       /\ \A pair \in accepted : ~ Taken(pair)
  BY <1>4 DEF IngestInv, OneJobEach, JobsDiffer
<1>11. \A i, j \in 1..(n + 1) : PairOf(queue'[i]) = PairOf(queue'[j]) => i = j
  BY <1>6, <1>7, <1>10
<1>12. \A i \in 1..(n + 1), b \in retries' : PairOf(queue'[i]) # PairOf(b)
  BY <1>1, <1>6, <1>7, <1>10
<1>13. sending # NoJob => \A i \in 1..(n + 1) : PairOf(queue'[i]) # PairOf(sending)
  BY <1>1, <1>6, <1>7, <1>10
<1>14. \A pair \in accepted' : ~ Taken(pair)' BY <1>2, <1>9, <1>10
<1>15. JobsDiffer' BY <1>1, <1>2, <1>6, <1>10, <1>11, <1>12, <1>13, <1>14 DEF JobsDiffer
<1> QED BY <1>2, <1>8, <1>9, <1>15, JobsMove DEF IngestInv

LEMMA StepEnqueue ==
  ASSUME IngestInv, NEW p \in Polls, NEW h \in Hooks, EnqueueJob(p, h)
  PROVE  IngestInv'
<1> PICK e : e = Head(polls[p].rest) OBVIOUS
<1> PICK n : n = Len(queue) OBVIOUS
<1> PICK job : job = [hook |-> h, event |-> e, attempt |-> 0] OBVIOUS
<1> PICK hooks : hooks = polls[p].hooks \ {h} OBVIOUS
<1>1. /\ polls[p].at = "enqueuing" /\ h \in polls[p].hooks
      /\ queue' = Append(queue, job) /\ Enqueuing(p, hooks)
      /\ UNCHANGED <<auditLog, failed, chainHead, sending, retries, accepted>>
  BY DEF EnqueueJob, At
<1>2. polls[p].rest \in Seq(ChainEvent) /\ polls[p].rest # <<>>
  BY <1>1 DEF IngestInv, IngestTyped, PollsTyped, PollState, Looping, Saved
<1>3. e \in ChainEvent BY <1>2, HeadTailProperties
<1>4. job \in Job /\ PairOf(job) = <<h, e>> BY <1>3 DEF Job, PairOf
<1>5. PollsTyped /\ NothingSkipped /\ JobsTyped BY DEF IngestInv, IngestTyped
<1>6. polls[p].at \in Saved BY <1>1 DEF Saved
<1>7. /\ PollsTyped' /\ NothingSkipped'
      /\ \A q \in Polls \ {p} : polls'[q] = polls[q]
      /\ polls'[p].at \in Saved => /\ polls'[p].at = "enqueuing" /\ polls'[p].hooks = hooks
                                   /\ polls'[p].rest = polls[p].rest
  BY <1>1, <1>5, <1>6, PollEnqueues
<1>8. /\ n \in Nat /\ queue' \in Seq(Job) /\ Len(queue') = n + 1
      /\ \A i \in 1..n : queue'[i] = queue[i]
      /\ queue'[n + 1] = job
  BY <1>1, <1>4, <1>5, QueueGrows
<1>9. \A i \in 1..(n + 1) : i \in 1..n \/ i = n + 1 BY <1>8
<1>10. IngestTyped' BY <1>1, <1>7, <1>8 DEF IngestInv, IngestTyped, JobsTyped
<1>11. ~ Taken(<<h, e>>) /\ <<h, e>> \notin accepted /\ IsLogged(e)
  BY <1>1, <1>6 DEF IngestInv, OneJobEach, PollsOweAlone, Owes, NothingSkipped, Moving
<1>12. \A pair : Taken(pair)' <=> Taken(pair) \/ pair = <<h, e>>
  <2>1. ASSUME NEW pair, Taken(pair)' PROVE Taken(pair) \/ pair = <<h, e>>
    <3>1. \/ \E i \in 1..(n + 1) : PairOf(queue'[i]) = pair
          \/ \E b \in retries : PairOf(b) = pair
          \/ sending # NoJob /\ PairOf(sending) = pair
      BY <1>1, <1>8, <2>1 DEF Taken
    <3>2. ASSUME NEW i \in 1..n, PairOf(queue[i]) = pair PROVE Taken(pair) BY <3>2 DEF Taken
    <3> QED BY <1>4, <1>8, <1>9, <3>1, <3>2 DEF Taken
  <2>2. ASSUME NEW pair, Taken(pair) PROVE Taken(pair)'
    <3>1. ASSUME NEW i \in 1..n, PairOf(queue[i]) = pair PROVE Taken(pair)'
      <4>1. i \in 1..Len(queue') /\ queue'[i] = queue[i] BY <1>8
      <4> QED BY <3>1, <4>1 DEF Taken
    <3> QED BY <1>1, <2>2, <3>1 DEF Taken
  <2>3. Taken(<<h, e>>)'
    <3>1. n + 1 \in 1..Len(queue') BY <1>8
    <3> QED BY <1>4, <1>8, <3>1 DEF Taken
  <2> QED BY <2>1, <2>2, <2>3
<1>13. /\ \A i, j \in 1..n : PairOf(queue[i]) = PairOf(queue[j]) => i = j
       /\ \A a, b \in retries : PairOf(a) = PairOf(b) => a = b
       /\ \A i \in 1..n, b \in retries : PairOf(queue[i]) # PairOf(b)
       /\ sending # NoJob => /\ \A i \in 1..n : PairOf(queue[i]) # PairOf(sending)
                             /\ \A b \in retries : PairOf(b) # PairOf(sending)
       /\ \A pair \in accepted : ~ Taken(pair)
  BY DEF IngestInv, OneJobEach, JobsDiffer
<1>14. /\ \A i \in 1..n : PairOf(queue[i]) # <<h, e>>
       /\ \A b \in retries : PairOf(b) # <<h, e>>
       /\ sending # NoJob => PairOf(sending) # <<h, e>>
  BY <1>11 DEF Taken
<1>15. JobsDiffer'
  <2>1. \A i, j \in 1..(n + 1) : PairOf(queue'[i]) = PairOf(queue'[j]) => i = j
    BY <1>4, <1>8, <1>9, <1>13, <1>14
  <2>2. \A i \in 1..(n + 1), b \in retries : PairOf(queue'[i]) # PairOf(b)
    BY <1>4, <1>8, <1>9, <1>13, <1>14
  <2>3. sending # NoJob => \A i \in 1..(n + 1) : PairOf(queue'[i]) # PairOf(sending)
    BY <1>4, <1>8, <1>9, <1>13, <1>14
  <2>4. \A pair \in accepted : ~ Taken(pair)' BY <1>11, <1>12, <1>13
  <2> QED BY <1>1, <1>8, <1>13, <2>1, <2>2, <2>3, <2>4 DEF JobsDiffer
<1>16. TakenIsLogged'
  <2>1. ASSUME NEW pair, Taken(pair) \/ pair = <<h, e>> \/ pair \in accepted
        PROVE  IsLogged(pair[2])
    BY <1>11, <2>1 DEF IngestInv, OneJobEach, TakenIsLogged
  <2> QED BY <1>1, <1>12, <2>1 DEF TakenIsLogged, IsLogged
<1>17. ASSUME NEW q \in Polls, polls'[q].at \in Saved
       PROVE  /\ polls[q].at \in Saved /\ polls'[q].rest = polls[q].rest
              /\ \A g \in Hooks : Owes(polls'[q], g) =>
                   /\ Owes(polls[q], g) /\ <<g, Head(polls[q].rest)>> # <<h, e>>
  <2>1. CASE q = p
    BY <1>1, <1>6, <1>7, <1>17, <2>1 DEF Owes
  <2>2. CASE q # p
    <3>1. polls'[q] = polls[q] BY <1>7, <2>2
    <3>2. Head(polls[q].rest).tx # e.tx
      BY <1>6, <1>17, <2>2, <3>1 DEF IngestInv, OneJobEach, PollsOweAlone
    <3> QED BY <1>17, <3>1, <3>2
  <2> QED BY <2>1, <2>2
<1>18. \A q \in Polls, g \in Hooks : Owes(polls'[q], g) => polls'[q].at \in Saved
  BY DEF Owes, Saved
<1>19. PollsOweAlone'
  <2>1. ASSUME NEW q \in Polls, NEW g \in Hooks, Owes(polls'[q], g),
               NEW d, d = Head(polls'[q].rest)
        PROVE  ~ Taken(<<g, d>>)' /\ <<g, d>> \notin accepted'
    <3>1. Owes(polls[q], g) /\ d = Head(polls[q].rest) /\ <<g, d>> # <<h, e>>
      BY <1>17, <1>18, <2>1
    <3> QED BY <1>1, <1>12, <3>1 DEF IngestInv, OneJobEach, PollsOweAlone
  <2>2. ASSUME NEW q \in Polls, NEW r \in Polls, q # r, polls'[q].at \in Saved, polls'[r].at \in Saved
        PROVE  Head(polls'[q].rest).tx # Head(polls'[r].rest).tx
    BY <1>17, <2>2 DEF IngestInv, OneJobEach, PollsOweAlone
  <2> QED BY <2>1, <2>2 DEF PollsOweAlone, Owes
<1> QED BY <1>7, <1>10, <1>15, <1>16, <1>19 DEF IngestInv, OneJobEach

(* A poll that is not past the log owes nobody anything.                     *)
LEMMA PollOwesNothing ==
  ASSUME OneJobEach, NEW p \in Polls, \A q \in Polls \ {p} : polls'[q] = polls[q],
         UNCHANGED <<jobVars, accepted>>, \A e : IsLogged(e) => IsLogged(e)',
         polls'[p].at \notin Saved
  PROVE  OneJobEach'
<1>1. \A h \in Hooks : ~ Owes(polls'[p], h) BY DEF Owes, Saved
<1> QED BY <1>1, PollOwesAlone

(* The steps of a poll that have no part in the log.                         *)
LEMMA StepPolling ==
  ASSUME IngestInv, NEW p \in Polls,
         AskLatest(p) \/ CheckLatest(p) \/ PollFails(p) \/ FetchEvents(p) \/ ReadTail(p)
  PROVE  IngestInv'
<1>1. /\ UNCHANGED <<chainHead, auditLog, failed, accepted, jobVars>>
      /\ \A e : IsLogged(e) => IsLogged(e)'
  BY DEF AskLatest, CheckLatest, PollFails, FetchEvents, ReadTail, IsLogged
<1>2. /\ JobsTyped' /\ auditLog' \in Seq(LogEntry)
  BY <1>1 DEF jobVars, IngestInv, IngestTyped, JobsTyped
<1>3. PollsTyped /\ NothingSkipped /\ OneJobEach /\ PollState(polls[p]) /\ Moving(polls[p])
  BY DEF IngestInv, IngestTyped, PollsTyped, NothingSkipped
<1>4. \A e : Handled(e) => Handled(e)' BY <1>1 DEF Handled
<1>5. SUFFICES /\ PollsTyped' /\ NothingSkipped' /\ polls'[p].at \notin Saved
               /\ \A q \in Polls \ {p} : polls'[q] = polls[q]
  <2>1. OneJobEach' BY <1>1, <1>3, <1>5, PollOwesNothing
  <2> QED BY <1>2, <1>5, <2>1 DEF IngestInv, IngestTyped
<1>6. ASSUME NEW s, Await(p, s), PollState(s), Moving(s)', s.at \notin Saved,
             lastPolledBlock' = lastPolledBlock
      PROVE  /\ PollsTyped' /\ NothingSkipped' /\ polls'[p].at \notin Saved
             /\ \A q \in Polls \ {p} : polls'[q] = polls[q]
  <2>1. lastPolledBlock' \in 0..Len(Blocks) BY <1>3, <1>6 DEF PollsTyped
  <2>2. \A e \in EventsUpTo(lastPolledBlock') : Handled(e)' BY <1>3, <1>4, <1>6 DEF NothingSkipped
  <2>3. PollsTyped' /\ NothingSkipped' BY <1>1, <1>3, <1>6, <2>1, <2>2, PollGoesOn
  <2> QED BY <1>3, <1>6, <2>3, OnePollMoves
<1> USE DEF PollState, Moving, Looping, Saved
<1>7. CASE AskLatest(p)
  <2> PICK s : s = [at |-> "checking", to |-> chainHead] OBVIOUS
  <2>1. Await(p, s) /\ lastPolledBlock' = lastPolledBlock BY <1>7 DEF AskLatest
  <2>2. s.at = "checking" /\ s.to \in 0..Len(Blocks) BY <1>3 DEF PollsTyped
  <2>3. PollState(s) /\ Moving(s)' /\ s.at \notin Saved BY <2>2
  <2> QED BY <1>6, <2>1, <2>3
<1>8. PollState(IdlePoll) /\ Moving(IdlePoll)' /\ IdlePoll.at \notin Saved BY DEF IdlePoll
<1>9. CASE CheckLatest(p)
  <2>1. lastPolledBlock' = lastPolledBlock /\ polls[p].at = "checking" BY <1>9 DEF CheckLatest, At
  <2>2. CASE polls[p].to <= lastPolledBlock
    <3>1. Await(p, IdlePoll) BY <1>9, <2>2 DEF CheckLatest
    <3> QED BY <1>6, <1>8, <2>1, <3>1
  <2>3. CASE ~ (polls[p].to <= lastPolledBlock)
    <3> PICK s : s = [at |-> "fetching", from |-> lastPolledBlock + 1, to |-> polls[p].to] OBVIOUS
    <3>1. Await(p, s) BY <1>9, <2>3 DEF CheckLatest
    <3>2. s.at = "fetching" /\ s.from = lastPolledBlock + 1 /\ s.to = polls[p].to OBVIOUS
    <3>3. Len(Blocks) \in Nat BY IngestionAssumption
    <3>4. /\ s.to \in 0..Len(Blocks) /\ lastPolledBlock \in 0..Len(Blocks)
          /\ s.from \in 1..(Len(Blocks) + 1) /\ s.from - 1 = lastPolledBlock
      BY <1>3, <2>1, <3>2, <3>3 DEF PollsTyped
    <3>5. \A e \in EventsUpTo(s.from - 1) : Handled(e)' BY <1>3, <1>4, <3>4 DEF NothingSkipped
    <3>6. PollState(s) /\ Moving(s)' /\ s.at \notin Saved BY <3>2, <3>4, <3>5
    <3> QED BY <1>6, <2>1, <3>1, <3>6
  <2> QED BY <2>2, <2>3
<1>10. CASE PollFails(p) BY <1>6, <1>8, <1>10 DEF PollFails
<1>11. CASE FetchEvents(p)
  <2> PICK rest : rest = EventsIn(polls[p].from, polls[p].to) OBVIOUS
  <2>1. Continue(p, rest) /\ polls[p].at = "fetching" BY <1>11 DEF FetchEvents, At
  <2>2. Len(Blocks) \in Nat BY IngestionAssumption
  <2>3. polls[p].from \in 1..(Len(Blocks) + 1) /\ polls[p].to \in 0..Len(Blocks)
    BY <1>3, <2>1
  <2>4. /\ rest \in Seq(ChainEvent)
        /\ Range(rest) = UNION {Range(Blocks[k]) : k \in polls[p].from..polls[p].to}
    BY <2>3, EventsOfBlocks
  <2>5. ASSUME NEW e \in EventsUpTo(polls[p].to) PROVE Handled(e)' \/ e \in Range(rest)
    <3>1. PICK k \in 1..polls[p].to : e \in Range(Blocks[k]) BY <2>5 DEF EventsUpTo
    <3>2. k \in 1..(polls[p].from - 1) \/ k \in polls[p].from..polls[p].to BY <2>2, <2>3
    <3>3. CASE k \in 1..(polls[p].from - 1)
      <4>1. e \in EventsUpTo(polls[p].from - 1) BY <3>1, <3>3 DEF EventsUpTo
      <4> QED BY <1>3, <1>4, <2>1, <4>1
    <3>4. CASE k \in polls[p].from..polls[p].to BY <2>4, <3>1, <3>4
    <3> QED BY <3>2, <3>3, <3>4
  <2> HIDE DEF PollState, Moving, Looping, Saved
  <2>6. failed \subseteq failed' /\ chainHead' = chainHead BY <1>1
  <2> QED BY <1>1, <1>3, <2>1, <2>3, <2>4, <2>5, <2>6, PollContinues
<1>12. CASE ReadTail(p)
  <2> PICK s : s = [at |-> "saving", to |-> polls[p].to, rest |-> polls[p].rest,
                    previousHash |-> TailHash] OBVIOUS
  <2>1. Await(p, s) /\ lastPolledBlock' = lastPolledBlock /\ polls[p].at = "reading"
    BY <1>12 DEF ReadTail, At
  <2>2. /\ s.at = "saving" /\ s.to = polls[p].to /\ s.rest = polls[p].rest
        /\ s.previousHash = TailHash
    OBVIOUS
  <2>3. TailHash \in Seq(ChainEvent)
    <3>1. auditLog \in Seq(LogEntry) BY DEF IngestInv, IngestTyped
    <3>2. CASE auditLog = <<>> BY <3>2 DEF TailHash
    <3>3. CASE auditLog # <<>>
      <4>1. auditLog[Len(auditLog)] \in LogEntry BY <3>1, <3>3
      <4> QED BY <3>3, <4>1 DEF TailHash, Last, LogEntry
    <3> QED BY <3>2, <3>3
  <2>4. PollState(s) /\ s.at \notin Saved BY <1>3, <2>1, <2>2, <2>3
  <2>5. Moving(s)' BY <1>3, <1>4, <2>1, <2>2
  <2> QED BY <1>6, <2>1, <2>4, <2>5
<1> QED BY <1>7, <1>9, <1>10, <1>11, <1>12

(* The event is new to the log, so that no other poll owes its jobs, and no  *)
(* job is there for it.                                                      *)
LEMMA StepSave ==
  ASSUME IngestInv, NEW p \in Polls, SaveEntry(p)
  PROVE  IngestInv'
<1> PICK e : e = Head(polls[p].rest) OBVIOUS
<1> PICK entry : entry = [event |-> e, previousHash |-> polls[p].previousHash,
                          chainHash |-> Append(polls[p].previousHash, e)] OBVIOUS
<1> PICK s : s = [at |-> "resolving", to |-> polls[p].to, rest |-> polls[p].rest] OBVIOUS
<1>1. /\ polls[p].at = "saving" /\ ~ IsLogged(e)
      /\ auditLog' = Append(auditLog, entry) /\ Await(p, s)
      /\ UNCHANGED <<chainHead, lastPolledBlock, failed, accepted, jobVars>>
  BY DEF SaveEntry, At
<1>2. PollsTyped /\ NothingSkipped /\ OneJobEach /\ PollState(polls[p]) /\ Moving(polls[p])
  BY DEF IngestInv, IngestTyped, PollsTyped, NothingSkipped
<1>3. /\ polls[p].rest \in Seq(ChainEvent) /\ polls[p].rest # <<>> /\ polls[p].to \in 0..Len(Blocks)
      /\ polls[p].previousHash \in Seq(ChainEvent)
      /\ \A d \in EventsUpTo(polls[p].to) : Handled(d) \/ d \in Range(polls[p].rest)
  BY <1>1, <1>2 DEF PollState, Moving, Looping, Saved
<1>4. e \in ChainEvent BY <1>3, HeadTailProperties
<1>5. entry \in LogEntry /\ entry.event = e
  <2>1. Append(polls[p].previousHash, e) \in Seq(ChainEvent) BY <1>3, <1>4, AppendProperties
  <2> QED BY <1>3, <1>4, <2>1 DEF LogEntry
<1>6. /\ auditLog' \in Seq(LogEntry)
      /\ \A d : IsLogged(d)' <=> IsLogged(d) \/ e.tx = d.tx
  BY <1>1, <1>5, LogGrows DEF IngestInv
<1>7. s.at = "resolving" /\ s.to = polls[p].to /\ s.rest = polls[p].rest OBVIOUS
<1>8. PollState(s) BY <1>3, <1>7 DEF PollState, Looping, Saved
<1>9. \A d : Handled(d) => Handled(d)' BY <1>1, <1>6 DEF Handled
<1>10. Moving(s)'
  <2>1. IsLogged(e)' /\ e = Head(s.rest) BY <1>6, <1>7
  <2> QED BY <1>3, <1>7, <1>9, <2>1 DEF Moving, Looping, Saved
<1>11. lastPolledBlock' \in 0..Len(Blocks) /\ \A d \in EventsUpTo(lastPolledBlock') : Handled(d)'
  BY <1>1, <1>2, <1>9 DEF PollsTyped, NothingSkipped
<1>12. PollsTyped' /\ NothingSkipped'
  <2>1. (\A d : IsLogged(d) => IsLogged(d)') /\ failed \subseteq failed' /\ chainHead' = chainHead
    BY <1>1, <1>6
  <2> QED BY <1>1, <1>2, <1>8, <1>10, <1>11, <2>1, PollGoesOn
<1>13. polls'[p] = s /\ \A q \in Polls \ {p} : polls'[q] = polls[q]
  BY <1>1, <1>2, OnePollMoves
<1>14. OneJobEach'
  <2>1. \A h \in Hooks : ~ Taken(<<h, e>>) /\ <<h, e>> \notin accepted
    BY <1>1 DEF IngestInv, OneJobEach, TakenIsLogged
  <2>2. ASSUME NEW q \in Polls, polls[q].at \in Saved
        PROVE  Head(polls[q].rest).tx # e.tx
    <3>1. IsLogged(Head(polls[q].rest)) BY <1>2, <2>2 DEF NothingSkipped, Moving
    <3> QED BY <1>1, <3>1 DEF IsLogged
  <2>3. e = Head(polls'[p].rest) BY <1>7, <1>13
  <2>4. UNCHANGED <<jobVars, accepted>> BY <1>1
  <2>5. \A d : IsLogged(d) => IsLogged(d)' BY <1>6
  <2> QED BY <1>2, <1>13, <2>1, <2>2, <2>3, <2>4, <2>5, PollOwesAlone
<1>15. JobsTyped' BY <1>1 DEF jobVars, IngestInv, IngestTyped, JobsTyped
<1> QED BY <1>6, <1>12, <1>14, <1>15 DEF IngestInv, IngestTyped

LEMMA StepResolve ==
  ASSUME IngestInv, NEW p \in Polls, ResolveWebhooks(p)
  PROVE  IngestInv'
<1> PICK hooks : hooks = {h \in Hooks : webhooks[h] = "active"} OBVIOUS
<1>1. /\ polls[p].at = "resolving" /\ Enqueuing(p, hooks)
      /\ UNCHANGED <<chainHead, auditLog, failed, accepted, jobVars>>
  BY DEF ResolveWebhooks, At
<1>2. PollsTyped /\ NothingSkipped /\ OneJobEach /\ polls[p].at \in Saved
  BY <1>1 DEF IngestInv, IngestTyped, Saved
<1>3. /\ PollsTyped' /\ NothingSkipped'
      /\ \A q \in Polls \ {p} : polls'[q] = polls[q]
      /\ polls'[p].at \in Saved => /\ polls'[p].at = "enqueuing" /\ polls'[p].hooks = hooks
                                   /\ polls'[p].rest = polls[p].rest
  BY <1>1, <1>2, PollEnqueues
<1>4. OneJobEach'
  <2>1. ASSUME polls'[p].at \in Saved
        PROVE  /\ \A h \in Hooks : /\ ~ Taken(<<h, Head(polls'[p].rest)>>)
                                   /\ <<h, Head(polls'[p].rest)>> \notin accepted
               /\ \A q \in Polls \ {p} :
                    polls[q].at \in Saved => Head(polls[q].rest).tx # Head(polls'[p].rest).tx
    <3> PICK e : e = Head(polls[p].rest) OBVIOUS
    <3>1. Head(polls'[p].rest) = e BY <1>3, <2>1
    <3>2. \A h \in Hooks : ~ Taken(<<h, e>>) /\ <<h, e>> \notin accepted
      <4>1. TAKE h \in Hooks
      <4>2. polls[p].at = "resolving" BY <1>1
      <4>3. Owes(polls[p], h) BY <4>2 DEF Owes
      <4> QED BY <1>2, <4>3 DEF OneJobEach, PollsOweAlone
    <3>3. \A q \in Polls \ {p} : polls[q].at \in Saved => Head(polls[q].rest).tx # e.tx
      BY <1>2 DEF OneJobEach, PollsOweAlone
    <3> QED BY <3>1, <3>2, <3>3
  <2>2. \A h \in Hooks : Owes(polls'[p], h) => polls'[p].at \in Saved BY DEF Owes, Saved
  <2>3. UNCHANGED <<jobVars, accepted>> BY <1>1
  <2>4. \A d : IsLogged(d) => IsLogged(d)' BY <1>1 DEF IsLogged
  <2> QED BY <1>2, <1>3, <2>1, <2>2, <2>3, <2>4, PollOwesAlone
<1>5. JobsTyped' /\ auditLog' \in Seq(LogEntry)
  BY <1>1 DEF jobVars, IngestInv, IngestTyped, JobsTyped
<1> QED BY <1>3, <1>4, <1>5 DEF IngestInv, IngestTyped

LEMMA StepFails ==
  ASSUME IngestInv, NEW p \in Polls, EventFails(p)
  PROVE  IngestInv'
<1> PICK e : e = Head(polls[p].rest) OBVIOUS
<1>1. /\ polls[p].at \in Looping /\ failed' = failed \cup {e} /\ Continue(p, Tail(polls[p].rest))
      /\ UNCHANGED <<chainHead, auditLog, accepted, jobVars>>
  BY DEF EventFails, Looping, Saved
<1>2. PollsTyped /\ NothingSkipped /\ OneJobEach BY DEF IngestInv, IngestTyped
<1>3. (\A d : IsLogged(d) => IsLogged(d)') /\ failed \subseteq failed' /\ chainHead' = chainHead
  BY <1>1 DEF IsLogged
<1>4. Handled(e)' BY <1>1 DEF Handled
<1>5. /\ PollsTyped' /\ NothingSkipped' /\ polls'[p].at \notin Saved
      /\ \A q \in Polls \ {p} : polls'[q] = polls[q]
  BY <1>1, <1>2, <1>3, <1>4, EventDone
<1>6. UNCHANGED <<jobVars, accepted>> BY <1>1
<1>7. OneJobEach' BY <1>2, <1>3, <1>5, <1>6, PollOwesNothing
<1>8. JobsTyped' /\ auditLog' \in Seq(LogEntry)
  BY <1>1 DEF jobVars, IngestInv, IngestTyped, JobsTyped
<1> QED BY <1>5, <1>7, <1>8 DEF IngestInv, IngestTyped

(* What a restart forgets is nobody's any more.                              *)
LEMMA StepRestart ==
  ASSUME IngestInv, Restart
  PROVE  IngestInv'
<1>1. /\ lastPolledBlock' = 0 /\ polls' = [p \in Polls |-> IdlePoll]
      /\ queue' = <<>> /\ sending' = NoJob /\ retries' = {}
      /\ UNCHANGED <<chainHead, auditLog, failed, accepted>>
  BY DEF Restart
<1>2. Len(Blocks) \in Nat BY IngestionAssumption
<1>3. /\ \A p \in Polls : polls'[p] = IdlePoll
      /\ polls' = [p \in Polls |-> polls'[p]]
  BY <1>1
<1>4. \A p \in Polls : PollState(polls'[p]) /\ Moving(polls[p])' /\ polls'[p].at = "idle"
  BY <1>3 DEF PollState, Moving, IdlePoll, Looping, Saved
<1>5. PollsTyped'
  BY <1>1, <1>2, <1>3, <1>4 DEF IngestInv, IngestTyped, PollsTyped, PollState
<1>6. JobsTyped' BY <1>1, FS_EmptySet DEF JobsTyped
<1>7. IngestTyped' BY <1>1, <1>5, <1>6 DEF IngestInv, IngestTyped
<1>8. EventsUpTo(0) = {} BY DEF EventsUpTo
<1>9. NothingSkipped' BY <1>1, <1>4, <1>8 DEF NothingSkipped
<1>10. Len(queue') = 0 BY <1>1
<1>11. \A pair : ~ Taken(pair)' BY <1>1, <1>10 DEF Taken
<1>12. JobsDiffer' BY <1>1, <1>10, <1>11 DEF JobsDiffer
<1>13. TakenIsLogged' BY <1>1, <1>11 DEF IngestInv, OneJobEach, TakenIsLogged, IsLogged
<1>14. PollsOweAlone' BY <1>4 DEF PollsOweAlone, Owes, Saved
<1> QED BY <1>7, <1>9, <1>12, <1>13, <1>14 DEF IngestInv, OneJobEach

LEMMA StepIngest ==
  ASSUME IngestInv, [IngestNext]_ingestVars
  PROVE  IngestInv'
<1>1. ASSUME UNCHANGED <<polls, lastPolledBlock, auditLog, failed, jobVars, accepted>>,
             chainHead' \in 0..Len(Blocks)
      PROVE  IngestInv'
  <2>1. \A e : (IsLogged(e)' <=> IsLogged(e)) /\ (Handled(e)' <=> Handled(e))
    BY <1>1 DEF IsLogged, Handled
  <2>2. IngestTyped' BY <1>1 DEF jobVars, IngestInv, IngestTyped, PollsTyped, JobsTyped, PollState
  <2>3. NothingSkipped' BY <1>1, <2>1 DEF IngestInv, NothingSkipped, Moving
  <2>4. \A pair : Taken(pair)' <=> Taken(pair) BY <1>1 DEF jobVars, Taken
  <2>5. JobsDiffer' BY <1>1, <2>4 DEF jobVars, IngestInv, OneJobEach, JobsDiffer
  <2>6. OneJobEach' BY <1>1, <2>4, <2>5, JobsMove DEF IngestInv
  <2> QED BY <2>2, <2>3, <2>6 DEF IngestInv
<1>2. chainHead \in 0..Len(Blocks) BY DEF IngestInv, IngestTyped, PollsTyped
<1>3. ASSUME JobsTyped', OneJobEach', UNCHANGED <<chainHead, pollVars, auditLog, failed>>
      PROVE  IngestInv'
  <2>1. PollsTyped' BY <1>3 DEF pollVars, IngestInv, IngestTyped, PollsTyped, PollState
  <2>2. \A e : Handled(e)' <=> Handled(e) BY <1>3 DEF IsLogged, Handled
  <2>3. NothingSkipped' BY <1>3, <2>2 DEF pollVars, IngestInv, NothingSkipped, Moving, IsLogged
  <2> QED BY <1>3, <2>1, <2>3 DEF IngestInv, IngestTyped
<1>4. CASE NewBlock
  <2>1. Len(Blocks) \in Nat BY IngestionAssumption
  <2>2. chainHead' \in 0..Len(Blocks) BY <1>2, <1>4, <2>1 DEF NewBlock
  <2> QED BY <1>1, <1>4, <2>2 DEF NewBlock, pollVars
<1>5. CASE Restart BY <1>5, StepRestart
<1>6. ASSUME NEW p \in Polls,
             \/ AskLatest(p) \/ CheckLatest(p) \/ FetchEvents(p) \/ PollFails(p)
             \/ ReadTail(p) \/ SaveEntry(p) \/ ResolveWebhooks(p) \/ EventFails(p)
             \/ \E h \in Hooks : EnqueueJob(p, h)
      PROVE  IngestInv'
  BY <1>6, StepPolling, StepSave, StepResolve, StepFails, StepEnqueue
<1>7. CASE SendNext BY <1>3, <1>7, StepSend DEF SendNext
<1>8. CASE Accepted BY <1>3, <1>8, StepAccepted DEF Accepted
<1>9. CASE Refused BY <1>3, <1>9, StepRefused DEF Refused
<1>10. CASE RetryTimer BY <1>3, <1>10, StepRetry DEF RetryTimer
<1>11. ASSUME NEW h, RegisterWebhook(h) \/ Replay(h) \/ PurgeDlq(h) PROVE IngestInv'
  BY <1>1, <1>2, <1>11 DEF RegisterWebhook, Replay, PurgeDlq, SetWebhook, pollVars
<1>12. CASE UNCHANGED ingestVars BY <1>1, <1>2, <1>12 DEF ingestVars, pollVars
<1> QED BY <1>4, <1>5, <1>6, <1>7, <1>8, <1>9, <1>10, <1>11, <1>12 DEF IngestNext

LEMMA IngestStarts ==
  ASSUME IngestInit
  PROVE  IngestInv
<1>1. /\ chainHead = 0 /\ lastPolledBlock = 0 /\ polls = [p \in Polls |-> IdlePoll]
      /\ auditLog = <<>> /\ queue = <<>> /\ sending = NoJob /\ retries = {} /\ accepted = {}
  BY DEF IngestInit
<1>2. Len(Blocks) \in Nat /\ Len(queue) = 0 BY <1>1, IngestionAssumption
<1>3. \A p \in Polls : PollState(polls[p]) /\ Moving(polls[p]) /\ polls[p].at = "idle"
  BY <1>1 DEF PollState, Moving, IdlePoll, Looping, Saved
<1>4. IngestTyped BY <1>1, <1>2, <1>3, FS_EmptySet DEF IngestTyped, PollsTyped, JobsTyped
<1>5. NothingSkipped BY <1>1, <1>3 DEF NothingSkipped, EventsUpTo
<1>6. \A pair : ~ Taken(pair) BY <1>1, <1>2 DEF Taken
<1>7. JobsDiffer BY <1>1, <1>2 DEF JobsDiffer
<1>8. TakenIsLogged BY <1>1, <1>6 DEF TakenIsLogged
<1>9. PollsOweAlone BY <1>3 DEF PollsOweAlone, Owes, Saved
<1> QED BY <1>4, <1>5, <1>7, <1>8, <1>9 DEF IngestInv, OneJobEach

(* However many polls overlap, wherever one fails and whenever the process   *)
(* starts again, a poll that counts blocks as polled leaves no gap.          *)
THEOREM PollsLeaveNoGap == IngestSpec => []PolledIsIngested
<1>1. ASSUME IngestInv PROVE PolledIsIngested
  <2>1. lastPolledBlock \in 0..Len(Blocks) /\ Len(Blocks) \in Nat
    BY <1>1, IngestionAssumption DEF IngestInv, IngestTyped, PollsTyped
  <2> DEFINE read == EventsIn(1, lastPolledBlock)
  <2>2. read \in Seq(ChainEvent) /\ Range(read) = EventsUpTo(lastPolledBlock)
    <3>1. 1 \in 1..(Len(Blocks) + 1) BY <2>1
    <3>2. \A last \in 0..Len(Blocks) :
             /\ EventsIn(1, last) \in Seq(ChainEvent)
             /\ Range(EventsIn(1, last)) = UNION {Range(Blocks[k]) : k \in 1..last}
      BY <3>1, EventsOfBlocks
    <3> QED BY <2>1, <3>2 DEF EventsUpTo
  <2>3. \A e \in Range(read) : Handled(e) BY <1>1, <2>2 DEF IngestInv, NothingSkipped
  <2> HIDE DEF read
  <2>4. DOMAIN read = 1..Len(read) BY <2>2
  <2>5. \A i \in 1..Len(read) : read[i] \in Range(read) BY <2>4 DEF Range
  <2>6. \A i \in 1..Len(read) : Handled(read[i]) BY <2>3, <2>5
  <2> QED BY <2>6 DEF PolledIsIngested, Handled, read
<1>2. IngestInv /\ [IngestNext]_ingestVars => IngestInv' BY StepIngest
<1>3. IngestInit => IngestInv BY IngestStarts
<1> QED BY <1>1, <1>2, <1>3, PTL DEF IngestSpec

(* The pairs of the jobs are as many as the jobs.                            *)
LEMMA PairsCount ==
  ASSUME JobsTyped, JobsDiffer
  PROVE  Cardinality({PairOf(job) : job \in Jobs})
           = Len(queue) + Cardinality(retries) + (IF sending = NoJob THEN 0 ELSE 1)
<1> PICK n : n = Len(queue) OBVIOUS
<1> DEFINE Q == {PairOf(queue[i]) : i \in 1..n}
           R == {PairOf(job) : job \in retries}
           W == IF sending = NoJob THEN {} ELSE {PairOf(sending)}
           f == [i \in 1..n |-> PairOf(queue[i])]
           g == [job \in retries |-> PairOf(job)]
<1>1. queue \in Seq(Job) /\ n \in Nat /\ DOMAIN queue = 1..n /\ IsFiniteSet(retries)
  BY DEF JobsTyped
<1>2. IsFiniteSet(Q) /\ Cardinality(Q) = n
  <2>1. IsFiniteSet(1..n) /\ Cardinality(1..n) = n
    <3>1. 1 \in Int /\ n \in Int /\ n >= 0 BY <1>1
    <3>2. IsFiniteSet(1..n) /\ Cardinality(1..n) = IF 1 > n THEN 0 ELSE n - 1 + 1
      BY <3>1, FS_Interval
    <3> QED BY <3>1, <3>2
  <2>2. f \in [1..n -> Q] OBVIOUS
  <2>3. \A i, j \in 1..n : f[i] = f[j] => i = j BY DEF JobsDiffer
  <2>4. \A pair \in Q : \E i \in 1..n : f[i] = pair OBVIOUS
  <2> HIDE DEF f, Q
  <2>5. IsFiniteSet(Q) /\ Cardinality(Q) = Cardinality(1..n) BY <2>1, <2>2, <2>3, <2>4, SameSize
  <2> QED BY <2>1, <2>5
<1>3. IsFiniteSet(R) /\ Cardinality(R) = Cardinality(retries)
  <2>1. g \in [retries -> R] OBVIOUS
  <2>2. \A a, b \in retries : g[a] = g[b] => a = b BY DEF JobsDiffer
  <2>3. \A pair \in R : \E job \in retries : g[job] = pair OBVIOUS
  <2> HIDE DEF g, R
  <2> QED BY <1>1, <2>1, <2>2, <2>3, SameSize
<1>4. IsFiniteSet(W) /\ Cardinality(W) = IF sending = NoJob THEN 0 ELSE 1
  <2>1. CASE sending = NoJob BY <2>1, FS_EmptySet
  <2>2. CASE sending # NoJob
    <3>1. W = {PairOf(sending)} BY <2>2
    <3> HIDE DEF W
    <3> QED BY <2>2, <3>1, FS_Singleton
  <2> QED BY <2>1, <2>2
<1>5. Q \cap R = {} /\ (Q \cup R) \cap W = {}
  <2>1. \A i \in 1..n, b \in retries : PairOf(queue[i]) # PairOf(b) BY DEF JobsDiffer
  <2>2. sending # NoJob => /\ \A i \in 1..n : PairOf(queue[i]) # PairOf(sending)
                           /\ \A b \in retries : PairOf(b) # PairOf(sending)
    BY DEF JobsDiffer
  <2>3. Q \cap R = {} BY <2>1
  <2>4. (Q \cup R) \cap W = {} BY <2>2
  <2> QED BY <2>3, <2>4
<1>6. {PairOf(job) : job \in Jobs} = (Q \cup R) \cup W
  <2>1. ToSet(queue) = {queue[i] : i \in 1..n} BY <1>1 DEF ToSet
  <2>2. \A job : job \in Jobs <=> \/ \E i \in 1..n : job = queue[i]
                                  \/ job \in retries
                                  \/ sending # NoJob /\ job = sending
    BY <2>1 DEF Jobs
  <2>3. ASSUME NEW pair PROVE pair \in {PairOf(job) : job \in Jobs} <=> pair \in (Q \cup R) \cup W
    BY <2>2
  <2> HIDE DEF Q, R, W
  <2> QED BY <2>3
<1> HIDE DEF Q, R, W, f, g
<1>7. /\ IsFiniteSet(Q \cup R) /\ Cardinality(Q \cup R) = Cardinality(Q) + Cardinality(R)
      /\ Cardinality(Q) \in Nat /\ Cardinality(R) \in Nat
  BY <1>2, <1>3, <1>5, DisjointSizes
<1>8. Cardinality((Q \cup R) \cup W) = Cardinality(Q \cup R) + Cardinality(W)
  BY <1>4, <1>5, <1>7, DisjointSizes
<1> QED BY <1>2, <1>3, <1>4, <1>6, <1>7, <1>8

(* However many polls read an event, and after any restart, a webhook has    *)
(* one job for it at a time, and none once it has accepted.                  *)
THEOREM EventsSentOnce == IngestSpec => []EventsAreSentOnce
<1>1. ASSUME IngestInv PROVE EventsAreSentOnce
  <2>1. JobsTyped /\ JobsDiffer BY <1>1 DEF IngestInv, IngestTyped, OneJobEach
  <2>2. Cardinality({PairOf(job) : job \in Jobs})
          = Len(queue) + Cardinality(retries) + (IF sending = NoJob THEN 0 ELSE 1)
    BY <2>1, PairsCount
  <2>3. ASSUME NEW job \in Jobs PROVE Taken(PairOf(job))
    <3>1. DOMAIN queue = 1..Len(queue) BY <2>1 DEF JobsTyped
    <3>2. (\E i \in 1..Len(queue) : job = queue[i]) \/ job \in retries \/ (sending # NoJob /\ job = sending)
      BY <3>1 DEF Jobs, ToSet
    <3> QED BY <3>2 DEF Taken
  <2>4. \A job \in Jobs : PairOf(job) \notin accepted BY <2>1, <2>3 DEF JobsDiffer
  <2> QED BY <2>2, <2>4 DEF EventsAreSentOnce, PairOf
<1>2. IngestInv /\ [IngestNext]_ingestVars => IngestInv' BY StepIngest
<1>3. IngestInit => IngestInv BY IngestStarts
<1> QED BY <1>1, <1>2, <1>3, PTL DEF IngestSpec

-----------------------------------------------------------------------------
(* The proofs of compliance: how many entries of a log have a status.        *)
ProofRecord == [kind : ZkKinds, fits : ZkFits, status : {"Pending", "Verified", "Rejected"}, expires : Nat]
AuditRecord == [status : ProofStatus, action : Nat]

With(entries, status) == {i \in DOMAIN entries : entries[i].status = status}

LEMMA CountIsNumber ==
  ASSUME NEW n \in Nat, NEW entries, DOMAIN entries = 1..n, NEW status
  PROVE  /\ IsFiniteSet(With(entries, status)) /\ Count(entries, status) \in Nat
         /\ Count(entries, status) = Cardinality(With(entries, status))
<1>1. IsFiniteSet(1..n) BY FS_Interval
<1>2. With(entries, status) \subseteq 1..n BY DEF With
<1>3. IsFiniteSet(With(entries, status)) BY <1>1, <1>2, FS_Subset
<1> QED BY <1>3, FS_CardinalityType DEF Count, With

(* A log of m entries that grows to k, by entries that all have a status or  *)
(* by none that do.                                                          *)
Grows(old, new, m, k) ==
  /\ m \in Nat /\ k \in Nat /\ m <= k
  /\ DOMAIN old = 1..m /\ DOMAIN new = 1..k /\ \A i \in 1..m : new[i] = old[i]

AddsOnly(new, m, k, status) == \A i \in 1..k : i \in 1..m \/ new[i].status = status
AddsNo(new, m, k, status)   == \A i \in 1..k : i \in 1..m \/ new[i].status # status

LEMMA CountGrows ==
  ASSUME NEW old, NEW new, NEW m, NEW k, NEW status,
         Grows(old, new, m, k), AddsOnly(new, m, k, status)
  PROVE  Count(new, status) = Count(old, status) + (k - m)
<1>0. /\ m \in Nat /\ k \in Nat /\ m <= k
      /\ DOMAIN old = 1..m /\ DOMAIN new = 1..k /\ \A i \in 1..m : new[i] = old[i]
      /\ \A i \in 1..k : i \in 1..m \/ new[i].status = status
  BY DEF Grows, AddsOnly
<1> DEFINE more == (m + 1)..k
<1>1. /\ IsFiniteSet(With(old, status)) /\ Count(old, status) \in Nat
      /\ Count(old, status) = Cardinality(With(old, status))
      /\ Count(new, status) = Cardinality(With(new, status))
  BY <1>0, CountIsNumber
<1>2. DOMAIN new = DOMAIN old \cup more /\ DOMAIN old \cap more = {} BY <1>0
<1>3. With(new, status) = With(old, status) \cup more BY <1>0, <1>2 DEF With
<1>4. With(old, status) \cap more = {} BY <1>2 DEF With
<1>5. IsFiniteSet(more) /\ Cardinality(more) = k - m
  <2>1. /\ IsFiniteSet(more)
        /\ Cardinality(more) = IF m + 1 > k THEN 0 ELSE k - (m + 1) + 1
    BY <1>0, FS_Interval
  <2> QED BY <1>0, <2>1
<1> HIDE DEF more
<1>6. Cardinality(With(new, status)) = Cardinality(With(old, status)) + Cardinality(more)
  BY <1>1, <1>3, <1>4, <1>5, DisjointSizes
<1> QED BY <1>1, <1>5, <1>6

LEMMA CountStays ==
  ASSUME NEW old, NEW new, NEW m, NEW k, NEW status,
         Grows(old, new, m, k), AddsNo(new, m, k, status)
  PROVE  Count(new, status) = Count(old, status)
<1>1. With(new, status) = With(old, status) BY DEF With, Grows, AddsNo
<1>2. Count(new, status) = Cardinality(With(new, status)) /\ Count(old, status) = Cardinality(With(old, status))
  BY DEF Count, With
<1> QED BY <1>1, <1>2

(* A log of n entries in which entry i changes.                              *)
Changes(old, new, n, i) ==
  /\ n \in Nat /\ DOMAIN old = 1..n /\ DOMAIN new = 1..n
  /\ i \in 1..n /\ \A j \in 1..n \ {i} : new[j] = old[j]

LEMMA CountMoves ==
  ASSUME NEW old, NEW new, NEW n, NEW i, Changes(old, new, n, i), NEW status, old[i].status # status
  PROVE  Count(new, status) = Count(old, status) + (IF new[i].status = status THEN 1 ELSE 0)
<1>0. /\ n \in Nat /\ DOMAIN old = 1..n /\ DOMAIN new = 1..n
      /\ i \in 1..n /\ \A j \in 1..n \ {i} : new[j] = old[j]
  BY DEF Changes
<1>1. /\ IsFiniteSet(With(old, status)) /\ Count(old, status) \in Nat
      /\ Count(old, status) = Cardinality(With(old, status))
      /\ Count(new, status) = Cardinality(With(new, status))
  BY <1>0, CountIsNumber
<1>2. i \notin With(old, status) BY DEF With
<1>3. CASE new[i].status = status
  <2>1. With(new, status) = With(old, status) \cup {i} BY <1>0, <1>3 DEF With
  <2>2. Cardinality(With(old, status) \cup {i}) = Cardinality(With(old, status)) + 1
    BY <1>1, <1>2, FS_AddElement
  <2> QED BY <1>1, <1>3, <2>1, <2>2
<1>4. CASE new[i].status # status
  <2>1. With(new, status) = With(old, status) BY <1>0, <1>4 DEF With
  <2> QED BY <1>1, <1>4, <2>1
<1> QED BY <1>3, <1>4

-----------------------------------------------------------------------------
(* The books of the proofs                                                   *)

ProofEarned(proof) == backend /\ proof.fits \in registered[proof.kind]

(* A verified proof has earned it, a verified summary comes from one, and    *)
(* the log has one verdict for each proof decided.                           *)
AccountInOrder(proofs, audits, summary) ==
  /\ \A i \in DOMAIN proofs : proofs[i].status = "Verified" => ProofEarned(proofs[i])
  /\ summary.status \in ProofStatus
  /\ summary.status = "Verified" => \E i \in DOMAIN proofs : proofs[i].status = "Verified"
  /\ \A status \in {"Verified", "Rejected"} : Count(audits, status) = Count(proofs, status)
  /\ Count(audits, "Pending") = Len(proofs)

InAll(proofs, status) ==
  SumFunctionOnSet([a \in Provers |-> Count(proofs[a], status)], Provers)

BooksInOrder(books) ==
  /\ books.proofs \in [Provers -> Seq(ProofRecord)]
  /\ books.audits \in [Provers -> Seq(AuditRecord)]
  /\ books.summaries = [a \in Provers |-> books.summaries[a]]
  /\ books.stats \in [total : Nat, successful : Nat, failed : Nat]
  /\ \A a \in Provers : AccountInOrder(books.proofs[a], books.audits[a], books.summaries[a])
  /\ books.stats.successful = InAll(books.proofs, "Verified")
  /\ books.stats.failed = InAll(books.proofs, "Rejected")
  /\ books.stats.total = books.stats.successful + books.stats.failed

KeysKnown ==
  /\ DOMAIN keyOf = ZkKinds /\ DOMAIN registered = ZkKinds
  /\ \A k \in ZkKinds : keyOf[k] # NoKey => keyOf[k].key \in registered[k]

(* The inductive invariant.                                                  *)
ZkInv == zkTime \in Nat /\ KeysKnown /\ BooksInOrder(ZkBooks)

(* The proofs of one account change.                                         *)
LEMMA AccountChanges ==
  ASSUME NEW old \in [Provers -> Seq(ProofRecord)], NEW new \in [Provers -> Seq(ProofRecord)],
         NEW a \in Provers, \A b \in Provers \ {a} : new[b] = old[b], NEW status
  PROVE  /\ InAll(old, status) \in Nat /\ Count(old[a], status) \in Nat
         /\ InAll(new, status) = InAll(old, status) + Count(new[a], status) - Count(old[a], status)
<1> DEFINE f == [b \in Provers |-> Count(old[b], status)]
           g == [b \in Provers |-> Count(new[b], status)]
<1>1. IsFiniteSet(Provers) BY ZkAssumption
<1>2. ASSUME NEW b \in Provers PROVE f[b] \in Nat
  <2>1. old[b] \in Seq(ProofRecord) OBVIOUS
  <2>2. DOMAIN old[b] = 1..Len(old[b]) /\ Len(old[b]) \in Nat BY <2>1, LenProperties
  <2>3. Count(old[b], status) \in Nat BY <2>2, CountIsNumber
  <2> QED BY <2>3
<1>3. Count(new[a], status) \in Nat
  <2>1. new[a] \in Seq(ProofRecord) OBVIOUS
  <2>2. DOMAIN new[a] = 1..Len(new[a]) /\ Len(new[a]) \in Nat BY <2>1, LenProperties
  <2> QED BY <2>2, CountIsNumber
<1> PICK next : next = Count(new[a], status) OBVIOUS
<1>4. g[a] = next /\ f[a] = Count(old[a], status) /\ \A b \in Provers \ {a} : g[b] = f[b] OBVIOUS
<1>5. InAll(old, status) = SumFunctionOnSet(f, Provers) /\ InAll(new, status) = SumFunctionOnSet(g, Provers)
  BY DEF InAll
<1> HIDE DEF f, g
<1>6. \A b \in Provers : f[b] \in Int BY <1>2
<1>7. next \in Int BY <1>3
<1>8. SumFunctionOnSet(g, Provers) = SumFunctionOnSet(f, Provers) - f[a] + next
  BY <1>1, <1>4, <1>6, <1>7, SumUpdate, SMTT(20)
<1>9. SumFunctionOnSet(f, Provers) \in Nat BY <1>1, <1>2, SumNat
<1>10. f[a] \in Nat BY <1>2
<1>11. PICK x, y : x = SumFunctionOnSet(f, Provers) /\ y = f[a] OBVIOUS
<1>12. x - y + next = x + next - y BY <1>3, <1>9, <1>10, <1>11
<1> QED BY <1>3, <1>4, <1>5, <1>8, <1>9, <1>10, <1>11, <1>12

(* The books of an account become these, with v more proofs that are         *)
(* verified and r more that are rejected.                                    *)
Moves(books, new, a, proofs, audits, summary, v, r) ==
  /\ new.proofs    = [books.proofs EXCEPT ![a] = proofs]
  /\ new.audits    = [books.audits EXCEPT ![a] = audits]
  /\ new.summaries = [books.summaries EXCEPT ![a] = summary]
  /\ new.stats = [total |-> books.stats.total + v + r, successful |-> books.stats.successful + v,
                  failed |-> books.stats.failed + r]
  /\ Count(proofs, "Verified") = Count(books.proofs[a], "Verified") + v
  /\ Count(proofs, "Rejected") = Count(books.proofs[a], "Rejected") + r

LEMMA TotalsMove ==
  ASSUME NEW n \in Nat, NEW m \in Nat, NEW v \in Nat, NEW r \in Nat
  PROVE  /\ n + m + v + r = (n + v) + (m + r)
         /\ n + m + v + r \in Nat /\ n + v \in Nat /\ m + r \in Nat
OBVIOUS

LEMMA StatsMove ==
  ASSUME NEW old \in [total : Nat, successful : Nat, failed : Nat],
         old.total = old.successful + old.failed, NEW v \in Nat, NEW r \in Nat, NEW new,
         new = [total |-> old.total + v + r, successful |-> old.successful + v, failed |-> old.failed + r]
  PROVE  /\ new \in [total : Nat, successful : Nat, failed : Nat]
         /\ new.successful = old.successful + v /\ new.failed = old.failed + r
         /\ new.total = new.successful + new.failed
<1>1. PICK n, m : n = old.successful /\ m = old.failed OBVIOUS
<1>2. n \in Nat /\ m \in Nat BY <1>1
<1>3. n + m + v + r = (n + v) + (m + r) /\ n + m + v + r \in Nat /\ n + v \in Nat /\ m + r \in Nat
  BY <1>2, TotalsMove
<1>4. new = [total |-> n + m + v + r, successful |-> n + v, failed |-> m + r] BY <1>1
<1> QED BY <1>1, <1>3, <1>4

(* The books stay in order when those of the account that changes do.        *)
LEMMA BooksChange ==
  ASSUME NEW books, BooksInOrder(books), NEW a \in Provers,
         NEW proofs \in Seq(ProofRecord), NEW audits \in Seq(AuditRecord), NEW summary,
         AccountInOrder(proofs, audits, summary),
         NEW v \in Nat, NEW r \in Nat, NEW new, Moves(books, new, a, proofs, audits, summary, v, r)
  PROVE  BooksInOrder(new)
<1>1. /\ books.proofs \in [Provers -> Seq(ProofRecord)]
      /\ books.audits \in [Provers -> Seq(AuditRecord)]
      /\ books.summaries = [b \in Provers |-> books.summaries[b]]
      /\ books.stats \in [total : Nat, successful : Nat, failed : Nat]
      /\ \A b \in Provers : AccountInOrder(books.proofs[b], books.audits[b], books.summaries[b])
      /\ books.stats.successful = InAll(books.proofs, "Verified")
      /\ books.stats.failed = InAll(books.proofs, "Rejected")
      /\ books.stats.total = books.stats.successful + books.stats.failed
  BY DEF BooksInOrder
<1>2. /\ new.proofs \in [Provers -> Seq(ProofRecord)] /\ new.proofs[a] = proofs
      /\ \A b \in Provers \ {a} : new.proofs[b] = books.proofs[b]
  <2>1. books.proofs \in [Provers -> Seq(ProofRecord)] BY <1>1
  <2>2. new.proofs = [books.proofs EXCEPT ![a] = proofs] BY DEF Moves
  <2> QED BY <2>1, <2>2
<1>3. /\ new.audits \in [Provers -> Seq(AuditRecord)] /\ new.audits[a] = audits
      /\ \A b \in Provers \ {a} : new.audits[b] = books.audits[b]
  <2>1. books.audits \in [Provers -> Seq(AuditRecord)] BY <1>1
  <2>2. new.audits = [books.audits EXCEPT ![a] = audits] BY DEF Moves
  <2> QED BY <2>1, <2>2
<1>4. /\ new.summaries = [b \in Provers |-> new.summaries[b]] /\ new.summaries[a] = summary
      /\ \A b \in Provers \ {a} : new.summaries[b] = books.summaries[b]
  BY <1>1 DEF Moves
<1>5. ASSUME NEW b \in Provers PROVE AccountInOrder(new.proofs[b], new.audits[b], new.summaries[b])
  <2>1. CASE b = a BY <1>2, <1>3, <1>4, <2>1
  <2>2. CASE b # a
    <3>1. /\ new.proofs[b] = books.proofs[b] /\ new.audits[b] = books.audits[b]
          /\ new.summaries[b] = books.summaries[b]
      BY <1>2, <1>3, <1>4, <2>2
    <3> QED BY <1>1, <3>1
  <2> QED BY <2>1, <2>2
<1>6. /\ InAll(new.proofs, "Verified") = InAll(books.proofs, "Verified") + v
      /\ InAll(new.proofs, "Rejected") = InAll(books.proofs, "Rejected") + r
  <2>0. PICK old, fresh : old = books.proofs /\ fresh = new.proofs OBVIOUS
  <2>1. /\ old \in [Provers -> Seq(ProofRecord)] /\ fresh \in [Provers -> Seq(ProofRecord)]
        /\ fresh[a] = proofs
        /\ \A b \in Provers \ {a} : fresh[b] = old[b]
        /\ Count(proofs, "Verified") = Count(old[a], "Verified") + v
        /\ Count(proofs, "Rejected") = Count(old[a], "Rejected") + r /\ v \in Int /\ r \in Int
    <3>1. books.proofs \in [Provers -> Seq(ProofRecord)] BY <1>1
    <3>2. /\ Count(proofs, "Verified") = Count(books.proofs[a], "Verified") + v
          /\ Count(proofs, "Rejected") = Count(books.proofs[a], "Rejected") + r
      BY DEF Moves
    <3>3. v \in Int /\ r \in Int OBVIOUS
    <3> QED BY <1>2, <2>0, <3>1, <3>2, <3>3
  <2>2. \A status : /\ InAll(old, status) \in Nat /\ Count(old[a], status) \in Nat
                    /\ InAll(fresh, status) = InAll(old, status) + Count(fresh[a], status) - Count(old[a], status)
    BY <2>1, AccountChanges
  <2>3. \A x, y \in Nat, z \in Int : x + (y + z) - y = x + z OBVIOUS
  <2> QED BY <2>0, <2>1, <2>2, <2>3
<1>7. /\ new.stats \in [total : Nat, successful : Nat, failed : Nat]
      /\ new.stats.successful = books.stats.successful + v /\ new.stats.failed = books.stats.failed + r
      /\ new.stats.total = new.stats.successful + new.stats.failed
  <2>1. PICK old, fresh : old = books.stats /\ fresh = new.stats OBVIOUS
  <2>2. old \in [total : Nat, successful : Nat, failed : Nat] /\ old.total = old.successful + old.failed
    BY <1>1, <2>1
  <2>3. fresh = [total |-> old.total + v + r, successful |-> old.successful + v, failed |-> old.failed + r]
    BY <2>1 DEF Moves
  <2>4. /\ fresh \in [total : Nat, successful : Nat, failed : Nat]
        /\ fresh.successful = old.successful + v /\ fresh.failed = old.failed + r
        /\ fresh.total = fresh.successful + fresh.failed
    BY <2>2, <2>3, StatsMove, SMTT(20)
  <2> QED BY <2>1, <2>4
<1> QED BY <1>1, <1>2, <1>3, <1>4, <1>5, <1>6, <1>7 DEF BooksInOrder

(* New proofs wait for a verdict.                                            *)
LEMMA SubmittedInOrder ==
  ASSUME NEW proofs \in Seq(ProofRecord), NEW audits \in Seq(AuditRecord), NEW summary,
         AccountInOrder(proofs, audits, summary), NEW n \in Nat,
         NEW more \in [1..n -> ProofRecord], \A i \in 1..n : more[i].status = "Pending",
         NEW log \in [1..n -> AuditRecord], \A i \in 1..n : log[i].status = "Pending"
  PROVE  /\ proofs \o more \in Seq(ProofRecord) /\ audits \o log \in Seq(AuditRecord)
         /\ AccountInOrder(proofs \o more, audits \o log, summary)
         /\ \A status \in {"Verified", "Rejected"} :
              Count(proofs \o more, status) = Count(proofs, status)
<1>1. /\ more \in Seq(ProofRecord) /\ Len(more) = n /\ log \in Seq(AuditRecord) /\ Len(log) = n
      /\ DOMAIN proofs = 1..Len(proofs) /\ Len(proofs) \in Nat
      /\ DOMAIN audits = 1..Len(audits) /\ Len(audits) \in Nat
  OBVIOUS
<1>2. PICK new, logged : new = proofs \o more /\ logged = audits \o log OBVIOUS
<1>3. /\ new \in Seq(ProofRecord) /\ Len(new) = Len(proofs) + n
      /\ \A i \in 1..Len(proofs) : new[i] = proofs[i]
      /\ \A i \in (Len(proofs) + 1)..(Len(proofs) + n) : new[i].status = "Pending"
  <2>1. /\ new \in Seq(ProofRecord) /\ Len(new) = Len(proofs) + Len(more)
        /\ \A i \in 1..(Len(proofs) + Len(more)) :
             new[i] = IF i <= Len(proofs) THEN proofs[i] ELSE more[i - Len(proofs)]
    BY <1>1, <1>2, ConcatProperties
  <2>2. ASSUME NEW i \in (Len(proofs) + 1)..(Len(proofs) + n) PROVE new[i].status = "Pending"
    <3>1. i - Len(proofs) \in 1..n /\ i \in 1..(Len(proofs) + n) /\ ~ (i <= Len(proofs)) BY <1>1
    <3>2. new[i] = more[i - Len(proofs)] BY <1>1, <2>1, <3>1
    <3> QED BY <3>1, <3>2
  <2>3. ASSUME NEW i \in 1..Len(proofs) PROVE new[i] = proofs[i]
    <3>1. i \in 1..(Len(proofs) + Len(more)) /\ i <= Len(proofs) BY <1>1
    <3> QED BY <2>1, <3>1
  <2> QED BY <1>1, <2>1, <2>2, <2>3
<1>4. /\ logged \in Seq(AuditRecord) /\ Len(logged) = Len(audits) + n
      /\ \A i \in 1..Len(audits) : logged[i] = audits[i]
      /\ \A i \in (Len(audits) + 1)..(Len(audits) + n) : logged[i].status = "Pending"
  <2>1. /\ logged \in Seq(AuditRecord) /\ Len(logged) = Len(audits) + Len(log)
        /\ \A i \in 1..(Len(audits) + Len(log)) :
             logged[i] = IF i <= Len(audits) THEN audits[i] ELSE log[i - Len(audits)]
    BY <1>1, <1>2, ConcatProperties
  <2>2. ASSUME NEW i \in (Len(audits) + 1)..(Len(audits) + n) PROVE logged[i].status = "Pending"
    <3>1. i - Len(audits) \in 1..n /\ i \in 1..(Len(audits) + n) /\ ~ (i <= Len(audits)) BY <1>1
    <3>2. logged[i] = log[i - Len(audits)] BY <1>1, <2>1, <3>1
    <3> QED BY <3>1, <3>2
  <2>3. ASSUME NEW i \in 1..Len(audits) PROVE logged[i] = audits[i]
    <3>1. i \in 1..(Len(audits) + Len(log)) /\ i <= Len(audits) BY <1>1
    <3> QED BY <2>1, <3>1
  <2> QED BY <1>1, <2>1, <2>2, <2>3
<1>5. \A status : Count(new, status) = Count(proofs, status) + (IF status = "Pending" THEN n ELSE 0)
  <2>1. PICK m, k : m = Len(proofs) /\ k = Len(new) OBVIOUS
  <2>2. m \in Nat /\ k \in Nat /\ m <= k /\ k - m = n BY <1>1, <1>3, <2>1
  <2>3. DOMAIN proofs = 1..m /\ DOMAIN new = 1..k BY <1>1, <1>3, <2>1
  <2>4. \A i \in 1..m : new[i] = proofs[i] BY <1>3, <2>1
  <2>5. Grows(proofs, new, m, k) BY <2>2, <2>3, <2>4 DEF Grows
  <2>6. Count(new, "Pending") = Count(proofs, "Pending") + (k - m)
    <3>1. AddsOnly(new, m, k, "Pending") BY <1>3, <2>1, <2>2 DEF AddsOnly
    <3> QED BY <2>5, <3>1, CountGrows
  <2>7. ASSUME NEW status, status # "Pending" PROVE Count(new, status) = Count(proofs, status)
    <3>1. AddsNo(new, m, k, status) BY <1>3, <2>1, <2>2, <2>7 DEF AddsNo
    <3> QED BY <2>5, <3>1, CountStays
  <2>8. \A status : Count(proofs, status) \in Nat BY <2>2, <2>3, CountIsNumber
  <2> QED BY <2>2, <2>6, <2>7, <2>8
<1>6. \A status : Count(logged, status) = Count(audits, status) + (IF status = "Pending" THEN n ELSE 0)
  <2>1. PICK m, k : m = Len(audits) /\ k = Len(logged) OBVIOUS
  <2>2. m \in Nat /\ k \in Nat /\ m <= k /\ k - m = n BY <1>1, <1>4, <2>1
  <2>3. DOMAIN audits = 1..m /\ DOMAIN logged = 1..k BY <1>1, <1>4, <2>1
  <2>4. \A i \in 1..m : logged[i] = audits[i] BY <1>4, <2>1
  <2>5. Grows(audits, logged, m, k) BY <2>2, <2>3, <2>4 DEF Grows
  <2>6. Count(logged, "Pending") = Count(audits, "Pending") + (k - m)
    <3>1. AddsOnly(logged, m, k, "Pending") BY <1>4, <2>1, <2>2 DEF AddsOnly
    <3> QED BY <2>5, <3>1, CountGrows
  <2>7. ASSUME NEW status, status # "Pending" PROVE Count(logged, status) = Count(audits, status)
    <3>1. AddsNo(logged, m, k, status) BY <1>4, <2>1, <2>2, <2>7 DEF AddsNo
    <3> QED BY <2>5, <3>1, CountStays
  <2>8. \A status : Count(audits, status) \in Nat BY <2>2, <2>3, CountIsNumber
  <2> QED BY <2>2, <2>6, <2>7, <2>8
<1>7. \A status : Count(proofs, status) \in Nat /\ Count(audits, status) \in Nat
  BY <1>1, CountIsNumber
<1>8. DOMAIN new = 1..(Len(proofs) + n) BY <1>3
<1>9. AccountInOrder(new, logged, summary)
  <2>1. ASSUME NEW i \in DOMAIN new, new[i].status = "Verified" PROVE ProofEarned(new[i])
    <3>1. i \in 1..Len(proofs)
      <4>1. i \in Nat /\ i >= 1 /\ i <= Len(proofs) + n BY <1>1, <1>8, <2>1
      <4>2. ASSUME i > Len(proofs) PROVE FALSE
        <5>1. i \in (Len(proofs) + 1)..(Len(proofs) + n) BY <1>1, <4>1, <4>2
        <5>2. new[i].status = "Pending" BY <1>3, <5>1
        <5> QED BY <2>1, <5>2
      <4> QED BY <1>1, <4>1, <4>2
    <3>2. new[i] = proofs[i] BY <1>3, <3>1
    <3> QED BY <1>1, <2>1, <3>1, <3>2 DEF AccountInOrder
  <2>2. ASSUME summary.status = "Verified" PROVE \E i \in DOMAIN new : new[i].status = "Verified"
    <3>1. PICK i \in DOMAIN proofs : proofs[i].status = "Verified" BY <2>2 DEF AccountInOrder
    <3>2. i \in DOMAIN new /\ new[i] = proofs[i] BY <1>1, <1>3, <1>8
    <3> QED BY <3>1, <3>2
  <2>3. \A status \in {"Verified", "Rejected"} : Count(logged, status) = Count(new, status)
    BY <1>5, <1>6, <1>7 DEF AccountInOrder
  <2>4. Count(logged, "Pending") = Len(new) BY <1>3, <1>6 DEF AccountInOrder
  <2> QED BY <2>1, <2>2, <2>3, <2>4 DEF AccountInOrder
<1>10. \A status \in {"Verified", "Rejected"} : Count(new, status) = Count(proofs, status)
  BY <1>5, <1>7
<1> QED BY <1>2, <1>3, <1>4, <1>9, <1>10

(* A verdict on a proof that waits for one, and the entry of the log.        *)
Verdict(proofs, i, good, new, entry) ==
  /\ i \in DOMAIN proofs /\ proofs[i].status = "Pending"
  /\ good \in BOOLEAN /\ (good => ProofEarned(proofs[i]))
  /\ new = [proofs EXCEPT ![i] = Decided(proofs[i], good)]
  /\ entry \in AuditRecord /\ entry.status = new[i].status

LEMMA VerdictInOrder ==
  ASSUME NEW proofs \in Seq(ProofRecord), NEW audits \in Seq(AuditRecord), NEW summary,
         AccountInOrder(proofs, audits, summary),
         NEW i, NEW good, NEW new, NEW entry, Verdict(proofs, i, good, new, entry)
  PROVE  /\ new \in Seq(ProofRecord) /\ Append(audits, entry) \in Seq(AuditRecord)
         /\ AccountInOrder(new, Append(audits, entry), Summarized(summary, new))
         /\ Count(new, "Verified") = Count(proofs, "Verified") + (IF good THEN 1 ELSE 0)
         /\ Count(new, "Rejected") = Count(proofs, "Rejected") + (IF good THEN 0 ELSE 1)
<1>0. /\ i \in DOMAIN proofs /\ proofs[i].status = "Pending"
      /\ good \in BOOLEAN /\ (good => ProofEarned(proofs[i]))
      /\ new = [proofs EXCEPT ![i] = Decided(proofs[i], good)]
      /\ entry \in AuditRecord /\ entry.status = new[i].status
  BY DEF Verdict
<1>1. /\ DOMAIN proofs = 1..Len(proofs) /\ Len(proofs) \in Nat
      /\ DOMAIN audits = 1..Len(audits) /\ Len(audits) \in Nat
      /\ proofs[i] \in ProofRecord
  BY <1>0
<1>2. /\ Decided(proofs[i], good) \in ProofRecord
      /\ Decided(proofs[i], good).status = IF good THEN "Verified" ELSE "Rejected"
      /\ Decided(proofs[i], good).kind = proofs[i].kind /\ Decided(proofs[i], good).fits = proofs[i].fits
  BY <1>0, <1>1 DEF Decided, ProofRecord
<1>3. PICK decided : decided = Decided(proofs[i], good) OBVIOUS
<1>4. /\ new \in Seq(ProofRecord) /\ Len(new) = Len(proofs) /\ DOMAIN new = DOMAIN proofs
      /\ new[i] = decided /\ \A j \in DOMAIN proofs \ {i} : new[j] = proofs[j]
  BY <1>0, <1>2, <1>3, ExceptSeq
<1>5. \A status \in {"Verified", "Rejected"} :
        Count(new, status) = Count(proofs, status) + (IF decided.status = status THEN 1 ELSE 0)
  <2>1. PICK n : n = Len(proofs) OBVIOUS
  <2>2. n \in Nat /\ DOMAIN proofs = 1..n /\ DOMAIN new = 1..n /\ i \in 1..n BY <1>0, <1>1, <1>4, <2>1
  <2>3. new[i] = decided /\ \A j \in 1..n \ {i} : new[j] = proofs[j] BY <1>4, <2>2
  <2>4. \A status \in {"Verified", "Rejected"} : proofs[i].status # status BY <1>0
  <2>5. \A status \in {"Verified", "Rejected"} :
          Count(new, status) = Count(proofs, status) + (IF new[i].status = status THEN 1 ELSE 0)
    <3>1. Changes(proofs, new, n, i) BY <2>2, <2>3 DEF Changes
    <3>2. TAKE status \in {"Verified", "Rejected"}
    <3>3. proofs[i].status # status BY <2>4
    <3> QED BY <3>1, <3>3, CountMoves
  <2> QED BY <2>3, <2>5
<1>6. PICK logged : logged = Append(audits, entry) OBVIOUS
<1>7. /\ logged \in Seq(AuditRecord) /\ Len(logged) = Len(audits) + 1
      /\ \A j \in 1..Len(audits) : logged[j] = audits[j]
      /\ \A j \in (Len(audits) + 1)..(Len(audits) + 1) : logged[j].status = decided.status
  <2>1. /\ logged \in Seq(AuditRecord) /\ Len(logged) = Len(audits) + 1
        /\ \A j \in 1..Len(audits) : logged[j] = audits[j]
        /\ logged[Len(audits) + 1] = entry
    BY <1>0, <1>6, AppendProperties
  <2>2. entry.status = decided.status BY <1>0, <1>4
  <2>3. \A j \in (Len(audits) + 1)..(Len(audits) + 1) : j = Len(audits) + 1 BY <1>1
  <2> QED BY <2>1, <2>2, <2>3
<1>8. \A status : Count(logged, status) = Count(audits, status) + (IF status = decided.status THEN 1 ELSE 0)
  <2>1. PICK m, k : m = Len(audits) /\ k = Len(logged) OBVIOUS
  <2>2. m \in Nat /\ k \in Nat /\ m <= k /\ k - m = 1 BY <1>1, <1>7, <2>1
  <2>3. DOMAIN audits = 1..m /\ DOMAIN logged = 1..k BY <1>1, <1>7, <2>1
  <2>4. \A j \in 1..m : logged[j] = audits[j] BY <1>7, <2>1
  <2>5. Grows(audits, logged, m, k) BY <2>2, <2>3, <2>4 DEF Grows
  <2>6. PICK given : given = decided.status OBVIOUS
  <2>7. Count(logged, given) = Count(audits, given) + (k - m)
    <3>1. AddsOnly(logged, m, k, given) BY <1>7, <2>1, <2>2, <2>6 DEF AddsOnly
    <3> QED BY <2>5, <3>1, CountGrows
  <2>8. ASSUME NEW status, status # given PROVE Count(logged, status) = Count(audits, status)
    <3>1. AddsNo(logged, m, k, status) BY <1>7, <2>1, <2>2, <2>6, <2>8 DEF AddsNo
    <3> QED BY <2>5, <3>1, CountStays
  <2>9. \A status : Count(audits, status) \in Nat BY <2>2, <2>3, CountIsNumber
  <2> QED BY <2>2, <2>6, <2>7, <2>8, <2>9
<1>9. \A status : Count(proofs, status) \in Nat /\ Count(audits, status) \in Nat
  BY <1>1, CountIsNumber
<1>10. AccountInOrder(new, logged, Summarized(summary, new))
  <2>1. ASSUME NEW j \in DOMAIN new, new[j].status = "Verified" PROVE ProofEarned(new[j])
    <3>1. CASE j = i
      <4>1. good BY <1>2, <1>3, <1>4, <2>1, <3>1
      <4> QED BY <1>0, <1>2, <1>3, <1>4, <3>1, <4>1 DEF ProofEarned
    <3>2. CASE j # i
      <4>1. j \in DOMAIN proofs /\ new[j] = proofs[j] BY <1>4, <3>2
      <4> QED BY <2>1, <4>1 DEF AccountInOrder
    <3> QED BY <3>1, <3>2
  <2>2. ASSUME Summarized(summary, new).status = "Verified"
        PROVE  \E j \in DOMAIN new : new[j].status = "Verified"
    <3>1. new[Len(new)].status = "Verified" BY <2>2 DEF Summarized, Last
    <3>2. Len(proofs) \in 1..Len(proofs) BY <1>0, <1>1
    <3>3. Len(new) \in DOMAIN new BY <1>1, <1>4, <3>2
    <3> QED BY <3>1, <3>3
  <2>3. \A status \in {"Verified", "Rejected"} : Count(logged, status) = Count(new, status)
    BY <1>5, <1>8 DEF AccountInOrder
  <2>4. Count(logged, "Pending") = Len(new)
    <3>1. decided.status # "Pending" BY <1>2, <1>3
    <3>2. Count(logged, "Pending") = Count(audits, "Pending") BY <1>8, <1>9, <3>1
    <3> QED BY <1>4, <3>2 DEF AccountInOrder
  <2>5. Summarized(summary, new).status \in ProofStatus
    <3>1. Summarized(summary, new).status = new[Len(new)].status BY DEF Summarized, Last
    <3>2. Len(new) \in DOMAIN new BY <1>0, <1>1, <1>4
    <3>3. new[Len(new)] \in ProofRecord BY <1>4, <3>2
    <3> QED BY <3>1, <3>3 DEF ProofRecord, ProofStatus
  <2> QED BY <2>1, <2>2, <2>3, <2>4, <2>5 DEF AccountInOrder
<1>11. /\ Count(new, "Verified") = Count(proofs, "Verified") + (IF good THEN 1 ELSE 0)
       /\ Count(new, "Rejected") = Count(proofs, "Rejected") + (IF good THEN 0 ELSE 1)
  <2>1. decided.status = IF good THEN "Verified" ELSE "Rejected" BY <1>2, <1>3
  <2> QED BY <1>5, <2>1
<1> QED BY <1>4, <1>6, <1>7, <1>10, <1>11

(* A proof that is checked and found good has earned its verdict.            *)
LEMMA CheckedIsEarned ==
  ASSUME KeysKnown, NEW proof, proof.kind \in ZkKinds, Checkable(proof), Verifying(proof)
  PROVE  ProofEarned(proof)
BY DEF KeysKnown, Checkable, Verifying, ProofEarned

LEMMA VerifyKeepsOrder ==
  ASSUME KeysKnown, NEW books, BooksInOrder(books), NEW v \in Reviews, Verifiable(books, v)
  PROVE  BooksInOrder(VerifyOne(books, v))
<1>1. PICK a, i, approve : a = v.account /\ i = v.id /\ approve = v.approve OBVIOUS
<1>2. PICK proofs, audits, summary :
        proofs = books.proofs[a] /\ audits = books.audits[a] /\ summary = books.summaries[a]
  OBVIOUS
<1>3. a \in Provers /\ approve \in BOOLEAN BY <1>1 DEF Reviews
<1>4. /\ proofs \in Seq(ProofRecord) /\ audits \in Seq(AuditRecord)
      /\ AccountInOrder(proofs, audits, summary)
  BY <1>2, <1>3 DEF BooksInOrder
<1>5. /\ i \in DOMAIN proofs /\ proofs[i].status = "Pending" /\ (approve => Checkable(proofs[i]))
  BY <1>1, <1>2 DEF Verifiable, Undecided
<1>6. PICK good : good = (approve /\ Verifying(proofs[i])) OBVIOUS
<1>7. good \in BOOLEAN BY <1>3, <1>6 DEF Verifying
<1>8. proofs[i] \in ProofRecord /\ proofs[i].kind \in ZkKinds
  <2>1. proofs[i] \in ProofRecord BY <1>4, <1>5
  <2> QED BY <2>1 DEF ProofRecord
<1>9. good => ProofEarned(proofs[i]) BY <1>5, <1>6, <1>8, CheckedIsEarned
<1>10. PICK new : new = [proofs EXCEPT ![i] = Decided(proofs[i], good)] OBVIOUS
<1>11. new[i].status \in {"Verified", "Rejected"}
  BY <1>4, <1>5, <1>8, <1>10 DEF Decided, ProofRecord
<1>12. PICK entry : entry = AuditOf(new[i].status, IF approve THEN 1 ELSE 2) OBVIOUS
<1>13. entry \in AuditRecord /\ entry.status = new[i].status
  BY <1>11, <1>12 DEF AuditOf, AuditRecord, ProofStatus
<1>14. /\ new \in Seq(ProofRecord) /\ Append(audits, entry) \in Seq(AuditRecord)
       /\ AccountInOrder(new, Append(audits, entry), Summarized(summary, new))
       /\ Count(new, "Verified") = Count(proofs, "Verified") + (IF good THEN 1 ELSE 0)
       /\ Count(new, "Rejected") = Count(proofs, "Rejected") + (IF good THEN 0 ELSE 1)
  <2>1. Verdict(proofs, i, good, new, entry) BY <1>5, <1>7, <1>9, <1>10, <1>13 DEF Verdict
  <2> QED BY <1>4, <2>1, VerdictInOrder
<1>15. PICK ok, bad : ok = (IF good THEN 1 ELSE 0) /\ bad = (IF good THEN 0 ELSE 1) OBVIOUS
<1>16. ok \in Nat /\ bad \in Nat BY <1>15
<1>17. Moves(books, VerifyOne(books, v), a, new, Append(audits, entry), Summarized(summary, new), ok, bad)
  <2>1. /\ VerifyOne(books, v).proofs = [books.proofs EXCEPT ![a] = new]
        /\ VerifyOne(books, v).summaries = [books.summaries EXCEPT ![a] = Summarized(books.summaries[a], new)]
        /\ VerifyOne(books, v).audits = [books.audits EXCEPT ![a] = Append(books.audits[a], entry)]
        /\ VerifyOne(books, v).stats = Tallied(books.stats, good)
    BY <1>1, <1>2, <1>6, <1>10, <1>12 DEF VerifyOne
  <2>2. Tallied(books.stats, good) = [total |-> books.stats.total + ok + bad,
                                      successful |-> books.stats.successful + ok,
                                      failed |-> books.stats.failed + bad]
    <3>1. books.stats.total \in Nat BY DEF BooksInOrder
    <3>2. books.stats.total + 1 = books.stats.total + ok + bad BY <1>7, <1>15, <3>1
    <3> QED BY <1>15, <3>2 DEF Tallied
  <2> QED BY <1>2, <1>14, <1>15, <2>1, <2>2 DEF Moves
<1> QED BY <1>3, <1>14, <1>16, <1>17, BooksChange

(* A batch is one verdict after the other.                                   *)
IsTrying(f, caller, reviews, n) ==
  f = [i \in 0..n |-> IF i = 0 THEN ZkBooks ELSE Tried(caller, f[i - 1], reviews[i])]

LEMMA TryingExists ==
  ASSUME NEW caller, NEW reviews, NEW N \in Nat
  PROVE  \E f : IsTrying(f, caller, reviews, N)
<1> DEFINE Bad == {n \in Nat : ~ \E f : IsTrying(f, caller, reviews, n)}
<1>1. ASSUME Bad # {} PROVE FALSE
  <2>1. PICK n \in Bad : \A m \in Bad : n <= m
    <3>1. Bad \in SUBSET Nat OBVIOUS
    <3> HIDE DEF Bad
    <3> QED BY <1>1, <3>1, LeastNumber
  <2>2. CASE n = 0
    <3> DEFINE none == [i \in 0..0 |-> ZkBooks]
    <3>1. \A i \in 0..0 : i = 0 OBVIOUS
    <3>2. none = [i \in 0..0 |-> IF i = 0 THEN ZkBooks ELSE Tried(caller, none[i - 1], reviews[i])]
      BY <3>1
    <3> HIDE DEF none
    <3>3. IsTrying(none, caller, reviews, 0) BY <3>2 DEF IsTrying
    <3> QED BY <2>1, <2>2, <3>3
  <2>3. CASE n # 0
    <3>1. n \in Nat /\ n - 1 \in Nat /\ n - 1 \notin Bad BY <2>1, <2>3
    <3>2. PICK f : IsTrying(f, caller, reviews, n - 1) BY <3>1
    <3> DEFINE g == [i \in 0..n |-> IF i < n THEN f[i] ELSE Tried(caller, f[n - 1], reviews[n])]
    <3>3. \A i \in 0..(n - 1) : f[i] = IF i = 0 THEN ZkBooks ELSE Tried(caller, f[i - 1], reviews[i])
      BY <3>2 DEF IsTrying
    <3>4. ASSUME NEW i \in 0..n PROVE g[i] = IF i = 0 THEN ZkBooks ELSE Tried(caller, g[i - 1], reviews[i])
      <4>1. CASE i = n
        <5>1. i # 0 /\ i - 1 \in 0..n /\ i - 1 < n BY <2>3, <3>1, <4>1
        <5>2. g[i - 1] = f[n - 1] BY <4>1, <5>1
        <5>3. g[i] = Tried(caller, f[n - 1], reviews[n]) BY <3>1, <4>1
        <5> QED BY <4>1, <5>1, <5>2, <5>3
      <4>2. CASE i # n
        <5>1. i \in 0..(n - 1) /\ i < n BY <3>1, <4>2
        <5>2. i # 0 => i - 1 \in 0..n /\ i - 1 < n BY <3>1, <5>1
        <5>3. g[i] = f[i] /\ (i # 0 => g[i - 1] = f[i - 1]) BY <5>1, <5>2
        <5>4. f[i] = IF i = 0 THEN ZkBooks ELSE Tried(caller, f[i - 1], reviews[i]) BY <3>3, <5>1
        <5> HIDE DEF g
        <5> QED BY <5>3, <5>4
      <4> QED BY <4>1, <4>2
    <3>5. g = [i \in 0..n |-> g[i]] OBVIOUS
    <3> HIDE DEF g
    <3>6. IsTrying(g, caller, reviews, n) BY <3>4, <3>5 DEF IsTrying
    <3> QED BY <2>1, <3>6
  <2> QED BY <2>2, <2>3
<1> QED BY <1>1

LEMMA BatchKeepsOrder ==
  ASSUME KeysKnown, BooksInOrder(ZkBooks), NEW caller, NEW n \in Nat,
         NEW reviews \in [1..n -> Reviews], NEW f, IsTrying(f, caller, reviews, n)
  PROVE  BooksInOrder(f[n])
<1> DEFINE Bad == {i \in 0..n : ~ BooksInOrder(f[i])}
<1>1. \A i \in 0..n : f[i] = IF i = 0 THEN ZkBooks ELSE Tried(caller, f[i - 1], reviews[i])
  BY DEF IsTrying
<1>2. ASSUME Bad # {} PROVE FALSE
  <2>1. PICK i \in Bad : \A m \in Bad : i <= m
    <3>1. Bad \in SUBSET Nat OBVIOUS
    <3> HIDE DEF Bad
    <3> QED BY <1>2, <3>1, LeastNumber
  <2>2. i \in 0..n /\ ~ BooksInOrder(f[i]) BY <2>1
  <2>3. i # 0 BY <1>1, <2>2
  <2>4. i - 1 \in 0..n /\ i - 1 \notin Bad /\ i \in 1..n BY <2>1, <2>2, <2>3
  <2>5. BooksInOrder(f[i - 1]) BY <2>4
  <2>6. reviews[i] \in Reviews /\ f[i] = Tried(caller, f[i - 1], reviews[i]) BY <1>1, <2>2, <2>3, <2>4
  <2> PICK before : before = f[i - 1] OBVIOUS
  <2> PICK v : v = reviews[i] OBVIOUS
  <2>7. BooksInOrder(before) /\ v \in Reviews /\ f[i] = Tried(caller, before, v) BY <2>5, <2>6
  <2>8. BooksInOrder(Tried(caller, before, v))
    <3>1. CASE Verifiable(before, v)
      <4>1. BooksInOrder(VerifyOne(before, v)) BY <2>7, <3>1, VerifyKeepsOrder
      <4> QED BY <2>7, <4>1 DEF Tried
    <3>2. CASE ~ Verifiable(before, v) BY <2>7, <3>2 DEF Tried
    <3> QED BY <3>1, <3>2
  <2> QED BY <2>2, <2>7, <2>8
<1>3. n \in 0..n OBVIOUS
<1> QED BY <1>2, <1>3

-----------------------------------------------------------------------------
(* The messages of the contract                                              *)

(* What the books of the contract are after a message.                       *)
BooksNow == [proofs |-> zkProofs', summaries |-> summaries', audits |-> zkAudits', stats |-> zkStats']

LEMMA SubmitKeeps ==
  ASSUME ZkInv, NEW a \in Provers, NEW n \in Nat, NEW entries \in [1..n -> ZkEntries],
         SubmitZkProofs(a, entries)
  PROVE  BooksInOrder(BooksNow)
<1>1. PICK proofs, audits, summary : proofs = zkProofs[a] /\ audits = zkAudits[a] /\ summary = summaries[a]
  OBVIOUS
<1>2. BooksInOrder(ZkBooks) /\ zkTime \in Nat /\ YearOfProof \in Nat BY ZkAssumption DEF ZkInv
<1>3. /\ proofs \in Seq(ProofRecord) /\ audits \in Seq(AuditRecord)
      /\ AccountInOrder(proofs, audits, summary)
  BY <1>1, <1>2 DEF BooksInOrder, ZkBooks
<1>4. PICK more, log : /\ more = [i \in 1..n |-> Submitted(entries[i].kind, entries[i].fits)]
                       /\ log = [i \in 1..n |-> AuditOf("Pending", 0)]
  OBVIOUS
<1>5. ASSUME NEW i \in 1..n
      PROVE  /\ more[i] \in ProofRecord /\ more[i].status = "Pending"
             /\ log[i] \in AuditRecord /\ log[i].status = "Pending"
  <2>1. entries[i] \in ZkEntries OBVIOUS
  <2>2. entries[i].kind \in ZkKinds /\ entries[i].fits \in ZkFits BY <2>1 DEF ZkEntries
  <2>3. zkTime + YearOfProof \in Nat BY <1>2
  <2>4. more[i] = [kind |-> entries[i].kind, fits |-> entries[i].fits, status |-> "Pending",
                   expires |-> zkTime + YearOfProof]
    BY <1>4 DEF Submitted
  <2>5. log[i] = [status |-> "Pending", action |-> 0] BY <1>4 DEF AuditOf
  <2> QED BY <2>2, <2>3, <2>4, <2>5 DEF ProofRecord, AuditRecord, ProofStatus
<1>6. /\ more \in [1..n -> ProofRecord] /\ \A i \in 1..n : more[i].status = "Pending"
      /\ log \in [1..n -> AuditRecord] /\ \A i \in 1..n : log[i].status = "Pending"
  BY <1>4, <1>5
<1>7. /\ proofs \o more \in Seq(ProofRecord) /\ audits \o log \in Seq(AuditRecord)
      /\ AccountInOrder(proofs \o more, audits \o log, summary)
      /\ \A status \in {"Verified", "Rejected"} : Count(proofs \o more, status) = Count(proofs, status)
  BY <1>3, <1>6, SubmittedInOrder
<1>8. PICK newProofs, newAudits : newProofs = proofs \o more /\ newAudits = audits \o log OBVIOUS
<1>9. /\ zkProofs' = [zkProofs EXCEPT ![a] = newProofs] /\ zkAudits' = [zkAudits EXCEPT ![a] = newAudits]
      /\ summaries' = summaries /\ zkStats' = zkStats
  BY <1>1, <1>4, <1>8 DEF SubmitZkProofs
<1>10. Moves(ZkBooks, BooksNow, a, newProofs, newAudits, summary, 0, 0)
  <2>1. /\ DOMAIN proofs = 1..Len(proofs) /\ Len(proofs) \in Nat BY <1>3, LenProperties
  <2>2. \A status : Count(proofs, status) \in Nat BY <2>1, CountIsNumber
  <2>3. /\ Count(newProofs, "Verified") = Count(proofs, "Verified") + 0
        /\ Count(newProofs, "Rejected") = Count(proofs, "Rejected") + 0
    BY <1>7, <1>8, <2>2
  <2>4. summaries = [b \in Provers |-> summaries[b]] /\ zkStats \in [total : Nat, successful : Nat, failed : Nat]
    BY <1>2 DEF BooksInOrder, ZkBooks
  <2>5. summaries' = [summaries EXCEPT ![a] = summary] BY <1>1, <1>9, <2>4
  <2>6. zkStats' = [total |-> zkStats.total + 0 + 0, successful |-> zkStats.successful + 0,
                    failed |-> zkStats.failed + 0]
    BY <1>9, <2>4
  <2> QED BY <1>1, <1>9, <2>3, <2>5, <2>6 DEF Moves, ZkBooks, BooksNow
<1>11. newProofs \in Seq(ProofRecord) /\ newAudits \in Seq(AuditRecord) /\ AccountInOrder(newProofs, newAudits, summary)
  BY <1>7, <1>8
<1>12. 0 \in Nat OBVIOUS
<1> QED BY <1>2, <1>10, <1>11, <1>12, BooksChange

LEMMA StoreKeeps ==
  ASSUME ZkInv, NEW a \in Provers, NEW kind \in ZkKinds, NEW fits \in ZkFits,
         VerifyAndStoreProof(a, kind, fits)
  PROVE  BooksInOrder(BooksNow)
<1>1. PICK proofs, audits, summary : proofs = zkProofs[a] /\ audits = zkAudits[a] /\ summary = summaries[a]
  OBVIOUS
<1>2. BooksInOrder(ZkBooks) /\ KeysKnown /\ zkTime \in Nat /\ YearOfProof \in Nat BY ZkAssumption DEF ZkInv
<1>3. /\ proofs \in Seq(ProofRecord) /\ audits \in Seq(AuditRecord)
      /\ AccountInOrder(proofs, audits, summary)
      /\ DOMAIN proofs = 1..Len(proofs) /\ Len(proofs) \in Nat
  BY <1>1, <1>2 DEF BooksInOrder, ZkBooks
<1>4. PICK proof, decided, opened, entry :
        /\ proof = Submitted(kind, fits) /\ decided = Decided(proof, TRUE)
        /\ opened = AuditOf("Pending", 0) /\ entry = AuditOf("Verified", 1)
  OBVIOUS
<1>5. /\ proof \in ProofRecord /\ proof.status = "Pending" /\ decided \in ProofRecord
      /\ decided.status = "Verified" /\ decided.kind = proof.kind /\ decided.fits = proof.fits
      /\ opened \in AuditRecord /\ opened.status = "Pending"
      /\ entry \in AuditRecord /\ entry.status = "Verified"
  <2>1. zkTime + YearOfProof \in Nat BY <1>2
  <2>2. proof = [kind |-> kind, fits |-> fits, status |-> "Pending", expires |-> zkTime + YearOfProof]
    BY <1>4 DEF Submitted
  <2>3. decided = [kind |-> kind, fits |-> fits, status |-> "Verified", expires |-> zkTime + YearOfProof]
    BY <1>4, <2>2 DEF Decided
  <2>4. opened = [status |-> "Pending", action |-> 0] /\ entry = [status |-> "Verified", action |-> 1]
    BY <1>4 DEF AuditOf
  <2> QED BY <2>1, <2>2, <2>3, <2>4 DEF ProofRecord, AuditRecord, ProofStatus
<1>6. PICK more, log : more = [i \in 1..1 |-> proof] /\ log = [i \in 1..1 |-> opened] OBVIOUS
<1>7. PICK waiting, noted : waiting = proofs \o more /\ noted = audits \o log OBVIOUS
<1>8. /\ waiting \in Seq(ProofRecord) /\ noted \in Seq(AuditRecord) /\ AccountInOrder(waiting, noted, summary)
      /\ \A status \in {"Verified", "Rejected"} : Count(waiting, status) = Count(proofs, status)
  <2>1. PICK one \in Nat : one = 1 OBVIOUS
  <2>2. /\ more \in [1..one -> ProofRecord] /\ \A i \in 1..one : more[i].status = "Pending"
        /\ log \in [1..one -> AuditRecord] /\ \A i \in 1..one : log[i].status = "Pending"
    BY <1>5, <1>6, <2>1
  <2> HIDE <2>1
  <2>3. /\ proofs \o more \in Seq(ProofRecord) /\ audits \o log \in Seq(AuditRecord)
        /\ AccountInOrder(proofs \o more, audits \o log, summary)
        /\ \A status \in {"Verified", "Rejected"} : Count(proofs \o more, status) = Count(proofs, status)
    BY <1>3, <2>2, SubmittedInOrder, ZenonT(40)
  <2> QED BY <1>7, <2>3
<1>9. PICK n : n = Len(proofs) + 1 OBVIOUS
<1>10. n \in DOMAIN waiting /\ waiting[n] = proof /\ waiting = Append(proofs, proof)
  <2>1. waiting = Append(proofs, proof) /\ more = <<proof>>
    <3>1. more = <<proof>> BY <1>6
    <3> QED BY <1>3, <1>5, <1>7, <3>1, AppendIsConcat
  <2> QED BY <1>3, <1>5, <1>9, <2>1
<1>11. PICK new : new = [waiting EXCEPT ![n] = decided] OBVIOUS
<1>12. Checkable(decided) /\ Verifying(decided) BY <1>4 DEF VerifyAndStoreProof
<1>13. ProofEarned(proof)
  <2>1. decided.kind \in ZkKinds BY <1>5 DEF ProofRecord
  <2>2. ProofEarned(decided) BY <1>2, <1>12, <2>1, CheckedIsEarned
  <2> QED BY <1>5, <2>2 DEF ProofEarned
<1>14. Verdict(waiting, n, TRUE, new, entry)
  <2>1. new[n] = decided BY <1>10, <1>11
  <2> QED BY <1>4, <1>5, <1>10, <1>11, <1>13, <2>1 DEF Verdict
<1>15. PICK logged : logged = Append(noted, entry) OBVIOUS
<1>16. /\ new \in Seq(ProofRecord) /\ logged \in Seq(AuditRecord)
       /\ AccountInOrder(new, logged, Summarized(summary, new))
       /\ Count(new, "Verified") = Count(waiting, "Verified") + 1
       /\ Count(new, "Rejected") = Count(waiting, "Rejected") + 0
  <2>1. PICK good : good = TRUE OBVIOUS
  <2>2. Verdict(waiting, n, good, new, entry) BY <1>14, <2>1
  <2>3. /\ new \in Seq(ProofRecord) /\ Append(noted, entry) \in Seq(AuditRecord)
        /\ AccountInOrder(new, Append(noted, entry), Summarized(summary, new))
        /\ Count(new, "Verified") = Count(waiting, "Verified") + (IF good THEN 1 ELSE 0)
        /\ Count(new, "Rejected") = Count(waiting, "Rejected") + (IF good THEN 0 ELSE 1)
    BY <1>8, <2>2, VerdictInOrder
  <2> QED BY <1>15, <2>1, <2>3
<1>17. new = Append(proofs, decided)
  <2>1. /\ Append(proofs, decided) \in Seq(ProofRecord) /\ Len(Append(proofs, decided)) = n
        /\ Append(proofs, decided)[n] = decided
        /\ \A i \in 1..Len(proofs) : Append(proofs, decided)[i] = proofs[i]
    BY <1>3, <1>5, <1>9, AppendProperties
  <2>2. /\ Len(Append(proofs, proof)) = n
        /\ \A i \in 1..Len(proofs) : Append(proofs, proof)[i] = proofs[i]
    BY <1>3, <1>5, <1>9, AppendProperties
  <2>3. /\ DOMAIN new = 1..n /\ new[n] = decided
        /\ \A i \in 1..n : i # n => new[i] = waiting[i]
    <3>1. Len(waiting) = n BY <1>10, <2>2
    <3>2. DOMAIN waiting = 1..n BY <1>8, <3>1
    <3> QED BY <1>10, <1>11, <3>2
  <2>4. \A i \in 1..n : new[i] = Append(proofs, decided)[i]
    <3>1. TAKE i \in 1..n
    <3>2. i = n \/ i \in 1..Len(proofs) BY <1>3, <1>9
    <3>3. CASE i = n BY <2>1, <2>3, <3>3
    <3>4. CASE i # n
      <4>1. i \in 1..Len(proofs) BY <3>2, <3>4
      <4>2. new[i] = waiting[i] BY <2>3, <3>4
      <4>3. waiting[i] = proofs[i] BY <1>10, <2>2, <4>1
      <4> QED BY <2>1, <4>1, <4>2, <4>3
    <3> QED BY <3>3, <3>4
  <2>5. PICK longer : longer = Append(proofs, decided) OBVIOUS
  <2>6. longer = [i \in 1..n |-> longer[i]]
    <3>1. longer \in Seq(ProofRecord) /\ Len(longer) = n BY <2>1, <2>5
    <3> QED BY <3>1
  <2>7. new = [i \in 1..n |-> new[i]]
    <3>1. new \in Seq(ProofRecord) BY <1>16
    <3>2. new = [i \in 1..Len(new) |-> new[i]] BY <3>1
    <3>3. DOMAIN new = 1..Len(new) /\ Len(new) \in Nat BY <3>1
    <3>4. Len(new) = n BY <1>3, <1>9, <2>3, <3>3
    <3> QED BY <3>2, <3>4
  <2>8. \A i \in 1..n : new[i] = longer[i] BY <2>4, <2>5
  <2> QED BY <2>5, <2>6, <2>7, <2>8
<1>18. logged = audits \o <<opened, entry>>
  <2>1. PICK both : both = <<opened, entry>> OBVIOUS
  <2>2. both = <<opened>> \o <<entry>>
    <3>1. <<opened>> \in Seq(AuditRecord) /\ entry \in AuditRecord BY <1>5
    <3>2. Append(<<opened>>, entry) = <<opened>> \o <<entry>> BY <3>1, AppendIsConcat
    <3>3. PICK one, two : one = <<opened>> /\ two = Append(one, entry) OBVIOUS
    <3>4. one \in Seq(AuditRecord) /\ Len(one) = 1 /\ one[1] = opened BY <3>1, <3>3
    <3>5. two \in Seq(AuditRecord) /\ Len(two) = 2 /\ two[1] = opened /\ two[2] = entry
      BY <3>1, <3>3, <3>4, AppendProperties
    <3>6. two = both
      <4>1. both \in Seq(AuditRecord) /\ Len(both) = 2 /\ both[1] = opened /\ both[2] = entry
        BY <1>5, <2>1
      <4>2. \A i \in 1..2 : two[i] = both[i] BY <3>5, <4>1
      <4>3. two = [i \in 1..2 |-> two[i]] /\ both = [i \in 1..2 |-> both[i]] BY <3>5, <4>1
      <4> QED BY <4>2, <4>3
    <3> QED BY <3>2, <3>3, <3>6
  <2>3. log = <<opened>> BY <1>6
  <2>4. noted = audits \o <<opened>> BY <1>7, <2>3
  <2>5. /\ audits \in Seq(AuditRecord) /\ <<opened>> \in Seq(AuditRecord) /\ <<entry>> \in Seq(AuditRecord)
    BY <1>3, <1>5
  <2>6. (audits \o <<opened>>) \o <<entry>> = audits \o (<<opened>> \o <<entry>>)
    BY <2>5, ConcatAssociative
  <2>7. logged = noted \o <<entry>> BY <1>5, <1>8, <1>15, AppendIsConcat
  <2> QED BY <2>1, <2>2, <2>4, <2>6, <2>7
<1>19. /\ zkProofs' = [zkProofs EXCEPT ![a] = new] /\ zkAudits' = [zkAudits EXCEPT ![a] = logged]
       /\ summaries' = [summaries EXCEPT ![a] = Summarized(summary, new)] /\ zkStats' = Tallied(zkStats, TRUE)
  BY <1>1, <1>4, <1>17, <1>18 DEF VerifyAndStoreProof
<1>20. Moves(ZkBooks, BooksNow, a, new, logged, Summarized(summary, new), 1, 0)
  <2>1. zkStats \in [total : Nat, successful : Nat, failed : Nat] BY <1>2 DEF BooksInOrder, ZkBooks
  <2>2. zkStats' = [total |-> zkStats.total + 1 + 0, successful |-> zkStats.successful + 1,
                    failed |-> zkStats.failed + 0]
    BY <1>19, <2>1 DEF Tallied
  <2>3. /\ Count(new, "Verified") = Count(proofs, "Verified") + 1
        /\ Count(new, "Rejected") = Count(proofs, "Rejected") + 0
    BY <1>8, <1>16
  <2> QED BY <1>1, <1>19, <2>2, <2>3 DEF Moves, ZkBooks, BooksNow
<1>21. 0 \in Nat /\ 1 \in Nat OBVIOUS
<1> QED BY <1>2, <1>16, <1>20, <1>21, BooksChange

LEMMA AuditKeeps ==
  ASSUME ZkInv, NEW a \in Provers, NEW caller, NEW action \in 0..4, CreateAudit(caller, a, action)
  PROVE  BooksInOrder(BooksNow)
<1>1. PICK proofs, audits, summary : proofs = zkProofs[a] /\ audits = zkAudits[a] /\ summary = summaries[a]
  OBVIOUS
<1>2. BooksInOrder(ZkBooks) BY DEF ZkInv
<1>3. /\ proofs \in Seq(ProofRecord) /\ audits \in Seq(AuditRecord)
      /\ AccountInOrder(proofs, audits, summary)
      /\ DOMAIN proofs = 1..Len(proofs) /\ Len(proofs) \in Nat
      /\ DOMAIN audits = 1..Len(audits) /\ Len(audits) \in Nat
  BY <1>1, <1>2 DEF BooksInOrder, ZkBooks
<1>4. PICK entry : entry = AuditOf("NotSubmitted", action) OBVIOUS
<1>5. entry \in AuditRecord /\ entry.status = "NotSubmitted"
  BY <1>4 DEF AuditOf, AuditRecord, ProofStatus
<1>6. PICK logged : logged = Append(audits, entry) OBVIOUS
<1>7. /\ logged \in Seq(AuditRecord) /\ Len(logged) = Len(audits) + 1
      /\ \A j \in 1..Len(audits) : logged[j] = audits[j] /\ logged[Len(audits) + 1] = entry
      /\ DOMAIN logged = 1..(Len(audits) + 1)
  BY <1>3, <1>5, <1>6, AppendProperties
<1>8. PICK m, k : m = Len(audits) /\ k = Len(audits) + 1 OBVIOUS
<1>9. Grows(audits, logged, m, k) BY <1>3, <1>7, <1>8 DEF Grows
<1>10. ASSUME NEW status \in {"Pending", "Verified", "Rejected"} PROVE Count(logged, status) = Count(audits, status)
  <2>1. ASSUME NEW j \in 1..k, j \notin 1..m PROVE logged[j].status # status
    <3>1. j = Len(audits) + 1 BY <1>3, <1>8, <2>1
    <3>2. logged[Len(audits) + 1] = entry BY <1>3, <1>5, <1>6, AppendProperties
    <3> QED BY <1>5, <3>1, <3>2
  <2>2. AddsNo(logged, m, k, status) BY <2>1 DEF AddsNo
  <2> QED BY <1>9, <2>2, CountStays
<1>11. AccountInOrder(proofs, logged, summary) BY <1>3, <1>10 DEF AccountInOrder
<1>12. Moves(ZkBooks, BooksNow, a, proofs, logged, summary, 0, 0)
  <2>1. /\ zkAudits' = [zkAudits EXCEPT ![a] = logged] /\ zkProofs' = zkProofs
        /\ summaries' = summaries /\ zkStats' = zkStats
    BY <1>1, <1>4, <1>6 DEF CreateAudit
  <2>2. /\ summaries = [b \in Provers |-> summaries[b]] /\ zkStats \in [total : Nat, successful : Nat, failed : Nat]
        /\ zkProofs \in [Provers -> Seq(ProofRecord)]
    BY <1>2 DEF BooksInOrder, ZkBooks
  <2>3. summaries' = [summaries EXCEPT ![a] = summary] /\ zkProofs' = [zkProofs EXCEPT ![a] = proofs]
    BY <1>1, <2>1, <2>2
  <2>4. zkStats' = [total |-> zkStats.total + 0 + 0, successful |-> zkStats.successful + 0,
                    failed |-> zkStats.failed + 0]
    BY <2>1, <2>2
  <2>5. \A status : Count(proofs, status) \in Nat BY <1>3, CountIsNumber
  <2>6. /\ Count(proofs, "Verified") = Count(proofs, "Verified") + 0
        /\ Count(proofs, "Rejected") = Count(proofs, "Rejected") + 0
    BY <2>5
  <2> QED BY <1>1, <2>1, <2>3, <2>4, <2>6 DEF Moves, ZkBooks, BooksNow
<1>13. 0 \in Nat OBVIOUS
<1> QED BY <1>2, <1>3, <1>7, <1>11, <1>12, <1>13, BooksChange

LEMMA ReviewKeeps ==
  ASSUME ZkInv, Reviewing
  PROVE  BooksInOrder(BooksNow) /\ UNCHANGED <<zkTime, backend, keyVars>>
<1>1. KeysKnown /\ BooksInOrder(ZkBooks) BY DEF ZkInv
<1>2. ASSUME NEW books, SetBooks(books), BooksInOrder(books)
      PROVE  BooksInOrder(BooksNow) /\ UNCHANGED <<zkTime, backend, keyVars>>
  <2>1. /\ BooksNow.proofs = books.proofs /\ BooksNow.summaries = books.summaries
        /\ BooksNow.audits = books.audits /\ BooksNow.stats = books.stats
        /\ UNCHANGED <<zkTime, backend, keyVars>>
    BY <1>2 DEF SetBooks, BooksNow
  <2> HIDE DEF BooksNow
  <2> QED BY <1>2, <2>1 DEF BooksInOrder
<1>3. ASSUME NEW caller, NEW v \in Reviews, VerifyZkProof(caller, v)
      PROVE  BooksInOrder(BooksNow) /\ UNCHANGED <<zkTime, backend, keyVars>>
  <2>1. Verifiable(ZkBooks, v) /\ SetBooks(VerifyOne(ZkBooks, v)) BY <1>3 DEF VerifyZkProof
  <2>2. BooksInOrder(VerifyOne(ZkBooks, v)) BY <1>1, <2>1, VerifyKeepsOrder
  <2> QED BY <1>2, <2>1, <2>2
<1>4. ASSUME NEW caller, NEW n \in 1..ZkBatchLimit, NEW vs \in [1..n -> Reviews], BatchVerifyZkProofs(caller, vs)
      PROVE  BooksInOrder(BooksNow) /\ UNCHANGED <<zkTime, backend, keyVars>>
  <2>1. n \in Nat /\ Len(vs) = n OBVIOUS
  <2> DEFINE done == CHOOSE f : IsTrying(f, caller, vs, n)
  <2>2. IsTrying(done, caller, vs, n) BY <2>1, TryingExists
  <2>3. SetBooks(done[n]) BY <1>4, <2>1 DEF BatchVerifyZkProofs, IsTrying
  <2> HIDE DEF done
  <2>4. BooksInOrder(done[n]) BY <1>1, <2>1, <2>2, BatchKeepsOrder
  <2> QED BY <1>2, <2>3, <2>4
<1> QED BY <1>3, <1>4 DEF Reviewing

LEMMA ZkStarts == ZkInit => ZkInv
<1> SUFFICES ASSUME ZkInit PROVE ZkInv OBVIOUS
<1>1. /\ zkTime = 0 /\ keyOf = [k \in ZkKinds |-> NoKey]
      /\ registered = [k \in ZkKinds |-> {}]
      /\ zkProofs = [a \in Provers |-> <<>>] /\ summaries = [a \in Provers |-> NoSummary]
      /\ zkAudits = [a \in Provers |-> <<>>] /\ zkStats = [total |-> 0, successful |-> 0, failed |-> 0]
  BY DEF ZkInit
<1>2. KeysKnown BY <1>1 DEF KeysKnown
<1>3. \A status : Count(<<>>, status) = 0
  <2>1. \A status : {i \in DOMAIN <<>> : (<<>>)[i].status = status} = {} OBVIOUS
  <2> QED BY <2>1, FS_EmptySet DEF Count
<1>4. IsFiniteSet(Provers) BY ZkAssumption
<1>5. ASSUME NEW status PROVE InAll(zkProofs, status) = 0
  <2>1. PICK f : f = [a \in Provers |-> Count(zkProofs[a], status)] OBVIOUS
  <2>2. \A a \in Provers : f[a] = 0 BY <1>1, <1>3, <2>1
  <2>3. SumFunctionOnSet(f, Provers) = 0 BY <1>4, <2>2, SumZero
  <2> QED BY <2>1, <2>3 DEF InAll
<1>6. \A a \in Provers : AccountInOrder(zkProofs[a], zkAudits[a], summaries[a])
  BY <1>1, <1>3 DEF AccountInOrder, NoSummary, ProofStatus
<1>7. BooksInOrder(ZkBooks)
  <2>1. /\ zkProofs \in [Provers -> Seq(ProofRecord)] /\ zkAudits \in [Provers -> Seq(AuditRecord)]
        /\ summaries = [a \in Provers |-> summaries[a]]
    BY <1>1
  <2>2. zkStats \in [total : Nat, successful : Nat, failed : Nat] /\ zkStats.total = zkStats.successful + zkStats.failed
    BY <1>1
  <2>3. zkStats.successful = InAll(zkProofs, "Verified") /\ zkStats.failed = InAll(zkProofs, "Rejected")
    BY <1>1, <1>5
  <2> QED BY <1>6, <2>1, <2>2, <2>3 DEF BooksInOrder, ZkBooks
<1> QED BY <1>1, <1>2, <1>7 DEF ZkInv

(* Keys are only added to the history, so what earned a verdict has earned   *)
(* it for good.                                                              *)
LEMMA EarnedForGood ==
  ASSUME ZkInv, backend' = backend, \A k \in ZkKinds : registered[k] \subseteq registered'[k],
         UNCHANGED proofVars
  PROVE  BooksInOrder(ZkBooks)'
<1>1. /\ zkProofs \in [Provers -> Seq(ProofRecord)]
      /\ \A a \in Provers : AccountInOrder(zkProofs[a], zkAudits[a], summaries[a])
  BY DEF ZkInv, BooksInOrder, ZkBooks
<1>2. ASSUME NEW a \in Provers PROVE AccountInOrder(zkProofs[a], zkAudits[a], summaries[a])'
  <2>1. ASSUME NEW i \in DOMAIN zkProofs[a], zkProofs[a][i].status = "Verified" PROVE ProofEarned(zkProofs[a][i])'
    <3>1. PICK proof : proof = zkProofs[a][i] OBVIOUS
    <3>2. zkProofs[a] \in Seq(ProofRecord) BY <1>1
    <3>3. proof \in ProofRecord BY <3>1, <3>2
    <3>4. proof.kind \in ZkKinds BY <3>3 DEF ProofRecord
    <3>5. ProofEarned(proof) BY <1>1, <2>1, <3>1 DEF AccountInOrder
    <3> QED BY <3>1, <3>4, <3>5 DEF ProofEarned, proofVars
  <2>2. AccountInOrder(zkProofs[a], zkAudits[a], summaries[a]) BY <1>1
  <2>3. /\ zkProofs' = zkProofs /\ zkAudits' = zkAudits /\ summaries' = summaries BY DEF proofVars
  <2>4. /\ summaries[a].status \in ProofStatus
        /\ summaries[a].status = "Verified" => \E i \in DOMAIN zkProofs[a] : zkProofs[a][i].status = "Verified"
        /\ \A status \in {"Verified", "Rejected"} : Count(zkAudits[a], status) = Count(zkProofs[a], status)
        /\ Count(zkAudits[a], "Pending") = Len(zkProofs[a])
    BY <2>2 DEF AccountInOrder
  <2>5. (\A i \in DOMAIN zkProofs[a] : zkProofs[a][i].status = "Verified" => ProofEarned(zkProofs[a][i]))'
    BY <2>1, <2>3
  <2>6. (\A status \in {"Verified", "Rejected"} : Count(zkAudits[a], status) = Count(zkProofs[a], status))'
    BY <2>3, <2>4
  <2>7. (Count(zkAudits[a], "Pending") = Len(zkProofs[a]))' BY <2>3, <2>4
  <2>8. (summaries[a].status = "Verified" => \E i \in DOMAIN zkProofs[a] : zkProofs[a][i].status = "Verified")'
    BY <2>3, <2>4
  <2>9. (summaries[a].status \in ProofStatus)' BY <2>3, <2>4
  <2> QED BY <2>5, <2>6, <2>7, <2>8, <2>9 DEF AccountInOrder
<1>3. /\ BooksInOrder(ZkBooks) /\ zkProofs' = zkProofs /\ zkAudits' = zkAudits /\ summaries' = summaries /\ zkStats' = zkStats
  BY DEF ZkInv, proofVars
<1>4. \A status : InAll(zkProofs', status) = InAll(zkProofs, status) BY <1>3
<1> QED BY <1>2, <1>3, <1>4 DEF BooksInOrder, ZkBooks, InAll, Count

LEMMA ZkStep == ZkInv /\ [ZkNext]_zkVars => ZkInv'
<1> SUFFICES ASSUME ZkInv, [ZkNext]_zkVars PROVE ZkInv' OBVIOUS
<1>1. zkTime \in Nat /\ KeysKnown BY DEF ZkInv
<1>2. ASSUME UNCHANGED <<zkTime, backend, keyVars>>, BooksInOrder(BooksNow) PROVE ZkInv'
  <2>1. BooksInOrder(ZkBooks)'
    <3>1. \A proofs, audits, summary :
            AccountInOrder(proofs, audits, summary)' <=> AccountInOrder(proofs, audits, summary)
      BY <1>2 DEF AccountInOrder, ProofEarned, keyVars, Count
    <3> QED BY <1>2 DEF BooksInOrder, BooksNow, ZkBooks, InAll, Count, AccountInOrder, ProofEarned, keyVars
  <2> QED BY <1>1, <1>2, <2>1 DEF ZkInv, KeysKnown, keyVars
<1>3. ASSUME UNCHANGED proofVars, UNCHANGED <<backend, keyVars>>, zkTime' \in Nat PROVE ZkInv'
  <2>1. BooksInOrder(ZkBooks)' BY <1>3, EarnedForGood DEF keyVars
  <2> QED BY <1>1, <1>3, <2>1 DEF ZkInv, KeysKnown, keyVars
<1>4. CASE Proving
  <2>1. ASSUME NEW a \in Provers, NEW n \in 1..ZkBatchLimit, NEW entries \in [1..n -> ZkEntries],
               SubmitZkProofs(a, entries)
        PROVE  ZkInv'
    <3>1. n \in Nat OBVIOUS
    <3>2. BooksInOrder(BooksNow) BY <2>1, <3>1, SubmitKeeps
    <3> QED BY <1>2, <2>1, <3>2 DEF SubmitZkProofs
  <2>2. ASSUME NEW a \in Provers, NEW kind \in OneShots, NEW fits \in ZkFits, VerifyAndStoreProof(a, kind, fits)
        PROVE  ZkInv'
    <3>1. kind \in ZkKinds BY ZkAssumption
    <3>2. BooksInOrder(BooksNow) BY <2>2, <3>1, StoreKeeps
    <3> QED BY <1>2, <2>2, <3>2 DEF VerifyAndStoreProof
  <2> QED BY <1>4, <2>1, <2>2 DEF Proving
<1>5. CASE Reviewing BY <1>2, <1>5, ReviewKeeps
<1>6. CASE KeyKeeping
  <2>1. ASSUME NEW caller, NEW kind \in ZkKinds, DeactivateVerificationKey(caller, kind) PROVE ZkInv'
    <3>1. /\ keyOf' = [keyOf EXCEPT ![kind].active = FALSE] /\ keyOf[kind] # NoKey
          /\ UNCHANGED <<zkTime, backend, registered>> /\ UNCHANGED proofVars
      BY <2>1 DEF DeactivateVerificationKey
    <3>2. BooksInOrder(ZkBooks)' BY <3>1, EarnedForGood
    <3>3. KeysKnown' BY <1>1, <3>1 DEF KeysKnown
    <3> QED BY <1>1, <3>1, <3>2, <3>3 DEF ZkInv
  <2>2. ASSUME NEW caller, NEW kind \in ZkKinds, NEW key \in ZkKeys, SetVerificationKey(caller, kind, key) PROVE ZkInv'
    <3>1. /\ keyOf' = [keyOf EXCEPT ![kind] = [version |-> @.version + 1, key |-> key, active |-> TRUE]]
          /\ registered' = [registered EXCEPT ![kind] = @ \cup {key}]
          /\ UNCHANGED <<zkTime, backend>> /\ UNCHANGED proofVars
      BY <2>2 DEF SetVerificationKey
    <3>2. \A k \in ZkKinds : registered[k] \subseteq registered'[k] BY <3>1
    <3>3. BooksInOrder(ZkBooks)' BY <3>1, <3>2, EarnedForGood
    <3>4. KeysKnown' BY <1>1, <3>1 DEF KeysKnown
    <3> QED BY <1>1, <3>1, <3>3, <3>4 DEF ZkInv
  <2>3. ASSUME NEW caller, NEW v, AddApprovedVerifier(caller, v) \/ RemoveApprovedVerifier(caller, v) PROVE ZkInv'
    BY <1>1, <1>3, <2>3 DEF AddApprovedVerifier, RemoveApprovedVerifier
  <2> QED BY <1>6, <2>1, <2>2, <2>3 DEF KeyKeeping
<1>7. CASE Preferring
  <2>1. ASSUME NEW a \in Provers, NEW caller, NEW action \in 0..4, CreateAudit(caller, a, action) PROVE ZkInv'
    <3>1. BooksInOrder(BooksNow) BY <2>1, AuditKeeps
    <3> QED BY <1>2, <2>1, <3>1 DEF CreateAudit
  <2>2. ASSUME NEW a, NEW level, NEW consent, SetPrivacy(a, level, consent) PROVE ZkInv'
    BY <1>1, <1>3, <2>2 DEF SetPrivacy
  <2> QED BY <1>7, <2>1, <2>2
       DEF Preferring, GrantProofConsent, RevokeProofConsent, UpdatePrivacyPreferences, UpdatePrivacyOnDashboard
<1>8. CASE ZkTick BY <1>1, <1>3, <1>8 DEF ZkTick
<1>9. CASE UNCHANGED zkVars BY <1>1, <1>3, <1>9 DEF zkVars
<1> QED BY <1>4, <1>5, <1>6, <1>7, <1>8, <1>9 DEF ZkNext

(* A pass, and a verified summary, rest on a proof that fits a key its kind  *)
(* has had, in a build that can tell; and each proof is decided once.        *)
LEMMA VerdictsFollow == ZkInv => VerdictsAreEarned
<1> SUFFICES ASSUME ZkInv PROVE VerdictsAreEarned OBVIOUS
<1>1. /\ zkProofs \in [Provers -> Seq(ProofRecord)]
      /\ \A a \in Provers : AccountInOrder(zkProofs[a], zkAudits[a], summaries[a])
      /\ zkStats.successful = InAll(zkProofs, "Verified") /\ zkStats.failed = InAll(zkProofs, "Rejected")
      /\ zkStats.total = zkStats.successful + zkStats.failed
  BY DEF ZkInv, BooksInOrder, ZkBooks
<1>2. ASSUME NEW a \in Provers, NEW kind \in ZkKinds, IsZkProofValid(a, kind)
      PROVE  backend /\ \E i \in DOMAIN zkProofs[a] :
               zkProofs[a][i].kind = kind /\ zkProofs[a][i].fits \in registered[kind]
  <2>1. PICK proofs : proofs = zkProofs[a] OBVIOUS
  <2>2. PICK ofKind : ofKind = {i \in DOMAIN proofs : proofs[i].kind = kind} OBVIOUS
  <2>3. ofKind # {} /\ proofs[Max(ofKind)].status = "Verified" BY <1>2, <2>1, <2>2 DEF IsZkProofValid
  <2>4. proofs \in Seq(ProofRecord) BY <1>1, <2>1
  <2>5. DOMAIN proofs = 1..Len(proofs) /\ Len(proofs) \in Nat BY <2>4, LenProperties
  <2>6. IsFiniteSet(ofKind) /\ ofKind \subseteq Nat
    <3>1. IsFiniteSet(1..Len(proofs)) BY <2>5, FS_Interval
    <3>2. ofKind \subseteq 1..Len(proofs) BY <2>2, <2>5
    <3>3. IsFiniteSet(ofKind) BY <3>1, <3>2, FS_Subset
    <3>4. ofKind \subseteq Nat BY <2>5, <3>2
    <3> QED BY <3>3, <3>4
  <2>7. PICK m \in ofKind : \A x \in ofKind : x <= m BY <2>3, <2>6, GreatestNumber
  <2>8. \A x \in ofKind : m >= x BY <2>6, <2>7
  <2>9. Max(ofKind) \in ofKind BY <2>7, <2>8 DEF Max
  <2>10. PICK i : i = Max(ofKind) OBVIOUS
  <2>11. i \in DOMAIN proofs /\ proofs[i].kind = kind /\ proofs[i].status = "Verified" BY <2>2, <2>3, <2>9, <2>10
  <2>12. ProofEarned(proofs[i]) BY <1>1, <2>1, <2>11 DEF AccountInOrder
  <2> QED BY <2>1, <2>11, <2>12 DEF ProofEarned
<1>3. ASSUME NEW a \in Provers, summaries[a].status = "Verified"
      PROVE  \E kind \in ZkKinds : backend /\ \E i \in DOMAIN zkProofs[a] :
               zkProofs[a][i].kind = kind /\ zkProofs[a][i].fits \in registered[kind]
  <2>1. PICK i \in DOMAIN zkProofs[a] : zkProofs[a][i].status = "Verified" BY <1>1, <1>3 DEF AccountInOrder
  <2>2. ProofEarned(zkProofs[a][i]) BY <1>1, <2>1 DEF AccountInOrder
  <2>3. zkProofs[a] \in Seq(ProofRecord) BY <1>1
  <2>4. zkProofs[a][i] \in ProofRecord BY <2>1, <2>3
  <2>5. zkProofs[a][i].kind \in ZkKinds BY <2>4 DEF ProofRecord
  <2> QED BY <2>1, <2>2, <2>5 DEF ProofEarned
<1>4. PassesAreProven BY <1>2, <1>3 DEF PassesAreProven
<1>5. VerdictsAreCounted BY <1>1 DEF VerdictsAreCounted, AccountInOrder, InAll, ProofsInAll
<1> QED BY <1>4, <1>5 DEF VerdictsAreEarned

(* Verdicts are earned and counted for any accounts, keys, kinds of proof    *)
(* and batches of any length, whatever is submitted or reviewed again and    *)
(* whichever keys are changed or put out of use.                             *)
THEOREM ZkVerdicts == ZkSpec => []VerdictsAreEarned
BY ZkStarts, ZkStep, VerdictsFollow, PTL DEF ZkSpec

-----------------------------------------------------------------------------
(* The client's queue of sessions.  A queue holds each session once, and     *)
(* only sessions of A.                                                       *)
IsQueueOf(held, A) ==
  /\ held \in Seq(Sessions) /\ ToSet(held) \subseteq A
  /\ \A i, j \in DOMAIN held : held[i] = held[j] => i = j

LEMMA QueueWidens ==
  ASSUME NEW A, NEW B, A \subseteq B, NEW held, IsQueueOf(held, A)
  PROVE  IsQueueOf(held, B)
BY DEF IsQueueOf

LEMMA EmptyQueue ==
  ASSUME NEW A
  PROVE  IsQueueOf(<<>>, A) /\ ToSet(<<>>) = {}
BY DEF IsQueueOf, ToSet

LEMMA QueueAppends ==
  ASSUME NEW A, NEW B, A \subseteq B, NEW held, IsQueueOf(held, A),
         NEW s \in Sessions, s \in B, s \notin A
  PROVE  IsQueueOf(Append(held, s), B) /\ ToSet(Append(held, s)) = ToSet(held) \cup {s}
<1>1. PICK n \in Nat : n = Len(held) /\ DOMAIN held = 1..n BY DEF IsQueueOf
<1>2. PICK new : new = Append(held, s) OBVIOUS
<1>3. /\ new \in Seq(Sessions) /\ Len(new) = n + 1 /\ new[n + 1] = s
      /\ \A i \in 1..n : new[i] = held[i]
  BY <1>1, <1>2, AppendProperties DEF IsQueueOf
<1>4. DOMAIN new = 1..(n + 1) BY <1>3
<1>5. \A i \in 1..(n + 1) : i \in 1..n \/ i = n + 1 BY <1>1
<1>6. ToSet(new) = ToSet(held) \cup {s}
  <2>1. ToSet(new) \subseteq ToSet(held) \cup {s} BY <1>1, <1>3, <1>4, <1>5 DEF ToSet
  <2>2. ToSet(held) \cup {s} \subseteq ToSet(new)
    <3>1. n + 1 \in DOMAIN new /\ 1..n \subseteq DOMAIN new BY <1>1, <1>4
    <3>2. s \in ToSet(new) BY <1>3, <3>1 DEF ToSet
    <3>3. \A i \in 1..n : held[i] \in ToSet(new) BY <1>3, <3>1 DEF ToSet
    <3> QED BY <1>1, <3>2, <3>3 DEF ToSet
  <2> QED BY <2>1, <2>2
<1>7. \A i \in 1..n : held[i] # s
  <2>1. ToSet(held) \subseteq A BY DEF IsQueueOf
  <2> QED BY <1>1, <2>1 DEF ToSet
<1>8. ASSUME NEW i \in DOMAIN new, NEW j \in DOMAIN new, new[i] = new[j] PROVE i = j
  <2>1. (i \in 1..n \/ i = n + 1) /\ (j \in 1..n \/ j = n + 1) BY <1>4, <1>5
  <2>2. CASE i \in 1..n /\ j \in 1..n
    <3>1. held[i] = held[j] BY <1>3, <1>8, <2>2
    <3> QED BY <1>1, <2>2, <3>1 DEF IsQueueOf
  <2>3. CASE i = n + 1 \/ j = n + 1 BY <1>3, <1>7, <1>8, <2>1, <2>3
  <2> QED BY <2>1, <2>2, <2>3
<1>9. ToSet(new) \subseteq B BY <1>6 DEF IsQueueOf
<1> QED BY <1>2, <1>3, <1>6, <1>8, <1>9 DEF IsQueueOf

LEMMA QueueTail ==
  ASSUME NEW A, NEW held, IsQueueOf(held, A), held # <<>>
  PROVE  /\ Head(held) \in ToSet(held) /\ Head(held) \in Sessions
         /\ IsQueueOf(Tail(held), A) /\ ToSet(Tail(held)) = ToSet(held) \ {Head(held)}
<1>1. PICK n \in Nat : n = Len(held) /\ DOMAIN held = 1..n BY DEF IsQueueOf
<1>2. n # 0 BY <1>1 DEF IsQueueOf
<1>3. PICK h, rest : h = Head(held) /\ rest = Tail(held) OBVIOUS
<1>4. h = held[1] /\ 1 \in 1..n /\ h \in Sessions BY <1>1, <1>2, <1>3, HeadTailProperties DEF IsQueueOf
<1>5. /\ rest \in Seq(Sessions) /\ Len(rest) = n - 1 /\ DOMAIN rest = 1..(n - 1)
      /\ \A i \in 1..(n - 1) : rest[i] = held[i + 1]
  <2>1. rest \in Seq(Sessions) /\ Len(rest) = n - 1 /\ \A i \in 1..Len(rest) : rest[i] = held[i + 1]
    BY <1>1, <1>3, HeadTailProperties DEF IsQueueOf
  <2> QED BY <2>1
<1>6. \A i \in 1..(n - 1) : i + 1 \in 1..n /\ i + 1 # 1 BY <1>1
<1>7. \A i \in 1..n : i # 1 => i - 1 \in 1..(n - 1) /\ (i - 1) + 1 = i BY <1>1
<1>8. \A i, j \in 1..n : held[i] = held[j] => i = j BY <1>1 DEF IsQueueOf
<1>9. ToSet(rest) = ToSet(held) \ {h}
  <2>1. ASSUME NEW i \in 1..(n - 1) PROVE rest[i] \in ToSet(held) /\ rest[i] # h
    <3>1. i + 1 \in 1..n /\ i + 1 # 1 BY <1>6
    <3>2. rest[i] = held[i + 1] BY <1>5
    <3>3. held[i + 1] # held[1] BY <1>4, <1>8, <3>1
    <3> QED BY <1>1, <1>4, <3>1, <3>2, <3>3 DEF ToSet
  <2>2. ASSUME NEW i \in 1..n, held[i] # h PROVE held[i] \in ToSet(rest)
    <3>1. i # 1 BY <1>4, <2>2
    <3>2. i - 1 \in 1..(n - 1) /\ (i - 1) + 1 = i BY <1>7, <3>1
    <3>3. rest[i - 1] = held[i] BY <1>5, <3>2
    <3> QED BY <1>5, <3>2, <3>3 DEF ToSet
  <2>3. ToSet(rest) \subseteq ToSet(held) \ {h} BY <1>5, <2>1 DEF ToSet
  <2>4. ToSet(held) \ {h} \subseteq ToSet(rest) BY <1>1, <2>2 DEF ToSet
  <2> QED BY <2>3, <2>4
<1>10. ASSUME NEW i \in DOMAIN rest, NEW j \in DOMAIN rest, rest[i] = rest[j] PROVE i = j
  <2>1. i \in 1..(n - 1) /\ j \in 1..(n - 1) BY <1>5
  <2>2. i + 1 \in 1..n /\ j + 1 \in 1..n BY <1>6, <2>1
  <2>3. held[i + 1] = held[j + 1] BY <1>5, <1>10, <2>1
  <2>4. i + 1 = j + 1 BY <1>8, <2>2, <2>3
  <2> QED BY <2>1, <2>4
<1>11. h \in ToSet(held) BY <1>1, <1>4 DEF ToSet
<1>12. ToSet(rest) \subseteq A BY <1>9 DEF IsQueueOf
<1> QED BY <1>3, <1>4, <1>5, <1>9, <1>10, <1>11, <1>12 DEF IsQueueOf

(* The sessions of a set, in order, are a queue.                             *)
Sorts(held, S) ==
  /\ held \in [1..Cardinality(S) -> S] /\ ToSet(held) = S
  /\ \A i, j \in DOMAIN held : i < j => held[i] < held[j]

LEMMA SortedExists ==
  ASSUME NEW S, IsFiniteSet(S), S \subseteq Nat
  PROVE  \E held : Sorts(held, S)
<1> DEFINE Bad == {T \in SUBSET S : ~ \E held : Sorts(held, T)}
<1>1. Bad \subseteq SUBSET S OBVIOUS
<1>2. CASE Bad = {} BY <1>2
<1>3. CASE Bad # {}
  <2>1. PICK T \in Bad : \A U \in SUBSET T : U # T => U \notin Bad
    <3> HIDE DEF Bad
    <3> QED BY <1>1, <1>3, SmallestFailure
  <2>2. T \subseteq S /\ IsFiniteSet(T) /\ T \subseteq Nat BY FS_Subset
  <2>3. T # {}
    <3>1. ASSUME T = {} PROVE Sorts(<<>>, T)
      <4>1. Cardinality(T) = 0 BY <3>1, FS_EmptySet
      <4>2. ToSet(<<>>) = {} BY DEF ToSet
      <4> QED BY <3>1, <4>1, <4>2 DEF Sorts
    <3> QED BY <3>1
  <2>4. PICK m \in T : \A x \in T : x <= m BY <2>2, <2>3, GreatestNumber
  <2>5. PICK U : U = T \ {m} OBVIOUS
  <2>6. PICK held : Sorts(held, U)
    <3>1. U \in SUBSET T /\ U # T BY <2>4, <2>5
    <3>2. U \notin Bad /\ U \in SUBSET S BY <2>1, <2>2, <3>1
    <3> QED BY <3>2
  <2> HIDE DEF Bad
  <2>7. PICK n \in Nat : n = Cardinality(U) /\ Cardinality(T) = n + 1
    <3>1. IsFiniteSet(U) /\ m \notin U /\ T = U \cup {m} BY <2>2, <2>4, <2>5, FS_Subset
    <3> QED BY <3>1, FS_AddElement, FS_CardinalityType
  <2>8. /\ held \in [1..n -> U] /\ ToSet(held) = U /\ DOMAIN held = 1..n
        /\ \A i, j \in 1..n : i < j => held[i] < held[j]
    BY <2>6, <2>7 DEF Sorts
  <2>9. PICK new : new = [i \in 1..(n + 1) |-> IF i = n + 1 THEN m ELSE held[i]] OBVIOUS
  <2>10. /\ DOMAIN new = 1..(n + 1) /\ new[n + 1] = m
         /\ \A i \in 1..n : new[i] = held[i]
         /\ \A i \in 1..(n + 1) : i \in 1..n \/ i = n + 1
    BY <2>9
  <2>11. new \in [1..(n + 1) -> T] BY <2>4, <2>5, <2>8, <2>9
  <2>12. ToSet(new) = T
    <3>1. ToSet(new) \subseteq T BY <2>10, <2>11 DEF ToSet
    <3>2. m \in ToSet(new)
      <4>1. n + 1 \in DOMAIN new BY <2>10
      <4> QED BY <2>10, <4>1 DEF ToSet
    <3>3. \A i \in 1..n : held[i] \in ToSet(new)
      <4>1. 1..n \subseteq DOMAIN new BY <2>10
      <4> QED BY <2>10, <4>1 DEF ToSet
    <3>4. U \subseteq ToSet(new) BY <2>8, <3>3 DEF ToSet
    <3> QED BY <2>5, <3>1, <3>2, <3>4
  <2>13. ASSUME NEW i \in 1..(n + 1), NEW j \in 1..(n + 1), i < j PROVE new[i] < new[j]
    <3>1. i \in 1..n BY <2>13
    <3>2. CASE j \in 1..n BY <2>8, <2>10, <2>13, <3>1, <3>2
    <3>3. CASE j = n + 1
      <4>1. held[i] \in U BY <2>8, <3>1
      <4>2. held[i] \in Nat /\ m \in Nat /\ held[i] <= m /\ held[i] # m BY <2>2, <2>4, <2>5, <4>1
      <4>3. new[i] = held[i] /\ new[j] = m BY <2>10, <3>1, <3>3
      <4> QED BY <4>2, <4>3
    <3> QED BY <2>10, <3>2, <3>3
  <2>14. Sorts(new, T) BY <2>7, <2>10, <2>11, <2>12, <2>13 DEF Sorts
  <2>15. ~ \E q : Sorts(q, T) BY <2>1 DEF Bad
  <2> QED BY <2>14, <2>15
<1> QED BY <1>2, <1>3

LEMMA SortedIsQueue ==
  ASSUME NEW S \in SUBSET Sessions
  PROVE  IsQueueOf(InOrder(S), S) /\ ToSet(InOrder(S)) = S
<1>1. MaxSessions \in Nat BY QueueAssumption
<1>2. IsFiniteSet(S) /\ S \subseteq Nat
  <2>1. IsFiniteSet(1..MaxSessions) BY <1>1, FS_Interval
  <2>2. S \subseteq 1..MaxSessions BY DEF Sessions
  <2>3. IsFiniteSet(S) BY <2>1, <2>2, FS_Subset
  <2>4. S \subseteq Nat BY <1>1, <2>2
  <2> QED BY <2>3, <2>4
<1>3. PICK some : Sorts(some, S) BY <1>2, SortedExists
<1>4. PICK held : held = InOrder(S) OBVIOUS
<1>5. Sorts(held, S)
  <2>1. \E q \in [1..Cardinality(S) -> S] : ToSet(q) = S /\ \A i, j \in DOMAIN q : i < j => q[i] < q[j]
    BY <1>3 DEF Sorts
  <2> QED BY <1>4, <2>1 DEF Sorts, InOrder
<1>6. PICK n \in Nat : n = Cardinality(S) BY <1>2, FS_CardinalityType
<1>7. /\ held \in [1..n -> S] /\ ToSet(held) = S
      /\ \A i, j \in 1..n : i < j => held[i] < held[j]
  BY <1>5, <1>6 DEF Sorts
<1>8. held \in Seq(Sessions)
  <2>1. held \in [1..n -> Sessions] BY <1>7
  <2> QED BY <2>1, SeqDef
<1>9. ASSUME NEW i \in DOMAIN held, NEW j \in DOMAIN held, held[i] = held[j] PROVE i = j
  <2>1. i \in 1..n /\ j \in 1..n /\ held[i] \in Nat BY <1>2, <1>7
  <2>2. ~ (i < j) /\ ~ (j < i) BY <1>7, <1>9, <2>1
  <2> QED BY <2>1, <2>2
<1> QED BY <1>4, <1>7, <1>8, <1>9 DEF IsQueueOf

-----------------------------------------------------------------------------
(* What a page asks of IndexedDB: it reads first.                            *)
Request == {Read} \cup [kind : {"write"}, queue : Seq(Sessions), then : {"none", "drain", "ended"}]

AreRequests(asked, A) ==
  /\ asked \in Seq(Request)
  /\ \A i \in DOMAIN asked :
       /\ asked[i].kind = "read" => i = 1
       /\ asked[i].kind = "write" => IsQueueOf(asked[i].queue, A)

(* What the page will find in the mirror.                                    *)
ToFind(asked, found) == IF asked # <<>> /\ asked[1].kind = "read" THEN ToSet(found) ELSE {}

LEMMA RequestsWiden ==
  ASSUME NEW A, NEW B, A \subseteq B, NEW asked, AreRequests(asked, A)
  PROVE  AreRequests(asked, B)
BY DEF AreRequests, IsQueueOf

LEMMA RequestsAppend ==
  ASSUME NEW A, NEW asked, AreRequests(asked, A), NEW held, IsQueueOf(held, A),
         NEW then \in {"none", "drain", "ended"}, NEW found
  PROVE  /\ AreRequests(Append(asked, Write(held, then)), A)
         /\ ToFind(Append(asked, Write(held, then)), found) = ToFind(asked, found)
<1>1. PICK n \in Nat : n = Len(asked) /\ DOMAIN asked = 1..n BY DEF AreRequests
<1>2. PICK request : request = Write(held, then) OBVIOUS
<1>3. request \in Request /\ request.kind = "write" /\ request.queue = held
  BY <1>2 DEF Write, Request, IsQueueOf
<1>4. PICK new : new = Append(asked, request) OBVIOUS
<1>5. /\ new \in Seq(Request) /\ Len(new) = n + 1 /\ new[n + 1] = request
      /\ \A i \in 1..n : new[i] = asked[i]
  BY <1>1, <1>3, <1>4, AppendProperties DEF AreRequests
<1>6. DOMAIN new = 1..(n + 1) /\ \A i \in 1..(n + 1) : i \in 1..n \/ i = n + 1 BY <1>1, <1>5
<1>7. AreRequests(new, A)
  <2>1. ASSUME NEW i \in DOMAIN new
        PROVE  /\ new[i].kind = "read" => i = 1
               /\ new[i].kind = "write" => IsQueueOf(new[i].queue, A)
    <3>1. CASE i \in 1..n
      <4>1. new[i] = asked[i] /\ i \in DOMAIN asked BY <1>1, <1>5, <3>1
      <4> QED BY <4>1 DEF AreRequests
    <3>2. CASE i = n + 1 BY <1>3, <1>5, <3>2
    <3> QED BY <1>6, <2>1, <3>1, <3>2
  <2> QED BY <1>5, <2>1 DEF AreRequests
<1>8. ToFind(new, found) = ToFind(asked, found)
  <2>1. new # <<>> BY <1>1, <1>5
  <2>2. CASE asked = <<>>
    <3>1. n = 0 BY <1>1, <2>2
    <3>2. new[1] = request BY <1>5, <3>1
    <3> QED BY <1>3, <2>2, <3>2 DEF ToFind
  <2>3. CASE asked # <<>>
    <3>1. n # 0 BY <1>1, <2>3 DEF AreRequests
    <3>2. 1 \in 1..n BY <1>1, <3>1
    <3>3. new[1] = asked[1] BY <1>5, <3>2
    <3> QED BY <2>1, <2>3, <3>3 DEF ToFind
  <2> QED BY <2>2, <2>3
<1> QED BY <1>2, <1>4, <1>7, <1>8

LEMMA RequestsTail ==
  ASSUME NEW A, NEW asked, AreRequests(asked, A), asked # <<>>, NEW found
  PROVE  /\ Head(asked) \in Request /\ Head(asked) = asked[1]
         /\ Head(asked).kind = "write" => IsQueueOf(Head(asked).queue, A)
         /\ AreRequests(Tail(asked), A) /\ ToFind(Tail(asked), found) = {}
<1>1. PICK n \in Nat : n = Len(asked) /\ DOMAIN asked = 1..n BY DEF AreRequests
<1>2. n # 0 BY <1>1 DEF AreRequests
<1>3. PICK rest : rest = Tail(asked) OBVIOUS
<1>4. rest \in Seq(Request) /\ Len(rest) = n - 1 /\ \A i \in 1..(n - 1) : rest[i] = asked[i + 1]
  BY <1>1, <1>3, HeadTailProperties DEF AreRequests
<1>5. DOMAIN rest = 1..(n - 1) BY <1>4
<1>6. ASSUME NEW i \in 1..(n - 1)
      PROVE  rest[i].kind # "read" /\ (rest[i].kind = "write" => IsQueueOf(rest[i].queue, A))
  <2>1. i + 1 \in 1..n /\ i + 1 # 1 BY <1>1
  <2>2. PICK j \in 1..n : j = i + 1 /\ j # 1 BY <2>1
  <2>3. rest[i] = asked[j] BY <1>4, <2>2
  <2> QED BY <1>1, <2>2, <2>3 DEF AreRequests
<1>7. AreRequests(rest, A) BY <1>4, <1>5, <1>6 DEF AreRequests
<1>8. ToFind(rest, found) = {}
  <2>1. CASE rest = <<>> BY <2>1 DEF ToFind
  <2>2. CASE rest # <<>>
    <3>1. n - 1 # 0 BY <1>4, <2>2
    <3>2. 1 \in 1..(n - 1) BY <1>1, <1>2, <3>1
    <3> QED BY <1>6, <3>2 DEF ToFind
  <2> QED BY <2>1, <2>2
<1>9. Head(asked) = asked[1] /\ 1 \in DOMAIN asked /\ Head(asked) \in Request
  BY <1>1, <1>2, HeadTailProperties DEF AreRequests
<1> QED BY <1>3, <1>7, <1>8, <1>9 DEF AreRequests

-----------------------------------------------------------------------------
(* What drains have yet to record: their copies, or, when none is under way, *)
(* the queue.                                                                *)
ToRecord(under, held) ==
  IF \E d \in under : ~ d.saving THEN UNION {ToSet(d.left) : d \in {e \in under : ~ e.saving}}
  ELSE ToSet(held)

LEMMA OneRecords ==
  ASSUME NEW d, NEW held
  PROVE  /\ ToRecord({d}, held) = IF d.saving THEN ToSet(held) ELSE ToSet(d.left)
         /\ ToRecord({}, held) = ToSet(held)
<1>1. ToRecord({}, held) = ToSet(held) BY DEF ToRecord
<1>2. CASE d.saving BY <1>1, <1>2 DEF ToRecord
<1>3. CASE ~ d.saving
  <2>1. {e \in {d} : ~ e.saving} = {d} BY <1>3
  <2>2. UNION {ToSet(e.left) : e \in {d}} = ToSet(d.left) OBVIOUS
  <2> QED BY <1>1, <1>3, <2>1, <2>2 DEF ToRecord
<1> QED BY <1>2, <1>3

IsDrain(d, A) ==
  /\ d \in [left : Seq(Sessions), saving : BOOLEAN]
  /\ IsQueueOf(d.left, A) /\ (~ d.saving => d.left # <<>>)

(* Sessions that were tried once at least: what is queued anywhere is one.   *)
Attempted == 1..completed \ recording

QueueTyped ==
  /\ online \in BOOLEAN /\ open \in BOOLEAN /\ completed \in 0..MaxSessions /\ recording \subseteq 1..completed
  /\ IsQueueOf(pending, Attempted) /\ IsQueueOf(stored, Attempted) /\ IsQueueOf(mirror, Attempted)
  /\ \A d \in drains : IsDrain(d, Attempted)
  /\ AreRequests(requests, Attempted)
  /\ recorded \in [Sessions -> Nat] /\ visits \in Nat \ {0}
  /\ \A s \in Sessions : s \notin Attempted => recorded[s] = 0

(* One drain at a time, and a page that is open keeps its queue in           *)
(* localStorage.                                                             *)
QueueOrderly ==
  /\ \A d, e \in drains : d = e
  /\ open => pending = stored
  /\ ~ open => pending = <<>> /\ recording = {} /\ drains = {} /\ requests = <<>>

(* What a drain has taken out of its copy is recorded, and what the queue    *)
(* has got since is known to be overtaken.                                   *)
DrainsForget ==
  \A d \in drains : ~ d.saving =>
    \A s \in ToSet(pending) \ overtaken : s \in ToSet(d.left) \/ recorded[s] > 0

(* A visit records a session again only from the queue it started with and   *)
(* from the mirror it is still to read.                                      *)
Once(s, S) == IF s \in S THEN 1 ELSE 0

RepeatsAreDue ==
  \A s \in Sessions :
    recorded[s] + Once(s, recording) + Once(s, ToRecord(drains, pending)) + Once(s, ToFind(requests, mirror))
      <= 2 * visits - 1

(* The inductive invariant.                                                  *)
QueueInv == QueueTyped /\ QueueOrderly /\ DrainsForget /\ RepeatsAreDue /\ LostSessionsWereOvertaken

-----------------------------------------------------------------------------
(* One drain, if any, and what it has in it.                                 *)
LEMMA DrainIsOne ==
  ASSUME QueueInv
  PROVE  drains = {} \/ \E d : drains = {d} /\ IsDrain(d, Attempted)
BY DEF QueueInv, QueueTyped, QueueOrderly

LEMMA DueIsAttempted ==
  ASSUME QueueInv
  PROVE  ToRecord(drains, pending) \subseteq Attempted /\ ToFind(requests, mirror) \subseteq Attempted
<1>1. ToSet(pending) \subseteq Attempted /\ ToSet(mirror) \subseteq Attempted
  BY DEF QueueInv, QueueTyped, IsQueueOf
<1>2. ToFind(requests, mirror) \subseteq Attempted BY <1>1 DEF ToFind
<1>3. CASE drains = {} BY <1>1, <1>2, <1>3, OneRecords
<1>4. ASSUME NEW d, drains = {d}, IsDrain(d, Attempted) PROVE ToRecord(drains, pending) \subseteq Attempted
  <2>1. ToSet(d.left) \subseteq Attempted BY <1>4 DEF IsDrain, IsQueueOf
  <2> QED BY <1>1, <1>4, <2>1, OneRecords
<1> QED BY <1>2, <1>3, <1>4, DrainIsOne

(* A drain that starts takes the queue as it is.                             *)
LEMMA DrainStarts ==
  ASSUME QueueInv
  PROVE  /\ \A d \in Drained : IsDrain(d, Attempted) /\ \A e \in Drained : d = e
         /\ ToRecord(Drained, pending) = ToRecord(drains, pending)
         /\ \A d \in Drained : ~ d.saving =>
              \A s \in ToSet(pending) \ overtaken : s \in ToSet(d.left) \/ recorded[s] > 0
         /\ ~ open => Drained = {}
<1>1. CASE ~ CanDrain
  <2>1. Drained = drains BY <1>1 DEF Drained
  <2> QED BY <2>1 DEF QueueInv, QueueTyped, QueueOrderly, DrainsForget
<1>2. CASE CanDrain
  <2>1. PICK d : d = [left |-> pending, saving |-> FALSE] OBVIOUS
  <2>2. d.left = pending /\ d.saving = FALSE BY <2>1
  <2>3. Drained = {d} /\ drains = {} /\ pending # <<>> /\ open BY <1>2, <2>1 DEF Drained, CanDrain
  <2>4. IsDrain(d, Attempted)
    <3>1. IsQueueOf(pending, Attempted) BY DEF QueueInv, QueueTyped
    <3>2. d \in [left : Seq(Sessions), saving : BOOLEAN] BY <2>1, <3>1 DEF IsQueueOf
    <3> QED BY <2>2, <2>3, <3>1, <3>2 DEF IsDrain
  <2>5. ToRecord(Drained, pending) = ToRecord(drains, pending) BY <2>2, <2>3, OneRecords
  <2> QED BY <2>2, <2>3, <2>4, <2>5
<1> QED BY <1>1, <1>2

LEMMA QueueStarts == QueueInit => QueueInv
<1> SUFFICES ASSUME QueueInit PROVE QueueInv OBVIOUS
<1>1. /\ online = TRUE /\ completed = 0 /\ open = TRUE /\ pending = <<>> /\ recording = {} /\ drains = {}
      /\ requests = <<Read>> /\ stored = <<>> /\ mirror = <<>>
      /\ recorded = [s \in Sessions |-> 0] /\ visits = 1
  BY DEF QueueInit
<1>2. MaxSessions \in Nat BY QueueAssumption
<1>3. AreRequests(requests, Attempted)
  <2>1. Read \in Request /\ Read.kind = "read" BY DEF Request, Read
  <2>2. requests \in Seq(Request) /\ DOMAIN requests = {1} /\ requests[1] = Read BY <1>1, <2>1
  <2> QED BY <2>1, <2>2 DEF AreRequests
<1>4. QueueTyped BY <1>1, <1>2, <1>3, EmptyQueue DEF QueueTyped
<1>5. ToRecord(drains, pending) = {} /\ ToFind(requests, mirror) = {}
  BY <1>1, OneRecords, EmptyQueue DEF ToFind
<1>6. RepeatsAreDue BY <1>1, <1>5 DEF RepeatsAreDue, Once
<1>7. QueueOrderly /\ DrainsForget /\ LostSessionsWereOvertaken
  BY <1>1 DEF QueueOrderly, DrainsForget, LostSessionsWereOvertaken
<1> QED BY <1>4, <1>6, <1>7 DEF QueueInv

LEMMA CompleteKeeps ==
  ASSUME QueueInv, CompleteSession
  PROVE  QueueInv'
<1>1. PICK n : n = completed + 1 OBVIOUS
<1>2. /\ open /\ completed < MaxSessions /\ completed' = n /\ recording' = recording \cup {n}
      /\ UNCHANGED <<online, open, pending, drains, requests, stored, mirror, recorded, visits, overtaken, cutOff>>
  BY <1>1 DEF CompleteSession
<1>3. completed \in 0..MaxSessions /\ MaxSessions \in Nat /\ recording \subseteq 1..completed
  BY QueueAssumption DEF QueueInv, QueueTyped
<1>4. /\ n \in 1..MaxSessions /\ n \in Sessions /\ n \notin 1..completed
      /\ 1..n = 1..completed \cup {n}
  BY <1>1, <1>2, <1>3 DEF Sessions
<1>5. Attempted' = Attempted BY <1>2, <1>3, <1>4 DEF Attempted
<1>6. QueueTyped' BY <1>2, <1>3, <1>4, <1>5 DEF QueueInv, QueueTyped
<1>7. QueueOrderly' /\ DrainsForget' BY <1>2 DEF QueueInv, QueueOrderly, DrainsForget
<1>8. RepeatsAreDue'
  <2>1. ASSUME NEW s \in Sessions
        PROVE  recorded[s] + Once(s, recording \cup {n}) + Once(s, ToRecord(drains, pending)) + Once(s, ToFind(requests, mirror))
                 <= 2 * visits - 1
    <3>1. recorded[s] \in Nat /\ visits \in Nat \ {0} BY DEF QueueInv, QueueTyped
    <3>2. CASE s = n
      <4>1. s \notin Attempted BY <1>4, <3>2 DEF Attempted
      <4>2. recorded[s] = 0 BY <4>1 DEF QueueInv, QueueTyped
      <4>3. s \notin ToRecord(drains, pending) /\ s \notin ToFind(requests, mirror) BY <4>1, DueIsAttempted
      <4> QED BY <3>1, <4>2, <4>3 DEF Once
    <3>3. CASE s # n
      <4>1. Once(s, recording \cup {n}) = Once(s, recording) BY <3>3 DEF Once
      <4> QED BY <4>1 DEF QueueInv, RepeatsAreDue
    <3> QED BY <3>2, <3>3
  <2> QED BY <1>2, <2>1 DEF RepeatsAreDue
<1>9. LostSessionsWereOvertaken' BY <1>2, <1>4 DEF QueueInv, LostSessionsWereOvertaken
<1> QED BY <1>6, <1>7, <1>8, <1>9 DEF QueueInv

(* An attempt that succeeds.                                                 *)
LEMMA AttemptKeeps ==
  ASSUME QueueInv, NEW s \in Sessions, s \in recording, recording' = recording \ {s}, Record(s),
         UNCHANGED <<online, completed, open, pending, drains, requests, stored, mirror, visits, overtaken, cutOff>>
  PROVE  QueueInv'
<1>1. recorded \in [Sessions -> Nat] /\ visits \in Nat \ {0} BY DEF QueueInv, QueueTyped
<1>2. /\ recorded' \in [Sessions -> Nat] /\ recorded'[s] = recorded[s] + 1
      /\ \A t \in Sessions \ {s} : recorded'[t] = recorded[t]
  BY <1>1 DEF Record
<1>3. recording \subseteq 1..completed /\ completed \in 0..MaxSessions BY DEF QueueInv, QueueTyped
<1>4. Attempted' = Attempted \cup {s} BY <1>3 DEF Attempted
<1>5. QueueTyped'
  <2>1. PICK A, B : A = Attempted /\ B = Attempted' /\ A \subseteq B /\ s \in B BY <1>4
  <2>2. IsQueueOf(pending, B) /\ IsQueueOf(stored, B) /\ IsQueueOf(mirror, B)
    BY <2>1, QueueWidens DEF QueueInv, QueueTyped
  <2>3. \A d \in drains : IsDrain(d, B) BY <2>1, QueueWidens DEF QueueInv, QueueTyped, IsDrain
  <2>4. AreRequests(requests, B) BY <2>1, RequestsWiden DEF QueueInv, QueueTyped
  <2>5. \A t \in Sessions : t \notin B => recorded'[t] = 0
    BY <1>2, <2>1 DEF QueueInv, QueueTyped
  <2>6. recording' \subseteq 1..completed' BY <1>3
  <2>7. online' \in BOOLEAN /\ open' \in BOOLEAN /\ completed' \in 0..MaxSessions BY DEF QueueInv, QueueTyped
  <2> QED BY <1>1, <1>2, <2>1, <2>2, <2>3, <2>4, <2>5, <2>6, <2>7 DEF QueueTyped
<1>6. QueueOrderly' BY DEF QueueInv, QueueOrderly
<1>7. \A t \in Sessions : recorded[t] > 0 => recorded'[t] > 0 BY <1>1, <1>2
<1>8. DrainsForget'
  <2>1. ToSet(pending) \subseteq Sessions BY DEF QueueInv, QueueTyped, IsQueueOf, ToSet
  <2> QED BY <1>7, <2>1 DEF QueueInv, DrainsForget
<1>9. RepeatsAreDue'
  <2>1. ASSUME NEW t \in Sessions
        PROVE  recorded'[t] + Once(t, recording \ {s}) <= recorded[t] + Once(t, recording)
    BY <1>1, <1>2, <2>1 DEF Once
  <2>2. ASSUME NEW t \in Sessions
        PROVE  recorded'[t] + Once(t, recording \ {s}) + Once(t, ToRecord(drains, pending)) + Once(t, ToFind(requests, mirror))
                 <= 2 * visits - 1
    <3>1. recorded[t] + Once(t, recording) + Once(t, ToRecord(drains, pending)) + Once(t, ToFind(requests, mirror))
            <= 2 * visits - 1
      BY DEF QueueInv, RepeatsAreDue
    <3>2. recorded[t] \in Nat /\ recorded'[t] \in Nat BY <1>1, <1>2
    <3> QED BY <1>1, <2>1, <3>1, <3>2 DEF Once
  <2> QED BY <2>2 DEF RepeatsAreDue
<1>10. LostSessionsWereOvertaken'
  <2>1. 1..completed \subseteq Sessions BY <1>3, QueueAssumption DEF Sessions
  <2>2. recorded'[s] > 0 BY <1>1, <1>2
  <2> QED BY <1>7, <2>1, <2>2 DEF QueueInv, LostSessionsWereOvertaken
<1> QED BY <1>5, <1>6, <1>8, <1>9, <1>10 DEF QueueInv

(* An attempt that fails: the session is queued.                             *)
LEMMA FailureKeeps ==
  ASSUME QueueInv, NEW s \in Sessions, s \in recording, recording' = recording \ {s},
         Persist(Append(pending, s), "none"), Overtake({s}),
         UNCHANGED <<online, completed, open, drains, mirror, recorded, visits, cutOff>>
  PROVE  QueueInv'
<1>1. recorded \in [Sessions -> Nat] /\ visits \in Nat \ {0} BY DEF QueueInv, QueueTyped
<1>2. recording \subseteq 1..completed /\ completed \in 0..MaxSessions BY DEF QueueInv, QueueTyped
<1>3. Attempted' = Attempted \cup {s} /\ s \notin Attempted BY <1>2 DEF Attempted
<1>4. PICK A, B : A = Attempted /\ B = Attempted' /\ A \subseteq B /\ s \in B /\ s \notin A BY <1>3
<1>5. PICK held : held = Append(pending, s) OBVIOUS
<1>6. IsQueueOf(held, B) /\ ToSet(held) = ToSet(pending) \cup {s}
  <2>1. IsQueueOf(pending, A) BY <1>4 DEF QueueInv, QueueTyped
  <2>2. PICK old : old = pending OBVIOUS
  <2>3. IsQueueOf(old, A) BY <2>1, <2>2
  <2>4. /\ IsQueueOf(Append(old, s), B)
        /\ ToSet(Append(old, s)) = ToSet(old) \cup {s}
    BY <1>4, <2>3, QueueAppends
  <2> QED BY <1>5, <2>2, <2>4
<1>7. pending' = held /\ stored' = held /\ requests' = Append(requests, Write(held, "none")) BY <1>5 DEF Persist
<1>8. AreRequests(requests', B) /\ ToFind(requests', mirror) = ToFind(requests, mirror)
  <2>1. AreRequests(requests, B) BY <1>4, RequestsWiden DEF QueueInv, QueueTyped
  <2> QED BY <1>6, <1>7, <2>1, RequestsAppend
<1>9. open /\ pending = stored BY DEF QueueInv, QueueOrderly
<1>10. QueueTyped'
  <2>1. IsQueueOf(mirror, B) BY <1>4, QueueWidens DEF QueueInv, QueueTyped
  <2>2. \A d \in drains : IsDrain(d, B) BY <1>4, QueueWidens DEF QueueInv, QueueTyped, IsDrain
  <2>3. \A t \in Sessions : t \notin B => recorded[t] = 0 BY <1>4 DEF QueueInv, QueueTyped
  <2>4. recording' \subseteq 1..completed' BY <1>2
  <2>5. online' \in BOOLEAN /\ open' \in BOOLEAN /\ completed' \in 0..MaxSessions BY DEF QueueInv, QueueTyped
  <2> QED BY <1>1, <1>4, <1>6, <1>7, <1>8, <2>1, <2>2, <2>3, <2>4, <2>5 DEF QueueTyped
<1>11. QueueOrderly' BY <1>7, <1>9 DEF QueueInv, QueueOrderly
<1>12. CASE drains = {}
  <2>1. ToRecord(drains, pending) = ToSet(pending) /\ ToRecord(drains, held) = ToSet(held) BY <1>12, OneRecords
  <2>2. \A t : Once(t, recording \ {s}) + Once(t, ToSet(held)) <= Once(t, recording) + Once(t, ToSet(pending))
    BY <1>6 DEF Once
  <2>3. RepeatsAreDue'
    <3>1. ASSUME NEW t \in Sessions
          PROVE  recorded[t] + Once(t, recording \ {s}) + Once(t, ToSet(held)) + Once(t, ToFind(requests, mirror))
                   <= 2 * visits - 1
      <4>1. recorded[t] + Once(t, recording) + Once(t, ToSet(pending)) + Once(t, ToFind(requests, mirror))
              <= 2 * visits - 1
        BY <2>1 DEF QueueInv, RepeatsAreDue
      <4>2. recorded[t] \in Nat BY <1>1
      <4> QED BY <1>1, <2>2, <4>1, <4>2 DEF Once
    <3> QED BY <1>7, <1>8, <2>1, <3>1 DEF RepeatsAreDue
  <2>4. DrainsForget' BY <1>12 DEF DrainsForget
  <2>5. overtaken \subseteq overtaken' BY DEF Overtake
  <2>6. LostSessionsWereOvertaken' BY <1>6, <1>7, <1>9, <2>5 DEF QueueInv, LostSessionsWereOvertaken
  <2> QED BY <1>10, <1>11, <2>3, <2>4, <2>6 DEF QueueInv
<1>13. ASSUME NEW d, drains = {d} PROVE QueueInv'
  <2>1. /\ ToRecord(drains, pending) = IF d.saving THEN ToSet(pending) ELSE ToSet(d.left)
        /\ ToRecord(drains, held) = IF d.saving THEN ToSet(held) ELSE ToSet(d.left)
    BY <1>13, OneRecords
  <2>2. \A t : Once(t, recording \ {s}) + Once(t, ToRecord(drains, held)) <= Once(t, recording) + Once(t, ToRecord(drains, pending))
    BY <1>6, <2>1 DEF Once
  <2>3. RepeatsAreDue'
    <3>1. ASSUME NEW t \in Sessions
          PROVE  recorded[t] + Once(t, recording \ {s}) + Once(t, ToRecord(drains, held)) + Once(t, ToFind(requests, mirror))
                   <= 2 * visits - 1
      <4>1. recorded[t] + Once(t, recording) + Once(t, ToRecord(drains, pending)) + Once(t, ToFind(requests, mirror))
              <= 2 * visits - 1
        BY DEF QueueInv, RepeatsAreDue
      <4>2. recorded[t] \in Nat BY <1>1
      <4> QED BY <1>1, <2>2, <4>1, <4>2 DEF Once
    <3> QED BY <1>7, <1>8, <3>1 DEF RepeatsAreDue
  <2>4. overtaken \subseteq overtaken' /\ (~ d.saving => s \in overtaken') BY <1>13 DEF Overtake
  <2>5. DrainsForget' BY <1>6, <1>7, <1>13, <2>4 DEF QueueInv, DrainsForget
  <2>6. LostSessionsWereOvertaken' BY <1>6, <1>7, <1>9, <2>4 DEF QueueInv, LostSessionsWereOvertaken
  <2> QED BY <1>10, <1>11, <2>3, <2>5, <2>6 DEF QueueInv
<1> QED BY <1>12, <1>13, DrainIsOne

(* A drain records the next session of its copy; the first failure, or the   *)
(* last session, ends it.                                                    *)
LEMMA DrainKeeps ==
  ASSUME QueueInv, NEW d \in drains, DrainNext(d)
  PROVE  QueueInv'
<1>1. drains = {d} /\ IsDrain(d, Attempted) /\ ~ d.saving
  BY DEF QueueInv, QueueTyped, QueueOrderly, DrainNext
<1>2. open /\ pending = stored BY DEF QueueInv, QueueOrderly
<1>3. recorded \in [Sessions -> Nat] /\ visits \in Nat \ {0} BY DEF QueueInv, QueueTyped
<1>4. PICK left, done, new :
        /\ left = IF online THEN Tail(d.left) ELSE d.left
        /\ done = (~ online \/ left = <<>>) /\ new = [left |-> left, saving |-> done]
  OBVIOUS
<1>5. /\ drains' = (drains \ {d}) \cup {new}
      /\ IF online THEN Record(Head(d.left)) ELSE UNCHANGED recorded
      /\ IF done THEN Persist(left, "ended") ELSE UNCHANGED <<pending, stored, requests>>
      /\ UNCHANGED <<online, completed, open, recording, mirror, visits, overtaken, cutOff>>
  BY <1>4 DEF DrainNext
<1>6. drains' = {new} /\ new.left = left /\ new.saving = done /\ done \in BOOLEAN BY <1>1, <1>4, <1>5
<1>7. PICK h : h = Head(d.left) OBVIOUS
<1>8. /\ h \in ToSet(d.left) /\ h \in Sessions /\ h \in Attempted /\ IsQueueOf(left, Attempted)
      /\ ToSet(left) = IF online THEN ToSet(d.left) \ {h} ELSE ToSet(d.left)
  <2>1. IsQueueOf(d.left, Attempted) /\ d.left # <<>> BY <1>1 DEF IsDrain
  <2>2. /\ h \in ToSet(d.left) /\ h \in Sessions
        /\ IsQueueOf(Tail(d.left), Attempted) /\ ToSet(Tail(d.left)) = ToSet(d.left) \ {h}
    BY <1>7, <2>1, QueueTail
  <2>3. h \in Attempted BY <2>1, <2>2 DEF IsQueueOf
  <2> QED BY <1>4, <2>1, <2>2, <2>3
<1>9. /\ recorded' \in [Sessions -> Nat] /\ (online => recorded'[h] = recorded[h] + 1)
      /\ \A t \in Sessions : ~ (online /\ t = h) => recorded'[t] = recorded[t]
  BY <1>3, <1>5, <1>7, <1>8 DEF Record
<1>10. \A t \in Sessions : recorded[t] > 0 => recorded'[t] > 0 BY <1>3, <1>8, <1>9
<1>11. Attempted' = Attempted BY <1>5 DEF Attempted
<1>12. IsDrain(new, Attempted)
  <2>1. new \in [left : Seq(Sessions), saving : BOOLEAN] BY <1>4, <1>6, <1>8 DEF IsQueueOf
  <2>2. ~ done => left # <<>> BY <1>4
  <2> QED BY <1>6, <1>8, <2>1, <2>2 DEF IsDrain
<1>13. /\ (done => pending' = left /\ stored' = left) /\ (~ done => pending' = pending /\ stored' = stored)
       /\ AreRequests(requests', Attempted) /\ ToFind(requests', mirror) = ToFind(requests, mirror)
  <2>1. AreRequests(requests, Attempted) BY DEF QueueInv, QueueTyped
  <2>2. CASE done
    <3>1. pending' = left /\ stored' = left /\ requests' = Append(requests, Write(left, "ended"))
      BY <1>5, <2>2 DEF Persist
    <3> QED BY <1>8, <2>1, <2>2, <3>1, RequestsAppend
  <2>3. CASE ~ done BY <1>5, <2>1, <2>3
  <2> QED BY <1>6, <2>2, <2>3
<1>14. QueueTyped'
  <2>1. PICK A : A = Attempted OBVIOUS
  <2>2. IsQueueOf(pending', A) /\ IsQueueOf(stored', A) /\ IsQueueOf(mirror, A)
    <3>1. IsQueueOf(pending, A) /\ IsQueueOf(stored, A) /\ IsQueueOf(mirror, A) BY <2>1 DEF QueueInv, QueueTyped
    <3>2. CASE done BY <1>8, <1>13, <2>1, <3>1, <3>2
    <3>3. CASE ~ done BY <1>13, <3>1, <3>3
    <3> QED BY <1>6, <3>2, <3>3
  <2>3. \A e \in drains' : IsDrain(e, A) BY <1>6, <1>12, <2>1
  <2>4. \A t \in Sessions : t \notin A => recorded'[t] = 0
    BY <1>8, <1>9, <2>1 DEF QueueInv, QueueTyped
  <2>5. /\ online' \in BOOLEAN /\ open' \in BOOLEAN /\ completed' \in 0..MaxSessions /\ recording' \subseteq 1..completed'
    BY <1>5 DEF QueueInv, QueueTyped
  <2>6. IsQueueOf(mirror', A) /\ visits' \in Nat \ {0} BY <1>3, <1>5, <2>2
  <2>7. A = Attempted' BY <1>11, <2>1
  <2>8. AreRequests(requests', A) BY <1>13, <2>1
  <2> QED BY <1>9, <2>2, <2>3, <2>4, <2>5, <2>6, <2>7, <2>8 DEF QueueTyped
<1>15. QueueOrderly' BY <1>2, <1>5, <1>6, <1>13 DEF QueueOrderly
<1>16. \A t \in ToSet(pending) \ overtaken : t \in ToSet(left) \/ recorded'[t] > 0
  <2>1. ASSUME NEW t \in ToSet(pending) \ overtaken PROVE t \in ToSet(left) \/ recorded'[t] > 0
    <3>1. t \in ToSet(d.left) \/ recorded[t] > 0 BY <1>1 DEF QueueInv, DrainsForget
    <3>2. t \in Sessions BY DEF QueueInv, QueueTyped, IsQueueOf, ToSet
    <3>3. CASE online /\ t = h BY <1>3, <1>9, <3>2, <3>3
    <3>4. CASE ~ (online /\ t = h) BY <1>8, <1>10, <3>1, <3>2, <3>4
    <3> QED BY <3>3, <3>4
  <2> QED BY <2>1
<1>17. DrainsForget' BY <1>5, <1>6, <1>13, <1>16 DEF DrainsForget
<1>18. RepeatsAreDue'
  <2>1. ToRecord(drains, pending) = ToSet(d.left) BY <1>1, OneRecords
  <2>2. ToRecord(drains', pending') = ToSet(left)
    <3>1. ToRecord({new}, pending') = IF done THEN ToSet(pending') ELSE ToSet(left) BY <1>6, OneRecords
    <3> QED BY <1>6, <1>13, <3>1
  <2>3. ASSUME NEW t \in Sessions
        PROVE  recorded'[t] + Once(t, ToSet(left)) <= recorded[t] + Once(t, ToSet(d.left))
    BY <1>3, <1>8, <1>9 DEF Once
  <2>4. ASSUME NEW t \in Sessions
        PROVE  recorded'[t] + Once(t, recording) + Once(t, ToSet(left)) + Once(t, ToFind(requests, mirror))
                 <= 2 * visits - 1
    <3>1. recorded[t] + Once(t, recording) + Once(t, ToSet(d.left)) + Once(t, ToFind(requests, mirror))
            <= 2 * visits - 1
      BY <2>1 DEF QueueInv, RepeatsAreDue
    <3>2. recorded[t] \in Nat /\ recorded'[t] \in Nat BY <1>3, <1>9
    <3> QED BY <1>3, <2>3, <3>1, <3>2 DEF Once
  <2> QED BY <1>5, <1>13, <2>2, <2>4 DEF RepeatsAreDue
<1>19. LostSessionsWereOvertaken'
  <2>1. ASSUME NEW t \in 1..completed \ (overtaken \cup cutOff)
        PROVE  recorded'[t] > 0 \/ t \in recording \/ t \in ToSet(stored')
    <3>1. recorded[t] > 0 \/ t \in recording \/ t \in ToSet(stored) BY DEF QueueInv, LostSessionsWereOvertaken
    <3>2. t \in Sessions
      <4>1. completed \in 0..MaxSessions /\ MaxSessions \in Nat BY QueueAssumption DEF QueueInv, QueueTyped
      <4> QED BY <4>1 DEF Sessions
    <3>3. CASE t \in ToSet(stored)
      <4>1. CASE done BY <1>2, <1>13, <1>16, <3>3, <4>1
      <4>2. CASE ~ done BY <1>13, <3>3, <4>2
      <4> QED BY <1>6, <4>1, <4>2
    <3> QED BY <1>10, <3>1, <3>2, <3>3
  <2> QED BY <1>5, <2>1 DEF LostSessionsWereOvertaken
<1> QED BY <1>14, <1>15, <1>17, <1>18, <1>19 DEF QueueInv

(* What was found in the mirror joins the queue.                             *)
LEMMA ReadKeeps ==
  ASSUME QueueInv, requests # <<>>, Head(requests).kind = "read", NEW found,
         found = mirror \/ found = <<>>, ReadMirror(found),
         UNCHANGED <<online, completed, open, recording, drains, mirror, recorded, visits, cutOff>>
  PROVE  QueueInv'
<1>1. open /\ pending = stored BY DEF QueueInv, QueueOrderly
<1>2. PICK A : A = Attempted /\ A = Attempted' BY DEF Attempted
<1>3. IsQueueOf(pending, A) /\ IsQueueOf(mirror, A) /\ AreRequests(requests, A) BY <1>2 DEF QueueInv, QueueTyped
<1>4. IsQueueOf(found, A) /\ ToSet(found) \subseteq ToSet(mirror) BY <1>3, EmptyQueue
<1>5. PICK P, F : P = ToSet(pending) /\ F = ToSet(found) OBVIOUS
<1>6. PICK held : held = Merged(found) OBVIOUS
<1>7. IsQueueOf(held, A) /\ ToSet(held) = P \cup F
  <2>1. P \subseteq A /\ F \subseteq A BY <1>3, <1>4, <1>5 DEF IsQueueOf
  <2>2. P \cup F \in SUBSET Sessions BY <1>3, <1>4, <1>5 DEF IsQueueOf, ToSet
  <2>3. held = InOrder(P \cup F) BY <1>5, <1>6 DEF Merged
  <2>4. IsQueueOf(held, P \cup F) /\ ToSet(held) = P \cup F BY <2>2, <2>3, SortedIsQueue
  <2> QED BY <2>1, <2>4, QueueWidens
<1>8. /\ ToFind(requests, mirror) = ToSet(mirror)
      /\ AreRequests(Tail(requests), A) /\ ToFind(Tail(requests), mirror) = {}
  BY <1>3, RequestsTail DEF ToFind
<1>9. /\ pending' = stored' /\ IsQueueOf(pending', A) /\ AreRequests(requests', A) /\ ToFind(requests', mirror) = {}
      /\ ToSet(pending') = P \cup F /\ overtaken \subseteq overtaken'
      /\ \A d \in drains : ~ d.saving => F \ P \subseteq overtaken'
  <2>1. CASE held = <<>>
    <3>1. requests' = Tail(requests) /\ UNCHANGED <<pending, stored, overtaken>> BY <1>6, <2>1 DEF ReadMirror
    <3>2. P = {} /\ F = {} BY <1>7, <2>1, EmptyQueue
    <3> QED BY <1>1, <1>3, <1>5, <1>8, <3>1, <3>2
  <2>2. CASE held # <<>>
    <3>1. /\ pending' = held /\ stored' = held
          /\ requests' = Append(Tail(requests), Write(held, "drain")) /\ Overtake(F \ P)
      BY <1>5, <1>6, <2>2 DEF ReadMirror
    <3>2. AreRequests(requests', A) /\ ToFind(requests', mirror) = {} BY <1>7, <1>8, <3>1, RequestsAppend
    <3>3. overtaken \subseteq overtaken' /\ \A d \in drains : ~ d.saving => F \ P \subseteq overtaken'
      BY <3>1 DEF Overtake
    <3> QED BY <1>7, <3>1, <3>2, <3>3
  <2> QED BY <2>1, <2>2
<1>10. QueueTyped'
  <2>1. /\ online \in BOOLEAN /\ open \in BOOLEAN /\ completed \in 0..MaxSessions /\ recording \subseteq 1..completed
        /\ \A d \in drains : IsDrain(d, A)
        /\ recorded \in [Sessions -> Nat] /\ visits \in Nat \ {0}
        /\ \A s \in Sessions : s \notin A => recorded[s] = 0
    BY <1>2 DEF QueueInv, QueueTyped
  <2> QED BY <1>2, <1>3, <1>9, <2>1 DEF QueueTyped
<1>11. QueueOrderly' BY <1>1, <1>9 DEF QueueInv, QueueOrderly
<1>12. DrainsForget'
  <2>1. ASSUME NEW d \in drains, ~ d.saving, NEW s \in ToSet(pending') \ overtaken'
        PROVE  s \in ToSet(d.left) \/ recorded[s] > 0
    <3>1. s \in P /\ s \notin overtaken BY <1>9, <2>1
    <3> QED BY <1>5, <2>1, <3>1 DEF QueueInv, DrainsForget
  <2> QED BY <2>1 DEF DrainsForget
<1>13. RepeatsAreDue'
  <2>1. \A t : Once(t, ToRecord(drains, pending')) <= Once(t, ToRecord(drains, pending)) + Once(t, ToSet(mirror))
    <3>1. CASE drains = {}
      <4>1. ToRecord(drains, pending') = P \cup F /\ ToRecord(drains, pending) = P BY <1>5, <1>9, <3>1, OneRecords
      <4> QED BY <1>4, <1>5, <4>1 DEF Once
    <3>2. ASSUME NEW d, drains = {d}
          PROVE  \A t : Once(t, ToRecord(drains, pending')) <= Once(t, ToRecord(drains, pending)) + Once(t, ToSet(mirror))
      <4>1. /\ ToRecord(drains, pending') = IF d.saving THEN P \cup F ELSE ToSet(d.left)
            /\ ToRecord(drains, pending) = IF d.saving THEN P ELSE ToSet(d.left)
        BY <1>5, <1>9, <3>2, OneRecords
      <4> QED BY <1>4, <1>5, <4>1 DEF Once
    <3> QED BY <3>1, <3>2, DrainIsOne
  <2>2. ASSUME NEW t \in Sessions
        PROVE  recorded[t] + Once(t, recording) + Once(t, ToRecord(drains, pending')) + Once(t, {}) <= 2 * visits - 1
    <3>1. recorded[t] + Once(t, recording) + Once(t, ToRecord(drains, pending)) + Once(t, ToSet(mirror)) <= 2 * visits - 1
      BY <1>8 DEF QueueInv, RepeatsAreDue
    <3>2. recorded[t] \in Nat /\ visits \in Nat BY DEF QueueInv, QueueTyped
    <3> QED BY <2>1, <3>1, <3>2 DEF Once
  <2> QED BY <1>9, <2>2 DEF RepeatsAreDue
<1>14. LostSessionsWereOvertaken' BY <1>1, <1>5, <1>9 DEF QueueInv, LostSessionsWereOvertaken
<1> QED BY <1>10, <1>11, <1>12, <1>13, <1>14 DEF QueueInv

(* A mirror is written, and then what waited for it goes on.                 *)
LEMMA WriteKeeps ==
  ASSUME QueueInv, requests # <<>>, Head(requests).kind = "write", requests' = Tail(requests),
         mirror' = Head(requests).queue \/ mirror' = mirror,
         \/ drains' = drains
         \/ drains' = Drained
         \/ drains' = {d \in drains : ~ d.saving},
         UNCHANGED <<online, completed, open, recording, pending, stored, recorded, visits, overtaken, cutOff>>
  PROVE  QueueInv'
<1>1. open /\ pending = stored BY DEF QueueInv, QueueOrderly
<1>2. PICK A : A = Attempted /\ A = Attempted' BY DEF Attempted
<1>3. AreRequests(requests, A) /\ IsQueueOf(mirror, A) BY <1>2 DEF QueueInv, QueueTyped
<1>4. /\ Head(requests) = requests[1] /\ IsQueueOf(Head(requests).queue, A)
      /\ AreRequests(requests', A) /\ ToFind(requests', mirror') = {}
  BY <1>3, RequestsTail
<1>5. IsQueueOf(mirror', A) BY <1>3, <1>4
<1>6. ToFind(requests, mirror) = {} BY <1>4 DEF ToFind
<1>7. /\ \A d \in drains' : IsDrain(d, A)
      /\ \A d, e \in drains' : d = e
      /\ ToRecord(drains', pending) = ToRecord(drains, pending)
      /\ \A d \in drains' : ~ d.saving =>
           \A s \in ToSet(pending) \ overtaken : s \in ToSet(d.left) \/ recorded[s] > 0
  <2>1. CASE drains' = drains BY <1>2, <2>1 DEF QueueInv, QueueTyped, QueueOrderly, DrainsForget
  <2>2. CASE drains' = Drained BY <1>2, <2>2, DrainStarts
  <2>3. CASE drains' = {d \in drains : ~ d.saving}
    <3>1. drains' \subseteq drains BY <2>3
    <3>2. ToRecord(drains', pending) = ToRecord(drains, pending)
      <4>1. {d \in drains' : ~ d.saving} = {d \in drains : ~ d.saving} BY <2>3
      <4>2. (\E d \in drains' : ~ d.saving) <=> \E d \in drains : ~ d.saving BY <2>3
      <4> QED BY <4>1, <4>2 DEF ToRecord
    <3> QED BY <1>2, <3>1, <3>2 DEF QueueInv, QueueTyped, QueueOrderly, DrainsForget
  <2> QED BY <2>1, <2>2, <2>3
<1>8. QueueTyped'
  <2>1. /\ online \in BOOLEAN /\ open \in BOOLEAN /\ completed \in 0..MaxSessions /\ recording \subseteq 1..completed
        /\ IsQueueOf(pending, A) /\ IsQueueOf(stored, A)
        /\ recorded \in [Sessions -> Nat] /\ visits \in Nat \ {0}
        /\ \A s \in Sessions : s \notin A => recorded[s] = 0
    BY <1>2 DEF QueueInv, QueueTyped
  <2> QED BY <1>2, <1>4, <1>5, <1>7, <2>1 DEF QueueTyped
<1>9. QueueOrderly' BY <1>1, <1>7 DEF QueueOrderly
<1>10. DrainsForget' BY <1>7 DEF DrainsForget
<1>11. RepeatsAreDue' BY <1>4, <1>6, <1>7 DEF QueueInv, RepeatsAreDue
<1>12. LostSessionsWereOvertaken' BY DEF QueueInv, LostSessionsWereOvertaken
<1> QED BY <1>8, <1>9, <1>10, <1>11, <1>12 DEF QueueInv

(* A drain starts, or nothing but the connection changes.                    *)
LEMMA StartKeeps ==
  ASSUME QueueInv, drains' = Drained \/ drains' = drains, online' \in BOOLEAN,
         UNCHANGED <<completed, open, pending, recording, requests, stored, mirror, recorded, visits, overtaken, cutOff>>
  PROVE  QueueInv'
<1>1. PICK A : A = Attempted /\ A = Attempted' BY DEF Attempted
<1>2. /\ \A d \in drains' : IsDrain(d, A)
      /\ \A d, e \in drains' : d = e
      /\ ToRecord(drains', pending) = ToRecord(drains, pending)
      /\ \A d \in drains' : ~ d.saving =>
           \A s \in ToSet(pending) \ overtaken : s \in ToSet(d.left) \/ recorded[s] > 0
      /\ ~ open => drains' = {}
  <2>1. CASE drains' = drains BY <1>1, <2>1 DEF QueueInv, QueueTyped, QueueOrderly, DrainsForget
  <2>2. CASE drains' = Drained BY <1>1, <2>2, DrainStarts
  <2> QED BY <2>1, <2>2
<1>3. QueueTyped' BY <1>1, <1>2 DEF QueueInv, QueueTyped
<1>4. QueueOrderly' BY <1>2 DEF QueueInv, QueueOrderly
<1>5. DrainsForget' BY <1>2 DEF DrainsForget
<1>6. RepeatsAreDue' BY <1>2 DEF QueueInv, RepeatsAreDue
<1>7. LostSessionsWereOvertaken' BY DEF QueueInv, LostSessionsWereOvertaken
<1> QED BY <1>3, <1>4, <1>5, <1>6, <1>7 DEF QueueInv

LEMMA CloseKeeps ==
  ASSUME QueueInv, ClosePage
  PROVE  QueueInv'
<1>1. /\ open' = FALSE /\ pending' = <<>> /\ recording' = {} /\ drains' = {} /\ requests' = <<>>
      /\ cutOff' = cutOff \cup recording
      /\ UNCHANGED <<online, completed, stored, mirror, recorded, visits, overtaken>>
  BY DEF ClosePage
<1>2. PICK A, B : A = Attempted /\ B = Attempted' /\ A \subseteq B BY <1>1 DEF Attempted
<1>3. QueueTyped'
  <2>1. IsQueueOf(pending', B) /\ IsQueueOf(stored, B) /\ IsQueueOf(mirror, B)
    BY <1>1, <1>2, EmptyQueue, QueueWidens DEF QueueInv, QueueTyped
  <2>2. AreRequests(requests', B) BY <1>1 DEF AreRequests
  <2>3. /\ online \in BOOLEAN /\ completed \in 0..MaxSessions
        /\ recorded \in [Sessions -> Nat] /\ visits \in Nat \ {0}
        /\ \A s \in Sessions : s \notin B => recorded[s] = 0
    BY <1>2 DEF QueueInv, QueueTyped
  <2> QED BY <1>1, <1>2, <2>1, <2>2, <2>3 DEF QueueTyped
<1>4. QueueOrderly' /\ DrainsForget' BY <1>1 DEF QueueOrderly, DrainsForget
<1>5. RepeatsAreDue'
  <2>1. ToRecord(drains', pending') = {} /\ ToFind(requests', mirror) = {}
    BY <1>1, OneRecords, EmptyQueue DEF ToFind
  <2>2. ASSUME NEW t \in Sessions PROVE recorded[t] + Once(t, {}) + Once(t, {}) + Once(t, {}) <= 2 * visits - 1
    <3>1. recorded[t] + Once(t, recording) + Once(t, ToRecord(drains, pending)) + Once(t, ToFind(requests, mirror))
            <= 2 * visits - 1
      BY DEF QueueInv, RepeatsAreDue
    <3>2. recorded[t] \in Nat /\ visits \in Nat BY DEF QueueInv, QueueTyped
    <3> QED BY <3>1, <3>2 DEF Once
  <2> QED BY <1>1, <2>1, <2>2 DEF RepeatsAreDue
<1>6. LostSessionsWereOvertaken' BY <1>1 DEF QueueInv, LostSessionsWereOvertaken
<1> QED BY <1>3, <1>4, <1>5, <1>6 DEF QueueInv

LEMMA OpenKeeps ==
  ASSUME QueueInv, OpenPage
  PROVE  QueueInv'
<1>1. /\ open' = TRUE /\ visits' = visits + 1 /\ pending' = stored /\ requests' = <<Read>>
      /\ UNCHANGED <<online, completed, recording, drains, stored, mirror, recorded, overtaken, cutOff>>
      /\ recording = {} /\ drains = {}
  BY DEF OpenPage, QueueInv, QueueOrderly
<1>2. PICK A : A = Attempted /\ A = Attempted' BY <1>1 DEF Attempted
<1>3. QueueTyped'
  <2>1. Read \in Request /\ Read.kind = "read" BY DEF Request, Read
  <2>2. requests' \in Seq(Request) /\ DOMAIN requests' = {1} /\ requests'[1] = Read BY <1>1, <2>1
  <2>3. AreRequests(requests', A) BY <2>1, <2>2 DEF AreRequests
  <2>4. visits' \in Nat \ {0} BY <1>1 DEF QueueInv, QueueTyped
  <2> QED BY <1>1, <1>2, <2>3, <2>4 DEF QueueInv, QueueTyped
<1>4. QueueOrderly' /\ DrainsForget' BY <1>1 DEF QueueOrderly, DrainsForget
<1>5. RepeatsAreDue'
  <2>1. ASSUME NEW t \in Sessions, NEW R, NEW F
        PROVE  recorded[t] + Once(t, recording) + Once(t, R) + Once(t, F) <= 2 * (visits + 1) - 1
    <3>1. recorded[t] + Once(t, recording) + Once(t, ToRecord(drains, pending)) + Once(t, ToFind(requests, mirror))
            <= 2 * visits - 1
      BY DEF QueueInv, RepeatsAreDue
    <3>2. recorded[t] \in Nat /\ visits \in Nat BY DEF QueueInv, QueueTyped
    <3> QED BY <3>1, <3>2 DEF Once
  <2> QED BY <1>1, <2>1 DEF RepeatsAreDue
<1>6. LostSessionsWereOvertaken' BY <1>1 DEF QueueInv, LostSessionsWereOvertaken
<1> QED BY <1>3, <1>4, <1>5, <1>6 DEF QueueInv

LEMMA QueueStep == QueueInv /\ [QueueNext]_queueVars => QueueInv'
<1> SUFFICES ASSUME QueueInv, [QueueNext]_queueVars PROVE QueueInv' OBVIOUS
<1>1. CASE CompleteSession BY <1>1, CompleteKeeps
<1>2. CASE StartDrain BY <1>2, StartKeeps DEF StartDrain, QueueInv, QueueTyped
<1>3. CASE GoOffline BY <1>3, StartKeeps DEF GoOffline, pageVars
<1>4. CASE GoOnline BY <1>4, StartKeeps DEF GoOnline
<1>5. CASE ClosePage BY <1>5, CloseKeeps
<1>6. CASE OpenPage BY <1>6, OpenKeeps
<1>7. ASSUME NEW s \in Sessions, EndAttempt(s) PROVE QueueInv'
  <2>1. CASE online /\ Record(s) /\ UNCHANGED <<pending, requests, stored, overtaken>>
    BY <1>7, <2>1, AttemptKeeps DEF EndAttempt
  <2>2. CASE ~ online /\ Persist(Append(pending, s), "none") /\ Overtake({s}) /\ UNCHANGED recorded
    BY <1>7, <2>2, FailureKeeps DEF EndAttempt
  <2> QED BY <1>7, <2>1, <2>2 DEF EndAttempt
<1>8. ASSUME NEW d \in drains, DrainNext(d) PROVE QueueInv' BY <1>8, DrainKeeps
<1>9. ASSUME NEW ok \in BOOLEAN, Serve(ok) PROVE QueueInv'
  <2>1. PICK request : request = Head(requests) OBVIOUS
  <2>2. /\ requests # <<>>
        /\ UNCHANGED <<online, completed, open, recording, recorded, visits, cutOff>>
    BY <1>9 DEF Serve
  <2>3. CASE request.kind = "read"
    <3>1. PICK found : found = IF ok THEN mirror ELSE <<>> OBVIOUS
    <3>2. ReadMirror(found) /\ UNCHANGED <<drains, mirror>> BY <1>9, <2>1, <2>3, <3>1 DEF Serve
    <3>3. found = mirror \/ found = <<>> BY <3>1
    <3> QED BY <2>1, <2>2, <2>3, <3>2, <3>3, ReadKeeps
  <2>4. CASE request.kind = "write"
    <3>1. /\ requests' = Tail(requests) /\ (mirror' = request.queue \/ mirror' = mirror)
          /\ UNCHANGED <<pending, stored, overtaken>>
          /\ drains' = CASE request.then = "none"  -> drains
                         [] request.then = "drain" -> IF online THEN Drained ELSE drains
                         [] request.then = "ended" -> {d \in drains : ~ d.saving}
      BY <1>9, <2>1, <2>4 DEF Serve
    <3>2. request.then \in {"none", "drain", "ended"}
      <4>1. request \in Request
        <5>1. AreRequests(requests, Attempted) BY DEF QueueInv, QueueTyped
        <5> QED BY <2>1, <2>2, <5>1, RequestsTail
      <4>2. Read.kind = "read" BY DEF Read
      <4> QED BY <2>4, <4>1, <4>2 DEF Request
    <3>3. drains' = drains \/ drains' = Drained \/ drains' = {d \in drains : ~ d.saving} BY <3>1, <3>2
    <3> QED BY <2>1, <2>2, <2>4, <3>1, <3>3, WriteKeeps
  <2> QED BY <1>9, <2>1, <2>3, <2>4 DEF Serve
<1>10. CASE UNCHANGED queueVars
  <2>1. online' \in BOOLEAN BY <1>10 DEF queueVars, QueueInv, QueueTyped
  <2> QED BY <1>10, <2>1, StartKeeps DEF queueVars, pageVars
<1> QED BY <1>1, <1>2, <1>3, <1>4, <1>5, <1>6, <1>7, <1>8, <1>9, <1>10 DEF QueueNext

(* A completed session is recorded, on its way or kept for the next page,    *)
(* unless its first attempt was cut off or it was queued during a drain: for *)
(* any number of sessions, visits and outages these are the only two ways in *)
(* which one is lost.                                                        *)
THEOREM QueueLosses == QueueSpec => []LostSessionsWereOvertaken
<1>1. QueueInv => LostSessionsWereOvertaken BY DEF QueueInv
<1> QED BY <1>1, QueueStarts, QueueStep, PTL DEF QueueSpec

(* A session is recorded at most once during the first visit and twice       *)
(* during each later one, for any number of sessions, visits and outages.    *)
THEOREM QueueRepeats == QueueSpec => []RepeatsTakeVisits
<1>1. QueueInv => RepeatsTakeVisits
  <2> SUFFICES ASSUME QueueInv, NEW t \in Sessions PROVE recorded[t] <= 2 * visits - 1
    BY DEF RepeatsTakeVisits
  <2>1. recorded[t] + Once(t, recording) + Once(t, ToRecord(drains, pending)) + Once(t, ToFind(requests, mirror))
          <= 2 * visits - 1
    BY DEF QueueInv, RepeatsAreDue
  <2>2. recorded[t] \in Nat /\ visits \in Nat BY DEF QueueInv, QueueTyped
  <2> QED BY <2>1, <2>2 DEF Once
<1> QED BY <1>1, QueueStarts, QueueStep, PTL DEF QueueSpec
=============================================================================

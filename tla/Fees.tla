--------------------------------- MODULE Fees ---------------------------------
(*****************************************************************************)
(* The fee manager (contracts/fees): fees that follow congestion, the        *)
(* treasury they go to and its distribution to the validators, and the       *)
(* auctions of premium listings.  A message that fails is reverted, so only  *)
(* the calls that go through are steps.                                      *)
(*****************************************************************************)
EXTENDS Integers, Sequences, FiniteSets, Functions

CONSTANTS
  FeeAccounts,    \* callers, sellers, bidders and validators
  FeeOps,         \* FeeOperation; "PremiumListingBid" is the one auctions pay for
  FeeConfigs,     \* configurations an admin passes
  FeeAmounts,     \* amounts the other contracts collect
  Bids,           \* bids and minimum bids
  Shares,         \* <<validator_share_bp, treasury_share_bp>> an admin passes
  OpsWindow,      \* CONGESTION_WINDOW, 100 operations
  WindowSecs,     \* the congestion window, 3600 seconds
  AuctionSecs,    \* durations sellers pass
  FeeLastTime, MaxAuctions, MaxCollected    \* bounds

NoBidder == "NoBidder"
NoConfig == [base |-> -1]

ASSUME FeeAssumption ==
  /\ OpsWindow \in Nat \ {0} /\ WindowSecs \in Nat /\ FeeLastTime \in Nat
  /\ FeeConfigs \subseteq [base : Nat, min : Nat, max : Nat, sensitivity : Nat, demand : Nat]
  /\ "PremiumListingBid" \in FeeOps
  /\ FeeAmounts \subseteq Nat /\ Bids \subseteq Nat /\ AuctionSecs \subseteq Nat
  /\ Shares \subseteq Nat \X Nat /\ IsFiniteSet(FeeAccounts)
  /\ MaxAuctions \in Nat /\ MaxCollected \in Nat

VARIABLES
  feeTime, defaultConfig, opConfig, recentOps, lastReset,
  treasury, collected, distributed,    \* fee_treasury, total_fees_collected, total_distributed
  pendingRewards, claimed,             \* what claim_rewards has handed out
  validators, shares,                  \* validators and validator_list; the two shares
  auctions, bidsOf                     \* auctions; auction_bids

feeVars == <<feeTime, defaultConfig, opConfig, recentOps, lastReset, treasury, collected,
             distributed, pendingRewards, claimed, validators, shares, auctions, bidsOf>>

AtLeast(a, b) == IF a < b THEN b ELSE a
AtMost(a, b)  == IF a > b THEN b ELSE a

(* clamp panics where its bounds are crossed: no configuration has them so.  *)
Clamp(x, low, high) == AtMost(AtLeast(x, low), high)

(* The multiplier is in basis points: full congestion and full sensitivity   *)
(* add 200 of them.                                                          *)
DynamicFee(config, congestion, demandBp) ==
  LET congestionBp == (congestion * config.sensitivity * 200) \div 10000
      multiplierBp == 10000 + congestionBp + AtMost(demandBp, 5000)
  IN  Clamp((config.base * multiplierBp) \div 10000, config.min, config.max)

ConfigOf(op) == IF opConfig[op] = NoConfig THEN defaultConfig ELSE opConfig[op]

CongestionIndex ==
  IF feeTime - lastReset > WindowSecs THEN 0
  ELSE AtMost((recentOps * 100) \div OpsWindow, 100)

DemandFactorBp == (defaultConfig.demand * CongestionIndex) \div 100

CalculateFee(op) == DynamicFee(ConfigOf(op), CongestionIndex, DemandFactorBp)

FeeInit ==
  /\ feeTime = 0 /\ lastReset = 0 /\ recentOps = 0
  /\ defaultConfig \in FeeConfigs
  /\ defaultConfig.sensitivity = 80 /\ defaultConfig.demand = 500
  /\ opConfig = [op \in FeeOps |-> NoConfig]
  /\ treasury = 0 /\ collected = 0 /\ distributed = 0
  /\ pendingRewards = [a \in FeeAccounts |-> 0] /\ claimed = 0
  /\ validators = {} /\ shares = <<5000, 5000>>
  /\ auctions = <<>> /\ bidsOf = <<>>

Collects(amount) ==
  /\ collected + amount <= MaxCollected
  /\ treasury'  = treasury + amount
  /\ collected' = collected + amount

(* record_fee_collected, called by anyone and by collect_fee, which has been  *)
(* paid the amount: the first operation after a window opens the next one.   *)
RecordFee(amount) ==
  /\ Collects(amount)
  /\ IF feeTime - lastReset > WindowSecs
     THEN lastReset' = feeTime /\ recentOps' = 1
     ELSE UNCHANGED lastReset /\ recentOps' = AtMost(recentOps + 1, OpsWindow)
  /\ UNCHANGED <<feeTime, defaultConfig, opConfig, distributed, pendingRewards, claimed,
                 validators, shares, auctions, bidsOf>>

(* collect_fee, the payable message of the other contracts: the value that   *)
(* came with the call covers the amount.                                     *)
CollectFee(amount, transferred) ==
  /\ transferred >= amount
  /\ RecordFee(amount)

(* 5% up under congestion, 5% down without, within the limits.               *)
AdjustedBase(config, congestion) ==
  CASE congestion > 70 -> AtMost((config.base * 105) \div 100, config.max)
    [] congestion < 30 -> AtLeast((config.base * 95) \div 100, config.min)
    [] OTHER -> config.base

UpdateFeeParams ==
  /\ defaultConfig' = [defaultConfig EXCEPT !.base = AdjustedBase(defaultConfig, CongestionIndex)]
  /\ UNCHANGED <<feeTime, opConfig, recentOps, lastReset, treasury, collected, distributed,
                 pendingRewards, claimed, validators, shares, auctions, bidsOf>>

(* The base may exceed the maximum: calculate_fee caps what is asked.        *)
SetOperationConfig(op, config) ==
  /\ config.min <= config.max /\ config.base >= config.min
  /\ opConfig' = [opConfig EXCEPT ![op] = config]
  /\ UNCHANGED <<feeTime, defaultConfig, recentOps, lastReset, treasury, collected, distributed,
                 pendingRewards, claimed, validators, shares, auctions, bidsOf>>

Auction(seller, minBid, secs) ==
  [seller |-> seller, minBid |-> minBid, bid |-> 0, bidder |-> NoBidder,
   end |-> feeTime + secs, settled |-> FALSE]

(* The listing fee is booked; the caller pays nothing with the call.         *)
CreateAuction(seller, minBid, secs) ==
  /\ Len(auctions) < MaxAuctions
  /\ Collects(CalculateFee("PremiumListingBid"))
  /\ auctions' = Append(auctions, Auction(seller, minBid, secs))
  /\ bidsOf'   = Append(bidsOf, [a \in FeeAccounts |-> -1])
  /\ UNCHANGED <<feeTime, defaultConfig, opConfig, recentOps, lastReset, distributed,
                 pendingRewards, claimed, validators, shares>>

Accepts(auction, amount) ==
  /\ ~ auction.settled
  /\ feeTime < auction.end
  /\ amount >= auction.minBid /\ amount > auction.bid

PlaceBid(bidder, i, amount) ==
  /\ Accepts(auctions[i], amount)
  /\ auctions' = [auctions EXCEPT ![i].bid = amount, ![i].bidder = bidder]
  /\ bidsOf'   = [bidsOf EXCEPT ![i][bidder] = amount]
  /\ UNCHANGED <<feeTime, defaultConfig, opConfig, recentOps, lastReset, treasury, collected,
                 distributed, pendingRewards, claimed, validators, shares>>

(* By anyone; an auction nobody bid in is never settled.                     *)
SettleAuction(i) ==
  /\ ~ auctions[i].settled
  /\ feeTime >= auctions[i].end
  /\ auctions[i].bidder # NoBidder
  /\ auctions' = [auctions EXCEPT ![i].settled = TRUE]
  /\ UNCHANGED <<feeTime, defaultConfig, opConfig, recentOps, lastReset, treasury, collected,
                 distributed, pendingRewards, claimed, validators, shares, bidsOf>>

(* The mapping and the list hold the same accounts, each once: the order of  *)
(* the list decides nothing.                                                 *)
AddValidator(account) ==
  /\ account \notin validators
  /\ validators' = validators \cup {account}
  /\ UNCHANGED <<feeTime, defaultConfig, opConfig, recentOps, lastReset, treasury, collected,
                 distributed, pendingRewards, claimed, shares, auctions, bidsOf>>

(* What a removed validator has earned stays claimable.                      *)
RemoveValidator(account) ==
  /\ account \in validators
  /\ validators' = validators \ {account}
  /\ UNCHANGED <<feeTime, defaultConfig, opConfig, recentOps, lastReset, treasury, collected,
                 distributed, pendingRewards, claimed, shares, auctions, bidsOf>>

SetDistributionRates(rates) ==
  /\ rates[1] + rates[2] <= 10000
  /\ shares' = rates
  /\ UNCHANGED <<feeTime, defaultConfig, opConfig, recentOps, lastReset, treasury, collected,
                 distributed, pendingRewards, claimed, validators, auctions, bidsOf>>

PerValidator_Undivided == (treasury * shares[1]) \div 10000

PerValidator ==
  IF validators = {} THEN 0
  ELSE ((treasury * shares[1]) \div 10000) \div Cardinality(validators)

(* The validators' share is split evenly; the treasury is emptied, so its    *)
(* own share and the remainder are on no account afterwards.                 *)
DistributeFees ==
  /\ treasury > 0
  /\ pendingRewards' = [a \in FeeAccounts |->
                          pendingRewards[a] + (IF a \in validators THEN PerValidator ELSE 0)]
  /\ distributed' = distributed + PerValidator * Cardinality(validators)
  /\ treasury' = 0
  /\ UNCHANGED <<feeTime, defaultConfig, opConfig, recentOps, lastReset, collected, claimed,
                 validators, shares, auctions, bidsOf>>

(* The reward is returned to the caller and forgotten.                       *)
ClaimRewards(account) ==
  /\ pendingRewards[account] > 0
  /\ claimed' = claimed + pendingRewards[account]
  /\ pendingRewards' = [pendingRewards EXCEPT ![account] = 0]
  /\ UNCHANGED <<feeTime, defaultConfig, opConfig, recentOps, lastReset, treasury, collected,
                 distributed, validators, shares, auctions, bidsOf>>

FeeTick ==
  /\ feeTime < FeeLastTime /\ feeTime' = feeTime + 1
  /\ UNCHANGED <<defaultConfig, opConfig, recentOps, lastReset, treasury, collected, distributed,
                 pendingRewards, claimed, validators, shares, auctions, bidsOf>>

Collecting ==
  \/ FeeTick \/ DistributeFees
  \/ \E amount \in FeeAmounts : RecordFee(amount)
  \/ \E amount, transferred \in FeeAmounts : CollectFee(amount, transferred)
  \/ \E a \in FeeAccounts : AddValidator(a) \/ RemoveValidator(a) \/ ClaimRewards(a)
  \/ \E rates \in Shares : SetDistributionRates(rates)

Auctioning ==
  \/ \E seller \in FeeAccounts, minBid \in Bids, secs \in AuctionSecs : CreateAuction(seller, minBid, secs)
  \/ \E bidder \in FeeAccounts, i \in DOMAIN auctions, amount \in Bids : PlaceBid(bidder, i, amount)
  \/ \E i \in DOMAIN auctions : SettleAuction(i)

Pricing ==
  \/ UpdateFeeParams
  \/ \E op \in FeeOps, config \in FeeConfigs : SetOperationConfig(op, config)

FeeNext == Collecting \/ Auctioning \/ Pricing

FeeSpec == FeeInit /\ [][FeeNext]_feeVars

-----------------------------------------------------------------------------
FeeTypeOK ==
  /\ feeTime \in 0..FeeLastTime /\ lastReset \in 0..feeTime /\ recentOps \in 0..OpsWindow
  /\ treasury \in Nat /\ collected \in Nat /\ distributed \in Nat /\ claimed \in Nat
  /\ pendingRewards \in [FeeAccounts -> Nat]
  /\ validators \subseteq FeeAccounts /\ shares \in Nat \X Nat
  /\ DOMAIN bidsOf = DOMAIN auctions

(* What the manager owes was collected before: the treasury and everything   *)
(* ever distributed stay within what was collected, and every distributed    *)
(* unit is either claimed or still pending, whatever validators come and go. *)
RewardsAreCovered ==
  /\ treasury + distributed <= collected
  /\ SumFunctionOnSet(pendingRewards, FeeAccounts) + claimed = distributed

(* An auction belongs to the highest bid anyone ever placed in it, and to    *)
(* the account that placed it.                                               *)
HighestBidLeads ==
  \A i \in DOMAIN auctions :
    /\ \A a \in FeeAccounts : bidsOf[i][a] <= auctions[i].bid
    /\ auctions[i].bidder # NoBidder => bidsOf[i][auctions[i].bidder] = auctions[i].bid
=============================================================================

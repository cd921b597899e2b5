--------------------------------- MODULE Oracle ---------------------------------
(*****************************************************************************)
(* The valuation oracle (contracts/oracle): sources with weights and         *)
(* reputations, a valuation per property aggregated from their prices        *)
(* without the outliers, requests, alerts and the history of valuations.     *)
(* Prices are external: a feed answers anything, and where it does not the   *)
(* code falls back to a price of its own.                                    *)
(*****************************************************************************)
EXTENDS Integers, Sequences, FiniteSets, Functions

CONSTANTS
  Properties, Sources,
  SourceConfigs,      \* records active, weight, kind ("feed", "manual", "ai")
  OraclePrices,       \* what feeds answer, and what admins and proofs submit
  Confidences,        \* confidence scores submitted with a valuation
  Thresholds,         \* of price alerts, in percent
  ManualDefault,      \* the manual price of a property without a valuation
  MinSources, OutlierThreshold,               \* 2 and 2
  InitialRep, RepGain, RepLoss, RepFloor, MaxRep,   \* 500, 10, 50, 200 and 1000
  Staleness,          \* max_price_staleness, 3600 seconds
  HistoryCap,         \* 100 valuations
  OracleLastTime, MaxUpdates, MaxOracleRequests      \* bounds

ASSUME OracleAssumption ==
  /\ OraclePrices \subseteq Nat /\ ManualDefault \in Nat /\ MinSources \in Nat \ {0}
  /\ InitialRep \in 0..MaxRep /\ RepGain \in Nat /\ RepLoss \in Nat /\ HistoryCap \in Nat \ {0}
  /\ IsFiniteSet(Sources) /\ Thresholds \subseteq Nat /\ OutlierThreshold \in Nat
  /\ MaxRep \in Nat /\ OracleLastTime \in Nat
  /\ SourceConfigs \subseteq [active : BOOLEAN, weight : Nat, kind : {"feed", "manual", "ai"}]

NoSource    == [active |-> FALSE, weight |-> -1, kind |-> "none"]
NoValuation == [value |-> 0, confidence |-> 0]

VARIABLES
  oracleTime, aiContract,
  sources, activeSources, reputation,
  valuation, valuationHistory, quoted,     \* quoted: history, the prices the valuation came from
  pendingSince, requestCounter,            \* pending_requests, -1 for none
  alerts, raised,                          \* raised: the AlertTriggered events
  updates                                  \* counted for the bound alone

oracleVars == <<oracleTime, aiContract, sources, activeSources, reputation, valuation, valuationHistory,
                quoted, pendingSince, requestCounter, alerts, raised, updates>>
valuationVars == <<valuation, valuationHistory, quoted, raised, updates>>
sourceVars    == <<sources, activeSources, reputation>>

OracleInit ==
  /\ oracleTime = 0 /\ aiContract = FALSE /\ updates = 0
  /\ sources = [s \in Sources |-> NoSource] /\ activeSources = {}
  /\ reputation = [s \in Sources |-> InitialRep]
  /\ valuation = [p \in Properties |-> NoValuation]
  /\ valuationHistory = [p \in Properties |-> <<>>] /\ quoted = [p \in Properties |-> {}]
  /\ pendingSince = [p \in Properties |-> -1] /\ requestCounter = 0
  /\ alerts = [p \in Properties |-> {}] /\ raised = {}

-----------------------------------------------------------------------------
(* Aggregation: quotes maps the sources that were read to price and weight. *)

Distance(a, b) == IF a < b THEN b - a ELSE a - b

Total(f) == SumFunctionOnSet(f, DOMAIN f)

Mean(quotes) == Total([s \in DOMAIN quotes |-> quotes[s].price]) \div Cardinality(DOMAIN quotes)

Variance(quotes) ==
  LET off(s) == Distance(quotes[s].price, Mean(quotes))
  IN  Total([s \in DOMAIN quotes |-> off(s) * off(s)]) \div Cardinality(DOMAIN quotes)

(* Newton's iteration from above, until it stops decreasing.                 *)
Newton(v, x) == IF x > 0 THEN (x + v \div x) \div 2 ELSE 0

IntSqrt(v) ==
  LET root[x \in 1..v] == IF Newton(v, x) >= x THEN x ELSE root[Newton(v, x)]
  IN  IF v = 0 THEN 0 ELSE root[v]

FilterOutliers(quotes) ==
  LET limit == IntSqrt(Variance(quotes)) * OutlierThreshold
  IN  IF Cardinality(DOMAIN quotes) < 3 THEN quotes
      ELSE Restrict(quotes, {s \in DOMAIN quotes : Distance(quotes[s].price, Mean(quotes)) <= limit})

Weight(quotes) == Total([s \in DOMAIN quotes |-> quotes[s].weight])

Weighted(quotes) == Total([s \in DOMAIN quotes |-> quotes[s].price * quotes[s].weight])

(* The average of the prices kept, by the weights of their sources.          *)
WeightedAverage_AllWeights(quotes, kept) == Weighted(kept) \div Weight(quotes)

WeightedAverage(quotes, kept) == Weighted(kept) \div Weight(kept)

(* aggregate_prices fails with too few prices, and where the sources whose   *)
(* prices are kept weigh nothing.                                            *)
CanAggregate(quotes) ==
  /\ Cardinality(DOMAIN quotes) >= MinSources
  /\ DOMAIN FilterOutliers(quotes) # {}
  /\ Weight(FilterOutliers(quotes)) > 0

AggregatePrices(quotes) == WeightedAverage(quotes, FilterOutliers(quotes))

(* The square root here is five steps of the iteration.                      *)
ConfidenceScore(quotes) ==
  LET size    == Cardinality(DOMAIN quotes)
      v       == Variance(quotes)
      root    == Newton(v, Newton(v, Newton(v, Newton(v, Newton(v, v)))))
      cv      == IF Mean(quotes) > 0 THEN (root * 10000) \div Mean(quotes) ELSE 10000
  IN  (IF size >= 3 THEN 75 ELSE 25 * size) + (IF cv <= 10000 THEN (10000 - cv) \div 400 ELSE 0)

PercentageChange(old, new) == IF old = 0 THEN 0 ELSE (Distance(old, new) * 100) \div old

-----------------------------------------------------------------------------
(* Alerts that the move from the valuation old to new sets off.              *)
Alerted(p, old, new) == {<<p, t>> : t \in {t \in alerts[p] : PercentageChange(old, new) >= t}}

(* store_historical_valuation keeps the last ones.                           *)
StoreHistorical(p, value) ==
  LET history == Append(valuationHistory[p], value)
  IN  valuationHistory' = [valuationHistory EXCEPT ![p] =
        SubSeq(history, IF Len(history) > HistoryCap THEN Len(history) - HistoryCap + 1 ELSE 1, Len(history))]

(* update_property_valuation_inner.  The current valuation is replaced       *)
(* before check_price_alerts reads it back to compare it with the new one.   *)
Store(p, value, confidence, prices) ==
  /\ value > 0 /\ updates < MaxUpdates /\ updates' = updates + 1
  /\ StoreHistorical(p, value)
  /\ valuation' = [valuation EXCEPT ![p] = [value |-> value, confidence |-> confidence]]
  /\ raised'    = raised \cup Alerted(p, valuation'[p].value, value)
  /\ quoted'    = [quoted EXCEPT ![p] = prices]

(* update_property_valuation by the admin, submit_zk_valuation by anyone     *)
(* with a proof.                                                             *)
SubmitValuation(p, value, confidence) ==
  /\ Store(p, value, confidence, {})
  /\ UNCHANGED <<oracleTime, aiContract, sourceVars, pendingSince, requestCounter, alerts>>

Readable(s) == sources[s] # NoSource /\ (sources[s].kind = "ai" => aiContract)

(* feed[s] is what source s answers, or the fallback price when the call     *)
(* fails.                                                                    *)
PriceFrom(s, p, feed) ==
  CASE sources[s].kind # "manual" -> feed[s]
    [] valuation[p] = NoValuation -> ManualDefault
    [] OTHER -> valuation[p].value

(* collect_prices_from_sources: a source that cannot be read is skipped; a   *)
(* price is as old as the call, so always fresh.  Whether the source is      *)
(* active is asked of the list alone.                                        *)
CollectPrices(p, feed) ==
  [s \in {s \in activeSources : Readable(s)} |->
     [price |-> PriceFrom(s, p, feed), weight |-> sources[s].weight]]

UpdateFromSources(p, feed) ==
  LET quotes == CollectPrices(p, feed)
  IN  /\ CanAggregate(quotes)
      /\ Store(p, AggregatePrices(quotes), ConfidenceScore(quotes), {quotes[s].price : s \in DOMAIN quotes})
      /\ pendingSince' = [pendingSince EXCEPT ![p] = -1]
      /\ UNCHANGED <<oracleTime, aiContract, sourceVars, requestCounter, alerts>>

(* request_property_valuation, and each of a batch: a pending request is     *)
(* only replaced when it is stale.                                           *)
RequestValuation(p) ==
  /\ requestCounter < MaxOracleRequests
  /\ pendingSince[p] = -1 \/ oracleTime - pendingSince[p] >= Staleness
  /\ pendingSince' = [pendingSince EXCEPT ![p] = oracleTime]
  /\ requestCounter' = requestCounter + 1
  /\ UNCHANGED <<oracleTime, aiContract, sourceVars, valuationVars, alerts>>

(* set_price_alert, by anyone.                                               *)
SetPriceAlert(p, threshold) ==
  /\ alerts' = [alerts EXCEPT ![p] = @ \cup {threshold}]
  /\ UNCHANGED <<oracleTime, aiContract, sourceVars, valuationVars, pendingSince, requestCounter>>

SetAiContract ==
  /\ aiContract' = TRUE
  /\ UNCHANGED <<oracleTime, sourceVars, valuationVars, pendingSince, requestCounter, alerts>>

(* add_oracle_source, and each of a batch, also replaces a source.  One that *)
(* is replaced by an inactive one stays in the list.                         *)
AddSource(s, config) ==
  /\ config.weight <= 100
  /\ sources' = [sources EXCEPT ![s] = config]
  /\ activeSources' = IF config.active THEN activeSources \cup {s} ELSE activeSources
  /\ UNCHANGED <<oracleTime, aiContract, reputation, valuationVars, pendingSince, requestCounter, alerts>>

RemoveSource(s) ==
  /\ sources' = [sources EXCEPT ![s] = NoSource]
  /\ activeSources' = activeSources \ {s}
  /\ UNCHANGED <<oracleTime, aiContract, reputation, valuationVars, pendingSince, requestCounter, alerts>>

(* update_source_reputation, for any name.  slash_source is a failure: no    *)
(* operation ever puts a stake down, so the penalty is zero.                 *)
UpdateReputation(s, success) ==
  LET old == reputation[s]
      new == IF success THEN (IF old + RepGain > MaxRep THEN MaxRep ELSE old + RepGain)
             ELSE (IF old < RepLoss THEN 0 ELSE old - RepLoss)
      deactivated == new < RepFloor /\ sources[s] # NoSource
  IN  /\ reputation' = [reputation EXCEPT ![s] = new]
      /\ sources' = IF deactivated THEN [sources EXCEPT ![s].active = FALSE] ELSE sources
      /\ activeSources' = IF deactivated THEN activeSources \ {s} ELSE activeSources
      /\ UNCHANGED <<oracleTime, aiContract, valuationVars, pendingSince, requestCounter, alerts>>

OracleTick ==
  /\ oracleTime < OracleLastTime /\ oracleTime' = oracleTime + 1
  /\ UNCHANGED <<aiContract, sourceVars, valuationVars, pendingSince, requestCounter, alerts>>

Valuing ==
  \E p \in Properties :
    \/ \E value \in OraclePrices, confidence \in Confidences : SubmitValuation(p, value, confidence)
    \/ \E feed \in [Sources -> OraclePrices] : UpdateFromSources(p, feed)

Alerting == \E p \in Properties, threshold \in Thresholds : SetPriceAlert(p, threshold)

Requesting == OracleTick \/ \E p \in Properties : RequestValuation(p)

Adding == SetAiContract \/ \E s \in Sources, config \in SourceConfigs : AddSource(s, config)

Policing ==
  \E s \in Sources : RemoveSource(s) \/ \E success \in BOOLEAN : UpdateReputation(s, success)

OracleNext == Valuing \/ Alerting \/ Requesting \/ Adding \/ Policing

OracleSpec == OracleInit /\ [][OracleNext]_oracleVars

-----------------------------------------------------------------------------
(* An alert compares the new valuation with itself, so that only one with a  *)
(* threshold of zero is ever raised.                                         *)
OracleTypeOK ==
  /\ sources \in [Sources -> SourceConfigs \cup {[c EXCEPT !.active = FALSE] : c \in SourceConfigs} \cup {NoSource}]
  /\ activeSources \subseteq Sources /\ reputation \in [Sources -> 0..MaxRep]
  /\ \A p \in Properties : valuation[p].value \in Nat /\ Len(valuationHistory[p]) <= HistoryCap
  /\ pendingSince \in [Properties -> -1..OracleLastTime]
  /\ \A p \in Properties : alerts[p] \subseteq Thresholds
  /\ raised \subseteq {<<p, 0>> : p \in Properties}

(* A valuation made from sources lies between the lowest and the highest     *)
(* price they quoted, whatever was filtered out and however they weigh, and  *)
(* its confidence is a percentage.                                           *)
ValuationWithinQuotes ==
  \A p \in Properties : quoted[p] # {} =>
    /\ \E low, high \in quoted[p] : low <= valuation[p].value /\ valuation[p].value <= high
    /\ valuation[p].confidence <= 100
=============================================================================

------------------------------ MODULE MCContracts ------------------------------
(* The ink! contracts that do not call one another, the pause protocol of    *)
(* the library, the backend's events and data keys, and the client's queue,  *)
(* for TLC: each behaviour deploys one of them, so that their state spaces   *)
(* add instead of multiplying.  The larger contracts are deployed several    *)
(* times, each time driven by a part of their operations.                    *)
EXTENDS Oracle, Fees, Fractional, PropertyInsurance, Compliance, ZkCompliance,
        Ingestion, KeyRotation, OfflineQueue, CircuitBreaker, TLC

CONSTANTS s1, s2, s3     \* oracle sources

VARIABLE deployed

inkVars       == <<oracleVars, feeVars, fracVars, insVars>>
apiVars       == <<ingestVars, keyVariables>>
contractsVars == <<inkVars, complianceVars, zkVars, apiVars, queueVars, vars, deployed>>

(* The values that the deployments below pick among the contracts' inputs.   *)
ASSUME DeployedAssumption ==
  "alice" \in Accounts /\ 1 \in Insured /\ "Fire" \in Kinds /\ 4 \in ClaimAmounts /\ 7 \in FeeAmounts

SourceSymmetry == Permutations({s1, s2})
MCSourceConfigs ==
  {[active |-> TRUE, weight |-> 1, kind |-> "feed"], [active |-> TRUE, weight |-> 3, kind |-> "ai"],
   [active |-> FALSE, weight |-> 1, kind |-> "feed"], [active |-> TRUE, weight |-> 0, kind |-> "manual"]}
MCFeeConfigs ==
  {[base |-> 20, min |-> 19, max |-> 21, sensitivity |-> 80, demand |-> 500],
   [base |-> 40, min |-> 10, max |-> 30, sensitivity |-> 100, demand |-> 9000]}
MCShares    == {<<5000, 5000>>, <<10000, 0>>}
MCVestings  == {<<0, 0, 0>>, <<1, 2, 5000>>}
MCDuration  == 0..4
MCDefaultRules == [j \in {"US"} |-> [level |-> 3, retention |-> 1]]
MCBlocks       ==
  LET Event(tx, name) == [tx |-> tx, name |-> name] IN
  <<<<Event("t1", "a"), Event("t1", "b")>>, <<Event("t2", "a")>>>>
MCNewRules     == {[level |-> 4, retention |-> 3]}

Deployments ==
  {"prices", "sources", "fees", "auctions", "shares",
   "liquidity", "policies", "claims", "evidence", "admin", "registry", "inquiries", "proofs", "privacy",
   "backend", "keys", "client", "breaker"}

ContractsInit ==
  /\ deployed \in Deployments
  /\ OracleInit /\ FeeInit /\ FracInit /\ InsInit /\ ComplianceInit /\ ZkInit
  /\ IngestInit /\ KeyInit /\ QueueInit /\ Init
  /\ insAdmin = "alice" /\ (deployed # "proofs" => backend)

-----------------------------------------------------------------------------
(* Prices are aggregated from up to three sources in use, or from two that   *)
(* are added, removed, punished and switched off.                            *)
OracleStep ==
  \/ /\ deployed = "prices" /\ (Valuing \/ Alerting \/ Adding)
     /\ \A s \in Sources : sources'[s] = NoSource \/ sources'[s].active
  \/ /\ deployed = "sources" /\ (Valuing \/ Requesting \/ Adding \/ Policing)
     /\ sources'[s3] = NoSource

FeeStep ==
  \/ deployed = "fees" /\ Collecting /\ collected' <= 21
  \/ deployed = "auctions" /\ (Auctioning \/ Pricing \/ FeeTick \/ RecordFee(7))

(* One assessment, one stake and one kind of policy, for what follows them.  *)
Prepare ==
  \/ assessment[1] = NotAssessed /\ UpdateRiskAssessment(1, 90, 3)
  \/ /\ pool.capital = 0 /\ DepositLiquidity("alice", 4)
     /\ UNCHANGED <<assessment, cover, market, claimBooks, items, reinsurance, adminBooks>>

Insure(parametric) == CreatePolicy("alice", 1, "Fire", 4, 2, 4, parametric)

Clock ==
  /\ InsTick \/ SwitchPause
  /\ UNCHANGED <<assessment, cover, market, claimBooks, items, reinsurance, adminBooks>>

InsuranceStep ==
  \/ /\ deployed = "liquidity"
     /\ \/ PoolStep \/ Prepare
        \/ cover = <<>> /\ CreatePolicy("alice", 1, "Fire", 1, 1, 2, FALSE)
        \/ \E i \in DOMAIN cover : RenewPolicy(i, 1, 2)
     /\ ~ insPaused' /\ pool'.available <= 7 /\ accrued' <= 4
     /\ insTime > InsStart => cover # <<>>
  \/ deployed = "policies" /\ (Prepare \/ Clock \/ Insuring \/ Marketing) /\ ~ insPaused'
  \/ /\ deployed = "claims"
     /\ \/ Prepare \/ Clock \/ Claiming \/ Reinsuring
        \/ cover = <<>> /\ \E parametric \in BOOLEAN : Insure(parametric)
        \/ \E limit \in 0..1 : ExpirePolicies(limit)
  \/ /\ deployed = "evidence"
     /\ \/ Prepare \/ Clock \/ Insure(FALSE) \/ Evidence
        \/ \E a \in Accounts : \/ cover # <<>> /\ SubmitClaim(a, 1, 4, "photo", 0)
                               \/ \E id \in DOMAIN insClaims : ProcessClaim(a, id)
  \/ deployed = "admin" /\ (Administering \/ Clock) /\ ~ insPaused'

(* The owner sets the rules of one jurisdiction.  Where requests are made,   *)
(* accounts are verified and rejected but not screened for money laundering. *)
RegistryStep ==
  /\ deployed \in {"registry", "inquiries"} /\ ComplianceNext
  /\ rules' # rules => rules'["US"] = rules["US"]
  /\ deployed = "registry" => inquiries' = <<>>
  /\ deployed = "inquiries" => verifiers' = verifiers /\ \A a \in Subjects : <<"aml", TRUE>> \notin since'[a]

ProofStep ==
  \/ /\ deployed = "proofs" /\ (Proving \/ Reviewing \/ KeyKeeping \/ ZkTick)
     /\ zkVerifiers' \subseteq {"ver"}
  \/ deployed = "privacy" /\ (Preferring \/ ZkTick)

ContractsNext ==
  /\ \/ /\ OracleStep
        /\ UNCHANGED <<feeVars, fracVars, insVars, complianceVars, zkVars, apiVars, queueVars, vars>>
     \/ /\ FeeStep
        /\ UNCHANGED <<oracleVars, fracVars, insVars, complianceVars, zkVars, apiVars, queueVars, vars>>
     \/ /\ deployed = "shares" /\ FracNext
        /\ UNCHANGED <<oracleVars, feeVars, insVars, complianceVars, zkVars, apiVars, queueVars, vars>>
     \/ /\ InsuranceStep
        /\ UNCHANGED <<oracleVars, feeVars, fracVars, complianceVars, zkVars, apiVars, queueVars, vars>>
     \/ RegistryStep /\ UNCHANGED <<inkVars, zkVars, apiVars, queueVars, vars>>
     \/ ProofStep /\ UNCHANGED <<inkVars, complianceVars, apiVars, queueVars, vars>>
     \/ /\ \/ deployed = "backend" /\ IngestNext /\ UNCHANGED keyVariables
           \/ deployed = "keys" /\ KeyNext /\ UNCHANGED ingestVars
        /\ UNCHANGED <<inkVars, complianceVars, zkVars, queueVars, vars>>
     \/ deployed = "client" /\ QueueNext /\ UNCHANGED <<inkVars, complianceVars, zkVars, apiVars, vars>>
     \/ deployed = "breaker" /\ Next /\ UNCHANGED <<inkVars, complianceVars, zkVars, apiVars, queueVars>>
  /\ UNCHANGED deployed

ContractsSpec == ContractsInit /\ [][ContractsNext]_contractsVars

-----------------------------------------------------------------------------
(* Every component's state stays in its type.                                *)
ContractsTypeOK ==
  /\ OracleTypeOK /\ FeeTypeOK /\ FracTypeOK /\ InsTypeOK /\ ComplianceTypeOK /\ ZkTypeOK
  /\ IngestTypeOK /\ KeyTypeOK /\ QueueTypeOK /\ TypeOK
=============================================================================

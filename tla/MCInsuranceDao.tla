---------------------------- MODULE MCInsuranceDao ----------------------------
EXTENDS InsuranceDao, TLC

CONSTANTS ann, pool, provider, none

MCUser      == {ann}
MCAccount   == {ann, pool}
MCAmount    == {1}
MCSlashRole == {provider}
MCCooldown  == {1}
MCDuration  == {1}
MCWeight    == {1}
MCThreshold == {50}
MCAction ==
  {[kind |-> "Slashing", target |-> ann, role |-> provider, amount |-> 1],
   [kind |-> "FundAllocation", recipient |-> ann, amount |-> 1],
   [kind |-> "PauseContract", length |-> 1]}
MCClaimAction == {[kind |-> "ClaimApproval", claim |-> 1], [kind |-> "PolicyChange"]}
MCGrantee   == {}

(* The functions of contracts/claims/src/lib.rs.                             *)
MCClaimsEntryPoints ==
  {"initialize", "set_role", "submit_claim", "start_review", "approve_claim",
   "reject_claim", "settle_claim", "submit_claims_batch", "get_claim", "get_state_root",
   "get_stats", "get_supported_abis"}
=============================================================================

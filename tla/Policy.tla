-------------------------------- MODULE Policy --------------------------------
(*****************************************************************************)
(* The policy contract (contracts/policy): issue, renew, cancel and expire   *)
(* policies, count what has been claimed on each, and apply the patches that *)
(* the registered governance contract sends.  Time is in days, the unit of a *)
(* policy's duration.  Premiums are left out: no state depends on them.      *)
(*****************************************************************************)
EXTENDS Integers, Sequences, FiniteSets, Functions, Int128

CONSTANTS
  Holder,         \* accounts that may hold a policy
  Claims,         \* address of the claims contract
  Governance,     \* address of the governance contract
  Coverage,       \* coverage amounts callers pass: any i128, negative as well
  Days,           \* durations callers pass
  ClaimAmount,    \* amounts the claims contract reports
  DurationMod,    \* durations are u32 and wrap: 2^32 in the code
  MaxCoverage,    \* i128::MAX, the default limit on coverage
  PolicyLimit,    \* bound on the number of policies
  BatchLimit,     \* bound on the length of a batch (50 in the code)
  LastDay         \* bound on time

NoContract == "unset"

PolicyAssumption ==
  /\ Claims # Governance
  /\ NoContract \notin {Claims, Governance}
  /\ Coverage \subseteq Int /\ ClaimAmount \subseteq Int /\ I128Max \in Nat
  /\ DurationMod \in Nat \ {0} /\ Days \subseteq 0..(DurationMod - 1)
  /\ MaxCoverage \in Nat /\ LastDay \in Nat
  /\ PolicyLimit \in Nat /\ BatchLimit \in Nat \ {0}

VARIABLES
  now,                \* ledger timestamp, in days
  policies,           \* Policy(id) for id in 1..PolicyCounter
  coverageCap,        \* PolicyParams.max_coverage_amount
  policyAdmin,        \* RoleMap(own address, Admin)
  claimsContract,     \* ClaimsContract
  governanceContract  \* GovernanceContract

settings == <<coverageCap, policyAdmin, claimsContract, governanceContract>>
vars     == <<now, policies, settings>>

Live     == {"Active", "Renewed"}
Terminal == {"Expired", "Cancelled"}
Status   == Live \cup Terminal
PolicyId == DOMAIN policies

PolicyRecord ==
  [holder : Holder, coverage : Int, start : Nat, duration : 0..(DurationMod - 1),
   status : Status, claimed : Int]

-----------------------------------------------------------------------------
Expiry(policy) == policy.start + policy.duration

(* is_active: the last day of the term still counts.                         *)
IsActive(policy) == policy.status \in Live /\ now <= Expiry(policy)

(* initialize: no policies, no limits of the DAO.                            *)
InitPolicies ==
  /\ now = 0
  /\ policies = <<>>
  /\ coverageCap = MaxCoverage

Init ==
  /\ InitPolicies
  /\ policyAdmin = FALSE
  /\ claimsContract = NoContract
  /\ governanceContract = NoContract

(* The ledger closes and its timestamp moves on.                             *)
Tick ==
  /\ now < LastDay
  /\ now' = now + 1
  /\ UNCHANGED <<policies, settings>>

(* set_role: the admin grants the contract's own address the Admin role.     *)
GrantAdmin ==
  /\ policyAdmin' = TRUE
  /\ UNCHANGED <<now, policies, coverageCap, claimsContract, governanceContract>>

SetClaimsContract(addr) ==
  /\ policyAdmin
  /\ claimsContract' = addr
  /\ UNCHANGED <<now, policies, coverageCap, policyAdmin, governanceContract>>

SetGovernanceContract(addr) ==
  /\ policyAdmin
  /\ governanceContract' = addr
  /\ UNCHANGED <<now, policies, coverageCap, policyAdmin, claimsContract>>

(* issue_policies_batch: one policy per request, all under the cap in force. *)
IssuePoliciesBatch(requests) ==
  /\ policyAdmin
  /\ Len(policies) + Len(requests) <= PolicyLimit
  /\ \A i \in DOMAIN requests : requests[i].coverage <= coverageCap
  /\ policies' = policies \o
       [i \in DOMAIN requests |->
          [holder |-> requests[i].holder, coverage |-> requests[i].coverage, start |-> now,
           duration |-> requests[i].days, status |-> "Active", claimed |-> 0]]
  /\ UNCHANGED <<now, settings>>

IssuePolicy(holder, coverage, days) ==
  IssuePoliciesBatch(<<[holder |-> holder, coverage |-> coverage, days |-> days]>>)

(* renew_policies_batch: requests of <<policy_id, days>>; a policy may occur *)
(* twice, and then its second renewal sees the first.  The sum wraps.        *)
Renewed(policy, days) ==
  [policy EXCEPT !.duration = (@ + days) % DurationMod, !.status = "Renewed"]

RenewPolicy(id, days) ==
  /\ IsActive(policies[id])
  /\ policies' = [policies EXCEPT ![id] = Renewed(@, days)]
  /\ UNCHANGED <<now, settings>>

RenewPoliciesBatch(first, second) ==
  LET once == [policies EXCEPT ![first[1]] = Renewed(@, first[2])] IN
  /\ IsActive(policies[first[1]])
  /\ IsActive(once[second[1]])
  /\ policies' = [once EXCEPT ![second[1]] = Renewed(@, second[2])]
  /\ UNCHANGED <<now, settings>>

(* cancel_policy and cancel_policies_batch: only the term is checked, not    *)
(* the status.                                                               *)
CancelPoliciesBatch(ids) ==
  /\ ids # {}
  /\ \A id \in ids : now <= Expiry(policies[id])
  /\ policies' = [id \in PolicyId |->
                    IF id \in ids THEN [policies[id] EXCEPT !.status = "Cancelled"]
                    ELSE policies[id]]
  /\ UNCHANGED <<now, settings>>

CancelPolicy(id) == CancelPoliciesBatch({id})

(* expire_policy: anybody, from the last day of the term on.                 *)
ExpirePolicy(id) ==
  /\ now >= Expiry(policies[id])
  /\ policies' = [policies EXCEPT ![id].status = "Expired"]
  /\ UNCHANGED <<now, settings>>

(* A PolicyPatch: each field is an option, a set of at most one value; the   *)
(* empty one leaves the attribute unchanged.                                 *)
Option(S)        == {{}} \cup {{v} : v \in S}
OrElse(opt, old) == IF opt = {} THEN old ELSE CHOOSE v \in opt : TRUE
Patch            == [coverage : Option(Coverage), status : Option(Status)]

PatchAllowed_ClaimedIgnored(policy, patch) ==
  /\ \A c \in patch.coverage : c > 0 /\ c <= coverageCap
  /\ patch.status # {} => policy.status \notin Terminal

(* The conditions under which a patch is applied to a policy.                *)
PatchAllowed(policy, patch) ==
  /\ \A c \in patch.coverage : c > 0 /\ c <= coverageCap /\ policy.claimed <= c
  /\ patch.status # {} => policy.status \notin Terminal

(* apply_governance_update: a policy of any status may be patched.           *)
ApplyGovernanceUpdate(id, patch) ==
  /\ governanceContract = Governance
  /\ PatchAllowed(policies[id], patch)
  /\ policies' = [policies EXCEPT
       ![id].coverage = OrElse(patch.coverage, @),
       ![id].status   = OrElse(patch.status, @)]
  /\ UNCHANGED <<now, settings>>

(* apply_governance_params: the new cap binds later issues and patches only. *)
ApplyGovernanceParams(cap) ==
  /\ governanceContract = Governance
  /\ cap > 0
  /\ coverageCap' = cap
  /\ UNCHANGED <<now, policies, policyAdmin, claimsContract, governanceContract>>

(* update_claimed and its alias update_cl, called by the claims contract:    *)
(* the total wraps, and it is the wrapped total that is compared.            *)
UpdateClaimed(id, amount) ==
  /\ claimsContract = Claims
  /\ I128(policies[id].claimed + amount) <= policies[id].coverage
  /\ policies' = [policies EXCEPT ![id].claimed = I128(@ + amount)]
  /\ UNCHANGED <<now, settings>>

-----------------------------------------------------------------------------
Contracts == {Claims, Governance}
Request   == [holder : Holder, coverage : Coverage, days : Days]

(* The calls that policy holders, the admin and time make.                   *)
OwnStep ==
  \/ Tick
  \/ GrantAdmin
  \/ \E addr \in Contracts : SetClaimsContract(addr) \/ SetGovernanceContract(addr)
  \/ \E h \in Holder, c \in Coverage, d \in Days : IssuePolicy(h, c, d)
  \/ \E n \in 1..BatchLimit : \E requests \in [1..n -> Request] : IssuePoliciesBatch(requests)
  \/ \E id \in PolicyId, d \in Days : RenewPolicy(id, d)
  \/ \E first, second \in PolicyId \X Days : RenewPoliciesBatch(first, second)
  \/ \E id \in PolicyId : CancelPolicy(id) \/ ExpirePolicy(id)
  \/ \E ids \in SUBSET PolicyId : CancelPoliciesBatch(ids)

(* The calls of the two registered contracts.                                *)
ContractStep ==
  \/ \E id \in PolicyId, patch \in Patch : ApplyGovernanceUpdate(id, patch)
  \/ \E cap \in Coverage : ApplyGovernanceParams(cap)
  \/ \E id \in PolicyId, amount \in ClaimAmount : UpdateClaimed(id, amount)

Next == OwnStep \/ ContractStep
Spec == Init /\ [][Next]_vars

-----------------------------------------------------------------------------
TypeOK ==
  /\ now \in Nat
  /\ policies \in Seq(PolicyRecord) /\ Len(policies) <= PolicyLimit
  /\ coverageCap \in Nat
  /\ policyAdmin \in BOOLEAN
  /\ {claimsContract, governanceContract} \subseteq Contracts \cup {NoContract}

(* Whatever order patches, settlements and renewals come in, a total that    *)
(* counts anything as claimed counts no more than the policy covers now.     *)
ClaimedWithinCoverage ==
  \A id \in PolicyId : policies[id].claimed > 0 =>
     policies[id].claimed <= policies[id].coverage

(* Cover never resumes: once is_active has answered false for a policy,      *)
(* because its term ran out or because its status is terminal, no renewal,   *)
(* cancellation, expiry or governance patch makes it answer true again.      *)
CoverNeverResumes ==
  [][\A id \in PolicyId : IsActive(policies[id])' => IsActive(policies[id])]_vars
=============================================================================

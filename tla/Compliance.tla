------------------------------- MODULE Compliance -------------------------------
(*****************************************************************************)
(* The compliance registry (contracts/compliance_registry): verifiers verify *)
(* accounts, screen them for money laundering and sanctions, and revoke      *)
(* them; accounts ask for a verification, consent to it and have their data  *)
(* deleted.  Other contracts ask only whether an account is compliant.       *)
(* Hashes, the audit log and the list of service providers decide nothing.   *)
(*****************************************************************************)
EXTENDS Integers, Sequences, FiniteSets

CONSTANTS
  Subjects,           \* accounts that are verified
  RegistryAccounts,   \* all accounts that call, the subjects among them
  RegistryOwner,      \* the deployer, who is a verifier
  Jurisdictions,
  DefaultRules,       \* rules of the jurisdictions that have some: level, retention, in ms
  NewRules,           \* what the owner sets them to
  Documents, Biometrics, RiskScores, RiskGrades,   \* what a verification rests on
  ValidFor,           \* a year, in ms
  RegistryLastTime, MaxVerifications   \* bounds

ASSUME ComplianceAssumption ==
  /\ Subjects \subseteq RegistryAccounts /\ RegistryOwner \in RegistryAccounts
  /\ DOMAIN DefaultRules \subseteq Jurisdictions
  /\ \A r \in NewRules \cup {DefaultRules[j] : j \in DOMAIN DefaultRules} :
       r.level \in Nat /\ r.retention \in Nat
  /\ RiskScores \subseteq Nat /\ ValidFor \in Nat /\ MaxVerifications \in Nat

RiskLevels == {"Low", "Medium", "High", "Prohibited"}
ASSUME RiskAssumption == RiskGrades \subseteq RiskLevels

NoData == [status |-> "NotVerified"]

VARIABLES
  registryTime,
  verifiers,
  rules,        \* jurisdiction_rules: a function on the jurisdictions that have some
  data,         \* compliance_data
  inquiries,    \* verification_requests; ids are positions
  inquiryOf,    \* account_requests: the last request of an account, 0 for none
  since         \* history: what befell an account since it was last verified

complianceVars == <<registryTime, verifiers, rules, data, inquiries, inquiryOf, since>>

ComplianceInit ==
  /\ registryTime = 0
  /\ verifiers = {RegistryOwner}
  /\ rules = DefaultRules
  /\ data = [a \in Subjects |-> NoData]
  /\ inquiries = <<>> /\ inquiryOf = [a \in Subjects |-> 0]
  /\ since = [a \in Subjects |-> {}]

Known(a) == data[a] # NoData

(* add_verifier, and register_service_provider for a service of KYC: no      *)
(* message takes the right away again.                                       *)
AddVerifier(a) ==
  /\ verifiers' = verifiers \cup {a}
  /\ UNCHANGED <<registryTime, rules, data, inquiries, inquiryOf, since>>

UpdateJurisdictionRules(j, r) ==
  /\ rules' = [k \in DOMAIN rules \cup {j} |-> IF k = j THEN r ELSE rules[k]]
  /\ UNCHANGED <<registryTime, verifiers, data, inquiries, inquiryOf, since>>

VerificationLevel(document, biometric, score) ==
  LET papers == 1 + (IF document \in {"Passport", "CorporateDocument"} THEN 2 ELSE 1)
      level  == papers + (CASE biometric = "None" -> 0 [] biometric = "IrisScan" -> 2
                            [] biometric = "MultiFactor" -> 3 [] OTHER -> 1)
      scored == level + (IF score < 20 THEN 1
                         ELSE IF score <= 80 THEN 0
                         ELSE IF level >= 2 THEN -2 ELSE -level)
  IN  IF scored < 5 THEN scored ELSE 5

(* submit_verification: whatever was known of the account is forgotten, its  *)
(* screenings and its consent too.                                           *)
Verifies(a, j, risk, document, biometric, score) ==
  /\ score <= 100 /\ j \in DOMAIN rules
  /\ VerificationLevel(document, biometric, score) >= rules[j].level
  /\ data' = [data EXCEPT ![a] =
       [status |-> "Verified", jurisdiction |-> j, risk |-> risk,
        aml |-> FALSE, sanctions |-> FALSE, consent |-> "NotGiven",
        expiry |-> registryTime + ValidFor, retention |-> registryTime + rules[j].retention]]
  /\ since' = [since EXCEPT ![a] = {}]

SubmitVerification(caller, a, j, risk, document, biometric, score) ==
  /\ caller \in verifiers
  /\ Verifies(a, j, risk, document, biometric, score)
  /\ UNCHANGED <<registryTime, verifiers, rules, inquiries, inquiryOf>>

Screened(a, screening, passed) ==
  since' = [since EXCEPT ![a] = @ \cup {<<screening, passed>>}]

UpdateAmlStatus_NotRejected(caller, a, passed, factors) ==
  /\ caller \in verifiers /\ Known(a)
  /\ data' = [data EXCEPT ![a].aml = passed,
       ![a].risk   = IF factors >= 2 THEN "High" ELSE IF factors = 1 THEN "Medium" ELSE @]
  /\ Screened(a, "aml", passed)
  /\ UNCHANGED <<registryTime, verifiers, rules, inquiries, inquiryOf>>

(* update_aml_status, with the number of risk factors; batch_aml_check is a  *)
(* row of these.  A pass leaves a rejection as it is.                        *)
UpdateAmlStatus(caller, a, passed, factors) ==
  LET rejected == ~ passed \/ factors >= 3 IN
  /\ caller \in verifiers /\ Known(a)
  /\ data' = [data EXCEPT ![a].aml = passed,
       ![a].status = IF rejected THEN "Rejected" ELSE @,
       ![a].risk   = IF rejected THEN "Prohibited"
                     ELSE IF factors = 2 THEN "High"
                     ELSE IF factors = 1 THEN "Medium" ELSE @]
  /\ Screened(a, "aml", passed)
  /\ UNCHANGED <<registryTime, verifiers, rules, inquiries, inquiryOf>>

(* update_sanctions_status; batch_sanctions_check is a row of these.         *)
UpdateSanctionsStatus(caller, a, passed) ==
  /\ caller \in verifiers /\ Known(a)
  /\ data' = [data EXCEPT ![a].sanctions = passed,
                          ![a].status = IF passed THEN @ ELSE "Rejected",
                          ![a].risk   = IF passed THEN @ ELSE "Prohibited"]
  /\ Screened(a, "sanctions", passed)
  /\ UNCHANGED <<registryTime, verifiers, rules, inquiries, inquiryOf>>

RevokeVerification(caller, a) ==
  /\ caller \in verifiers /\ Known(a)
  /\ data' = [data EXCEPT ![a].status = "Rejected"]
  /\ Screened(a, "verification", FALSE)
  /\ UNCHANGED <<registryTime, verifiers, rules, inquiries, inquiryOf>>

UpdateConsent(caller, a, consent) ==
  /\ caller \in {a} \cup verifiers /\ Known(a)
  /\ data' = [data EXCEPT ![a].consent = consent]
  /\ UNCHANGED <<registryTime, verifiers, rules, inquiries, inquiryOf, since>>

CheckDataRetention(a) == Known(a) /\ registryTime > data[a].retention

(* request_data_deletion, by the account: the record is marked, not deleted. *)
RequestDataDeletion(a) ==
  /\ CheckDataRetention(a) /\ data[a].consent = "Withdrawn"
  /\ data' = [data EXCEPT ![a].status = "Expired"]
  /\ Screened(a, "verification", FALSE)
  /\ UNCHANGED <<registryTime, verifiers, rules, inquiries, inquiryOf>>

(* create_verification_request: an account waits for its last one.  No       *)
(* message refuses a request, so one that cannot be verified waits for good. *)
CreateVerificationRequest(a, j) ==
  /\ inquiryOf[a] # 0 => inquiries[inquiryOf[a]].status # "Pending"
  /\ Len(inquiries) < MaxVerifications
  /\ inquiries' = Append(inquiries, [account |-> a, jurisdiction |-> j, status |-> "Pending"])
  /\ inquiryOf' = [inquiryOf EXCEPT ![a] = Len(inquiries) + 1]
  /\ UNCHANGED <<registryTime, verifiers, rules, data, since>>

ProcessVerificationRequest(caller, r, risk, document, biometric, score) ==
  /\ caller \in verifiers /\ inquiries[r].status = "Pending"
  /\ Verifies(inquiries[r].account, inquiries[r].jurisdiction, risk, document, biometric, score)
  /\ inquiries' = [inquiries EXCEPT ![r].status = "Verified"]
  /\ UNCHANGED <<registryTime, verifiers, rules, inquiryOf>>

RegistryTick ==
  /\ registryTime < RegistryLastTime /\ registryTime' = registryTime + 1
  /\ UNCHANGED <<verifiers, rules, data, inquiries, inquiryOf, since>>

ComplianceNext ==
  \/ RegistryTick
  \/ \E a \in RegistryAccounts : AddVerifier(a)
  \/ \E j \in Jurisdictions, r \in NewRules : UpdateJurisdictionRules(j, r)
  \/ \E caller \in RegistryAccounts, risk \in RiskGrades, d \in Documents, b \in Biometrics,
        score \in RiskScores :
       \/ \E a \in Subjects, j \in Jurisdictions : SubmitVerification(caller, a, j, risk, d, b, score)
       \/ \E r \in DOMAIN inquiries : ProcessVerificationRequest(caller, r, risk, d, b, score)
  \/ \E caller \in RegistryAccounts, a \in Subjects :
       \/ \E passed \in BOOLEAN : \/ \E factors \in 0..3 : UpdateAmlStatus(caller, a, passed, factors)
                                  \/ UpdateSanctionsStatus(caller, a, passed)
       \/ RevokeVerification(caller, a)
       \/ \E consent \in {"Given", "Withdrawn"} : UpdateConsent(caller, a, consent)
  \/ \E a \in Subjects : RequestDataDeletion(a) \/ \E j \in Jurisdictions : CreateVerificationRequest(a, j)

ComplianceSpec == ComplianceInit /\ [][ComplianceNext]_complianceVars

-----------------------------------------------------------------------------
(* is_compliant, and check_transaction_compliance, which asks nothing more:  *)
(* the record of a verified account names a jurisdiction with rules.         *)
Compliant(a) ==
  /\ Known(a)
  /\ data[a].status = "Verified" /\ data[a].risk # "Prohibited"
  /\ data[a].aml /\ data[a].sanctions /\ data[a].consent = "Given"
  /\ registryTime < data[a].expiry /\ registryTime <= data[a].retention

ComplianceTypeOK ==
  /\ registryTime \in Nat /\ verifiers \subseteq RegistryAccounts
  /\ \A a \in Subjects : Known(a) =>
       /\ data[a].status \in {"Verified", "Rejected", "Expired"} /\ data[a].risk \in RiskLevels
       /\ data[a].jurisdiction \in DOMAIN rules
  /\ \A a \in Subjects : inquiryOf[a] \in 0..Len(inquiries)

(* Compliance is earned anew with every verification: a compliant account    *)
(* has passed both screenings since it was last verified, has failed none of *)
(* them since, was not revoked and has not had its data deleted.  A pass     *)
(* after a failure does not make up for it.  And one account has one request *)
(* at a time that may verify it.                                             *)
ComplianceIsEarned ==
  /\ \A a \in Subjects : Compliant(a) =>
       since[a] = {<<"aml", TRUE>>, <<"sanctions", TRUE>>}
  /\ \A r, s \in DOMAIN inquiries :
       inquiries[r].status = "Pending" /\ inquiries[s].status = "Pending"
         /\ inquiries[r].account = inquiries[s].account => r = s
=============================================================================

------------------------------- MODULE MCSoroban -------------------------------
(* The Soroban contracts that are checked on their own, for TLC: each        *)
(* behaviour deploys the pool, the governance contract or the bridge, so     *)
(* that their state spaces add instead of multiplying.  What they do to one  *)
(* another is checked in MCInsuranceCore and MCInsuranceDao.                 *)
EXTENDS RiskPool, Governance, Bridge, TLC

CONSTANTS alice, bob, pool, slash, none, op1, op2, op3

VARIABLE deployed

MCUser       == {alice, bob}
MCGrantee    == {pool}
MCAmount     == {0, 1, 2}
MCWeight     == {-1, 200}
MCThreshold  == {50, 100}
MCAction     == {slash}
MCBridgeUser == {alice}
MCOperator   == {op1, op2, op3}
MCRequired   == {1, 2, 3}
MCTimeout    == {1}
Symmetry     == Permutations({op2, op3})

ASSUME SorobanAssumption == GovernanceAssumption /\ BridgeAssumption

sorobanVars == <<vars, governanceVars, bridgeVars, deployed>>

SorobanInit ==
  /\ deployed \in {"pool", "governance", "bridge"}
  /\ Init /\ GovernanceInit /\ BridgeInit
  /\ deployed # "pool" => version = 2

SorobanNext ==
  /\ \/ deployed = "pool" /\ Next /\ UNCHANGED <<governanceVars, bridgeVars>>
     \/ deployed = "governance" /\ GovernanceNext /\ UNCHANGED <<vars, bridgeVars>>
     \/ deployed = "bridge" /\ BridgeNext /\ UNCHANGED <<vars, governanceVars>>
  /\ UNCHANGED deployed

SorobanSpec == SorobanInit /\ [][SorobanNext]_sorobanVars

-----------------------------------------------------------------------------
(* Every contract's state stays in its type, and the counters of the bridge  *)
(* tell the same story as its requests and histories.                        *)
SorobanTypeOK == TypeOK /\ GovernanceTypeOK /\ BridgeTypeOK /\ CountersMatchRecords
=============================================================================

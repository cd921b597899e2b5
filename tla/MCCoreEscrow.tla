----------------------------- MODULE MCCoreEscrow -----------------------------
(* Claims, policies and pool together, and the escrow contract, for TLC:     *)
(* each behaviour deploys the three or the escrow, which do not call one     *)
(* another, so that their state spaces add instead of multiplying.           *)
EXTENDS MCInsuranceCore, Escrow

CONSTANTS ann, ben

VARIABLE deployed

MCBuyer        == {bob}
MCSigner       == {ann, ben}
MCApprovalType == {"Release", "Refund"}
MCDeposit      == {-1, 1, 2}

Ask(amount, participants, required, lock) ==
  [buyer |-> bob, amount |-> amount, participants |-> participants,
   required |-> required, lock |-> lock]

(* Both sign; one signs after a lock; a list with a duplicate that can never *)
(* be signed; and requests that are refused.                                 *)
MCRequest ==
  {Ask(2, <<ann, ben>>, 2, NoLock), Ask(1, <<ben>>, 1, 2), Ask(1, <<ann, ann>>, 2, 1),
   Ask(0, <<ann>>, 1, NoLock), Ask(1, <<ann>>, 2, NoLock), Ask(1, <<ann>>, 0, NoLock)}

fundsVars == <<vars, escrowVars, deployed>>

FundsInit == deployed \in {"core", "escrow"} /\ Init /\ EscrowInit /\ (deployed = "core" => escrowVersion = 2)

FundsNext ==
  /\ \/ deployed = "core" /\ Next /\ UNCHANGED escrowVars
     \/ deployed = "escrow" /\ EscrowNext /\ UNCHANGED vars
  /\ UNCHANGED deployed

FundsSpec == FundsInit /\ [][FundsNext]_fundsVars

(* As in EscrowFairSpec, where the escrow is deployed.                       *)
FundsFairSpec ==
  /\ FundsSpec
  /\ WF_fundsVars(deployed = "escrow" /\ Advance /\ UNCHANGED <<vars, deployed>>)
  /\ \A id \in 1..EscrowLimit :
       /\ WF_fundsVars(deployed = "escrow" /\ id \in EscrowId /\ ReleaseFunds(id) /\ UNCHANGED <<vars, deployed>>)
       /\ \A signer \in Signer :
            WF_fundsVars(deployed = "escrow" /\ id \in EscrowId /\ SignApproval(id, "Release", signer)
                           /\ UNCHANGED <<vars, deployed>>)
=============================================================================

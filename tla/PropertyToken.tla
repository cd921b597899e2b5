----------------------------- MODULE PropertyToken -----------------------------
(*****************************************************************************)
(* The property token (contracts/property-token): who owns a token, the      *)
(* units of it that accounts hold, and the multi-signature bridge that locks *)
(* a token here and mints it elsewhere.  PropertyShares adds the market for  *)
(* the units.                                                                *)
(*                                                                           *)
(* A message that returns an error is reverted.  Fees, the compliance        *)
(* registry and the circuit breaker only refuse calls, so they are not in    *)
(* the state: every call may be refused.                                     *)
(*****************************************************************************)
EXTENDS Integers, Sequences, FiniteSets, Functions

CONSTANTS
  Accounts, TokenAdmin,
  Chains,               \* supported_chains
  SignatureLimits,      \* <<min, max>> configurations of the bridge
  Required,             \* signatures that requests ask for
  Timeouts,             \* timeouts of requests, in blocks
  MaxTokens, MaxRequests, LastBlock, MaxUnits    \* bounds

ASSUME TokenAssumption ==
  /\ IsFiniteSet(Accounts) /\ TokenAdmin \in Accounts
  /\ {"Zero", "Nobody"} \cap Accounts = {}      \* nobody signs for the zero address
  /\ SignatureLimits \subseteq Nat \X Nat /\ Timeouts \subseteq Nat /\ Required \subseteq Nat
  /\ MaxTokens \in Nat /\ MaxRequests \in Nat /\ LastBlock \in Nat /\ MaxUnits \in Nat

Zero    == "Zero"       \* AccountId [0; 32]
Nobody  == "Nobody"     \* no entry in the mapping

Tokens == 1..MaxTokens

VARIABLES
  tokenOwner, ownerCount, approved, operatorFor,   \* token_owner, owner_token_count, ...
  units,            \* balances: the ERC-1155 units, and the shares
  lastTo,           \* the recipient in the last entry of the ownership history
  verified,         \* compliance_flags: verified
  tokenCounter, totalSupply,
  block, operators, signatureLimits,
  requests, slot,   \* bridge_requests, token_pending_requests (0 for none)
  bridged           \* bridged_tokens: the status per chain and token

ownerVars  == <<tokenOwner, ownerCount, units, lastTo, verified, tokenCounter, totalSupply>>
grantVars  == <<approved, operatorFor>>
bridgeVars == <<block, operators, signatureLimits, requests, slot, bridged>>
tokenVars  == <<ownerVars, grantVars, bridgeVars>>

TokenInit ==
  /\ tokenOwner = [t \in Tokens |-> Nobody] /\ lastTo = [t \in Tokens |-> Nobody]
  /\ ownerCount = [a \in Accounts |-> 0]
  /\ approved = [t \in Tokens |-> Nobody] /\ operatorFor = {}
  /\ units = [t \in Tokens |-> [a \in Accounts |-> 0]]
  /\ verified = [t \in Tokens |-> FALSE]
  /\ tokenCounter = 0 /\ totalSupply = 0 /\ block = 0
  /\ operators = {TokenAdmin} /\ signatureLimits = <<2, 5>>
  /\ requests = <<>> /\ slot = [t \in Tokens |-> 0]
  /\ bridged = [c \in Chains |-> [t \in Tokens |-> "None"]]

-----------------------------------------------------------------------------
(* Ownership                                                                 *)

(* A new token: one unit to the account, the first entry of the history.     *)
Mint(t, to, isVerified) ==
  /\ tokenCounter' = t
  /\ tokenOwner' = [tokenOwner EXCEPT ![t] = to]
  /\ ownerCount' = [ownerCount EXCEPT ![to] = @ + 1]
  /\ units'      = [units EXCEPT ![t][to] = 1]
  /\ lastTo'     = [lastTo EXCEPT ![t] = to]
  /\ verified'   = [verified EXCEPT ![t] = isVerified]
  /\ totalSupply' = totalSupply + 1

(* register_property_with_token; a batch is a row of these.                  *)
Register(caller) ==
  /\ tokenCounter < MaxTokens
  /\ Mint(tokenCounter + 1, caller, FALSE)
  /\ UNCHANGED <<grantVars, bridgeVars>>

MayMove(caller, from, t) ==
  \/ caller = from
  \/ t # 0 /\ caller = approved[t]
  \/ <<from, caller>> \in operatorFor

TransferFrom_Uncounted(caller, from, to, t) ==
  /\ tokenOwner[t] = from /\ MayMove(caller, from, t)
  /\ ownerCount' = [[ownerCount EXCEPT ![from] = @ - 1] EXCEPT ![to] = @ + 1]
  /\ lastTo'     = [lastTo EXCEPT ![t] = to]
  /\ approved'   = [approved EXCEPT ![t] = Nobody]
  /\ UNCHANGED <<tokenOwner, units, verified, tokenCounter, totalSupply, operatorFor, bridgeVars>>

(* remove_token_from_owner, add_token_to_owner, update_ownership_history.    *)
HandedOver(from, to, t) ==
  /\ ownerCount[from] > 0
  /\ ownerCount' = [[ownerCount EXCEPT ![from] = @ - 1] EXCEPT ![to] = @ + 1]
  /\ lastTo'     = [lastTo EXCEPT ![t] = to]

(* transfer_from hands over the count and the history; token_owner keeps the *)
(* account that registered the token.                                        *)
TransferFrom(caller, from, to, t) ==
  /\ tokenOwner[t] = from /\ MayMove(caller, from, t)
  /\ HandedOver(from, to, t)
  /\ approved'   = [approved EXCEPT ![t] = Nobody]
  /\ UNCHANGED <<tokenOwner, units, verified, tokenCounter, totalSupply, operatorFor, bridgeVars>>

Approve(caller, to, t) ==
  /\ tokenOwner[t] \in Accounts
  /\ caller = tokenOwner[t] \/ <<tokenOwner[t], caller>> \in operatorFor
  /\ approved' = [approved EXCEPT ![t] = to]
  /\ UNCHANGED <<ownerVars, operatorFor, bridgeVars>>

SetApprovalForAll(caller, operator, granted) ==
  /\ operatorFor' = IF granted THEN operatorFor \cup {<<caller, operator>>}
                    ELSE operatorFor \ {<<caller, operator>>}
  /\ UNCHANGED <<ownerVars, approved, bridgeVars>>

(* safe_batch_transfer_from, a batch being a row of these: both balances are *)
(* read after the other was written.                                         *)
TransferUnits(caller, from, to, t, amount) ==
  /\ MayMove(caller, from, 0)
  /\ units[t][from] >= amount
  /\ units' = [[units EXCEPT ![t][from] = @ - amount] EXCEPT ![t][to] = @ + amount]
  /\ UNCHANGED <<tokenOwner, ownerCount, lastTo, verified, tokenCounter, totalSupply, grantVars, bridgeVars>>

VerifyCompliance(caller, t, status) ==
  /\ caller \in operators \cup {TokenAdmin} /\ t <= tokenCounter
  /\ verified' = [verified EXCEPT ![t] = status]
  /\ UNCHANGED <<tokenOwner, ownerCount, units, lastTo, tokenCounter, totalSupply, grantVars, bridgeVars>>

-----------------------------------------------------------------------------
(* The bridge                                                                *)

(* approvers is history: the operators that ever signed to approve.          *)
Request(t, chain, sender, required, timeout) ==
  [token |-> t, chain |-> chain, sender |-> sender, required |-> required, signatures |-> <<>>,
   expires |-> block + timeout, status |-> "Pending", approvers |-> {}]

InitiateBridge(caller, t, chain, required, timeout) ==
  /\ Len(requests) < MaxRequests
  /\ tokenOwner[t] = caller /\ verified[t]
  /\ required \in signatureLimits[1] .. signatureLimits[2]
  /\ slot[t] = 0
  /\ requests' = Append(requests, Request(t, chain, caller, required, timeout))
  /\ slot' = [slot EXCEPT ![t] = Len(requests) + 1]
  /\ UNCHANGED <<ownerVars, grantVars, block, operators, signatureLimits, bridged>>

(* expire_bridge_request_if_needed marks a request that is too old, unlocks  *)
(* its token and returns an error: the call is reverted, and nothing stays   *)
(* of what it did.  Whoever comes too late is refused, that is all.          *)
InTime(r) == block <= requests[r].expires

(* Only the signatures of current operators count.                           *)
ValidSignatures(signatures) == Cardinality(Range(signatures) \cap operators)

(* sign_bridge_request with approve = FALSE: the signature is kept.          *)
RejectBridge(operator, r) ==
  /\ operator \in operators /\ InTime(r)
  /\ requests[r].status = "Pending" /\ operator \notin Range(requests[r].signatures)
  /\ requests' = [requests EXCEPT ![r].signatures = Append(@, operator), ![r].status = "Failed"]
  /\ slot' = [slot EXCEPT ![requests[r].token] = 0]
  /\ UNCHANGED <<ownerVars, grantVars, block, operators, signatureLimits, bridged>>

(* The owner loses the units with the token; the count is left as it was.    *)
Lock(t) ==
  /\ tokenOwner[t] # Nobody
  /\ tokenOwner' = [tokenOwner EXCEPT ![t] = Zero]
  /\ units' = IF tokenOwner[t] = Zero THEN units ELSE [units EXCEPT ![t][tokenOwner[t]] = 0]

(* sign_bridge_request with approve = TRUE: the signature that completes the *)
(* quorum locks the token.                                                   *)
SignBridge(operator, r) ==
  LET request == requests[r]
      signed  == Append(request.signatures, operator)
      enough  == ValidSignatures(signed) >= request.required
  IN  /\ operator \in operators /\ InTime(r)
      /\ request.status = "Pending" /\ operator \notin Range(request.signatures)
      /\ requests' = [requests EXCEPT ![r].signatures = signed,
                                      ![r].approvers = @ \cup {operator},
                                      ![r].status = IF enough THEN "Locked" ELSE "Pending"]
      /\ IF enough THEN Lock(request.token) ELSE UNCHANGED <<tokenOwner, units>>
      /\ UNCHANGED <<ownerCount, lastTo, verified, tokenCounter, totalSupply, grantVars,
                     block, operators, signatureLimits, slot, bridged>>

ExecuteBridge_KeepsSlot(operator, r) ==
  LET request == requests[r]
  IN  /\ operator \in operators /\ InTime(r)
      /\ request.status = "Locked" /\ ValidSignatures(request.signatures) >= request.required
      /\ requests' = [requests EXCEPT ![r].status = "Completed"]
      /\ bridged'  = [bridged EXCEPT ![request.chain][request.token] = "InTransit"]
      /\ UNCHANGED <<ownerVars, grantVars, block, operators, signatureLimits, slot>>

(* execute_bridge.  The hash it stores is new with every request.            *)
ExecuteBridge(operator, r) ==
  LET request == requests[r]
  IN  /\ operator \in operators /\ InTime(r)
      /\ request.status = "Locked" /\ ValidSignatures(request.signatures) >= request.required
      /\ requests' = [requests EXCEPT ![r].status = "Completed"]
      /\ slot'     = [slot EXCEPT ![request.token] = 0]
      /\ bridged'  = [bridged EXCEPT ![request.chain][request.token] = "InTransit"]
      /\ UNCHANGED <<ownerVars, grantVars, block, operators, signatureLimits>>

(* receive_bridged_token takes the hash of any request that was executed,    *)
(* however often it has been taken before, with any chain and token.         *)
ReceiveBridged(operator, to, chain, t) ==
  /\ operator \in operators
  /\ \E r \in DOMAIN requests : requests[r].status = "Completed"
  /\ tokenCounter < MaxTokens
  /\ Mint(tokenCounter + 1, to, TRUE)
  /\ bridged' = IF bridged[chain][t] = "None" THEN bridged
                ELSE [bridged EXCEPT ![chain][t] = "Completed"]
  /\ UNCHANGED <<grantVars, block, operators, signatureLimits, requests, slot>>

(* The token burned is the one that was bridged away: a token that           *)
(* receive_bridged_token minted has no entry of its own in bridged_tokens.   *)
BurnBridged(caller, t, chain) ==
  /\ tokenOwner[t] = caller /\ bridged[chain][t] = "Completed"
  /\ ownerCount[caller] > 0
  /\ ownerCount' = [ownerCount EXCEPT ![caller] = @ - 1]
  /\ tokenOwner' = [tokenOwner EXCEPT ![t] = Nobody]
  /\ units'      = [units EXCEPT ![t][caller] = 0]
  /\ totalSupply' = totalSupply - 1
  /\ bridged'    = [bridged EXCEPT ![chain][t] = "Locked"]
  /\ UNCHANGED <<lastTo, verified, tokenCounter, grantVars, block, operators, signatureLimits, requests, slot>>

(* recover_failed_bridge, by the admin: UnlockToken and CancelBridge.  The   *)
(* token may be locked by another request than the one that failed.          *)
UnlockFailed(r) ==
  LET t == requests[r].token  sender == requests[r].sender
  IN  /\ requests[r].status = "Failed"
      /\ tokenOwner[t] = Zero
      /\ tokenOwner' = [tokenOwner EXCEPT ![t] = sender]
      /\ units'      = [units EXCEPT ![t][sender] = 1]
      /\ ownerCount' = [ownerCount EXCEPT ![sender] = @ + 1]
      /\ UNCHANGED <<lastTo, verified, tokenCounter, totalSupply, grantVars, bridgeVars>>

RetryBridge_KeepsSignatures(r) ==
  /\ requests[r].status = "Failed"
  /\ requests' = [requests EXCEPT ![r].status = "Pending"]
  /\ slot' = [slot EXCEPT ![requests[r].token] = r]
  /\ UNCHANGED <<ownerVars, grantVars, block, operators, signatureLimits, bridged>>

(* RetryBridge takes the slot even from a newer request of the token.        *)
RetryBridge(r) ==
  /\ requests[r].status = "Failed"
  /\ requests' = [requests EXCEPT ![r].status = "Pending", ![r].signatures = <<>>]
  /\ slot' = [slot EXCEPT ![requests[r].token] = r]
  /\ UNCHANGED <<ownerVars, grantVars, block, operators, signatureLimits, bridged>>

AddOperator(a) ==
  /\ operators' = operators \cup {a}
  /\ UNCHANGED <<ownerVars, grantVars, block, signatureLimits, requests, slot, bridged>>

RemoveOperator(a) ==
  /\ Cardinality(operators \ {a}) >= signatureLimits[1]
  /\ operators' = operators \ {a}
  /\ UNCHANGED <<ownerVars, grantVars, block, signatureLimits, requests, slot, bridged>>

UpdateBridgeConfig(limits) ==
  /\ signatureLimits' = limits
  /\ UNCHANGED <<ownerVars, grantVars, block, operators, requests, slot, bridged>>

NextBlock ==
  /\ block < LastBlock /\ block' = block + 1
  /\ UNCHANGED <<ownerVars, grantVars, operators, signatureLimits, requests, slot, bridged>>

Registering == \E caller \in Accounts : Register(caller)

Verifying == \E caller \in Accounts, t \in Tokens, status \in BOOLEAN : VerifyCompliance(caller, t, status)

OwnershipNext ==
  \/ \E caller, from, to \in Accounts, t \in Tokens :
       \/ TransferFrom(caller, from, to, t)
       \/ \E amount \in 0..MaxUnits : TransferUnits(caller, from, to, t, amount)
  \/ \E caller, to \in Accounts, t \in Tokens : Approve(caller, to, t)
  \/ \E caller, to \in Accounts, granted \in BOOLEAN : SetApprovalForAll(caller, to, granted)

BridgeNext ==
  \/ NextBlock
  \/ \E caller \in Accounts, t \in Tokens, chain \in Chains, timeout \in Timeouts :
       \E required \in Required :
         InitiateBridge(caller, t, chain, required, timeout)
  \/ \E a \in Accounts, r \in DOMAIN requests :
       RejectBridge(a, r) \/ SignBridge(a, r) \/ ExecuteBridge(a, r)
  \/ \E r \in DOMAIN requests : UnlockFailed(r) \/ RetryBridge(r)
  \/ \E operator, to \in Accounts, chain \in Chains, t \in Tokens : ReceiveBridged(operator, to, chain, t)
  \/ \E caller \in Accounts, t \in Tokens, chain \in Chains : BurnBridged(caller, t, chain)
  \/ \E a \in Accounts : AddOperator(a) \/ RemoveOperator(a)
  \/ \E limits \in SignatureLimits : UpdateBridgeConfig(limits)

TokenNext == Registering \/ Verifying \/ OwnershipNext \/ BridgeNext

-----------------------------------------------------------------------------
TokenTypeOK ==
  /\ tokenOwner \in [Tokens -> Accounts \cup {Zero, Nobody}]
  /\ ownerCount \in [Accounts -> Nat] /\ units \in [Tokens -> [Accounts -> Nat]]
  /\ lastTo \in [Tokens -> Accounts \cup {Nobody}] /\ verified \in [Tokens -> BOOLEAN]
  /\ tokenCounter \in 0..MaxTokens /\ totalSupply \in Nat
  /\ approved \in [Tokens -> Accounts \cup {Nobody}] /\ operatorFor \subseteq Accounts \X Accounts
  /\ operators \subseteq Accounts /\ slot \in [Tokens -> 0..MaxRequests]
  /\ bridged \in [Chains -> [Tokens -> {"None", "InTransit", "Completed", "Locked"}]]

Undecided(r) == requests[r].status \in {"Pending", "Locked"}

(* A request is locked or executed only on the signatures of as many         *)
(* operators as it asked for, every one of whom signed to approve it, and a  *)
(* token belongs to the zero address only for such a request: whatever was   *)
(* rejected, retried, recovered and reconfigured on the way.                 *)
LockTakesQuorum ==
  /\ \A r \in DOMAIN requests : requests[r].status \in {"Locked", "Completed"} =>
       /\ Range(requests[r].signatures) \subseteq requests[r].approvers
       /\ Cardinality(requests[r].approvers) >= requests[r].required
  /\ \A t \in Tokens : tokenOwner[t] = Zero =>
       \E r \in DOMAIN requests : requests[r].token = t /\ requests[r].status \in {"Locked", "Completed"}

(* The slot that keeps a token from being requested twice names a request of *)
(* that token which is recorded neither as executed nor as rejected, through *)
(* retries that take the slot back.  It need not be one that can still be    *)
(* decided: no call records an expiry, so an expired request keeps its slot. *)
SlotNamesUndecidedRequest ==
  \A t \in Tokens : slot[t] # 0 => Undecided(slot[t]) /\ requests[slot[t]].token = t

(* A token locked for a request that has expired is recovered by its sender. *)
ExpiredIsRecovered ==
  \A r \in 1..MaxRequests :
    (r \in DOMAIN requests /\ requests[r].status = "Locked" /\ ~ InTime(r))
      ~> (r \in DOMAIN requests /\ tokenOwner[requests[r].token] = requests[r].sender)
=============================================================================

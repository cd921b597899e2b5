-------------------------------- MODULE Bridge --------------------------------
(*****************************************************************************)
(* The bridge contract (contracts/bridge): a request to bridge a token is    *)
(* answered by operators, locked once enough of them have answered, executed *)
(* by any operator, and put back by the admin after it failed.  The service  *)
(* fee is left out; whether the bridge is paused is all that is left here of *)
(* CircuitBreaker.                                                           *)
(*****************************************************************************)
EXTENDS Integers, Sequences, FiniteSets, Functions

CONSTANTS
  BridgeUser,      \* accounts that ask for a token to be bridged
  Operator,        \* accounts that may be made operators
  BridgeAdmin,     \* the account that deployed the bridge
  MinSignatures,   \* min_signatures_required
  MaxSignatures,   \* max_signatures_required
  Required,        \* required_signatures that users pass
  Timeout,         \* timeout_seconds that users pass
  MaxOperators,    \* MAX_OPERATORS: 10 in the code
  MaxHistory,      \* MAX_HISTORY_ITEMS: 50 in the code
  RequestLimit,    \* bound on the number of requests
  ExecutionLimit,  \* bound on the number of transactions
  BridgeLastTime   \* bound on the ledger's timestamp

NoExpiry == -1

BridgeAssumption ==
  /\ BridgeAdmin \in Operator /\ IsFiniteSet(Operator) /\ IsFiniteSet(BridgeUser)
  /\ MinSignatures \in Nat \ {0} /\ MaxSignatures \in Nat /\ MinSignatures <= MaxSignatures
  /\ Required \subseteq Nat /\ Timeout \subseteq Nat
  /\ MaxHistory \in Nat \ {0}
  /\ {MaxOperators, RequestLimit, ExecutionLimit, BridgeLastTime} \subseteq Nat

VARIABLES
  bridgeTime,      \* ledger timestamp
  paused,          \* what CircuitBreaker's Paused says
  operators,       \* Operators
  requests,        \* Request(id) for id in 1..ReqCounter
  nonce,           \* Nonce(user)
  transactions,    \* TxCounter
  history,         \* History(user): the requests that were executed, latest last
  approvals,       \* auxiliary: who of a request's signers approved it
  executions       \* auxiliary: how often a request was executed since its last retry

auxiliary == <<approvals, executions>>
bridgeVars == <<bridgeTime, paused, operators, requests, nonce, transactions, history, auxiliary>>

RequestId == DOMAIN requests

BridgeInit ==
  /\ bridgeTime = 0 /\ paused = FALSE
  /\ operators = {BridgeAdmin}
  /\ requests = <<>> /\ approvals = <<>> /\ executions = <<>>
  /\ nonce = [u \in BridgeUser |-> 0]
  /\ transactions = 0
  /\ history = [u \in BridgeUser |-> <<>>]

BridgeTick ==
  /\ bridgeTime < BridgeLastTime
  /\ bridgeTime' = bridgeTime + 1
  /\ UNCHANGED <<paused, operators, requests, nonce, transactions, history, auxiliary>>

(* pause, resume, emergency_pause and the passing of time.                   *)
BreakerStep ==
  /\ paused' = ~ paused
  /\ UNCHANGED <<bridgeTime, operators, requests, nonce, transactions, history, auxiliary>>

(* initiate_bridge_multisig: the number of operators there are is not asked. *)
InitiateBridge(user, required, expiresAt, n) ==
  /\ ~ paused
  /\ Len(requests) < RequestLimit
  /\ n = nonce[user] + 1
  /\ required \in MinSignatures..MaxSignatures
  /\ expiresAt = NoExpiry \/ expiresAt > bridgeTime
  /\ nonce' = [nonce EXCEPT ![user] = n]
  /\ requests' = Append(requests,
       [sender |-> user, required |-> required, expiresAt |-> expiresAt, signatures |-> {},
        status |-> "Pending"])
  /\ approvals' = Append(approvals, {})
  /\ executions' = Append(executions, 0)
  /\ UNCHANGED <<bridgeTime, paused, operators, transactions, history>>

Answered_EarlyLock(request, operator, approve) ==
  LET signatures == request.signatures \cup {operator} IN
  [request EXCEPT
     !.signatures = signatures,
     !.status = IF ~ approve THEN "Failed"
                ELSE IF Cardinality(signatures) + 1 >= request.required THEN "Locked"
                ELSE @]

(* A request after one more answer, whatever its status was: a refusal fails *)
(* it, and a refusal is a signature as well.                                 *)
Answered(request, operator, approve) ==
  LET signatures == request.signatures \cup {operator} IN
  [request EXCEPT
     !.signatures = signatures,
     !.status = IF ~ approve THEN "Failed"
                ELSE IF Cardinality(signatures) >= request.required THEN "Locked"
                ELSE @]

SignBridgeRequest(operator, id, approve) ==
  /\ ~ paused
  /\ operator \in operators
  /\ requests[id].expiresAt # NoExpiry => bridgeTime <= requests[id].expiresAt
  /\ operator \notin requests[id].signatures
  /\ requests' = [requests EXCEPT ![id] = Answered(@, operator, approve)]
  /\ approvals' = [approvals EXCEPT ![id] = IF approve THEN @ \cup {operator} ELSE @]
  /\ UNCHANGED <<bridgeTime, paused, operators, nonce, transactions, history, executions>>

Recorded(past, id) == Append(IF Len(past) >= MaxHistory THEN Tail(past) ELSE past, id)

ExecuteBridge_StillLocked(operator, id) ==
  /\ ~ paused
  /\ operator \in operators
  /\ requests[id].status = "Locked"
  /\ transactions < ExecutionLimit
  /\ transactions' = transactions + 1
  /\ history' = [history EXCEPT ![requests[id].sender] = Recorded(@, id)]
  /\ executions' = [executions EXCEPT ![id] = @ + 1]
  /\ UNCHANGED <<bridgeTime, paused, operators, requests, nonce, approvals>>

(* execute_bridge: the time of expiry is not looked at again.                *)
ExecuteBridge(operator, id) ==
  /\ ~ paused
  /\ operator \in operators
  /\ requests[id].status = "Locked"
  /\ transactions < ExecutionLimit
  /\ transactions' = transactions + 1
  /\ requests' = [requests EXCEPT ![id].status = "Completed"]
  /\ history' = [history EXCEPT ![requests[id].sender] = Recorded(@, id)]
  /\ executions' = [executions EXCEPT ![id] = @ + 1]
  /\ UNCHANGED <<bridgeTime, paused, operators, nonce, approvals>>

(* recover_failed_bridge: RetryBridge opens a new round of signatures; the   *)
(* other actions leave a failed request as it is.                            *)
RetryBridge(id) ==
  /\ ~ paused
  /\ requests[id].status = "Failed"
  /\ requests' = [requests EXCEPT ![id].status = "Pending", ![id].signatures = {}]
  /\ approvals' = [approvals EXCEPT ![id] = {}]
  /\ executions' = [executions EXCEPT ![id] = 0]
  /\ UNCHANGED <<bridgeTime, paused, operators, nonce, transactions, history>>

(* add_operator: a full list refuses even a member.                          *)
AddOperator(operator) ==
  /\ Cardinality(operators) < MaxOperators
  /\ operators' = operators \cup {operator}
  /\ UNCHANGED <<bridgeTime, paused, requests, nonce, transactions, history, auxiliary>>

(* remove_operator: pending requests may ask for more than are left.         *)
RemoveOperator(operator) ==
  /\ Cardinality(operators) > MinSignatures
  /\ operators' = operators \ {operator}
  /\ UNCHANGED <<bridgeTime, paused, requests, nonce, transactions, history, auxiliary>>

Expiry == {NoExpiry} \cup {bridgeTime + t : t \in Timeout}

BridgeNext ==
  \/ BridgeTick \/ BreakerStep
  \/ \E user \in BridgeUser, required \in Required, expiresAt \in Expiry, n \in 1..RequestLimit :
       InitiateBridge(user, required, expiresAt, n)
  \/ \E operator \in Operator, id \in RequestId, approve \in BOOLEAN :
       SignBridgeRequest(operator, id, approve)
  \/ \E operator \in Operator, id \in RequestId : ExecuteBridge(operator, id)
  \/ \E id \in RequestId : RetryBridge(id)
  \/ \E operator \in Operator : AddOperator(operator) \/ RemoveOperator(operator)

BridgeSpec == BridgeInit /\ [][BridgeNext]_bridgeVars

-----------------------------------------------------------------------------
BridgeTypeOK ==
  /\ bridgeTime \in 0..BridgeLastTime /\ paused \in BOOLEAN
  /\ operators \subseteq Operator /\ operators # {}
  /\ requests \in Seq([sender : BridgeUser, required : MinSignatures..MaxSignatures,
                       expiresAt : {NoExpiry} \cup Nat, signatures : SUBSET Operator,
                       status : {"Pending", "Locked", "Completed", "Failed"}])
  /\ nonce \in [BridgeUser -> Nat] /\ transactions \in Nat
  /\ history \in [BridgeUser -> Seq(RequestId)]

(* A request is locked or executed only if as many different operators have  *)
(* answered it since its last retry as it asks for.                          *)
LockedIsAnswered ==
  \A id \in RequestId : requests[id].status \in {"Locked", "Completed"} =>
    Cardinality(requests[id].signatures) >= requests[id].required

(* A request that was executed can be locked and executed again, but each    *)
(* execution takes an answer of its own: between two retries there are no    *)
(* more executions than answers from the quorum on.                          *)
ExecutionsTakeSignatures ==
  \A id \in RequestId : executions[id] > 0 =>
    executions[id] + requests[id].required
      <= Cardinality(requests[id].signatures) + (IF requests[id].status = "Locked" THEN 0 ELSE 1)

(* The transaction counter and the histories tell the same story until a     *)
(* history is full, and each request has used up one nonce of its sender.    *)
CountersMatchRecords ==
  /\ \A u \in BridgeUser : nonce[u] = Cardinality({id \in RequestId : requests[id].sender = u})
  /\ (\A u \in BridgeUser : Len(history[u]) < MaxHistory) =>
       transactions = SumFunctionOnSet([u \in BridgeUser |-> Len(history[u])], BridgeUser)

(* docs/tutorials/cross-chain-bridging.md: "Once the signature threshold is  *)
(* reached, the bridge can be executed".  A request that is ready to be      *)
(* executed has been approved by as many operators as it asks for.           *)
LockedIsApproved ==
  \A id \in RequestId : requests[id].status = "Locked" =>
    Cardinality(approvals[id]) >= requests[id].required
=============================================================================

------------------------------ MODULE TokenProofs ------------------------------
(*****************************************************************************)
(* Proofs about the property token for any finite set of accounts, any       *)
(* chains, signature limits and timeouts, and any amounts: who may lock a    *)
(* token, what keeps it from being requested, how many tokens there are,     *)
(* what the market, the dividends and the votes make of their units. And     *)
(* about the escrow contract, for any participants, requests and depths of   *)
(* its lock: its counters follow the signatures, and releases have enough.   *)
(*****************************************************************************)
EXTENDS MCToken, Escrow, SumTheorems, SequenceTheorems

RequestStatus == {"Pending", "Locked", "Completed", "Failed"}
Sealed        == {"Locked", "Completed"}

RequestRecord ==
  [token : Tokens, chain : Chains, sender : Accounts, required : Nat, signatures : Seq(Accounts),
   expires : Nat, status : RequestStatus, approvers : SUBSET Accounts]

RequestId == DOMAIN requests

(* Whoever signed a request that was not rejected signed to approve it, and  *)
(* a request that is locked or executed has as many approvals as it asked    *)
(* for.                                                                      *)
Approved(request) ==
  /\ request.status # "Failed" => Range(request.signatures) \subseteq request.approvers
  /\ request.status \in Sealed => Cardinality(request.approvers) >= request.required

(* The bridge's half of the inductive invariant.                             *)
BridgeIInv ==
  /\ requests \in Seq(RequestRecord) /\ Len(requests) <= MaxRequests
  /\ block \in Nat /\ signatureLimits \in Nat \X Nat
  /\ \A r \in RequestId : Approved(requests[r])
  /\ \A t \in Tokens : slot[t] # 0 =>
       slot[t] \in RequestId /\ Undecided(slot[t]) /\ requests[slot[t]].token = t
  /\ \A t \in Tokens : tokenOwner[t] = Zero =>
       \E r \in RequestId : requests[r].token = t /\ requests[r].status \in Sealed

(* The ledger's half: the tokens above the counter are nobody's, so that a   *)
(* minted token is one more.                                                 *)
Owned == {t \in Tokens : tokenOwner[t] # Nobody}

SupplyCountsOwned == totalSupply = Cardinality(Owned)

OwnersIInv ==
  /\ \A t \in Tokens : t > tokenCounter => tokenOwner[t] = Nobody
  /\ SupplyCountsOwned

TokenIInv == TokenTypeOK /\ BridgeIInv /\ OwnersIInv

-----------------------------------------------------------------------------
(* Requests                                                                  *)

LEMMA RequestList ==
  ASSUME BridgeIInv
  PROVE  /\ requests \in [RequestId -> RequestRecord]
         /\ RequestId = 1..Len(requests) /\ Len(requests) \in Nat
         /\ \A r \in RequestId : requests[r] \in RequestRecord /\ r \in 1..MaxRequests
<1>1. /\ requests \in [RequestId -> RequestRecord]
      /\ RequestId = 1..Len(requests) /\ Len(requests) \in Nat
  BY LenProperties DEF BridgeIInv, RequestId
<1>2. Len(requests) <= MaxRequests /\ MaxRequests \in Nat BY TokenAssumption DEF BridgeIInv
<1> QED BY <1>1, <1>2

(* A step that leaves the requests alone and locks no token.                 *)
LEMMA BridgeKept ==
  ASSUME BridgeIInv, requests' = requests, slot' = slot,
         block' \in Nat, signatureLimits' \in Nat \X Nat,
         \A t \in Tokens : tokenOwner'[t] = Zero => tokenOwner[t] = Zero
  PROVE  BridgeIInv'
<1>1. RequestId' = RequestId BY DEF RequestId
<1> QED BY <1>1 DEF BridgeIInv, Undecided, Approved

(* A step that changes one request.                                          *)
LEMMA RequestReplaced ==
  ASSUME BridgeIInv, UNCHANGED <<block, signatureLimits>>,
         NEW r \in RequestId, NEW request \in RequestRecord, Approved(request),
         requests' = [requests EXCEPT ![r] = request],
         request.token = requests[r].token,
         requests[r].status \in Sealed => request.status \in Sealed,
         \A t \in Tokens : slot'[t] # 0 =>
           \/ slot'[t] = r /\ t = request.token /\ request.status \in {"Pending", "Locked"}
           \/ slot'[t] # r /\ slot'[t] = slot[t],
         \A t \in Tokens : tokenOwner'[t] = Zero =>
           tokenOwner[t] = Zero \/ (t = request.token /\ request.status \in Sealed)
  PROVE  BridgeIInv'
<1>1. /\ requests \in [RequestId -> RequestRecord]
      /\ RequestId = 1..Len(requests) /\ Len(requests) \in Nat
  BY RequestList
<1>2. /\ requests'[r] = request
      /\ \A q \in RequestId \ {r} : requests'[q] = requests[q]
      /\ requests' \in [RequestId -> RequestRecord]
  BY <1>1
<1>3. requests' \in Seq(RequestRecord) /\ Len(requests') = Len(requests) /\ RequestId' = RequestId
  BY <1>1, <1>2 DEF RequestId
<1>4. \A q \in RequestId : Approved(requests'[q])
  BY <1>2 DEF BridgeIInv
<1>5. ASSUME NEW t \in Tokens, slot'[t] # 0
      PROVE  slot'[t] \in RequestId /\ Undecided(slot[t])' /\ requests'[slot'[t]].token = t
  <2>1. CASE slot'[t] = r /\ t = request.token /\ request.status \in {"Pending", "Locked"}
    BY <2>1, <1>2 DEF Undecided
  <2>2. CASE slot'[t] # r /\ slot'[t] = slot[t]
    BY <2>2, <1>2, <1>5 DEF Undecided, BridgeIInv
  <2> QED BY <1>5, <2>1, <2>2
<1>6. ASSUME NEW t \in Tokens, tokenOwner'[t] = Zero
      PROVE  \E q \in RequestId : requests'[q].token = t /\ requests'[q].status \in Sealed
  <2>1. CASE tokenOwner[t] = Zero
    <3>1. PICK q \in RequestId : requests[q].token = t /\ requests[q].status \in Sealed
      BY <2>1 DEF BridgeIInv
    <3>2. requests'[q].token = t /\ requests'[q].status \in Sealed BY <1>2, <3>1
    <3> QED BY <3>2
  <2>2. CASE t = request.token /\ request.status \in Sealed BY <2>2, <1>2
  <2> QED BY <1>6, <2>1, <2>2
<1>7. block' \in Nat /\ signatureLimits' \in Nat \X Nat BY DEF BridgeIInv
<1>8. Len(requests') <= MaxRequests BY <1>3 DEF BridgeIInv
<1> QED BY <1>3, <1>4, <1>5, <1>6, <1>7, <1>8 DEF BridgeIInv

(* Signatures: one more, and who they are.                                   *)
LEMMA OneMoreSignature ==
  ASSUME NEW s \in Seq(Accounts), NEW a \in Accounts
  PROVE  Append(s, a) \in Seq(Accounts) /\ Range(Append(s, a)) = Range(s) \cup {a}
<1>1. /\ Append(s, a) \in Seq(Accounts) /\ Len(Append(s, a)) = Len(s) + 1
      /\ \A i \in 1..Len(s) : Append(s, a)[i] = s[i]
      /\ Append(s, a)[Len(s) + 1] = a
  BY AppendProperties
<1>2. DOMAIN s = 1..Len(s) /\ DOMAIN Append(s, a) = 1..(Len(s) + 1) /\ Len(s) \in Nat
  BY <1>1, LenProperties
<1>3. DOMAIN Append(s, a) = DOMAIN s \cup {Len(s) + 1} BY <1>2
<1> QED BY <1>1, <1>2, <1>3 DEF Range

-----------------------------------------------------------------------------
(* The ledger of owners                                                      *)

LEMMA TokensAreFinite ==
  /\ MaxTokens \in Nat /\ IsFiniteSet(Tokens) /\ Tokens \subseteq Nat \ {0}
  /\ \A S \in SUBSET Tokens : IsFiniteSet(S) /\ Cardinality(S) \in Nat
<1>1. MaxTokens \in Nat BY TokenAssumption
<1>2. IsFiniteSet(1..MaxTokens) BY <1>1, FS_Interval
<1>3. \A S \in SUBSET (1..MaxTokens) : IsFiniteSet(S) /\ Cardinality(S) \in Nat
  BY <1>2, FS_Subset, FS_CardinalityType
<1> QED BY <1>1, <1>2, <1>3 DEF Tokens

(* A step after which the same tokens have an owner.                         *)
LEMMA OwnersKept ==
  ASSUME OwnersIInv, UNCHANGED <<tokenCounter, totalSupply>>,
         \A t \in Tokens : (tokenOwner'[t] = Nobody) <=> (tokenOwner[t] = Nobody)
  PROVE  OwnersIInv'
<1>1. Owned' = Owned BY DEF Owned, Tokens
<1>2. SupplyCountsOwned' BY <1>1 DEF OwnersIInv, SupplyCountsOwned
<1> QED BY <1>2 DEF OwnersIInv, Tokens

(* A minted token is one more, and counted with its owner.                   *)
LEMMA MintCounts ==
  ASSUME TokenTypeOK, OwnersIInv, NEW to \in Accounts, NEW isVerified \in BOOLEAN,
         tokenCounter < MaxTokens, Mint(tokenCounter + 1, to, isVerified)
  PROVE  /\ OwnersIInv'
         /\ tokenOwner' \in [Tokens -> Accounts \cup {Zero, Nobody}]
         /\ ownerCount' \in [Accounts -> Nat] /\ units' \in [Tokens -> [Accounts -> Nat]]
         /\ lastTo' \in [Tokens -> Accounts \cup {Nobody}] /\ verified' \in [Tokens -> BOOLEAN]
         /\ tokenCounter' \in 0..MaxTokens /\ totalSupply' \in Nat
         /\ \A t \in Tokens : tokenOwner'[t] = Zero => tokenOwner[t] = Zero
<1> DEFINE n == tokenCounter + 1
<1>1. n \in Tokens /\ tokenCounter \in Nat /\ MaxTokens \in Nat
  BY TokensAreFinite DEF TokenTypeOK, Tokens
<1>2. /\ tokenCounter' = n /\ totalSupply' = totalSupply + 1
      /\ tokenOwner' = [tokenOwner EXCEPT ![n] = to]
      /\ ownerCount' = [ownerCount EXCEPT ![to] = ownerCount[to] + 1]
      /\ units' = [units EXCEPT ![n][to] = 1]
      /\ lastTo' = [lastTo EXCEPT ![n] = to] /\ verified' = [verified EXCEPT ![n] = isVerified]
  BY DEF Mint
<1>3. /\ tokenOwner \in [Tokens -> Accounts \cup {Zero, Nobody}]
      /\ ownerCount \in [Accounts -> Nat] /\ units \in [Tokens -> [Accounts -> Nat]]
      /\ lastTo \in [Tokens -> Accounts \cup {Nobody}] /\ verified \in [Tokens -> BOOLEAN]
      /\ totalSupply \in Nat
  BY DEF TokenTypeOK
<1>4. Zero \notin Accounts /\ Nobody \notin Accounts /\ Zero # Nobody
  BY TokenAssumption DEF Zero, Nobody
<1> HIDE DEF n
<1>5. tokenOwner[n] = Nobody BY <1>1 DEF OwnersIInv, n
<1>6. /\ \A t \in Tokens : t > tokenCounter' => tokenOwner'[t] = Nobody
      /\ \A t \in Tokens : tokenOwner'[t] = Zero => tokenOwner[t] = Zero
  BY <1>1, <1>2, <1>3, <1>4 DEF OwnersIInv, n, Tokens
<1>7. Owned' = Owned \cup {n} /\ n \notin Owned
  BY <1>1, <1>2, <1>3, <1>4, <1>5 DEF Owned, Tokens
<1>8. Cardinality(Owned') = Cardinality(Owned) + 1
  <2>1. IsFiniteSet(Owned) BY TokensAreFinite DEF Owned
  <2> QED BY <1>7, <2>1, FS_AddElement
<1>9. ownerCount' \in [Accounts -> Nat] BY <1>2, <1>3
<1>10. SupplyCountsOwned' BY <1>2, <1>8 DEF OwnersIInv, SupplyCountsOwned
<1>11. OwnersIInv' BY <1>6, <1>10 DEF OwnersIInv, Tokens
<1>12. tokenCounter' \in 0..MaxTokens /\ totalSupply' \in Nat BY <1>1, <1>2, <1>3 DEF Tokens
<1> QED BY <1>1, <1>2, <1>3, <1>6, <1>9, <1>11, <1>12

(* Who owns what after a step that leaves the owners alone.                  *)
LEMMA OwnersUntouched ==
  ASSUME TokenTypeOK, OwnersIInv, UNCHANGED <<tokenOwner, ownerCount, tokenCounter, totalSupply>>
  PROVE  OwnersIInv'
BY DEF OwnersIInv, SupplyCountsOwned, Owned, Tokens

-----------------------------------------------------------------------------
(* The steps of the token                                                    *)

LEMMA TokenStarts ==
  ASSUME TokenInit
  PROVE  TokenIInv
<1>1. requests \in Seq(RequestRecord) /\ Len(requests) = 0 /\ RequestId = {}
  BY DEF TokenInit, RequestId
<1>2. Zero # Nobody /\ MaxRequests \in Nat /\ MaxTokens \in Nat /\ TokenAdmin \in Accounts
  BY TokenAssumption DEF Zero, Nobody
<1>3. BridgeIInv
  <2>1. block \in Nat /\ signatureLimits \in Nat \X Nat BY DEF TokenInit
  <2>2. \A t \in Tokens : slot[t] = 0 /\ tokenOwner[t] # Zero BY <1>2 DEF TokenInit
  <2> QED BY <1>1, <1>2, <2>1, <2>2 DEF BridgeIInv
<1>4. TokenTypeOK BY <1>2 DEF TokenInit, TokenTypeOK
<1>5. SupplyCountsOwned
  <2>1. Owned = {} BY DEF TokenInit, Owned
  <2>2. Cardinality({}) = 0 BY FS_EmptySet
  <2> QED BY <2>1, <2>2 DEF SupplyCountsOwned, TokenInit
<1>6. OwnersIInv BY <1>5 DEF OwnersIInv, TokenInit
<1> QED BY <1>3, <1>4, <1>6 DEF TokenIInv

(* A step that leaves the bridge and the owners alone.                       *)
LEMMA StepOfUnits ==
  ASSUME TokenIInv, UNCHANGED <<tokenOwner, ownerCount, tokenCounter, totalSupply, bridgeVars>>,
         units' \in [Tokens -> [Accounts -> Nat]], verified' \in [Tokens -> BOOLEAN],
         lastTo' \in [Tokens -> Accounts \cup {Nobody}],
         approved' \in [Tokens -> Accounts \cup {Nobody}], operatorFor' \subseteq Accounts \X Accounts
  PROVE  TokenIInv'
<1>1. TokenTypeOK' BY DEF TokenIInv, TokenTypeOK, bridgeVars
<1>2. BridgeIInv' BY BridgeKept DEF TokenIInv, bridgeVars, BridgeIInv
<1>3. OwnersIInv' BY OwnersUntouched DEF TokenIInv
<1> QED BY <1>1, <1>2, <1>3 DEF TokenIInv

(* A step that leaves the ledger and the grants alone.                       *)
LEMMA StepOfBridge ==
  ASSUME TokenIInv, UNCHANGED <<ownerVars, grantVars>>, BridgeIInv',
         operators' \subseteq Accounts, slot' \in [Tokens -> 0..MaxRequests],
         bridged' \in [Chains -> [Tokens -> {"None", "InTransit", "Completed", "Locked"}]]
  PROVE  TokenIInv'
<1>1. TokenTypeOK' BY DEF TokenIInv, TokenTypeOK, ownerVars, grantVars
<1>2. OwnersIInv' BY OwnersUntouched DEF TokenIInv, ownerVars
<1> QED BY <1>1, <1>2 DEF TokenIInv

LEMMA StepRegisters ==
  ASSUME TokenIInv, NEW caller \in Accounts, Register(caller)
  PROVE  TokenIInv'
<1>1. /\ tokenCounter < MaxTokens /\ Mint(tokenCounter + 1, caller, FALSE)
      /\ UNCHANGED <<approved, operatorFor, bridgeVars>>
  BY DEF Register, grantVars
<1>2. /\ OwnersIInv'
      /\ tokenOwner' \in [Tokens -> Accounts \cup {Zero, Nobody}]
      /\ ownerCount' \in [Accounts -> Nat] /\ units' \in [Tokens -> [Accounts -> Nat]]
      /\ lastTo' \in [Tokens -> Accounts \cup {Nobody}] /\ verified' \in [Tokens -> BOOLEAN]
      /\ tokenCounter' \in 0..MaxTokens /\ totalSupply' \in Nat
      /\ \A t \in Tokens : tokenOwner'[t] = Zero => tokenOwner[t] = Zero
  BY <1>1, MintCounts DEF TokenIInv
<1>3. BridgeIInv' BY <1>1, <1>2, BridgeKept DEF TokenIInv, bridgeVars, BridgeIInv
<1>4. TokenTypeOK' BY <1>1, <1>2 DEF TokenIInv, TokenTypeOK, bridgeVars
<1> QED BY <1>2, <1>3, <1>4 DEF TokenIInv

LEMMA StepReceives ==
  ASSUME TokenIInv, NEW operator \in Accounts, NEW to \in Accounts, NEW chain \in Chains,
         NEW n \in Tokens, ReceiveBridged(operator, to, chain, n)
  PROVE  TokenIInv'
<1>1. /\ tokenCounter < MaxTokens /\ Mint(tokenCounter + 1, to, TRUE)
      /\ bridged' = IF bridged[chain][n] = "None" THEN bridged
                    ELSE [bridged EXCEPT ![chain][n] = "Completed"]
      /\ UNCHANGED <<approved, operatorFor, block, operators, signatureLimits, requests, slot>>
  BY DEF ReceiveBridged, grantVars
<1>2. /\ OwnersIInv'
      /\ tokenOwner' \in [Tokens -> Accounts \cup {Zero, Nobody}]
      /\ ownerCount' \in [Accounts -> Nat] /\ units' \in [Tokens -> [Accounts -> Nat]]
      /\ lastTo' \in [Tokens -> Accounts \cup {Nobody}] /\ verified' \in [Tokens -> BOOLEAN]
      /\ tokenCounter' \in 0..MaxTokens /\ totalSupply' \in Nat
      /\ \A t \in Tokens : tokenOwner'[t] = Zero => tokenOwner[t] = Zero
  BY <1>1, MintCounts DEF TokenIInv
<1>3. BridgeIInv' BY <1>1, <1>2, BridgeKept DEF TokenIInv, BridgeIInv
<1>4. bridged' \in [Chains -> [Tokens -> {"None", "InTransit", "Completed", "Locked"}]]
  BY <1>1 DEF TokenIInv, TokenTypeOK
<1>5. TokenTypeOK' BY <1>1, <1>2, <1>4 DEF TokenIInv, TokenTypeOK
<1> QED BY <1>2, <1>3, <1>5 DEF TokenIInv

LEMMA StepTransfers ==
  ASSUME TokenIInv, NEW caller \in Accounts, NEW from \in Accounts, NEW to \in Accounts,
         NEW t \in Tokens, TransferFrom(caller, from, to, t)
  PROVE  TokenIInv'
<1>1. /\ ownerCount[from] > 0
      /\ ownerCount' = [[ownerCount EXCEPT ![from] = @ - 1] EXCEPT ![to] = @ + 1]
      /\ lastTo' = [lastTo EXCEPT ![t] = to] /\ approved' = [approved EXCEPT ![t] = Nobody]
      /\ UNCHANGED <<tokenOwner, units, verified, tokenCounter, totalSupply, operatorFor, bridgeVars>>
  BY DEF TransferFrom, HandedOver
<1>2. ownerCount \in [Accounts -> Nat] BY DEF TokenIInv, TokenTypeOK
<1>3. ownerCount' \in [Accounts -> Nat] BY <1>1, <1>2
<1>4. BridgeIInv' BY <1>1, BridgeKept DEF TokenIInv, bridgeVars, BridgeIInv
<1>6. OwnersIInv' BY <1>1, OwnersKept DEF TokenIInv
<1>7. TokenTypeOK' BY <1>1, <1>3 DEF TokenIInv, TokenTypeOK, bridgeVars
<1> QED BY <1>4, <1>6, <1>7 DEF TokenIInv

(* A new request has no signatures, and its token has no other slot.         *)
LEMMA StepInitiates ==
  ASSUME TokenIInv, NEW caller \in Accounts, NEW t \in Tokens, NEW chain \in Chains,
         NEW required \in Required, NEW timeout \in Timeouts,
         InitiateBridge(caller, t, chain, required, timeout)
  PROVE  TokenIInv'
<1> DEFINE fresh == Request(t, chain, caller, required, timeout)
           last  == Len(requests) + 1
<1>1. /\ Len(requests) < MaxRequests /\ requests' = Append(requests, fresh)
      /\ slot' = [slot EXCEPT ![t] = last]
      /\ UNCHANGED <<ownerVars, grantVars, block, operators, signatureLimits, bridged>>
  BY DEF InitiateBridge
<1>2. /\ fresh \in RequestRecord /\ Approved(fresh) /\ fresh.status = "Pending" /\ fresh.token = t
  <2>1. required \in Nat /\ timeout \in Nat /\ block \in Nat
    BY TokenAssumption DEF TokenIInv, BridgeIInv
  <2>2. block + timeout \in Nat BY <2>1
  <2>3. fresh.signatures = <<>> /\ fresh.status = "Pending" /\ fresh.token = t BY DEF Request
  <2>4. Range(<<>>) = {} BY DEF Range
  <2>5. fresh \in RequestRecord BY <2>1, <2>2 DEF Request, RequestRecord, RequestStatus
  <2> HIDE DEF fresh
  <2>6. Approved(fresh) BY <2>3, <2>4 DEF Approved, Sealed
  <2> QED BY <2>3, <2>5, <2>6
<1> HIDE DEF fresh
<1>3. /\ requests \in Seq(RequestRecord) /\ Len(requests) \in Nat /\ RequestId = 1..Len(requests)
      /\ MaxRequests \in Nat
  BY RequestList, TokenAssumption DEF TokenIInv, BridgeIInv
<1>4. /\ requests' \in Seq(RequestRecord) /\ Len(requests') = last /\ requests'[last] = fresh
      /\ \A r \in RequestId : requests'[r] = requests[r]
  <2>1. /\ Append(requests, fresh) \in Seq(RequestRecord)
        /\ Len(Append(requests, fresh)) = Len(requests) + 1
        /\ \A i \in 1..Len(requests) : Append(requests, fresh)[i] = requests[i]
        /\ Append(requests, fresh)[Len(requests) + 1] = fresh
    BY <1>2, <1>3, AppendProperties
  <2> QED BY <1>1, <1>3, <2>1
<1>5. RequestId' = RequestId \cup {last} /\ last \in 1..MaxRequests /\ last \notin RequestId
  <2>1. DOMAIN requests' = 1..Len(requests') BY <1>4, LenProperties
  <2> QED BY <1>1, <1>3, <1>4, <2>1 DEF RequestId
<1>6. slot' \in [Tokens -> 0..MaxRequests] /\ slot'[t] = last /\ \A u \in Tokens \ {t} : slot'[u] = slot[u]
  BY <1>1, <1>5 DEF TokenIInv, TokenTypeOK
<1>7. tokenOwner' = tokenOwner /\ block' = block /\ signatureLimits' = signatureLimits
  BY <1>1 DEF ownerVars
<1> HIDE DEF last
<1>8. \A r \in RequestId' : Approved(requests'[r])
  BY <1>2, <1>4, <1>5 DEF TokenIInv, BridgeIInv
<1>9. ASSUME NEW u \in Tokens, slot'[u] # 0
      PROVE  slot'[u] \in RequestId' /\ Undecided(slot[u])' /\ requests'[slot'[u]].token = u
  <2>1. CASE u = t BY <2>1, <1>2, <1>4, <1>5, <1>6 DEF Undecided
  <2>2. CASE u # t
    <3>1. slot[u] \in RequestId /\ Undecided(slot[u]) /\ requests[slot[u]].token = u /\ slot'[u] = slot[u]
      BY <1>6, <1>9, <2>2 DEF TokenIInv, BridgeIInv
    <3> QED BY <3>1, <1>4, <1>5 DEF Undecided
  <2> QED BY <2>1, <2>2
<1>10. ASSUME NEW u \in Tokens, tokenOwner'[u] = Zero
       PROVE  \E r \in RequestId' : requests'[r].token = u /\ requests'[r].status \in Sealed
  <2>1. PICK r \in RequestId : requests[r].token = u /\ requests[r].status \in Sealed
    BY <1>7, <1>10 DEF TokenIInv, BridgeIInv
  <2>2. r \in RequestId' /\ requests'[r] = requests[r] BY <1>4, <1>5
  <2> QED BY <2>1, <2>2
<1>11. Len(requests') <= MaxRequests BY <1>4, <1>5
<1>12. block' \in Nat /\ signatureLimits' \in Nat \X Nat BY <1>7 DEF TokenIInv, BridgeIInv
<1>13. BridgeIInv' BY <1>4, <1>8, <1>9, <1>10, <1>11, <1>12 DEF BridgeIInv
<1> QED BY <1>1, <1>6, <1>13, StepOfBridge DEF TokenIInv, TokenTypeOK

(* A rejection frees the token's slot.                                       *)
LEMMA StepRejects ==
  ASSUME TokenIInv, NEW operator \in Accounts, NEW r \in RequestId, RejectBridge(operator, r)
  PROVE  TokenIInv'
<1> DEFINE old == requests[r]
           new == [old EXCEPT !.signatures = Append(@, operator), !.status = "Failed"]
<1>1. /\ old.status = "Pending"
      /\ requests' = [requests EXCEPT ![r] = new] /\ slot' = [slot EXCEPT ![old.token] = 0]
      /\ UNCHANGED <<ownerVars, grantVars, block, operators, signatureLimits, bridged>>
  BY DEF RejectBridge
<1>2. old \in RequestRecord /\ BridgeIInv BY RequestList DEF TokenIInv
<1>3. Append(old.signatures, operator) \in Seq(Accounts) BY <1>2, OneMoreSignature DEF RequestRecord
<1>4. /\ new \in RequestRecord /\ new.status = "Failed" /\ new.token = old.token /\ new.token \in Tokens
  BY <1>2, <1>3 DEF RequestRecord, RequestStatus
<1> HIDE DEF new
<1>5. Approved(new) BY <1>4 DEF Approved, Sealed
<1>6. /\ slot' \in [Tokens -> 0..MaxRequests]
      /\ slot'[old.token] = 0 /\ \A t \in Tokens \ {old.token} : slot'[t] = slot[t]
  BY <1>1, <1>4, TokenAssumption DEF TokenIInv, TokenTypeOK
<1>7. \A t \in Tokens : slot'[t] # 0 => slot'[t] # r /\ slot'[t] = slot[t]
  BY <1>2, <1>6 DEF BridgeIInv
<1>8. tokenOwner' = tokenOwner /\ block' = block /\ signatureLimits' = signatureLimits
  BY <1>1 DEF ownerVars
<1>9. old.status \notin Sealed BY <1>1 DEF Sealed
<1>10. BridgeIInv'
  <2> HIDE DEF old
  <2>1. requests' = [requests EXCEPT ![r] = new] BY <1>1
  <2>2. new.token = requests[r].token /\ requests[r].status \notin Sealed BY <1>4, <1>9 DEF old
  <2> QED BY <2>1, <2>2, <1>2, <1>4, <1>5, <1>7, <1>8, RequestReplaced
<1> QED BY <1>1, <1>6, <1>10, StepOfBridge DEF TokenIInv, TokenTypeOK

(* An execution frees the token's slot as well.                              *)
LEMMA StepExecutes ==
  ASSUME TokenIInv, NEW operator \in Accounts, NEW r \in RequestId, ExecuteBridge(operator, r)
  PROVE  TokenIInv'
<1> DEFINE old == requests[r]
           new == [old EXCEPT !.status = "Completed"]
<1>1. /\ old.status = "Locked"
      /\ requests' = [requests EXCEPT ![r] = new] /\ slot' = [slot EXCEPT ![old.token] = 0]
      /\ bridged' = [bridged EXCEPT ![old.chain][old.token] = "InTransit"]
      /\ UNCHANGED <<ownerVars, grantVars, block, operators, signatureLimits>>
  BY DEF ExecuteBridge
<1>2. old \in RequestRecord /\ BridgeIInv /\ Approved(old) BY RequestList DEF TokenIInv, BridgeIInv
<1>3. /\ new \in RequestRecord /\ new.status = "Completed" /\ new.token = old.token /\ new.token \in Tokens
      /\ new.signatures = old.signatures /\ new.approvers = old.approvers /\ new.required = old.required
      /\ old.chain \in Chains
  BY <1>2 DEF RequestRecord, RequestStatus
<1> HIDE DEF new
<1>4. Approved(new) BY <1>1, <1>2, <1>3 DEF Approved, Sealed
<1>5. /\ slot' \in [Tokens -> 0..MaxRequests]
      /\ slot'[old.token] = 0 /\ \A t \in Tokens \ {old.token} : slot'[t] = slot[t]
  BY <1>1, <1>3, TokenAssumption DEF TokenIInv, TokenTypeOK
<1>6. \A t \in Tokens : slot'[t] # 0 => slot'[t] # r /\ slot'[t] = slot[t]
  BY <1>2, <1>5 DEF BridgeIInv
<1>7. tokenOwner' = tokenOwner /\ block' = block /\ signatureLimits' = signatureLimits
  BY <1>1 DEF ownerVars
<1>8. new.status \in Sealed BY <1>3 DEF Sealed
<1>9. bridged' \in [Chains -> [Tokens -> {"None", "InTransit", "Completed", "Locked"}]]
  BY <1>1, <1>3 DEF TokenIInv, TokenTypeOK
<1>10. BridgeIInv'
  <2> HIDE DEF old
  <2>1. requests' = [requests EXCEPT ![r] = new] BY <1>1
  <2>2. new.token = requests[r].token BY <1>3 DEF old
  <2> QED BY <2>1, <2>2, <1>2, <1>3, <1>4, <1>6, <1>7, <1>8, RequestReplaced
<1> QED BY <1>1, <1>5, <1>9, <1>10, StepOfBridge DEF TokenIInv, TokenTypeOK

(* A retry forgets the signatures, not who approved.                         *)
LEMMA StepRetries ==
  ASSUME TokenIInv, NEW r \in RequestId, RetryBridge(r)
  PROVE  TokenIInv'
<1> DEFINE old == requests[r]
           new == [old EXCEPT !.status = "Pending", !.signatures = <<>>]
<1>1. /\ old.status = "Failed"
      /\ requests' = [requests EXCEPT ![r] = new] /\ slot' = [slot EXCEPT ![old.token] = r]
      /\ UNCHANGED <<ownerVars, grantVars, block, operators, signatureLimits, bridged>>
  BY DEF RetryBridge
<1>2. old \in RequestRecord /\ BridgeIInv /\ r \in 1..MaxRequests BY RequestList DEF TokenIInv
<1>3. /\ new \in RequestRecord /\ new.status = "Pending" /\ new.token = old.token /\ new.token \in Tokens
      /\ new.signatures = <<>>
  <2>1. <<>> \in Seq(Accounts) BY EmptySeq
  <2> QED BY <1>2, <2>1 DEF RequestRecord, RequestStatus
<1> HIDE DEF new
<1>4. Approved(new)
  <2>1. Range(<<>>) = {} BY DEF Range
  <2> QED BY <1>3, <2>1 DEF Approved, Sealed
<1>5. /\ slot' \in [Tokens -> 0..MaxRequests]
      /\ slot'[old.token] = r /\ \A t \in Tokens \ {old.token} : slot'[t] = slot[t]
  BY <1>1, <1>2, <1>3, TokenAssumption DEF TokenIInv, TokenTypeOK
<1>6. ASSUME NEW t \in Tokens, slot'[t] # 0
      PROVE  \/ slot'[t] = r /\ t = new.token /\ new.status \in {"Pending", "Locked"}
             \/ slot'[t] # r /\ slot'[t] = slot[t]
  BY <1>2, <1>3, <1>5, <1>6 DEF BridgeIInv
<1>7. tokenOwner' = tokenOwner /\ block' = block /\ signatureLimits' = signatureLimits
  BY <1>1 DEF ownerVars
<1>8. old.status \notin Sealed BY <1>1 DEF Sealed
<1>9. BridgeIInv'
  <2> HIDE DEF old
  <2>1. requests' = [requests EXCEPT ![r] = new] BY <1>1
  <2>2. new.token = requests[r].token /\ requests[r].status \notin Sealed BY <1>3, <1>8 DEF old
  <2> QED BY <2>1, <2>2, <1>2, <1>3, <1>4, <1>6, <1>7, RequestReplaced
<1> QED BY <1>1, <1>5, <1>9, StepOfBridge DEF TokenIInv, TokenTypeOK

(* A signature to approve.  The one that completes the quorum locks the      *)
(* token: the valid signatures are some of those who approved.               *)
LEMMA StepSigns ==
  ASSUME TokenIInv, NEW operator \in Accounts, NEW r \in RequestId, SignBridge(operator, r)
  PROVE  TokenIInv'
<1> DEFINE old    == requests[r]
           signed == Append(old.signatures, operator)
           enough == ValidSignatures(signed) >= old.required
           new    == [old EXCEPT !.signatures = signed, !.approvers = @ \cup {operator},
                                 !.status = IF enough THEN "Locked" ELSE "Pending"]
<1>1. /\ old.status = "Pending" /\ requests' = [requests EXCEPT ![r] = new]
      /\ IF enough THEN Lock(old.token) ELSE UNCHANGED <<tokenOwner, units>>
      /\ UNCHANGED <<ownerCount, lastTo, verified, tokenCounter, totalSupply, approved, operatorFor,
                     block, operators, signatureLimits, slot, bridged>>
  BY DEF SignBridge, grantVars
<1>2. old \in RequestRecord /\ BridgeIInv /\ Approved(old) /\ TokenTypeOK /\ OwnersIInv
  BY RequestList DEF TokenIInv, BridgeIInv
<1>3. signed \in Seq(Accounts) /\ Range(signed) = Range(old.signatures) \cup {operator}
  BY <1>2, OneMoreSignature DEF RequestRecord
<1>4. /\ new.token = old.token /\ new.token \in Tokens /\ new.required = old.required
      /\ new.required \in Nat
      /\ new.signatures = signed /\ new.approvers = old.approvers \cup {operator}
      /\ new.approvers \subseteq Accounts
      /\ new.status = IF enough THEN "Locked" ELSE "Pending"
  BY <1>2 DEF RequestRecord
<1>5. new \in RequestRecord
  BY <1>2, <1>3 DEF RequestRecord, RequestStatus
<1>6. Range(signed) \subseteq new.approvers BY <1>1, <1>2, <1>3, <1>4 DEF Approved
<1>7. ValidSignatures(signed) <= Cardinality(new.approvers)
  <2>1. IsFiniteSet(new.approvers) BY <1>4, TokenAssumption, FS_Subset
  <2>2. Range(signed) \cap operators \subseteq new.approvers BY <1>6
  <2> HIDE DEF new, signed
  <2>3. Cardinality(Range(signed) \cap operators) <= Cardinality(new.approvers)
    BY <2>1, <2>2, FS_Subset
  <2> QED BY <2>3 DEF ValidSignatures
<1>8. ValidSignatures(signed) \in Nat /\ Cardinality(new.approvers) \in Nat
  <2>1. operators \subseteq Accounts /\ IsFiniteSet(Accounts) BY <1>2, TokenAssumption DEF TokenTypeOK
  <2>2. Range(signed) \cap operators \subseteq Accounts BY <2>1
  <2> HIDE DEF new, signed
  <2>3. IsFiniteSet(Range(signed) \cap operators) /\ IsFiniteSet(new.approvers)
    BY <1>4, <2>1, <2>2, FS_Subset
  <2> QED BY <2>3, FS_CardinalityType DEF ValidSignatures
<1> HIDE DEF new, signed
<1>9. Approved(new)
  <2>1. new.status \in Sealed => Cardinality(new.approvers) >= new.required
    BY <1>4, <1>7, <1>8 DEF Sealed
  <2> QED BY <1>4, <1>6, <2>1 DEF Approved
<1>10. new.status \in {"Pending", "Locked"} BY <1>4
<1>11. \A t \in Tokens : tokenOwner'[t] = Zero =>
         tokenOwner[t] = Zero \/ (t = new.token /\ new.status \in Sealed)
  BY <1>1, <1>2, <1>4 DEF Lock, Sealed, TokenTypeOK
<1>12. /\ tokenOwner' \in [Tokens -> Accounts \cup {Zero, Nobody}]
       /\ \A t \in Tokens : (tokenOwner'[t] = Nobody) <=> (tokenOwner[t] = Nobody)
  <2>1. Zero # Nobody BY DEF Zero, Nobody
  <2> QED BY <1>1, <1>2, <1>4, <2>1 DEF Lock, TokenTypeOK
<1>13. units' \in [Tokens -> [Accounts -> Nat]]
  <2>1. CASE ~ enough BY <1>1, <1>2, <2>1 DEF TokenTypeOK
  <2>2. CASE enough /\ tokenOwner[old.token] = Zero BY <1>1, <1>2, <2>2 DEF Lock, TokenTypeOK
  <2>3. CASE enough /\ tokenOwner[old.token] # Zero
    <3>1. units' = [units EXCEPT ![old.token][tokenOwner[old.token]] = 0] BY <1>1, <2>3 DEF Lock
    <3>2. units \in [Tokens -> [Accounts -> Nat]] BY <1>2 DEF TokenTypeOK
    <3> QED BY <3>1, <3>2
  <2> QED BY <2>1, <2>2, <2>3
<1>14. BridgeIInv'
  <2>1. requests' = [requests EXCEPT ![r] = new] /\ UNCHANGED <<block, signatureLimits>> BY <1>1
  <2>2. new.token = requests[r].token /\ requests[r].status \notin Sealed BY <1>1, <1>4 DEF Sealed
  <2>3. ASSUME NEW t \in Tokens, slot'[t] # 0
        PROVE  \/ slot'[t] = r /\ t = new.token /\ new.status \in {"Pending", "Locked"}
               \/ slot'[t] # r /\ slot'[t] = slot[t]
    BY <1>1, <1>2, <1>4, <1>10, <2>3 DEF BridgeIInv
  <2> HIDE DEF old
  <2> QED BY <2>1, <2>2, <2>3, <1>2, <1>5, <1>9, <1>11, RequestReplaced
<1>15. OwnersIInv'
  <2>1. UNCHANGED <<tokenCounter, totalSupply>> BY <1>1
  <2> QED BY <1>2, <1>12, <2>1, OwnersKept
<1>16. TokenTypeOK'
  BY <1>1, <1>2, <1>12, <1>13 DEF TokenTypeOK
<1> QED BY <1>14, <1>15, <1>16 DEF TokenIInv

(* The admin gives a locked token back to the sender of a request that       *)
(* failed: the zero address loses it.                                        *)
LEMMA StepUnlocks ==
  ASSUME TokenIInv, NEW r \in RequestId, UnlockFailed(r)
  PROVE  TokenIInv'
<1> DEFINE n == requests[r].token
           sender == requests[r].sender
<1>1. /\ tokenOwner[n] = Zero /\ tokenOwner' = [tokenOwner EXCEPT ![n] = sender]
      /\ units' = [units EXCEPT ![n][sender] = 1]
      /\ ownerCount' = [ownerCount EXCEPT ![sender] = @ + 1]
      /\ UNCHANGED <<lastTo, verified, tokenCounter, totalSupply, approved, operatorFor, bridgeVars>>
  BY DEF UnlockFailed, grantVars
<1>2. n \in Tokens /\ sender \in Accounts /\ BridgeIInv /\ TokenTypeOK /\ OwnersIInv
  BY RequestList DEF TokenIInv, RequestRecord
<1> HIDE DEF n, sender
<1>3. Zero # Nobody /\ Zero \notin Accounts /\ Nobody \notin Accounts
  BY TokenAssumption DEF Zero, Nobody
<1>4. /\ tokenOwner' \in [Tokens -> Accounts \cup {Zero, Nobody}]
      /\ \A t \in Tokens : (tokenOwner'[t] = Nobody) <=> (tokenOwner[t] = Nobody)
      /\ \A t \in Tokens : tokenOwner'[t] = Zero => tokenOwner[t] = Zero
  BY <1>1, <1>2, <1>3 DEF TokenTypeOK
<1>5. units' \in [Tokens -> [Accounts -> Nat]]
  BY <1>1, <1>2 DEF TokenTypeOK
<1>6. ownerCount' \in [Accounts -> Nat] BY <1>1, <1>2 DEF TokenTypeOK
<1>9. OwnersIInv'
  <2>1. UNCHANGED <<tokenCounter, totalSupply>> BY <1>1
  <2> QED BY <1>2, <1>4, <2>1, OwnersKept
<1>10. BridgeIInv' BY <1>1, <1>2, <1>4, BridgeKept DEF bridgeVars, BridgeIInv
<1>11. TokenTypeOK' BY <1>1, <1>2, <1>4, <1>5, <1>6 DEF TokenTypeOK, bridgeVars
<1> QED BY <1>9, <1>10, <1>11 DEF TokenIInv

(* Burning takes one token from the supply.                                  *)
LEMMA StepBurns ==
  ASSUME TokenIInv, NEW caller \in Accounts, NEW n \in Tokens, NEW chain \in Chains,
         BurnBridged(caller, n, chain)
  PROVE  TokenIInv'
<1>1. /\ tokenOwner[n] = caller /\ ownerCount[caller] > 0
      /\ ownerCount' = [ownerCount EXCEPT ![caller] = @ - 1]
      /\ tokenOwner' = [tokenOwner EXCEPT ![n] = Nobody]
      /\ units' = [units EXCEPT ![n][caller] = 0]
      /\ totalSupply' = totalSupply - 1
      /\ bridged' = [bridged EXCEPT ![chain][n] = "Locked"]
      /\ UNCHANGED <<lastTo, verified, tokenCounter, approved, operatorFor,
                     block, operators, signatureLimits, requests, slot>>
  BY DEF BurnBridged, grantVars
<1>2. BridgeIInv /\ TokenTypeOK /\ OwnersIInv BY DEF TokenIInv
<1>3. Zero # Nobody /\ Nobody \notin Accounts BY TokenAssumption DEF Zero, Nobody
<1>4. /\ tokenOwner' \in [Tokens -> Accounts \cup {Zero, Nobody}]
      /\ \A t \in Tokens : tokenOwner'[t] = Zero => tokenOwner[t] = Zero
      /\ \A t \in Tokens : t > tokenCounter' => tokenOwner'[t] = Nobody
  BY <1>1, <1>2, <1>3 DEF TokenTypeOK, OwnersIInv
<1>5. n \in Owned /\ Owned' = Owned \ {n}
  BY <1>1, <1>2, <1>3 DEF Owned, Tokens, TokenTypeOK
<1>6. Cardinality(Owned) \in Nat /\ Cardinality(Owned') = Cardinality(Owned) - 1 /\ Cardinality(Owned') \in Nat
  <2>1. Owned \in SUBSET Tokens BY DEF Owned
  <2>2. IsFiniteSet(Owned) /\ Cardinality(Owned) \in Nat BY <2>1, TokensAreFinite
  <2>3. Cardinality(Owned \ {n}) = Cardinality(Owned) - 1 BY <1>5, <2>2, FS_RemoveElement
  <2>4. Cardinality(Owned \ {n}) \in Nat BY <2>1, TokensAreFinite
  <2> QED BY <1>5, <2>2, <2>3, <2>4
<1>7. ownerCount' \in [Accounts -> Nat] BY <1>1, <1>2 DEF TokenTypeOK
<1>10. totalSupply' = Cardinality(Owned') /\ totalSupply' \in Nat
  BY <1>1, <1>2, <1>6 DEF OwnersIInv, SupplyCountsOwned
<1>11. OwnersIInv' BY <1>4, <1>10 DEF OwnersIInv, SupplyCountsOwned, Tokens
<1>12. BridgeIInv' BY <1>1, <1>2, <1>4, BridgeKept DEF BridgeIInv
<1>13. units' \in [Tokens -> [Accounts -> Nat]] BY <1>1, <1>2 DEF TokenTypeOK
<1>14. bridged' \in [Chains -> [Tokens -> {"None", "InTransit", "Completed", "Locked"}]]
  BY <1>1, <1>2 DEF TokenTypeOK
<1>15. TokenTypeOK' BY <1>1, <1>2, <1>4, <1>7, <1>10, <1>13, <1>14 DEF TokenTypeOK
<1> QED BY <1>11, <1>12, <1>15 DEF TokenIInv

(* The grants.                                                               *)
LEMMA StepGrants ==
  ASSUME TokenIInv, NEW caller \in Accounts, NEW to \in Accounts,
         \/ \E t \in Tokens : Approve(caller, to, t)
         \/ \E granted \in BOOLEAN : SetApprovalForAll(caller, to, granted)
  PROVE  TokenIInv'
<1>1. UNCHANGED <<ownerVars, bridgeVars>> BY DEF Approve, SetApprovalForAll
<1>2. approved' \in [Tokens -> Accounts \cup {Nobody}] /\ operatorFor' \subseteq Accounts \X Accounts
  <2>1. approved \in [Tokens -> Accounts \cup {Nobody}] /\ operatorFor \subseteq Accounts \X Accounts
    BY DEF TokenIInv, TokenTypeOK
  <2>2. CASE \E t \in Tokens : Approve(caller, to, t) BY <2>1, <2>2 DEF Approve
  <2>3. CASE \E granted \in BOOLEAN : SetApprovalForAll(caller, to, granted)
    <3>1. approved' = approved /\ operatorFor' \subseteq operatorFor \cup {<<caller, to>>}
      BY <2>3 DEF SetApprovalForAll
    <3> QED BY <2>1, <3>1
  <2> QED BY <2>2, <2>3
<1> QED BY <1>1, <1>2, StepOfUnits DEF ownerVars, TokenIInv, TokenTypeOK

LEMMA StepVerifies ==
  ASSUME TokenIInv, NEW caller \in Accounts, NEW t \in Tokens, NEW status \in BOOLEAN,
         VerifyCompliance(caller, t, status)
  PROVE  TokenIInv'
<1>1. /\ verified' = [verified EXCEPT ![t] = status]
      /\ UNCHANGED <<tokenOwner, ownerCount, units, lastTo, tokenCounter, totalSupply, grantVars, bridgeVars>>
  BY DEF VerifyCompliance
<1>2. verified' \in [Tokens -> BOOLEAN] BY <1>1 DEF TokenIInv, TokenTypeOK
<1> QED BY <1>1, <1>2, StepOfUnits DEF grantVars, TokenIInv, TokenTypeOK

(* Units go from one account to another, or to the same: what is left of     *)
(* them is read before the receiver's balance is.                            *)
LEMMA UnitsMove ==
  ASSUME units \in [Tokens -> [Accounts -> Nat]], NEW t \in Tokens,
         NEW from \in Accounts, NEW to \in Accounts, NEW amount \in Nat, units[t][from] >= amount,
         units' = [[units EXCEPT ![t][from] = @ - amount] EXCEPT ![t][to] = @ + amount]
  PROVE  units' \in [Tokens -> [Accounts -> Nat]]
<1> DEFINE left == [units EXCEPT ![t][from] = @ - amount]
<1>1. units[t][from] - amount \in Nat OBVIOUS
<1>2. left \in [Tokens -> [Accounts -> Nat]] BY <1>1
<1>3. units' = [left EXCEPT ![t][to] = @ + amount] OBVIOUS
<1> HIDE DEF left
<1> QED BY <1>2, <1>3

LEMMA StepMovesUnits ==
  ASSUME TokenIInv, NEW caller \in Accounts, NEW from \in Accounts, NEW to \in Accounts,
         NEW t \in Tokens, NEW amount \in 0..MaxUnits, TransferUnits(caller, from, to, t, amount)
  PROVE  TokenIInv'
<1>1. /\ units[t][from] >= amount
      /\ units' = [[units EXCEPT ![t][from] = @ - amount] EXCEPT ![t][to] = @ + amount]
      /\ UNCHANGED <<tokenOwner, ownerCount, lastTo, verified, tokenCounter, totalSupply, grantVars, bridgeVars>>
  BY DEF TransferUnits
<1>2. amount \in Nat BY TokenAssumption
<1>3. units' \in [Tokens -> [Accounts -> Nat]] BY <1>1, <1>2, UnitsMove DEF TokenIInv, TokenTypeOK
<1> QED BY <1>1, <1>3, StepOfUnits DEF grantVars, TokenIInv, TokenTypeOK

(* The bridge's configuration and its clock.                                 *)
LEMMA StepConfigures ==
  ASSUME TokenIInv,
         \/ NextBlock
         \/ \E a \in Accounts : AddOperator(a) \/ RemoveOperator(a)
         \/ \E limits \in SignatureLimits : UpdateBridgeConfig(limits)
  PROVE  TokenIInv'
<1>1. UNCHANGED <<ownerVars, grantVars, requests, slot, bridged>>
  BY DEF AddOperator, RemoveOperator, UpdateBridgeConfig, NextBlock
<1>2. operators' \subseteq Accounts
  BY DEF AddOperator, RemoveOperator, UpdateBridgeConfig, NextBlock, TokenIInv, TokenTypeOK
<1>3. block' \in Nat /\ signatureLimits' \in Nat \X Nat
  <2>1. block \in Nat /\ signatureLimits \in Nat \X Nat BY DEF TokenIInv, BridgeIInv
  <2>2. CASE NextBlock BY <2>1, <2>2 DEF NextBlock
  <2>3. CASE \E a \in Accounts : AddOperator(a) \/ RemoveOperator(a)
    BY <2>1, <2>3 DEF AddOperator, RemoveOperator
  <2>4. CASE \E limits \in SignatureLimits : UpdateBridgeConfig(limits)
    BY <2>1, <2>4, TokenAssumption DEF UpdateBridgeConfig
  <2> QED BY <2>2, <2>3, <2>4
<1>4. BridgeIInv' BY <1>1, <1>3, BridgeKept DEF TokenIInv, ownerVars
<1> QED BY <1>1, <1>2, <1>4, StepOfBridge DEF TokenIInv, TokenTypeOK

LEMMA TokenStep ==
  ASSUME TokenIInv, TokenNext
  PROVE  TokenIInv'
<1>1. CASE Registering BY <1>1, StepRegisters DEF Registering
<1>2. CASE Verifying BY <1>2, StepVerifies DEF Verifying
<1>3. CASE OwnershipNext
  BY <1>3, StepTransfers, StepMovesUnits, StepGrants DEF OwnershipNext
<1>4. CASE BridgeNext
  <2>1. ASSUME NEW a \in Accounts, NEW r \in RequestId,
               RejectBridge(a, r) \/ SignBridge(a, r) \/ ExecuteBridge(a, r)
        PROVE  TokenIInv'
    BY <2>1, StepRejects, StepSigns, StepExecutes
  <2>2. ASSUME NEW r \in RequestId, UnlockFailed(r) \/ RetryBridge(r) PROVE TokenIInv'
    BY <2>2, StepUnlocks, StepRetries
  <2>3. ASSUME NEW caller \in Accounts, NEW t \in Tokens, NEW chain \in Chains, NEW timeout \in Timeouts,
               NEW required \in Required, InitiateBridge(caller, t, chain, required, timeout)
        PROVE  TokenIInv'
    BY <2>3, StepInitiates
  <2> QED BY <1>4, <2>1, <2>2, <2>3, StepReceives, StepBurns, StepConfigures DEF BridgeNext, RequestId
<1> QED BY <1>1, <1>2, <1>3, <1>4 DEF TokenNext

-----------------------------------------------------------------------------
(* The market, the dividends and the votes                                   *)

ProposalRecord ==
  [quorum : Nat, yes : Nat, no : Nat, status : {"Open", "Executed", "Rejected"}, voters : SUBSET Accounts]

Holdings == [Tokens -> [Accounts -> Nat]]

(* What is compared with the most that was ever held is compared with        *)
(* something that covers what is held now.                                   *)
PeakCoversUnits == \A t \in Tokens, a \in Accounts : units[t][a] <= peak[t][a]

SharesIInv ==
  /\ TokenIInv /\ SharesTypeOK /\ tokenProposals \in [Tokens -> Seq(ProposalRecord)]
  /\ PeakCoversUnits
  /\ EscrowCoversAsk /\ CreditsWithinPeak /\ VotesAreCastOnce

(* The types of the records per holder, one by one.                          *)
HoldingsOK ==
  /\ dividendBalance \in Holdings /\ checkpoint \in Holdings /\ escrowed \in Holdings
  /\ paidOut \in Holdings /\ peak \in Holdings /\ units \in Holdings
  /\ asks \in [Tokens -> [Accounts -> [price : Nat, amount : Nat]]]
  /\ dividendsPerShare \in [Tokens -> Nat] /\ totalShares \in [Tokens -> Nat]

LEMMA HoldingsTyped ==
  ASSUME TokenTypeOK
  PROVE  SharesTypeOK <=> HoldingsOK
BY DEF SharesTypeOK, HoldingsOK, Holdings, TokenTypeOK

-----------------------------------------------------------------------------
(* Arithmetic                                                                *)

(* A credit of h units, which are at most the new peak q, for the dividends  *)
(* between the checkpoint c and c + d.                                       *)
LEMMA CreditFits ==
  ASSUME NEW s \in Nat \ {0}, NEW h \in Nat, NEW p \in Nat, NEW q \in Nat,
         NEW b \in Nat, NEW c \in Nat, NEW d \in Nat,
         h <= q, p <= q, b * s <= p * c
  PROVE  /\ (h * d) \div s \in Nat
         /\ (b + (h * d) \div s) * s <= q * (c + d)
<1> DEFINE k == (h * d) \div s
<1>1. h * d \in Nat /\ h * d <= q * d /\ q * d \in Nat BY ProductGrows
<1>2. k \in Nat /\ k * s <= h * d BY <1>1, QuotientFits
<1>3. p * c <= q * c /\ p * c \in Nat /\ q * c \in Nat BY ProductGrows
<1> HIDE DEF k
<1>4. (b + k) * s = b * s + k * s BY <1>2
<1>5. q * (c + d) = q * c + q * d OBVIOUS
<1>6. b * s \in Nat /\ k * s \in Nat BY <1>2
<1>7. b * s + k * s <= q * c + q * d BY <1>1, <1>2, <1>3, <1>6
<1>8. (b + k) * s <= q * (c + d) BY <1>4, <1>5, <1>7
<1> QED BY <1>2, <1>8 DEF k

-----------------------------------------------------------------------------
(* What a step does to each of the three                                     *)

(* The most ever held only grows, and covers what is held after the step.    *)
PeaksGrow ==
  /\ peak' \in Holdings /\ units' \in Holdings
  /\ \A t \in Tokens, a \in Accounts : peak[t][a] <= peak'[t][a] /\ units'[t][a] <= peak'[t][a]

LEMMA PeaksFollow ==
  ASSUME HoldingsOK, units' \in Holdings, Peaks
  PROVE  PeaksGrow /\ PeakCoversUnits'
<1>1. \A t \in Tokens, a \in Accounts :
        /\ units'[t][a] \in Nat /\ peak[t][a] \in Nat
        /\ peak'[t][a] = IF units'[t][a] > peak[t][a] THEN units'[t][a] ELSE peak[t][a]
  BY DEF Peaks, HoldingsOK, Holdings
<1>2. peak' \in Holdings BY <1>1 DEF Peaks, Holdings
<1>3. \A t \in Tokens, a \in Accounts : peak[t][a] <= peak'[t][a] /\ units'[t][a] <= peak'[t][a]
  BY <1>1
<1> QED BY <1>2, <1>3 DEF PeaksGrow, PeakCoversUnits, Tokens

LEMMA DividendsKept ==
  ASSUME HoldingsOK, CreditsWithinPeak, PeaksGrow,
         UNCHANGED <<dividendBalance, paidOut, checkpoint>>,
         dividendsPerShare' \in [Tokens -> Nat],
         \A t \in Tokens : dividendsPerShare[t] <= dividendsPerShare'[t]
  PROVE  CreditsWithinPeak'
<1> SUFFICES ASSUME NEW t \in Tokens, NEW a \in Accounts
             PROVE  /\ checkpoint'[t][a] <= dividendsPerShare'[t]
                    /\ (dividendBalance'[t][a] + paidOut'[t][a]) * Scaling <= peak'[t][a] * checkpoint'[t][a]
  BY DEF CreditsWithinPeak, Tokens
<1>1. /\ dividendBalance[t][a] \in Nat /\ paidOut[t][a] \in Nat /\ checkpoint[t][a] \in Nat
      /\ dividendsPerShare[t] \in Nat /\ dividendsPerShare'[t] \in Nat
      /\ peak[t][a] \in Nat /\ peak'[t][a] \in Nat /\ peak[t][a] <= peak'[t][a]
      /\ dividendsPerShare[t] <= dividendsPerShare'[t]
  BY DEF HoldingsOK, Holdings, PeaksGrow
<1>2. /\ checkpoint[t][a] <= dividendsPerShare[t]
      /\ (dividendBalance[t][a] + paidOut[t][a]) * Scaling <= peak[t][a] * checkpoint[t][a]
  BY DEF CreditsWithinPeak
<1> DEFINE b == (dividendBalance[t][a] + paidOut[t][a]) * Scaling
           m == peak[t][a] * checkpoint[t][a]
           n == peak'[t][a] * checkpoint[t][a]
<1>3. b \in Nat BY <1>1, SharesAssumption
<1>4. m <= n /\ m \in Nat /\ n \in Nat BY <1>1, ProductGrows
<1>5. b <= m BY <1>2
<1> HIDE DEF b, m, n
<1>6. b <= n BY <1>3, <1>4, <1>5
<1>7. checkpoint[t][a] <= dividendsPerShare'[t] BY <1>1, <1>2
<1> QED BY <1>6, <1>7 DEF b, n

LEMMA VotesKept ==
  ASSUME HoldingsOK, VotesAreCastOnce, PeaksGrow, UNCHANGED tokenProposals,
         tokenProposals \in [Tokens -> Seq(ProposalRecord)]
  PROVE  VotesAreCastOnce'
<1> SUFFICES ASSUME NEW t \in Tokens, NEW p \in DOMAIN tokenProposals[t]
             PROVE  tokenProposals[t][p].yes + tokenProposals[t][p].no
                      <= SumFunctionOnSet(peak'[t], tokenProposals[t][p].voters)
  BY DEF VotesAreCastOnce, Tokens
<1>1. tokenProposals[t] \in Seq(ProposalRecord) OBVIOUS
<1>2. tokenProposals[t][p] \in ProposalRecord BY <1>1, LenProperties
<1> DEFINE v == tokenProposals[t][p].voters
<1>3. v \subseteq Accounts /\ tokenProposals[t][p].yes \in Nat /\ tokenProposals[t][p].no \in Nat
  BY <1>2 DEF ProposalRecord
<1>4. tokenProposals[t][p].yes + tokenProposals[t][p].no <= SumFunctionOnSet(peak[t], v)
  BY DEF VotesAreCastOnce
<1> HIDE DEF v
<1>5. IsFiniteSet(v) BY <1>3, TokenAssumption, FS_Subset
<1>6. \A a \in v : peak[t][a] \in Int /\ peak'[t][a] \in Int /\ peak[t][a] <= peak'[t][a]
  BY <1>3 DEF HoldingsOK, Holdings, PeaksGrow
<1>7. SumFunctionOnSet(peak[t], v) <= SumFunctionOnSet(peak'[t], v) BY <1>5, <1>6, SumMonotone
<1>8. SumFunctionOnSet(peak[t], v) \in Int /\ SumFunctionOnSet(peak'[t], v) \in Int
  BY <1>5, <1>6, SumType
<1>9. tokenProposals[t][p].yes + tokenProposals[t][p].no <= SumFunctionOnSet(peak'[t], v)
  BY <1>3, <1>4, <1>7, <1>8
<1> QED BY <1>9 DEF v

(* Accounts are credited with the dividends since their checkpoints, on what *)
(* they hold or are about to hold.                                           *)
LEMMA StepSyncs ==
  ASSUME HoldingsOK, CreditsWithinPeak, PeaksGrow, NEW t \in Tokens, NEW held,
         \A a \in DOMAIN held : held[a] \in Nat /\ held[a] <= peak'[t][a],
         Sync(t, held), UNCHANGED <<dividendsPerShare, paidOut>>
  PROVE  dividendBalance' \in Holdings /\ checkpoint' \in Holdings /\ CreditsWithinPeak'
<1> DEFINE dps == dividendsPerShare[t]
           credit(a) == (held[a] * (dps - checkpoint[t][a])) \div Scaling
<1>1. /\ dividendBalance \in Holdings /\ checkpoint \in Holdings /\ dps \in Nat
      /\ paidOut \in Holdings /\ peak \in Holdings /\ peak' \in Holdings /\ dividendsPerShare \in [Tokens -> Nat]
  BY DEF HoldingsOK, PeaksGrow
<1>2. /\ dividendBalance' = [dividendBalance EXCEPT ![t] = [a \in Accounts |->
           IF a \in DOMAIN held THEN dividendBalance[t][a] + credit(a) ELSE dividendBalance[t][a]]]
      /\ checkpoint' = [checkpoint EXCEPT ![t] = [a \in Accounts |->
           IF a \in DOMAIN held THEN dps ELSE checkpoint[t][a]]]
  BY DEF Sync
<1>3. ASSUME NEW a \in Accounts, a \in DOMAIN held
      PROVE  /\ credit(a) \in Nat
             /\ (dividendBalance[t][a] + credit(a) + paidOut[t][a]) * Scaling <= peak'[t][a] * dps
  <2> DEFINE d == dps - checkpoint[t][a]
             b == dividendBalance[t][a] + paidOut[t][a]
             c == checkpoint[t][a]
             k == credit(a)
  <2>1. /\ Scaling \in Nat \ {0} /\ held[a] \in Nat /\ peak[t][a] \in Nat /\ peak'[t][a] \in Nat
        /\ dividendBalance[t][a] \in Nat /\ paidOut[t][a] \in Nat /\ c \in Nat
        /\ held[a] <= peak'[t][a]
    BY <1>1, <1>3, SharesAssumption DEF Holdings
  <2>2. peak[t][a] <= peak'[t][a] BY DEF PeaksGrow
  <2>3. c <= dps /\ b * Scaling <= peak[t][a] * c BY DEF CreditsWithinPeak
  <2>4. d \in Nat /\ b \in Nat /\ dps = c + d BY <1>1, <2>1, <2>3
  <2>5. k = (held[a] * d) \div Scaling OBVIOUS
  <2> HIDE DEF b, c, d, k
  <2>6. (held[a] * d) \div Scaling \in Nat /\ (b + (held[a] * d) \div Scaling) * Scaling <= peak'[t][a] * (c + d)
    BY <2>1, <2>2, <2>3, <2>4, CreditFits
  <2>7. k \in Nat /\ (b + k) * Scaling <= peak'[t][a] * dps BY <2>4, <2>5, <2>6
  <2>8. b + k = dividendBalance[t][a] + k + paidOut[t][a] BY <2>1, <2>7 DEF b
  <2>9. (dividendBalance[t][a] + k + paidOut[t][a]) * Scaling <= peak'[t][a] * dps BY <2>7, <2>8
  <2> HIDE DEF credit
  <2> QED BY <2>7, <2>9 DEF k
<1> HIDE DEF credit, dps
<1>4. dividendBalance' \in Holdings
  <2>1. \A a \in Accounts : dividendBalance[t][a] \in Nat BY <1>1 DEF Holdings
  <2>2. \A a \in Accounts : (IF a \in DOMAIN held THEN dividendBalance[t][a] + credit(a)
                             ELSE dividendBalance[t][a]) \in Nat
    BY <1>3, <2>1
  <2> QED BY <1>1, <1>2, <2>2 DEF Holdings
<1>5. checkpoint' \in Holdings BY <1>1, <1>2 DEF Holdings
<1>6. ASSUME NEW u \in Tokens, NEW a \in Accounts
      PROVE  /\ checkpoint'[u][a] <= dividendsPerShare[u]
             /\ (dividendBalance'[u][a] + paidOut[u][a]) * Scaling <= peak'[u][a] * checkpoint'[u][a]
  <2>1. CASE u = t /\ a \in DOMAIN held
    <3>1. dividendBalance'[u][a] = dividendBalance[t][a] + credit(a) /\ checkpoint'[u][a] = dps
      BY <1>1, <1>2, <2>1 DEF Holdings
    <3>2. dps <= dividendsPerShare[u] BY <1>1, <2>1 DEF dps
    <3> QED BY <1>3, <2>1, <3>1, <3>2
  <2>2. CASE ~ (u = t /\ a \in DOMAIN held)
    <3>1. dividendBalance'[u][a] = dividendBalance[u][a] /\ checkpoint'[u][a] = checkpoint[u][a]
      BY <1>1, <1>2, <2>2 DEF Holdings
    <3>2. /\ checkpoint[u][a] <= dividendsPerShare[u]
          /\ (dividendBalance[u][a] + paidOut[u][a]) * Scaling <= peak[u][a] * checkpoint[u][a]
      BY DEF CreditsWithinPeak
    <3>3. /\ peak[u][a] \in Nat /\ peak'[u][a] \in Nat /\ checkpoint[u][a] \in Nat /\ peak[u][a] <= peak'[u][a]
          /\ dividendBalance[u][a] \in Nat /\ paidOut[u][a] \in Nat /\ Scaling \in Nat
      BY <1>1, SharesAssumption DEF Holdings, PeaksGrow
    <3> DEFINE b == (dividendBalance[u][a] + paidOut[u][a]) * Scaling
               m == peak[u][a] * checkpoint[u][a]
               n == peak'[u][a] * checkpoint[u][a]
    <3>4. m <= n /\ m \in Nat /\ n \in Nat BY <3>3, ProductGrows
    <3>5. b <= m /\ b \in Nat BY <3>2, <3>3
    <3> HIDE DEF b, m, n
    <3>6. b <= n BY <3>4, <3>5
    <3> QED BY <3>1, <3>2, <3>6 DEF b, n
  <2> QED BY <2>1, <2>2
<1>7. CreditsWithinPeak' BY <1>6 DEF CreditsWithinPeak, Tokens
<1> QED BY <1>4, <1>5, <1>7

-----------------------------------------------------------------------------
(* The steps of the market                                                   *)

LEMMA SharesStart ==
  ASSUME TokenInit, SharesInit
  PROVE  SharesIInv
<1>1. TokenIInv BY TokenStarts
<1>2. HoldingsOK
  <2>1. \A x \in Nat : PerHolder(x) \in Holdings BY DEF PerHolder, Holdings
  <2>2. /\ dividendBalance \in Holdings /\ checkpoint \in Holdings /\ escrowed \in Holdings
        /\ paidOut \in Holdings /\ peak \in Holdings
    BY <2>1 DEF SharesInit
  <2>3. units \in Holdings BY DEF TokenInit, Holdings
  <2>4. asks \in [Tokens -> [Accounts -> [price : Nat, amount : Nat]]]
    BY DEF SharesInit, PerHolder, NoAsk
  <2>5. dividendsPerShare \in [Tokens -> Nat] /\ totalShares \in [Tokens -> Nat] BY DEF SharesInit
  <2> QED BY <2>2, <2>3, <2>4, <2>5 DEF HoldingsOK
<1>3. SharesTypeOK BY <1>1, <1>2, HoldingsTyped DEF TokenIInv
<1>4. /\ tokenProposals \in [Tokens -> Seq(ProposalRecord)]
      /\ \A t \in Tokens : tokenProposals[t] = <<>>
  <2>1. <<>> \in Seq(ProposalRecord) BY EmptySeq
  <2> QED BY <2>1 DEF SharesInit
<1>5. \A t \in Tokens, a \in Accounts :
        /\ units[t][a] = 0 /\ peak[t][a] = 0 /\ checkpoint[t][a] = 0 /\ dividendsPerShare[t] = 0
        /\ dividendBalance[t][a] = 0 /\ paidOut[t][a] = 0 /\ escrowed[t][a] = 0 /\ asks[t][a].amount = 0
  BY DEF SharesInit, TokenInit, PerHolder, NoAsk
<1>6. PeakCoversUnits /\ EscrowCoversAsk BY <1>5 DEF PeakCoversUnits, EscrowCoversAsk
<1>7. CreditsWithinPeak
  <2>1. Scaling \in Nat BY SharesAssumption
  <2> QED BY <1>5, <2>1 DEF CreditsWithinPeak
<1>8. VotesAreCastOnce BY <1>4 DEF VotesAreCastOnce
<1> QED BY <1>1, <1>3, <1>4, <1>6, <1>7, <1>8 DEF SharesIInv

LEMMA SharesFacts ==
  ASSUME SharesIInv
  PROVE  /\ TokenIInv /\ HoldingsOK /\ tokenProposals \in [Tokens -> Seq(ProposalRecord)]
         /\ PeakCoversUnits /\ EscrowCoversAsk /\ CreditsWithinPeak /\ VotesAreCastOnce
BY HoldingsTyped DEF SharesIInv, TokenIInv

(* A step of the token, which leaves the market alone.                       *)
LEMMA StepOfToken ==
  ASSUME SharesIInv, TokenIInv', UNCHANGED shareVars, Peaks
  PROVE  SharesIInv'
<1>1. units' \in Holdings BY DEF TokenIInv, TokenTypeOK, Holdings, Tokens
<1>2. PeaksGrow /\ PeakCoversUnits' BY <1>1, SharesFacts, PeaksFollow
<1>3. HoldingsOK'
  BY <1>1, <1>2, SharesFacts DEF HoldingsOK, shareVars, PeaksGrow, Holdings, Tokens
<1>4. SharesTypeOK' BY <1>3, HoldingsTyped DEF TokenIInv, SharesTypeOK, HoldingsOK, Holdings
<1>5. CreditsWithinPeak'
  <2>1. UNCHANGED <<dividendBalance, paidOut, checkpoint, dividendsPerShare>> BY DEF shareVars
  <2>2. dividendsPerShare \in [Tokens -> Nat] BY SharesFacts DEF HoldingsOK
  <2>3. \A t \in Tokens : dividendsPerShare[t] <= dividendsPerShare'[t] BY <2>1, <2>2
  <2> QED BY <1>2, <2>1, <2>2, <2>3, SharesFacts, DividendsKept
<1>6. VotesAreCastOnce' BY <1>2, SharesFacts, VotesKept DEF shareVars
<1>7. EscrowCoversAsk' BY SharesFacts DEF EscrowCoversAsk, shareVars, Tokens
<1>8. tokenProposals' \in [Tokens' -> Seq(ProposalRecord')]
  BY SharesFacts DEF shareVars, Tokens, ProposalRecord
<1> QED BY <1>2, <1>4, <1>5, <1>6, <1>7, <1>8 DEF SharesIInv

(* A step of the market, which moves units and leaves the rest of the token  *)
(* alone.                                                                    *)
LEMMA StepOfMarket ==
  ASSUME SharesIInv, UNCHANGED <<restOfToken, tokenProposals>>, Peaks, units' \in Holdings,
         totalShares' \in [Tokens -> Nat], dividendsPerShare' \in [Tokens -> Nat],
         dividendBalance' \in Holdings, checkpoint' \in Holdings, paidOut' \in Holdings,
         CreditsWithinPeak',
         escrowed' \in Holdings, asks' \in [Tokens -> [Accounts -> [price : Nat, amount : Nat]]],
         EscrowCoversAsk'
  PROVE  SharesIInv'
<1>1. TokenIInv'
  BY SharesFacts, StepOfUnits DEF restOfToken, grantVars, Holdings, TokenIInv, TokenTypeOK
<1>2. PeaksGrow /\ PeakCoversUnits' BY SharesFacts, PeaksFollow
<1>3. HoldingsOK' BY <1>2 DEF HoldingsOK, PeaksGrow, Holdings, Tokens
<1>4. SharesTypeOK' BY <1>1, <1>3 DEF TokenIInv, SharesTypeOK, HoldingsOK, Holdings
<1>5. VotesAreCastOnce' BY <1>2, SharesFacts, VotesKept
<1>6. tokenProposals' \in [Tokens' -> Seq(ProposalRecord')]
  BY SharesFacts DEF Tokens, ProposalRecord
<1> QED BY <1>1, <1>2, <1>4, <1>5, <1>6 DEF SharesIInv

(* Issued shares are credited with the dividends of before.                  *)
LEMMA StepIssues ==
  ASSUME SharesIInv, Peaks, NEW caller \in Accounts, NEW t \in Tokens, NEW to \in Accounts, NEW amount \in Nat,
         IssueShares(caller, t, to, amount)
  PROVE  SharesIInv'
<1> DEFINE held == [a \in {to} |-> units[t][a] + amount]
<1>1. /\ units' = [units EXCEPT ![t][to] = @ + amount]
      /\ totalShares' = [totalShares EXCEPT ![t] = @ + amount]
      /\ Sync(t, held)
      /\ UNCHANGED <<restOfToken, dividendsPerShare, asks, escrowed, tokenProposals, paidOut>>
  BY DEF IssueShares
<1>2. HoldingsOK BY SharesFacts
<1>3. units' \in Holdings /\ units'[t][to] = units[t][to] + amount /\ units[t][to] + amount \in Nat
  BY <1>1, <1>2 DEF HoldingsOK, Holdings
<1>4. totalShares' \in [Tokens -> Nat] BY <1>1, <1>2 DEF HoldingsOK
<1>5. PeaksGrow BY <1>2, <1>3, PeaksFollow
<1>6. \A a \in DOMAIN held : held[a] \in Nat /\ held[a] <= peak'[t][a]
  BY <1>3, <1>5 DEF PeaksGrow
<1> HIDE DEF held
<1>7. dividendBalance' \in Holdings /\ checkpoint' \in Holdings /\ CreditsWithinPeak'
  BY <1>1, <1>2, <1>5, <1>6, SharesFacts, StepSyncs
<1>8. EscrowCoversAsk' BY <1>1, SharesFacts DEF EscrowCoversAsk, Tokens
<1> QED BY <1>1, <1>2, <1>3, <1>4, <1>7, <1>8, StepOfMarket DEF HoldingsOK

(* A redemption is credited on what is left.                                 *)
LEMMA StepRedeems ==
  ASSUME SharesIInv, Peaks, NEW caller \in Accounts, NEW t \in Tokens, NEW from \in Accounts, NEW amount \in Nat,
         RedeemShares(caller, t, from, amount)
  PROVE  SharesIInv'
<1> DEFINE held == [a \in {from} |-> units[t][a] - amount]
<1>1. /\ units' = [units EXCEPT ![t][from] = @ - amount] /\ units[t][from] >= amount
      /\ totalShares' = [totalShares EXCEPT ![t] = IF @ < amount THEN 0 ELSE @ - amount]
      /\ Sync(t, held)
      /\ UNCHANGED <<restOfToken, dividendsPerShare, asks, escrowed, tokenProposals, paidOut>>
  BY DEF RedeemShares
<1>2. HoldingsOK BY SharesFacts
<1>3. units' \in Holdings /\ units'[t][from] = units[t][from] - amount /\ units[t][from] - amount \in Nat
  BY <1>1, <1>2 DEF HoldingsOK, Holdings
<1>4. totalShares' \in [Tokens -> Nat] BY <1>1, <1>2 DEF HoldingsOK
<1>5. PeaksGrow BY <1>2, <1>3, PeaksFollow
<1>6. \A a \in DOMAIN held : held[a] \in Nat /\ held[a] <= peak'[t][a]
  BY <1>3, <1>5 DEF PeaksGrow
<1> HIDE DEF held
<1>7. dividendBalance' \in Holdings /\ checkpoint' \in Holdings /\ CreditsWithinPeak'
  BY <1>1, <1>2, <1>5, <1>6, SharesFacts, StepSyncs
<1>8. EscrowCoversAsk' BY <1>1, SharesFacts DEF EscrowCoversAsk, Tokens
<1> QED BY <1>1, <1>2, <1>3, <1>4, <1>7, <1>8, StepOfMarket DEF HoldingsOK

(* A transfer is credited on what both sides held before it.                 *)
LEMMA StepTransfersShares ==
  ASSUME SharesIInv, Peaks, NEW caller \in Accounts, NEW t \in Tokens,
         NEW from \in Accounts, NEW to \in Accounts, NEW amount \in Nat,
         TransferOfShares(caller, t, from, to, amount)
  PROVE  SharesIInv'
<1> DEFINE held == [a \in {from, to} |-> units[t][a]]
<1>1. /\ units[t][from] >= amount /\ Sync(t, held)
      /\ units' = [[units EXCEPT ![t][from] = @ - amount] EXCEPT ![t][to] = @ + amount]
      /\ UNCHANGED <<restOfToken, totalShares, dividendsPerShare, asks, escrowed, tokenProposals, paidOut>>
  BY DEF TransferOfShares
<1>2. HoldingsOK BY SharesFacts
<1>3. units' \in Holdings BY <1>1, <1>2, UnitsMove DEF HoldingsOK, Holdings
<1>4. PeaksGrow BY <1>2, <1>3, PeaksFollow
<1>5. \A a \in Accounts : units[t][a] \in Nat /\ units[t][a] <= peak[t][a] /\ peak[t][a] \in Nat
                          /\ peak[t][a] <= peak'[t][a] /\ peak'[t][a] \in Nat
  BY <1>2, <1>4, SharesFacts DEF PeakCoversUnits, PeaksGrow, HoldingsOK, Holdings
<1>6. \A a \in DOMAIN held : held[a] \in Nat /\ held[a] <= peak'[t][a]
  BY <1>5
<1> HIDE DEF held
<1>7. dividendBalance' \in Holdings /\ checkpoint' \in Holdings /\ CreditsWithinPeak'
  BY <1>1, <1>2, <1>4, <1>6, SharesFacts, StepSyncs
<1>8. EscrowCoversAsk' BY <1>1, SharesFacts DEF EscrowCoversAsk, Tokens
<1> QED BY <1>1, <1>2, <1>3, <1>7, <1>8, StepOfMarket DEF HoldingsOK

(* An ask, its cancellation and a sale leave the dividends alone: they are   *)
(* neither credited nor lost.                                                *)
LEMMA StepOfAsks ==
  ASSUME SharesIInv, Peaks, UNCHANGED <<restOfToken, totalShares, dividendsPerShare, dividendBalance,
                                        checkpoint, tokenProposals, paidOut>>,
         units' \in Holdings,
         escrowed' \in Holdings, asks' \in [Tokens -> [Accounts -> [price : Nat, amount : Nat]]],
         EscrowCoversAsk'
  PROVE  SharesIInv'
<1>1. HoldingsOK BY SharesFacts
<1>2. PeaksGrow BY <1>1, PeaksFollow
<1>3. \A t \in Tokens : dividendsPerShare[t] <= dividendsPerShare'[t] BY <1>1 DEF HoldingsOK
<1>4. dividendsPerShare' \in [Tokens -> Nat] BY <1>1 DEF HoldingsOK
<1>5. CreditsWithinPeak' BY <1>1, <1>2, <1>3, <1>4, SharesFacts, DividendsKept
<1> QED BY <1>1, <1>5, StepOfMarket DEF HoldingsOK

(* What is offered is in escrow, with what an ask it replaces left there.    *)
LEMMA StepAsks ==
  ASSUME SharesIInv, Peaks, NEW seller \in Accounts, NEW t \in Tokens, NEW price \in Nat, NEW amount \in Nat,
         PlaceAsk(seller, t, price, amount)
  PROVE  SharesIInv'
<1>1. /\ units[t][seller] >= amount
      /\ escrowed' = [escrowed EXCEPT ![t][seller] = @ + amount]
      /\ units' = [units EXCEPT ![t][seller] = @ - amount]
      /\ asks' = [asks EXCEPT ![t][seller] = [price |-> price, amount |-> amount]]
      /\ UNCHANGED <<restOfToken, totalShares, dividendsPerShare, dividendBalance, checkpoint, tokenProposals, paidOut>>
  BY DEF PlaceAsk
<1>2. HoldingsOK BY SharesFacts
<1>3. units' \in Holdings BY <1>1, <1>2 DEF HoldingsOK, Holdings
<1>4. escrowed' \in Holdings BY <1>1, <1>2 DEF HoldingsOK, Holdings
<1>5. asks' \in [Tokens -> [Accounts -> [price : Nat, amount : Nat]]] BY <1>1, <1>2 DEF HoldingsOK
<1>6. ASSUME NEW u \in Tokens, NEW a \in Accounts PROVE asks'[u][a].amount <= escrowed'[u][a]
  <2>1. asks[u][a].amount <= escrowed[u][a] /\ escrowed[u][a] \in Nat
    BY <1>2, SharesFacts DEF EscrowCoversAsk, HoldingsOK, Holdings
  <2>2. CASE u = t /\ a = seller
    <3>1. asks'[u][a].amount = amount /\ escrowed'[u][a] = escrowed[u][a] + amount
      BY <1>1, <1>2, <2>2 DEF HoldingsOK, Holdings
    <3> QED BY <2>1, <3>1
  <2>3. CASE ~ (u = t /\ a = seller)
    BY <1>1, <1>2, <2>1, <2>3 DEF HoldingsOK, Holdings
  <2> QED BY <2>2, <2>3
<1>7. EscrowCoversAsk' BY <1>6 DEF EscrowCoversAsk, Tokens
<1> QED BY <1>1, <1>3, <1>4, <1>5, <1>7, StepOfAsks

LEMMA StepCancels ==
  ASSUME SharesIInv, Peaks, NEW seller \in Accounts, NEW t \in Tokens, CancelAsk(seller, t)
  PROVE  SharesIInv'
<1>1. /\ units' = [units EXCEPT ![t][seller] = @ + asks[t][seller].amount]
      /\ escrowed' = [escrowed EXCEPT ![t][seller] = 0]
      /\ asks' = [asks EXCEPT ![t][seller] = NoAsk]
      /\ UNCHANGED <<restOfToken, totalShares, dividendsPerShare, dividendBalance, checkpoint, tokenProposals, paidOut>>
  BY DEF CancelAsk
<1>2. HoldingsOK BY SharesFacts
<1>3. asks[t][seller].amount \in Nat BY <1>2 DEF HoldingsOK
<1>4. units' \in Holdings BY <1>1, <1>2, <1>3 DEF HoldingsOK, Holdings
<1>5. escrowed' \in Holdings BY <1>1, <1>2 DEF HoldingsOK, Holdings
<1>6. NoAsk \in [price : Nat, amount : Nat] BY DEF NoAsk
<1>7. asks' \in [Tokens -> [Accounts -> [price : Nat, amount : Nat]]] BY <1>1, <1>2, <1>6 DEF HoldingsOK
<1>8. ASSUME NEW u \in Tokens, NEW a \in Accounts PROVE asks'[u][a].amount <= escrowed'[u][a]
  <2>1. asks[u][a].amount <= escrowed[u][a] BY SharesFacts DEF EscrowCoversAsk
  <2>2. CASE u = t /\ a = seller
    <3>1. asks'[u][a].amount = 0 /\ escrowed'[u][a] = 0
      BY <1>1, <1>2, <2>2 DEF HoldingsOK, Holdings, NoAsk
    <3> QED BY <3>1
  <2>3. CASE ~ (u = t /\ a = seller)
    BY <1>1, <1>2, <2>1, <2>3 DEF HoldingsOK, Holdings
  <2> QED BY <2>2, <2>3
<1>9. EscrowCoversAsk' BY <1>8 DEF EscrowCoversAsk, Tokens
<1> QED BY <1>1, <1>4, <1>5, <1>7, <1>9, StepOfAsks

(* A sale takes the same from the ask and from the escrow.                   *)
LEMMA StepBuys ==
  ASSUME SharesIInv, Peaks, NEW buyer \in Accounts, NEW seller \in Accounts, NEW t \in Tokens, NEW amount \in Nat,
         BuyShares(buyer, seller, t, amount)
  PROVE  SharesIInv'
<1> DEFINE ask == asks[t][seller]
           rest == Unsold(ask, amount)
<1>1. /\ amount \in 1..ask.amount /\ escrowed[t][seller] >= amount
      /\ units' = [units EXCEPT ![t][buyer] = @ + amount]
      /\ escrowed' = [escrowed EXCEPT ![t][seller] = @ - amount]
      /\ UNCHANGED <<restOfToken, totalShares, dividendsPerShare, dividendBalance, checkpoint, tokenProposals, paidOut>>
  BY DEF BuyShares
<1>asks. asks' = [asks EXCEPT ![t][seller] = rest] BY DEF BuyShares
<1>2. HoldingsOK BY SharesFacts
<1>3. ask \in [price : Nat, amount : Nat] BY <1>2 DEF HoldingsOK
<1>4. rest \in [price : Nat, amount : Nat] /\ rest.amount = ask.amount - amount
  BY <1>1, <1>3 DEF NoAsk, Unsold
<1> HIDE DEF rest
<1>5. units' \in Holdings BY <1>1, <1>2 DEF HoldingsOK, Holdings
<1>6. escrowed' \in Holdings BY <1>1, <1>2 DEF HoldingsOK, Holdings
<1>7. asks' \in [Tokens -> [Accounts -> [price : Nat, amount : Nat]]] BY <1>asks, <1>2, <1>4 DEF HoldingsOK
<1>8. ASSUME NEW u \in Tokens, NEW a \in Accounts PROVE asks'[u][a].amount <= escrowed'[u][a]
  <2>1. asks[u][a].amount <= escrowed[u][a] /\ escrowed[u][a] \in Nat /\ asks[u][a].amount \in Nat
    BY <1>2, SharesFacts DEF EscrowCoversAsk, HoldingsOK, Holdings
  <2>2. CASE u = t /\ a = seller
    <3>1. asks'[u][a].amount = ask.amount - amount /\ escrowed'[u][a] = escrowed[u][a] - amount
      BY <1>1, <1>asks, <1>2, <1>4, <2>2 DEF HoldingsOK, Holdings
    <3> QED BY <2>1, <2>2, <3>1
  <2>3. CASE ~ (u = t /\ a = seller)
    BY <1>1, <1>asks, <1>2, <2>1, <2>3 DEF HoldingsOK, Holdings
  <2> QED BY <2>2, <2>3
<1>9. EscrowCoversAsk' BY <1>8 DEF EscrowCoversAsk, Tokens
<1> QED BY <1>1, <1>5, <1>6, <1>7, <1>9, StepOfAsks

(* A deposit raises the dividends per share and credits nobody yet.          *)
LEMMA StepDeposits ==
  ASSUME SharesIInv, Peaks, NEW t \in Tokens, NEW value \in Nat, DepositDividends(t, value)
  PROVE  SharesIInv'
<1> DEFINE more == (value * Scaling) \div totalShares[t]
<1>1. /\ totalShares[t] > 0
      /\ dividendsPerShare' = [dividendsPerShare EXCEPT ![t] = @ + more]
      /\ UNCHANGED <<tokenVars, totalShares, dividendBalance, checkpoint, asks, escrowed, tokenProposals, paidOut>>
  BY DEF DepositDividends
<1>2. HoldingsOK BY SharesFacts
<1>3. more \in Nat
  <2>1. totalShares[t] \in Nat \ {0} BY <1>1, <1>2 DEF HoldingsOK
  <2>2. value * Scaling \in Nat BY SharesAssumption
  <2> QED BY <2>1, <2>2, QuotientFits
<1> HIDE DEF more
<1>4. /\ dividendsPerShare' \in [Tokens -> Nat]
      /\ \A u \in Tokens : dividendsPerShare[u] <= dividendsPerShare'[u]
  BY <1>1, <1>2, <1>3 DEF HoldingsOK
<1>5. UNCHANGED <<units, restOfToken>> BY <1>1 DEF tokenVars, ownerVars, restOfToken
<1>6. PeaksGrow BY <1>2, <1>5, PeaksFollow DEF HoldingsOK
<1>7. UNCHANGED <<dividendBalance, paidOut, checkpoint>> BY <1>1
<1>8. CreditsWithinPeak' BY <1>2, <1>4, <1>6, <1>7, SharesFacts, DividendsKept
<1>9. EscrowCoversAsk' BY <1>1, SharesFacts DEF EscrowCoversAsk, Tokens
<1> QED BY <1>1, <1>2, <1>4, <1>5, <1>8, <1>9, StepOfMarket DEF HoldingsOK

(* A withdrawal pays what is owed up to the new checkpoint, and owes nothing *)
(* more.                                                                     *)
LEMMA StepWithdraws ==
  ASSUME SharesIInv, Peaks, NEW a \in Accounts, NEW t \in Tokens, WithdrawDividends(a, t)
  PROVE  SharesIInv'
<1> DEFINE dps == dividendsPerShare[t]
           credit == (units[t][a] * (dps - checkpoint[t][a])) \div Scaling
           owed == dividendBalance[t][a] + credit
<1>1. /\ dividendBalance' = [dividendBalance EXCEPT ![t][a] = 0]
      /\ checkpoint' = [checkpoint EXCEPT ![t][a] = dps]
      /\ paidOut' = [paidOut EXCEPT ![t][a] = @ + owed]
      /\ UNCHANGED <<tokenVars, totalShares, dividendsPerShare, asks, escrowed, tokenProposals>>
  BY DEF WithdrawDividends
<1>2. HoldingsOK BY SharesFacts
<1>3. UNCHANGED <<units, restOfToken>> BY <1>1 DEF tokenVars, ownerVars, restOfToken
<1>4. PeaksGrow BY <1>2, <1>3, PeaksFollow DEF HoldingsOK
<1>5. credit \in Nat /\ (dividendBalance[t][a] + paidOut[t][a] + credit) * Scaling <= peak'[t][a] * dps
  <2> DEFINE d == dps - checkpoint[t][a]
             b == dividendBalance[t][a] + paidOut[t][a]
             c == checkpoint[t][a]
  <2>1. /\ Scaling \in Nat \ {0} /\ units[t][a] \in Nat /\ peak[t][a] \in Nat /\ peak'[t][a] \in Nat
        /\ dividendBalance[t][a] \in Nat /\ paidOut[t][a] \in Nat /\ c \in Nat /\ dps \in Nat
    BY <1>2, <1>4, SharesAssumption DEF HoldingsOK, Holdings, PeaksGrow
  <2>2. peak[t][a] <= peak'[t][a] BY <1>4 DEF PeaksGrow
  <2>3. units[t][a] <= peak'[t][a]
    <3>1. units[t][a] <= peak[t][a] BY SharesFacts DEF PeakCoversUnits
    <3> QED BY <2>1, <2>2, <3>1
  <2>4. c <= dps /\ b * Scaling <= peak[t][a] * c BY SharesFacts DEF CreditsWithinPeak
  <2>5. d \in Nat /\ b \in Nat /\ dps = c + d BY <2>1, <2>4
  <2>6. credit = (units[t][a] * d) \div Scaling OBVIOUS
  <2> HIDE DEF b, c, d, credit
  <2>7. (units[t][a] * d) \div Scaling \in Nat
        /\ (b + (units[t][a] * d) \div Scaling) * Scaling <= peak'[t][a] * (c + d)
    BY <2>1, <2>2, <2>3, <2>4, <2>5, CreditFits
  <2>8. credit \in Nat /\ (b + credit) * Scaling <= peak'[t][a] * dps BY <2>5, <2>6, <2>7
  <2> QED BY <2>8 DEF b
<1> HIDE DEF credit
<1>6. /\ owed \in Nat /\ dps \in Nat /\ dps <= dividendsPerShare[t]
      /\ dividendBalance[t][a] \in Nat /\ paidOut[t][a] \in Nat
  BY <1>2, <1>5 DEF HoldingsOK, Holdings
<1>7. paidOut[t][a] + owed = dividendBalance[t][a] + paidOut[t][a] + credit BY <1>5, <1>6
<1>8. (paidOut[t][a] + owed) * Scaling <= peak'[t][a] * dps BY <1>5, <1>7
<1> HIDE DEF owed, dps
<1>9. dividendBalance' \in Holdings /\ checkpoint' \in Holdings /\ paidOut' \in Holdings
  BY <1>1, <1>2, <1>6 DEF HoldingsOK, Holdings
<1>10. ASSUME NEW u \in Tokens, NEW b \in Accounts
       PROVE  /\ checkpoint'[u][b] <= dividendsPerShare[u]
              /\ (dividendBalance'[u][b] + paidOut'[u][b]) * Scaling <= peak'[u][b] * checkpoint'[u][b]
  <2>1. CASE u = t /\ b = a
    <3>1. dividendBalance'[u][b] = 0 /\ checkpoint'[u][b] = dps /\ paidOut'[u][b] = paidOut[t][a] + owed
      BY <1>1, <1>2, <2>1 DEF HoldingsOK, Holdings
    <3>2. dividendBalance'[u][b] + paidOut'[u][b] = paidOut[t][a] + owed BY <1>6, <3>1
    <3> QED BY <1>6, <1>8, <2>1, <3>1, <3>2
  <2>2. CASE ~ (u = t /\ b = a)
    <3>1. /\ dividendBalance'[u][b] = dividendBalance[u][b] /\ checkpoint'[u][b] = checkpoint[u][b]
          /\ paidOut'[u][b] = paidOut[u][b]
      BY <1>1, <1>2, <2>2 DEF HoldingsOK, Holdings
    <3>2. /\ checkpoint[u][b] <= dividendsPerShare[u]
          /\ (dividendBalance[u][b] + paidOut[u][b]) * Scaling <= peak[u][b] * checkpoint[u][b]
      BY SharesFacts DEF CreditsWithinPeak
    <3>3. /\ peak[u][b] \in Nat /\ peak'[u][b] \in Nat /\ checkpoint[u][b] \in Nat /\ peak[u][b] <= peak'[u][b]
          /\ dividendBalance[u][b] \in Nat /\ paidOut[u][b] \in Nat /\ Scaling \in Nat
      BY <1>2, <1>4, SharesAssumption DEF HoldingsOK, Holdings, PeaksGrow
    <3> DEFINE l == (dividendBalance[u][b] + paidOut[u][b]) * Scaling
               m == peak[u][b] * checkpoint[u][b]
               n == peak'[u][b] * checkpoint[u][b]
    <3>4. m <= n /\ m \in Nat /\ n \in Nat BY <3>3, ProductGrows
    <3>5. l <= m /\ l \in Nat BY <3>2, <3>3
    <3> HIDE DEF l, m, n
    <3>6. l <= n BY <3>4, <3>5
    <3> QED BY <3>1, <3>2, <3>6 DEF l, n
  <2> QED BY <2>1, <2>2
<1>11. CreditsWithinPeak' BY <1>1, <1>10 DEF CreditsWithinPeak, Tokens
<1>12. EscrowCoversAsk' BY <1>1, SharesFacts DEF EscrowCoversAsk, Tokens
<1> QED BY <1>1, <1>2, <1>3, <1>9, <1>11, <1>12, StepOfMarket DEF HoldingsOK

(* What VotesAreCastOnce asks of one proposal.                               *)
Fair(proposal, held) ==
  /\ proposal.yes + proposal.no <= SumFunctionOnSet(held, proposal.voters)
  /\ proposal.status = "Executed" => proposal.yes >= proposal.quorum /\ proposal.yes > proposal.no

(* One proposal is added or replaced by a fair one.                          *)
LEMMA StepOfProposals ==
  ASSUME SharesIInv, Peaks,
         UNCHANGED <<tokenVars, totalShares, dividendsPerShare, dividendBalance, checkpoint, asks, escrowed, paidOut>>,
         NEW t \in Tokens, tokenProposals' \in [Tokens -> Seq(ProposalRecord)],
         \A u \in Tokens \ {t} : tokenProposals'[u] = tokenProposals[u],
         \A p \in DOMAIN tokenProposals'[t] :
           \/ p \in DOMAIN tokenProposals[t] /\ tokenProposals'[t][p] = tokenProposals[t][p]
           \/ Fair(tokenProposals'[t][p], peak[t])
  PROVE  SharesIInv'
<1>1. HoldingsOK BY SharesFacts
<1>2. UNCHANGED <<units, restOfToken>> BY DEF tokenVars, ownerVars, restOfToken
<1>3. PeakCoversUnits BY SharesFacts
<1>4. peak' = peak
  <2>1. \A u \in Tokens, a \in Accounts : units'[u][a] \in Nat /\ peak[u][a] \in Nat /\ units'[u][a] <= peak[u][a]
    BY <1>1, <1>2, <1>3 DEF HoldingsOK, Holdings, PeakCoversUnits
  <2>2. \A u \in Tokens : peak'[u] = [a \in Accounts |-> peak[u][a]]
    <3> SUFFICES ASSUME NEW u \in Tokens PROVE peak'[u] = [a \in Accounts |-> peak[u][a]] OBVIOUS
    <3>1. peak'[u] = [a \in Accounts |-> IF units'[u][a] > peak[u][a] THEN units'[u][a] ELSE peak[u][a]]
      BY DEF Peaks
    <3> QED BY <2>1, <3>1
  <2>3. \A u \in Tokens : peak[u] = [a \in Accounts |-> peak[u][a]] BY <1>1 DEF HoldingsOK, Holdings
  <2>4. peak' = [u \in Tokens |-> peak'[u]] BY DEF Peaks
  <2>5. peak = [u \in Tokens |-> peak[u]] BY <1>1 DEF HoldingsOK, Holdings
  <2> QED BY <2>2, <2>3, <2>4, <2>5
<1>5. TokenIInv'
  BY <1>1, <1>2, SharesFacts, StepOfUnits DEF restOfToken, grantVars, Holdings, HoldingsOK, TokenIInv, TokenTypeOK
<1>6. HoldingsOK' BY <1>1, <1>2, <1>4 DEF HoldingsOK, Holdings, Tokens
<1>7. SharesTypeOK' BY <1>5, <1>6 DEF TokenIInv, SharesTypeOK, HoldingsOK, Holdings
<1>8. PeakCoversUnits' BY <1>2, <1>3, <1>4 DEF PeakCoversUnits, Tokens
<1>9. EscrowCoversAsk' BY SharesFacts DEF EscrowCoversAsk, Tokens
<1>10. CreditsWithinPeak' BY <1>4, SharesFacts DEF CreditsWithinPeak, Tokens
<1>11. ASSUME NEW u \in Tokens, NEW p \in DOMAIN tokenProposals'[u] PROVE Fair(tokenProposals'[u][p], peak'[u])
  <2>1. \A q \in DOMAIN tokenProposals[u] : Fair(tokenProposals[u][q], peak[u])
    BY SharesFacts DEF VotesAreCastOnce, Fair
  <2> QED BY <1>4, <1>11, <2>1
<1>12. VotesAreCastOnce' BY <1>11 DEF VotesAreCastOnce, Fair, Tokens
<1>13. tokenProposals' \in [Tokens' -> Seq(ProposalRecord')] BY DEF Tokens, ProposalRecord
<1> QED BY <1>5, <1>7, <1>8, <1>9, <1>10, <1>12, <1>13 DEF SharesIInv

(* What is known of an account's tokenProposals before the step.                  *)
LEMMA ProposalFacts ==
  ASSUME SharesIInv, NEW t \in Tokens, NEW p \in DOMAIN tokenProposals[t]
  PROVE  /\ tokenProposals[t] \in Seq(ProposalRecord) /\ tokenProposals[t][p] \in ProposalRecord
         /\ Fair(tokenProposals[t][p], peak[t])
         /\ IsFiniteSet(tokenProposals[t][p].voters) /\ tokenProposals[t][p].voters \subseteq Accounts
         /\ \A a \in Accounts : peak[t][a] \in Nat /\ units[t][a] \in Nat /\ units[t][a] <= peak[t][a]
<1>1. tokenProposals[t] \in Seq(ProposalRecord) BY SharesFacts
<1>2. tokenProposals[t][p] \in ProposalRecord BY <1>1, LenProperties
<1>3. Fair(tokenProposals[t][p], peak[t]) BY SharesFacts DEF VotesAreCastOnce, Fair
<1>4. tokenProposals[t][p].voters \subseteq Accounts BY <1>2 DEF ProposalRecord
<1>5. IsFiniteSet(tokenProposals[t][p].voters) BY <1>4, TokenAssumption, FS_Subset
<1>6. \A a \in Accounts : peak[t][a] \in Nat /\ units[t][a] \in Nat /\ units[t][a] <= peak[t][a]
  BY SharesFacts DEF HoldingsOK, Holdings, PeakCoversUnits
<1> QED BY <1>1, <1>2, <1>3, <1>4, <1>5, <1>6

LEMMA StepProposes ==
  ASSUME SharesIInv, Peaks, NEW caller \in Accounts, NEW t \in Tokens, NEW quorum \in Nat,
         CreateProposal(caller, t, quorum)
  PROVE  SharesIInv'
<1> DEFINE new == [quorum |-> quorum, yes |-> 0, no |-> 0, status |-> "Open", voters |-> {}]
<1>1. /\ tokenProposals' = [tokenProposals EXCEPT ![t] = Append(@, new)]
      /\ UNCHANGED <<tokenVars, totalShares, dividendsPerShare, dividendBalance, checkpoint, asks, escrowed, paidOut>>
  BY DEF CreateProposal
<1>2. new \in ProposalRecord BY DEF ProposalRecord
<1>3. Fair(new, peak[t])
  <2>1. SumFunctionOnSet(peak[t], {}) = 0 BY SumEmpty
  <2> QED BY <2>1 DEF Fair
<1> HIDE DEF new
<1>4. tokenProposals \in [Tokens -> Seq(ProposalRecord)] BY SharesFacts
<1>5. /\ Append(tokenProposals[t], new) \in Seq(ProposalRecord)
      /\ Len(Append(tokenProposals[t], new)) = Len(tokenProposals[t]) + 1
      /\ \A i \in 1..Len(tokenProposals[t]) : Append(tokenProposals[t], new)[i] = tokenProposals[t][i]
      /\ Append(tokenProposals[t], new)[Len(tokenProposals[t]) + 1] = new
  BY <1>2, <1>4, AppendProperties
<1>6. /\ DOMAIN Append(tokenProposals[t], new) = 1..(Len(tokenProposals[t]) + 1) /\ Len(tokenProposals[t]) \in Nat
      /\ DOMAIN tokenProposals[t] = 1..Len(tokenProposals[t])
  BY <1>4, <1>5, LenProperties
<1>7. tokenProposals' \in [Tokens -> Seq(ProposalRecord)] /\ tokenProposals'[t] = Append(tokenProposals[t], new)
  BY <1>1, <1>4, <1>5
<1>8. \A u \in Tokens \ {t} : tokenProposals'[u] = tokenProposals[u] BY <1>1, <1>4
<1>9. \A p \in DOMAIN tokenProposals'[t] :
        \/ p \in DOMAIN tokenProposals[t] /\ tokenProposals'[t][p] = tokenProposals[t][p]
        \/ Fair(tokenProposals'[t][p], peak[t])
  BY <1>3, <1>5, <1>6, <1>7
<1>10. UNCHANGED <<tokenVars, totalShares, dividendsPerShare, dividendBalance, checkpoint, asks, escrowed, paidOut>>
  BY <1>1
<1> HIDE <1>1
<1> QED BY <1>7, <1>8, <1>9, <1>10, StepOfProposals

(* A proposal is replaced by a fair one in its place.                        *)
LEMMA ProposalReplaced ==
  ASSUME SharesIInv, Peaks,
         UNCHANGED <<tokenVars, totalShares, dividendsPerShare, dividendBalance, checkpoint, asks, escrowed, paidOut>>,
         NEW t \in Tokens, NEW p \in DOMAIN tokenProposals[t], NEW new \in ProposalRecord, Fair(new, peak[t]),
         tokenProposals' = [tokenProposals EXCEPT ![t] = [@ EXCEPT ![p] = new]]
  PROVE  SharesIInv'
<1>1. tokenProposals \in [Tokens -> Seq(ProposalRecord)] /\ tokenProposals[t] \in Seq(ProposalRecord) BY SharesFacts
<1>2. [tokenProposals[t] EXCEPT ![p] = new] \in Seq(ProposalRecord) BY <1>1, ExceptSeq
<1>3. /\ DOMAIN [tokenProposals[t] EXCEPT ![p] = new] = DOMAIN tokenProposals[t]
      /\ \A q \in DOMAIN tokenProposals[t] :
           [tokenProposals[t] EXCEPT ![p] = new][q] = IF q = p THEN new ELSE tokenProposals[t][q]
  OBVIOUS
<1>4. tokenProposals' \in [Tokens -> Seq(ProposalRecord)] /\ tokenProposals'[t] = [tokenProposals[t] EXCEPT ![p] = new]
  BY <1>1, <1>2
<1>5. \A u \in Tokens \ {t} : tokenProposals'[u] = tokenProposals[u] BY <1>1
<1>6. \A q \in DOMAIN tokenProposals'[t] :
        \/ q \in DOMAIN tokenProposals[t] /\ tokenProposals'[t][q] = tokenProposals[t][q]
        \/ Fair(tokenProposals'[t][q], peak[t])
  BY <1>3, <1>4
<1> QED BY <1>4, <1>5, <1>6, StepOfProposals

LEMMA VotedRecord ==
  ASSUME NEW old \in ProposalRecord, NEW a \in Accounts, NEW weight \in Nat, NEW support \in BOOLEAN
  PROVE  LET new == Voted(old, a, weight, support)
         IN  /\ new \in ProposalRecord /\ new.yes + new.no = old.yes + old.no + weight
             /\ new.voters = old.voters \cup {a} /\ new.status = old.status
<1> DEFINE yes == IF support THEN old.yes + weight ELSE old.yes
           no  == IF support THEN old.no ELSE old.no + weight
           voters == old.voters \cup {a}
<1>1. old.yes \in Nat /\ old.no \in Nat /\ old.voters \in SUBSET Accounts BY DEF ProposalRecord
<1>2. yes \in Nat /\ no \in Nat /\ voters \in SUBSET Accounts /\ yes + no = old.yes + old.no + weight
  BY <1>1
<1>3. Voted(old, a, weight, support) = [old EXCEPT !.yes = yes, !.no = no, !.voters = voters]
  BY DEF Voted
<1> HIDE DEF yes, no
<1>4. LET new == [old EXCEPT !.yes = yes, !.no = no, !.voters = voters]
      IN  /\ new \in ProposalRecord /\ new.yes = yes /\ new.no = no
          /\ new.voters = voters /\ new.status = old.status
  BY <1>2 DEF ProposalRecord
<1> QED BY <1>2, <1>3, <1>4

(* A vote adds a voter who was not among them, with what it holds.           *)
LEMMA StepVotes ==
  ASSUME SharesIInv, Peaks, NEW a \in Accounts, NEW t \in Tokens, NEW p \in DOMAIN tokenProposals[t],
         NEW support \in BOOLEAN, Vote(a, t, p, support)
  PROVE  SharesIInv'
<1> DEFINE old == tokenProposals[t][p]
           new == Voted(old, a, units[t][a], support)
<1>1. /\ old.status = "Open" /\ a \notin old.voters
      /\ UNCHANGED <<tokenVars, totalShares, dividendsPerShare, dividendBalance, checkpoint, asks, escrowed, paidOut>>
  BY DEF Vote
<1>2. /\ old \in ProposalRecord /\ Fair(old, peak[t]) /\ IsFiniteSet(old.voters) /\ old.voters \subseteq Accounts
      /\ \A b \in Accounts : peak[t][b] \in Nat /\ units[t][b] \in Nat /\ units[t][b] <= peak[t][b]
  BY ProposalFacts
<1>3. new \in ProposalRecord /\ new.yes + new.no = old.yes + old.no + units[t][a]
      /\ new.voters = old.voters \cup {a} /\ new.status = "Open"
  BY <1>1, <1>2, VotedRecord
<1>4. tokenProposals' = [tokenProposals EXCEPT ![t] = [@ EXCEPT ![p] = new]] BY DEF Vote
<1> HIDE DEF new
<1>5. old.yes \in Nat /\ old.no \in Nat BY <1>2 DEF ProposalRecord
<1>6. SumFunctionOnSet(peak[t], old.voters \cup {a}) = SumFunctionOnSet(peak[t], old.voters) + peak[t][a]
  <2> DEFINE voters == old.voters
             held == peak[t]
  <2>1. /\ IsFiniteSet(voters) /\ a \notin voters
        /\ held[a] \in Int /\ \A b \in voters : held[b] \in Int
    BY <1>1, <1>2
  <2> HIDE DEF voters, held
  <2>2. SumFunctionOnSet(held, voters \cup {a}) = SumFunctionOnSet(held, voters) + held[a]
    BY <2>1, SumAdds
  <2> QED BY <2>2 DEF voters, held
<1>7. SumFunctionOnSet(peak[t], old.voters) \in Int
  <2>1. \A b \in old.voters : peak[t][b] \in Int BY <1>2
  <2> QED BY <1>2, <2>1, SumType
<1>8. old.yes + old.no <= SumFunctionOnSet(peak[t], old.voters) BY <1>2 DEF Fair
<1>9. Fair(new, peak[t]) BY <1>2, <1>3, <1>5, <1>6, <1>7, <1>8 DEF Fair
<1> HIDE DEF old
<1> QED BY <1>1, <1>3, <1>4, <1>9, ProposalReplaced

(* A proposal is closed as executed only on a quorum and a majority.         *)
LEMMA StepCloses ==
  ASSUME SharesIInv, Peaks, NEW t \in Tokens, NEW p \in DOMAIN tokenProposals[t], ExecuteProposal(t, p)
  PROVE  SharesIInv'
<1> DEFINE old    == tokenProposals[t][p]
           passed == old.yes >= old.quorum /\ old.yes > old.no
           new    == [old EXCEPT !.status = IF passed THEN "Executed" ELSE "Rejected"]
<1>1. UNCHANGED <<tokenVars, totalShares, dividendsPerShare, dividendBalance, checkpoint, asks, escrowed, paidOut>>
  BY DEF ExecuteProposal
<1>2. old \in ProposalRecord /\ Fair(old, peak[t]) BY ProposalFacts
<1>3. new \in ProposalRecord /\ Fair(new, peak[t]) BY <1>2 DEF ProposalRecord, Fair
<1>4. tokenProposals' = [tokenProposals EXCEPT ![t] = [@ EXCEPT ![p] = new]] BY DEF ExecuteProposal
<1> HIDE DEF new
<1> QED BY <1>1, <1>3, <1>4, ProposalReplaced

-----------------------------------------------------------------------------
(* The steps together                                                        *)

LEMMA SharesStep ==
  ASSUME SharesIInv, SharesNext
  PROVE  SharesIInv'
<1>1. Peaks BY DEF SharesNext
<1>2. TokenIInv /\ tokenCounter \in 0..MaxTokens BY SharesFacts DEF TokenIInv, TokenTypeOK
<1>3. 1..tokenCounter \subseteq Tokens BY <1>2, TokenAssumption DEF Tokens
<1>4. IssueAmounts \subseteq Nat /\ Prices \subseteq Nat /\ Deposits \subseteq Nat /\ Quorums \subseteq Nat
  BY SharesAssumption
<1>5. CASE TokenNext /\ UNCHANGED shareVars BY <1>1, <1>2, <1>5, TokenStep, StepOfToken
<1>6. CASE Trading
  <2>1. PICK t \in 1..tokenCounter, a \in Accounts :
          \/ CancelAsk(a, t)
          \/ \E to \in Accounts, amount \in IssueAmounts :
               \/ IssueShares(a, t, to, amount) \/ RedeemShares(a, t, to, amount) \/ BuyShares(a, to, t, amount)
               \/ \E from \in Accounts : TransferOfShares(a, t, from, to, amount)
          \/ \E price \in Prices, amount \in IssueAmounts : PlaceAsk(a, t, price, amount)
    BY <1>6 DEF Trading
  <2>2. t \in Tokens BY <1>3
  <2>3. CASE CancelAsk(a, t) BY <1>1, <2>2, <2>3, StepCancels
  <2>4. ASSUME NEW to \in Accounts, NEW amount \in IssueAmounts,
               IssueShares(a, t, to, amount) \/ RedeemShares(a, t, to, amount) \/ BuyShares(a, to, t, amount)
        PROVE  SharesIInv'
    BY <1>1, <1>4, <2>2, <2>4, StepIssues, StepRedeems, StepBuys
  <2>5. ASSUME NEW to \in Accounts, NEW amount \in IssueAmounts, NEW from \in Accounts,
               TransferOfShares(a, t, from, to, amount)
        PROVE  SharesIInv'
    BY <1>1, <1>4, <2>2, <2>5, StepTransfersShares
  <2>6. ASSUME NEW price \in Prices, NEW amount \in IssueAmounts, PlaceAsk(a, t, price, amount)
        PROVE  SharesIInv'
    BY <1>1, <1>4, <2>2, <2>6, StepAsks
  <2> QED BY <2>1, <2>3, <2>4, <2>5, <2>6
<1>7. CASE Dividends
  <2>1. ASSUME NEW t \in 1..tokenCounter, NEW value \in Deposits, DepositDividends(t, value)
        PROVE  SharesIInv'
    BY <1>1, <1>3, <1>4, <2>1, StepDeposits
  <2>2. ASSUME NEW t \in 1..tokenCounter, NEW a \in Accounts, WithdrawDividends(a, t)
        PROVE  SharesIInv'
    BY <1>1, <1>3, <2>2, StepWithdraws
  <2> QED BY <1>7, <2>1, <2>2 DEF Dividends
<1>8. CASE Voting
  <2>1. ASSUME NEW t \in 1..tokenCounter, NEW a \in Accounts, NEW quorum \in Quorums, CreateProposal(a, t, quorum)
        PROVE  SharesIInv'
    BY <1>1, <1>3, <1>4, <2>1, StepProposes
  <2>2. ASSUME NEW t \in 1..tokenCounter, NEW p \in DOMAIN tokenProposals[t], ExecuteProposal(t, p)
        PROVE  SharesIInv'
    BY <1>1, <1>3, <2>2, StepCloses
  <2>3. ASSUME NEW t \in 1..tokenCounter, NEW p \in DOMAIN tokenProposals[t], NEW a \in Accounts,
               NEW support \in BOOLEAN, Vote(a, t, p, support)
        PROVE  SharesIInv'
    BY <1>1, <1>3, <2>3, StepVotes
  <2> QED BY <1>8, <2>1, <2>2, <2>3 DEF Voting
<1> QED BY <1>5, <1>6, <1>7, <1>8 DEF SharesNext

LEMMA SharesStutter ==
  ASSUME SharesIInv, UNCHANGED sharesVars
  PROVE  SharesIInv'
<1>1. UNCHANGED <<units, peak, restOfToken, totalShares, dividendsPerShare, dividendBalance, checkpoint,
                  asks, escrowed, tokenProposals, paidOut>>
  BY DEF sharesVars, shareVars, tokenVars, ownerVars, restOfToken
<1>2. HoldingsOK /\ TokenIInv BY SharesFacts
<1>3. TokenIInv'
  BY <1>1, <1>2, StepOfUnits DEF restOfToken, grantVars, Holdings, HoldingsOK, TokenIInv, TokenTypeOK
<1>4. HoldingsOK' BY <1>1, <1>2 DEF HoldingsOK, Holdings, Tokens
<1>5. SharesTypeOK' BY <1>3, <1>4 DEF TokenIInv, SharesTypeOK, HoldingsOK, Holdings
<1>6. PeakCoversUnits' BY <1>1, SharesFacts DEF PeakCoversUnits, Tokens
<1>7. EscrowCoversAsk' BY <1>1, SharesFacts DEF EscrowCoversAsk, Tokens
<1>8. CreditsWithinPeak' BY <1>1, SharesFacts DEF CreditsWithinPeak, Tokens
<1>9. VotesAreCastOnce' BY <1>1, SharesFacts DEF VotesAreCastOnce, Tokens
<1>10. tokenProposals' \in [Tokens' -> Seq(ProposalRecord')] BY <1>1, SharesFacts DEF Tokens, ProposalRecord
<1> QED BY <1>3, <1>5, <1>6, <1>7, <1>8, <1>9, <1>10 DEF SharesIInv

-----------------------------------------------------------------------------
(* Every reachable state satisfies the invariant.                            *)
THEOREM SharesInvariant == SharesSpec => []SharesIInv
<1>1. TokenInit /\ SharesInit => SharesIInv BY SharesStart
<1>2. SharesIInv /\ [SharesNext]_sharesVars => SharesIInv' BY SharesStep, SharesStutter
<1> QED BY <1>1, <1>2, PTL DEF SharesSpec

(* Each step of a scenario is a step of the token and its market, so that    *)
(* what is proved of these holds in every scenario that is checked.          *)
THEOREM ScenariosAreShares == ScenarioSpec => SharesSpec
<1>1. ScenarioInit => TokenInit /\ SharesInit BY DEF ScenarioInit
<1>2. [ScenarioNext]_scenarioVars => [SharesNext]_sharesVars
  BY DEF ScenarioNext, scenarioVars, SharesNext, TokenNext
<1> QED BY <1>1, <1>2, PTL DEF ScenarioSpec, SharesSpec

(* The token's and its market's records keep their types; in particular no   *)
(* balance, ask, escrow or credit becomes negative.                          *)
THEOREM TokenTypes == SharesSpec => []SharesTypeOK
<1>1. SharesIInv => SharesTypeOK BY DEF SharesIInv
<1> QED BY <1>1, SharesInvariant, PTL

(* Whatever is rejected, retried, recovered or reconfigured, a token is      *)
(* locked only on the approvals of as many operators as its request asked    *)
(* for, and belongs to the zero address only for such a request.             *)
THEOREM TokenLocks == SharesSpec => []LockTakesQuorum
<1>1. SharesIInv => LockTakesQuorum
  BY DEF SharesIInv, TokenIInv, BridgeIInv, Approved, Sealed, RequestId, LockTakesQuorum
<1> QED BY <1>1, SharesInvariant, PTL

(* The slot that keeps a token from being requested twice names a request of *)
(* that token which is recorded neither as executed nor as rejected, however *)
(* many requests came before, were rejected, retried or left to expire.      *)
THEOREM TokenSlots == SharesSpec => []SlotNamesUndecidedRequest
<1>1. SharesIInv => SlotNamesUndecidedRequest
  BY DEF SharesIInv, TokenIInv, BridgeIInv, SlotNamesUndecidedRequest
<1> QED BY <1>1, SharesInvariant, PTL

(* The supply counts the tokens that have an owner, the zero address for one *)
(* that is locked, whatever is minted, moved, recovered and burned.  It says *)
(* nothing of the counts per account.                                        *)
THEOREM TokenSupply == SharesSpec => []SupplyCountsOwned
<1>1. SharesIInv => SupplyCountsOwned BY DEF SharesIInv, TokenIInv, OwnersIInv
<1> QED BY <1>1, SharesInvariant, PTL

(* An ask can be served to its last share, through any partial sales and     *)
(* asks that replace one another.                                            *)
THEOREM SharesEscrow == SharesSpec => []EscrowCoversAsk
<1>1. SharesIInv => EscrowCoversAsk BY DEF SharesIInv
<1> QED BY <1>1, SharesInvariant, PTL

(* No account is credited more than the dividends up to its checkpoint on    *)
(* the most it ever held, for any amounts, any scaling and any order of      *)
(* issues, transfers, sales, deposits and withdrawals.                       *)
THEOREM SharesDividends == SharesSpec => []CreditsWithinPeak
<1>1. SharesIInv => CreditsWithinPeak BY DEF SharesIInv
<1> QED BY <1>1, SharesInvariant, PTL

(* An account votes once on a proposal, with no more than it ever held, and  *)
(* only a quorum and a majority of such votes execute it.                    *)
THEOREM SharesVotes == SharesSpec => []VotesAreCastOnce
<1>1. SharesIInv => VotesAreCastOnce BY DEF SharesIInv
<1> QED BY <1>1, SharesInvariant, PTL

-----------------------------------------------------------------------------
(* The escrow contract                                                       *)

(* The inductive invariant.                                                  *)
EInv == EscrowTypeOK /\ BooksAgree /\ ReleasedByQuorum

-----------------------------------------------------------------------------
LEMMA EscrowList ==
  ASSUME EscrowTypeOK
  PROVE  /\ EscrowId = 1..Len(escrows) /\ Len(escrows) \in Nat
         /\ escrows \in [EscrowId -> EscrowRecord]
         /\ \A id \in EscrowId : escrows[id] \in EscrowRecord
<1>1. escrows \in Seq(EscrowRecord) BY DEF EscrowTypeOK
<1> QED BY <1>1 DEF EscrowId

LEMMA RecordFields ==
  ASSUME NEW e \in EscrowRecord
  PROVE  /\ e.buyer \in Buyer /\ e.amount \in Nat \ {0} /\ e.deposited \in Nat
         /\ e.status \in Status /\ e.lock \in {NoLock} \cup Nat
         /\ e.signers \subseteq Signer /\ e.required \in Nat \ {0}
BY DEF EscrowRecord

LEMMA SignersFinite ==
  ASSUME NEW id, NEW type
  PROVE  /\ SignersOf(id, type) \subseteq Signer /\ IsFiniteSet(SignersOf(id, type))
         /\ Cardinality(SignersOf(id, type)) \in Nat
<1>1. SignersOf(id, type) \subseteq Signer BY DEF SignersOf
<1>2. IsFiniteSet(SignersOf(id, type)) BY <1>1, EscrowAssumption, FS_Subset
<1> QED BY <1>1, <1>2, FS_CardinalityType

(* A step that leaves signatures, their counts and the nonces alone and      *)
(* changes of each escrow its deposit and status alone keeps the first and   *)
(* the last of the books.                                                    *)
LEMMA MoneyMoves ==
  ASSUME EInv, escrows' \in [EscrowId -> EscrowRecord],
         UNCHANGED <<signatures, sigCount, nonce>>,
         \A id \in EscrowId : /\ escrows'[id].buyer = escrows[id].buyer
                              /\ escrows'[id].signers = escrows[id].signers
  PROVE  /\ EscrowId' = EscrowId /\ escrows' \in Seq(EscrowRecord)
         /\ CountMatchesSignatures' /\ NonceCountsEscrows'
<1>0. EscrowTypeOK BY DEF EInv
<1>1. EscrowId' = EscrowId BY DEF EscrowId
<1>2. escrows' \in Seq(EscrowRecord) BY <1>0, EscrowList
<1>3. CountMatchesSignatures'
  BY <1>1, ZenonT(40) DEF EInv, BooksAgree, CountMatchesSignatures, Count, SignersOf
<1>4. NonceCountsEscrows'
  <2>1. \A b \in Buyer : {id \in EscrowId : escrows'[id].buyer = b}
                           = {id \in EscrowId : escrows[id].buyer = b}
    OBVIOUS
  <2> QED BY <1>1, <2>1 DEF EInv, BooksAgree, NonceCountsEscrows
<1> QED BY <1>1, <1>2, <1>3, <1>4

EscrowHolds(e) ==
  CASE e.status = "Created"  -> e.deposited = 0
    [] e.status = "Funded"   -> e.deposited \in 1..(e.amount - 1)
    [] e.status = "Active"   -> e.deposited = e.amount
    [] e.status = "Released" -> e.deposited = 0

LEMMA StatusHolds == StatusTellsDeposit <=> \A id \in EscrowId : EscrowHolds(escrows[id])
BY DEF StatusTellsDeposit, EscrowHolds
-----------------------------------------------------------------------------
(* Deposits in a batch are positive, and so is what they pay an escrow.      *)
LEMMA PaidPositive ==
  ASSUME NEW n \in Nat, NEW deposits \in [1..n -> EscrowId \X Deposit],
         \A i \in 1..n : deposits[i][2] > 0, NEW k \in 1..n
  PROVE  Paid(deposits, deposits[k][1]) \in Nat \ {0}
<1> DEFINE f == [i \in DOMAIN deposits |-> deposits[i][2]]
           I == {i \in DOMAIN deposits : deposits[i][1] = deposits[k][1]}
<1>1. I \subseteq 1..n /\ k \in I OBVIOUS
<1>2. IsFiniteSet(I) /\ IsFiniteSet(I \ {k}) BY <1>1, FS_Interval, FS_Subset
<1>3. \A i \in I : f[i] \in Nat \ {0}
  <2> SUFFICES ASSUME NEW i \in I PROVE f[i] \in Nat \ {0} OBVIOUS
  <2>1. i \in 1..n /\ f[i] = deposits[i][2] OBVIOUS
  <2>2. deposits[i] \in EscrowId \X Deposit BY <2>1
  <2>3. deposits[i][2] \in Int BY <2>2, EscrowAssumption
  <2>4. deposits[i][2] > 0 BY <2>1
  <2> QED BY <2>1, <2>3, <2>4
<1>4. Paid(deposits, deposits[k][1]) = SumFunctionOnSet(f, I) BY DEF Paid
<1> HIDE DEF f, I
<1>5. SumFunctionOnSet(f, I) = f[k] + SumFunctionOnSet(f, I \ {k})
  <2>1. \A i \in I : f[i] \in Int BY <1>3
  <2> QED BY <1>1, <1>2, <2>1, SumTake
<1>6. SumFunctionOnSet(f, I \ {k}) \in Nat BY <1>2, <1>3, SumNat
<1> QED BY <1>1, <1>3, <1>4, <1>5, <1>6

LEMMA StepDeposit ==
  ASSUME EInv, NEW n \in Nat, NEW deposits \in [1..n -> EscrowId \X Deposit],
         DepositFundsBatch(deposits)
  PROVE  EInv'
<1> DEFINE ids == {deposits[i][1] : i \in DOMAIN deposits}
<1>0. EscrowTypeOK BY DEF EInv
<1>1. UNCHANGED <<time, paused, signatures, sigCount, nonce, escrowVersion>>
  BY DEF DepositFundsBatch
<1>2. \A id \in EscrowId : escrows'[id] =
        IF id \in ids THEN Funded(escrows[id], Paid(deposits, id)) ELSE escrows[id]
  BY DEF DepositFundsBatch
<1>3. escrows' = [id \in EscrowId |-> escrows'[id]] BY DEF DepositFundsBatch
<1>4. ASSUME NEW id \in ids
      PROVE  /\ id \in EscrowId /\ Open(escrows[id]) /\ Paid(deposits, id) \in Nat \ {0}
             /\ escrows[id].deposited + Paid(deposits, id) <= escrows[id].amount
  <2>1. PICK k \in 1..n : id = deposits[k][1] BY <1>4
  <2>2. \A i \in 1..n : deposits[i][2] > 0 BY DEF DepositFundsBatch
  <2>3. Paid(deposits, id) \in Nat \ {0} BY <2>1, <2>2, PaidPositive
  <2> QED BY <1>4, <2>1, <2>3 DEF DepositFundsBatch
<1> HIDE DEF ids
<1>5. ASSUME NEW id \in EscrowId
      PROVE  /\ escrows'[id] \in EscrowRecord
             /\ escrows'[id].buyer = escrows[id].buyer
             /\ escrows'[id].signers = escrows[id].signers
             /\ EscrowHolds(escrows'[id])
             /\ escrows'[id].status = "Released" => escrows'[id] = escrows[id]
  <2> DEFINE e == escrows[id]
  <2>1. e \in EscrowRecord BY <1>0, EscrowList
  <2>2. CASE id \notin ids
    BY <1>2, <2>1, <2>2, StatusHolds DEF EInv, BooksAgree
  <2>3. CASE id \in ids
    <3> DEFINE p == Paid(deposits, id)
    <3>1. escrows'[id] = Funded(e, p) BY <1>2, <2>3
    <3>2. p \in Nat \ {0} /\ e.deposited + p <= e.amount BY <1>4, <2>3
    <3>3. e.deposited \in Nat /\ e.amount \in Nat \ {0} BY <2>1, RecordFields
    <3> HIDE DEF e, p
    <3> DEFINE st == IF e.deposited + p >= e.amount THEN "Active" ELSE "Funded"
    <3>4. /\ Funded(e, p).buyer = e.buyer /\ Funded(e, p).signers = e.signers
          /\ Funded(e, p).amount = e.amount /\ Funded(e, p).deposited = e.deposited + p
          /\ Funded(e, p).status = st
      BY <2>1 DEF Funded, EscrowRecord
    <3>5. e.deposited + p \in Nat /\ st \in Status BY <3>2, <3>3 DEF Status
    <3>6. Funded(e, p) = [e EXCEPT !.deposited = e.deposited + p, !.status = st]
      BY <2>1 DEF Funded, EscrowRecord
    <3>7. EscrowHolds(Funded(e, p))
      <4>1. CASE e.deposited + p >= e.amount
        <5>1. st = "Active" BY <4>1
        <5>2. e.deposited + p = e.amount BY <3>2, <3>3, <4>1
        <5> HIDE DEF st
        <5> QED BY <3>4, <5>1, <5>2 DEF EscrowHolds
      <4>2. CASE ~ (e.deposited + p >= e.amount)
        <5>1. st = "Funded" BY <4>2
        <5>2. e.deposited + p \in 1..(e.amount - 1) BY <3>2, <3>3, <4>2
        <5> HIDE DEF st
        <5> QED BY <3>4, <5>1, <5>2 DEF EscrowHolds
      <4> QED BY <4>1, <4>2
    <3> HIDE DEF st
    <3>8. Funded(e, p) \in EscrowRecord BY <2>1, <3>5, <3>6 DEF EscrowRecord
    <3>9. Funded(e, p).status # "Released" BY <3>4 DEF st
    <3> QED BY <3>1, <3>4, <3>7, <3>8, <3>9 DEF e
  <2> QED BY <2>2, <2>3
<1>6. escrows' \in [EscrowId -> EscrowRecord] BY <1>3, <1>5
<1>7. /\ EscrowId' = EscrowId /\ escrows' \in Seq(EscrowRecord)
      /\ CountMatchesSignatures' /\ NonceCountsEscrows'
  BY <1>1, <1>5, <1>6, MoneyMoves
<1>8. EscrowTypeOK' BY <1>0, <1>1, <1>7 DEF EscrowTypeOK
<1>9. StatusTellsDeposit' BY <1>5, <1>7 DEF StatusTellsDeposit, EscrowHolds
<1>10. ReleasedByQuorum' BY <1>1, <1>5, <1>7 DEF EInv, ReleasedByQuorum, SignersOf
<1> QED BY <1>7, <1>8, <1>9, <1>10 DEF EInv, BooksAgree

LEMMA StepRelease ==
  ASSUME EInv, NEW id \in EscrowId, ReleaseFunds(id)
  PROVE  EInv'
<1> DEFINE e == escrows[id]
           released == [e EXCEPT !.status = "Released", !.deposited = 0]
<1>0. EscrowTypeOK BY DEF EInv
<1>1. UNCHANGED <<time, paused, signatures, sigCount, nonce, escrowVersion>> BY DEF ReleaseFunds
<1>2. e \in EscrowRecord BY <1>0, EscrowList
<1>3. escrows' = [escrows EXCEPT ![id] = released] BY DEF ReleaseFunds
<1>4. /\ released \in EscrowRecord /\ released.buyer = e.buyer
      /\ released.signers = e.signers /\ released.required = e.required
      /\ released.lock = e.lock /\ released.status = "Released" /\ released.deposited = 0
  BY <1>2 DEF EscrowRecord, Status
<1>5. /\ \A x \in EscrowId \ {id} : escrows'[x] = escrows[x]
      /\ escrows'[id] = released
  BY <1>0, <1>3, EscrowList
<1> HIDE DEF released
<1>6. escrows' \in [EscrowId -> EscrowRecord] BY <1>0, <1>3, <1>4, EscrowList
<1>7. /\ EscrowId' = EscrowId /\ escrows' \in Seq(EscrowRecord)
      /\ CountMatchesSignatures' /\ NonceCountsEscrows'
  BY <1>1, <1>4, <1>5, <1>6, MoneyMoves
<1>8. EscrowTypeOK' BY <1>0, <1>1, <1>7 DEF EscrowTypeOK
<1>9. StatusTellsDeposit'
  <2>1. EscrowHolds(released) BY <1>4 DEF EscrowHolds
  <2>2. \A x \in EscrowId : EscrowHolds(escrows'[x])
    BY <1>5, <2>1, StatusHolds DEF EInv, BooksAgree
  <2> QED BY <1>7, <2>2 DEF StatusTellsDeposit, EscrowHolds
<1>10. ReleasedByQuorum'
  <2>1. Cardinality(SignersOf(id, "Release")) >= e.required
    BY EscrowAssumption
    DEF ReleaseFunds, EInv, BooksAgree, CountMatchesSignatures
  <2>2. e.lock <= time
    BY <1>0, <1>2, RecordFields DEF ReleaseFunds, NoLock, EscrowTypeOK
  <2> QED BY <1>1, <1>4, <1>5, <1>7, <2>1, <2>2 DEF EInv, ReleasedByQuorum, SignersOf
<1> QED BY <1>7, <1>8, <1>9, <1>10 DEF EInv, BooksAgree

-----------------------------------------------------------------------------
(* The approvals of one escrow and type in a batch, and who gives them.      *)
Given(approvals, id, type) == {a \in approvals : <<a[1], a[2]>> = <<id, type>>}

Givers(approvals, id, type) == {s \in Signer : <<id, type, s>> \in approvals}

LEMMA AsManyGivers ==
  ASSUME NEW approvals \in SUBSET (EscrowId \X ApprovalType \X Signer), NEW id, NEW type
  PROVE  /\ IsFiniteSet(Givers(approvals, id, type))
         /\ Cardinality(Givers(approvals, id, type)) \in Nat
         /\ Cardinality(Given(approvals, id, type)) = Cardinality(Givers(approvals, id, type))
<1> DEFINE S == Givers(approvals, id, type)
           T == Given(approvals, id, type)
           f == [s \in S |-> <<id, type, s>>]
<1>1. IsFiniteSet(S) BY EscrowAssumption, FS_Subset DEF Givers
<1>2. \A s \in S : <<id, type, s>> \in T BY DEF Givers, Given
<1>3. f \in [S -> T] BY <1>2
<1>4. \A x, y \in S : f[x] = f[y] => x = y OBVIOUS
<1>5. ASSUME NEW a \in T PROVE \E s \in S : f[s] = a
  <2>1. a \in EscrowId \X ApprovalType \X Signer /\ a[1] = id /\ a[2] = type BY DEF Given
  <2>2. a = <<id, type, a[3]>> /\ a[3] \in Signer BY <2>1
  <2>3. a[3] \in S BY <2>2 DEF Givers, Given
  <2> QED BY <2>2, <2>3
<1> HIDE DEF S, T, f
<1>6. Cardinality(T) = Cardinality(S) BY <1>1, <1>3, <1>4, <1>5, SameSize
<1> QED BY <1>1, <1>6, FS_CardinalityType DEF S, T

LEMMA StepSign ==
  ASSUME EInv, NEW approvals \in SUBSET (EscrowId \X ApprovalType \X Signer),
         SignApprovalBatch(approvals)
  PROVE  EInv'
<1> DEFINE touched == {<<a[1], a[2]>> : a \in approvals}
<1>0. EscrowTypeOK BY DEF EInv
<1>1. UNCHANGED <<time, paused, escrows, nonce, escrowVersion>> /\ EscrowId' = EscrowId
  BY DEF SignApprovalBatch, EscrowId
<1>2. ASSUME NEW id, NEW type
      PROVE  /\ SignersOf(id, type)' = SignersOf(id, type) \cup Givers(approvals, id, type)
             /\ SignersOf(id, type) \cap Givers(approvals, id, type) = {}
  BY DEF SignApprovalBatch, SignersOf, Givers
<1>3. ASSUME NEW id, NEW type
      PROVE  /\ Cardinality(SignersOf(id, type)') =
                  Cardinality(SignersOf(id, type)) + Cardinality(Givers(approvals, id, type))
             /\ Cardinality(SignersOf(id, type)') >= Cardinality(SignersOf(id, type))
             /\ Cardinality(SignersOf(id, type)) \in Nat
  <2> DEFINE S == SignersOf(id, type)
             G == Givers(approvals, id, type)
  <2>1. SignersOf(id, type)' = S \cup G /\ S \cap G = {} BY <1>2
  <2>2. IsFiniteSet(S) /\ IsFiniteSet(G) BY SignersFinite, AsManyGivers
  <2> HIDE DEF S, G
  <2>3. /\ Cardinality(S \cup G) = Cardinality(S) + Cardinality(G)
        /\ Cardinality(S) \in Nat /\ Cardinality(G) \in Nat
    BY <2>1, <2>2, DisjointSizes
  <2>4. Cardinality(S \cup G) >= Cardinality(S) BY <2>3
  <2> QED BY <2>1, <2>3, <2>4 DEF S, G
<1>4. touched \subseteq EscrowId \X ApprovalType
  <2> SUFFICES ASSUME NEW a \in approvals PROVE <<a[1], a[2]>> \in EscrowId \X ApprovalType
    OBVIOUS
  <2>1. a \in EscrowId \X ApprovalType \X Signer OBVIOUS
  <2> QED BY <2>1
<1>5. sigCount' = [t \in DOMAIN sigCount \cup touched |->
        Count(t[1], t[2]) + Cardinality({a \in approvals : <<a[1], a[2]>> = t})]
  BY DEF SignApprovalBatch
<1>6. ASSUME NEW id \in EscrowId, NEW type \in ApprovalType
      PROVE  Count(id, type) = Cardinality(SignersOf(id, type))
             /\ SignersOf(id, type) \subseteq escrows[id].signers
  BY DEF EInv, BooksAgree, CountMatchesSignatures
<1> HIDE DEF touched
<1>7. ASSUME NEW id \in EscrowId, NEW type \in ApprovalType, <<id, type>> \in DOMAIN sigCount'
      PROVE  sigCount'[<<id, type>>] = Cardinality(SignersOf(id, type)')
  <2>1. sigCount'[<<id, type>>] = Count(id, type) + Cardinality(Given(approvals, id, type))
    BY <1>5, <1>7 DEF Given
  <2> QED BY <1>3, <1>6, <2>1, AsManyGivers
<1>8. DOMAIN sigCount' = DOMAIN sigCount \cup touched BY <1>5
<1>9. ASSUME NEW id \in EscrowId, NEW type \in ApprovalType, <<id, type>> \notin DOMAIN sigCount'
      PROVE  Cardinality(SignersOf(id, type)') = 0
  <2>1. <<id, type>> \notin DOMAIN sigCount /\ <<id, type>> \notin touched BY <1>8, <1>9
  <2>2. Cardinality(SignersOf(id, type)) = 0 BY <1>6, <2>1 DEF Count
  <2>3. Given(approvals, id, type) = {} BY <2>1 DEF Given, touched
  <2>4. Cardinality(Givers(approvals, id, type)) = 0 BY <2>3, AsManyGivers, FS_EmptySet
  <2> QED BY <1>3, <2>2, <2>4
<1>10. EscrowTypeOK'
  <2>1. DOMAIN sigCount' \subseteq EscrowId' \X ApprovalType
    BY <1>0, <1>1, <1>4, <1>8 DEF EscrowTypeOK
  <2>2. sigCount' \in [DOMAIN sigCount' -> Nat]
    <3> SUFFICES ASSUME NEW t \in DOMAIN sigCount' PROVE sigCount'[t] \in Nat
      BY <1>5, <1>8
    <3>1. PICK id \in EscrowId, type \in ApprovalType : t = <<id, type>> BY <1>1, <2>1
    <3> QED BY <1>7, <1>2, <1>3, <3>1, AsManyGivers
  <2>3. signatures' \subseteq EscrowId' \X ApprovalType \X Signer
    BY <1>0, <1>1 DEF EscrowTypeOK, SignApprovalBatch
  <2> QED BY <1>0, <1>1, <2>1, <2>2, <2>3 DEF EscrowTypeOK
<1>11. CountMatchesSignatures'
  <2> SUFFICES ASSUME NEW id \in EscrowId, NEW type \in ApprovalType
               PROVE  /\ Count(id, type)' = Cardinality(SignersOf(id, type)')
                      /\ SignersOf(id, type)' \subseteq escrows'[id].signers
    BY <1>1 DEF CountMatchesSignatures
  <2>1. Count(id, type)' = Cardinality(SignersOf(id, type)') BY <1>7, <1>9 DEF Count
  <2>2. Givers(approvals, id, type) \subseteq escrows[id].signers
    <3> SUFFICES ASSUME NEW s \in Givers(approvals, id, type) PROVE s \in escrows[id].signers
      OBVIOUS
    <3>1. <<id, type, s>> \in approvals BY DEF Givers
    <3> QED BY <3>1 DEF SignApprovalBatch
  <2> QED BY <1>1, <1>2, <1>6, <2>1, <2>2
<1>12. StatusTellsDeposit' /\ NonceCountsEscrows'
  BY <1>1 DEF EInv, BooksAgree, StatusTellsDeposit, NonceCountsEscrows
<1>13. ReleasedByQuorum'
  <2> SUFFICES ASSUME NEW id \in EscrowId, escrows[id].status = "Released"
               PROVE  Cardinality(SignersOf(id, "Release")') >= escrows[id].required
                      /\ escrows[id].lock <= time
    BY <1>1 DEF ReleasedByQuorum
  <2>1. /\ Cardinality(SignersOf(id, "Release")) >= escrows[id].required
        /\ escrows[id].lock <= time
    BY DEF EInv, ReleasedByQuorum
  <2>2. escrows[id].required \in Nat BY <1>0, EscrowList, RecordFields
  <2> QED BY <1>2, <1>3, <2>1, <2>2, SignersFinite, AsManyGivers
<1> QED BY <1>10, <1>11, <1>12, <1>13 DEF EInv, BooksAgree

-----------------------------------------------------------------------------
(* The asked of one buyer in a batch, and the escrows of one buyer.       *)
Of(asked, b) == {j \in DOMAIN asked : asked[j].buyer = b}

EscrowsOf(b) == {id \in EscrowId : escrows[id].buyer = b}

Fresh(request) ==
  [buyer |-> request.buyer, amount |-> request.amount, deposited |-> 0,
   status |-> "Created", lock |-> request.lock,
   signers |-> Range(request.participants), required |-> request.required]

LEMMA FreshRecord ==
  ASSUME NEW request \in EscrowRequest, Acceptable(request)
  PROVE  Fresh(request) \in EscrowRecord
<1>1. /\ request.buyer \in Buyer /\ request.amount \in Int /\ request.required \in Nat
      /\ request.lock \in {NoLock} \cup 0..LastTime /\ request.participants \in Seq(Signer)
      /\ LastTime \in Nat
  BY EscrowAssumption
<1>2. Range(request.participants) \subseteq Signer BY <1>1 DEF Range
<1>3. request.amount > 0 /\ request.required # 0
  <2>1. Len(request.participants) \in Nat BY <1>1
  <2> QED BY <2>1 DEF Acceptable
<1>4. request.lock \in {NoLock} \cup Nat BY <1>1
<1> QED BY <1>1, <1>2, <1>3, <1>4 DEF Fresh, EscrowRecord, Status

(* A buyer's nonce grows by the number of the buyer's asked.              *)
LEMMA NonceGrows ==
  ASSUME NEW n \in Nat, NEW asked, DOMAIN asked = 1..n, NEW given, NEW b \in Buyer,
         \A i \in 1..n : NonceFits(asked, given, i), nonce[b] \in Nat
  PROVE  (IF LastOf(asked, b) = {} THEN nonce[b]
          ELSE given[CHOOSE i \in LastOf(asked, b) : TRUE])
           = nonce[b] + Cardinality(Of(asked, b))
<1> DEFINE J == Of(asked, b)
<1>1. IsFiniteSet(J) /\ J \subseteq Nat
  <2>1. J \subseteq 1..n BY DEF Of
  <2>2. IsFiniteSet(1..n) BY FS_Interval
  <2> HIDE DEF J
  <2>3. IsFiniteSet(J) BY <2>1, <2>2, FS_Subset
  <2> QED BY <2>1, <2>3
<1>2. LastOf(asked, b) = {i \in J : \A j \in J : j <= i} BY DEF LastOf, Of
<1>3. CASE J = {}
  BY <1>2, <1>3, FS_EmptySet
<1>4. CASE J # {}
  <2>1. LastOf(asked, b) # {}
    <3> HIDE DEF J
    <3> QED BY <1>1, <1>2, <1>4, GreatestNumber
  <2> DEFINE last == CHOOSE i \in LastOf(asked, b) : TRUE
  <2>2. last \in J /\ \A j \in J : j <= last
    <3>1. last \in LastOf(asked, b) BY <2>1
    <3> HIDE DEF last
    <3> QED BY <1>2, <3>1
  <2> HIDE DEF last
  <2>3. last \in 1..n /\ asked[last].buyer = b BY <2>2 DEF Of
  <2>4. {j \in 1..last : asked[j].buyer = asked[last].buyer} = J
    BY <2>2, <2>3 DEF Of
  <2>5. given[last] = nonce[b] + Cardinality(J) BY <2>3, <2>4 DEF NonceFits
  <2> QED BY <2>1, <2>5 DEF last
<1> QED BY <1>3, <1>4

LEMMA StepCreate ==
  ASSUME EInv, NEW n \in Nat, NEW asked \in [1..n -> EscrowRequest], NEW given,
         CreateEscrowsBatch(asked, given)
  PROVE  EInv'
<1> DEFINE L == Len(escrows)
           new == [i \in 1..n |-> Fresh(asked[i])]
<1>0. EscrowTypeOK BY DEF EInv
<1>1. UNCHANGED <<time, paused, signatures, sigCount, escrowVersion>> BY DEF CreateEscrowsBatch
<1>2. EscrowId = 1..L /\ L \in Nat /\ \A id \in EscrowId : escrows[id] \in EscrowRecord
  BY <1>0, EscrowList
<1>3. escrows' = escrows \o new BY DEF CreateEscrowsBatch, Fresh
<1>4. \A i \in 1..n : new[i] \in EscrowRecord
  BY FreshRecord DEF CreateEscrowsBatch
<1>5. new \in Seq(EscrowRecord) /\ Len(new) = n
  <2>1. new \in [1..n -> EscrowRecord] BY <1>4
  <2>2. DOMAIN new = 1..n OBVIOUS
  <2> HIDE DEF new
  <2> QED BY <2>1, <2>2
<1>6. /\ \A i \in 1..n : /\ new[i].buyer = asked[i].buyer /\ new[i].status = "Created"
                         /\ new[i].deposited = 0
  BY DEF Fresh
<1> HIDE DEF new
<1>7. /\ escrows' \in Seq(EscrowRecord) /\ EscrowId' = 1..(L + n)
      /\ \A id \in 1..L : escrows'[id] = escrows[id]
      /\ \A i \in 1..n : escrows'[L + i] = new[i]
  BY <1>0, <1>3, <1>5 DEF EscrowTypeOK, EscrowId
<1>8. ASSUME NEW id \in EscrowId'
      PROVE  id \in EscrowId \/ \E i \in 1..n : id = L + i
  <2>1. id \in 1..(L + n) BY <1>7, <1>8
  <2> HIDE DEF L
  <2>2. CASE id <= L BY <1>2, <2>1, <2>2
  <2>3. CASE ~ (id <= L)
    <3>1. id - L \in 1..n /\ id = L + (id - L) BY <1>2, <2>1, <2>3
    <3> QED BY <3>1
  <2> QED BY <2>2, <2>3
<1>9. ASSUME NEW id \in EscrowId', id \notin EscrowId, NEW type
      PROVE  SignersOf(id, type) = {} /\ <<id, type>> \notin DOMAIN sigCount
  BY <1>0, <1>9 DEF EscrowTypeOK, SignersOf
<1>10. \A b \in Buyer : nonce'[b] = nonce[b] + Cardinality(Of(asked, b))
  <2> SUFFICES ASSUME NEW b \in Buyer
               PROVE  nonce'[b] = nonce[b] + Cardinality(Of(asked, b))
    OBVIOUS
  <2>1. nonce[b] \in Nat BY <1>0 DEF EscrowTypeOK
  <2>2. \A i \in 1..n : NonceFits(asked, given, i) BY DEF CreateEscrowsBatch
  <2>3. nonce'[b] = IF LastOf(asked, b) = {} THEN nonce[b]
                    ELSE given[CHOOSE i \in LastOf(asked, b) : TRUE]
    BY DEF CreateEscrowsBatch
  <2> QED BY <2>1, <2>2, <2>3, NonceGrows
<1>11. ASSUME NEW b \in Buyer
       PROVE  /\ Cardinality({id \in EscrowId' : escrows'[id].buyer = b})
                   = Cardinality(EscrowsOf(b)) + Cardinality(Of(asked, b))
              /\ Cardinality(EscrowsOf(b)) \in Nat /\ Cardinality(Of(asked, b)) \in Nat
  <2> DEFINE J == Of(asked, b)
             M == {L + j : j \in J}
             f == [j \in J |-> L + j]
  <2>1. J \subseteq 1..n /\ IsFiniteSet(J) BY FS_Interval, FS_Subset DEF Of
  <2>2. IsFiniteSet(M) /\ Cardinality(M) = Cardinality(J)
    <3>1. f \in [J -> M] OBVIOUS
    <3>2. \A x, y \in J : f[x] = f[y] => x = y BY <1>2, <2>1
    <3>3. \A t \in M : \E x \in J : f[x] = t OBVIOUS
    <3> HIDE DEF J, M, f
    <3> QED BY <2>1, <3>1, <3>2, <3>3, SameSize
  <2>3. IsFiniteSet(EscrowsOf(b))
    <3>1. EscrowsOf(b) \subseteq 1..L BY <1>2 DEF EscrowsOf
    <3>2. IsFiniteSet(1..L) BY <1>2, FS_Interval
    <3> HIDE DEF L
    <3> QED BY <3>1, <3>2, FS_Subset
  <2>4. EscrowsOf(b) \cap M = {} BY <1>2, <2>1 DEF EscrowsOf
  <2>5. {id \in EscrowId' : escrows'[id].buyer = b} = EscrowsOf(b) \cup M
    <3>1. ASSUME NEW id \in EscrowId', escrows'[id].buyer = b
          PROVE  id \in EscrowsOf(b) \cup M
      <4>1. CASE id \in EscrowId BY <1>2, <1>7, <3>1, <4>1 DEF EscrowsOf
      <4>2. CASE \E i \in 1..n : id = L + i
        <5>1. PICK i \in 1..n : id = L + i BY <4>2
        <5>2. asked[i].buyer = b BY <1>6, <1>7, <3>1, <5>1
        <5>3. i \in J BY <5>2 DEF Of
        <5> QED BY <5>1, <5>3
      <4> QED BY <1>8, <4>1, <4>2
    <3>2. \A id \in EscrowsOf(b) : id \in EscrowId' /\ escrows'[id].buyer = b
      <4>1. EscrowsOf(b) \subseteq 1..L /\ \A id \in EscrowsOf(b) : escrows[id].buyer = b
        BY <1>2 DEF EscrowsOf
      <4>2. 1..L \subseteq EscrowId' BY <1>2, <1>7
      <4> QED BY <1>7, <4>1, <4>2
    <3>3. \A j \in J : L + j \in EscrowId' /\ escrows'[L + j].buyer = b
      BY <1>2, <1>6, <1>7, <2>1 DEF Of
    <3> DEFINE Now == {id \in EscrowId' : escrows'[id].buyer = b}
    <3>4. Now \subseteq EscrowsOf(b) \cup M BY <3>1
    <3>5. EscrowsOf(b) \subseteq Now BY <3>2
    <3>6. M \subseteq Now BY <3>3
    <3> HIDE DEF Now, M
    <3>7. Now = EscrowsOf(b) \cup M BY <3>4, <3>5, <3>6
    <3> QED BY <3>7 DEF Now
  <2> HIDE DEF M, J
  <2> QED BY <2>1, <2>2, <2>3, <2>4, <2>5, DisjointSizes DEF J
<1>12. NonceCountsEscrows'
  BY <1>10, <1>11 DEF EInv, BooksAgree, NonceCountsEscrows, EscrowsOf
<1>13. EscrowTypeOK'
  <2>1. nonce' \in [Buyer -> Nat]
    <3>1. ASSUME NEW b \in Buyer PROVE nonce'[b] \in Nat
      <4>1. nonce[b] \in Nat BY <1>0 DEF EscrowTypeOK
      <4>2. Cardinality(Of(asked, b)) \in Nat BY <1>11
      <4> QED BY <1>10, <4>1, <4>2
    <3>2. nonce' = [b \in Buyer |-> nonce'[b]] BY DEF CreateEscrowsBatch
    <3> QED BY <3>1, <3>2
  <2>2. EscrowId \subseteq EscrowId' BY <1>2, <1>7
  <2> QED BY <1>0, <1>1, <1>7, <2>1, <2>2 DEF EscrowTypeOK
<1>14. CountMatchesSignatures'
  <2> SUFFICES ASSUME NEW id \in EscrowId', NEW type \in ApprovalType
               PROVE  /\ Count(id, type)' = Cardinality(SignersOf(id, type)')
                      /\ SignersOf(id, type)' \subseteq escrows'[id].signers
    BY DEF CountMatchesSignatures
  <2>1. Count(id, type)' = Count(id, type) /\ SignersOf(id, type)' = SignersOf(id, type)
    BY <1>1 DEF Count, SignersOf
  <2>2. CASE id \in EscrowId
    BY <1>2, <1>7, <2>1, <2>2 DEF EInv, BooksAgree, CountMatchesSignatures
  <2>3. CASE id \notin EscrowId
    BY <1>9, <2>1, <2>3, FS_EmptySet DEF Count
  <2> QED BY <2>2, <2>3
<1>15. StatusTellsDeposit'
  <2>1. \A i \in 1..n : EscrowHolds(new[i]) BY <1>6 DEF EscrowHolds
  <2>2. \A id \in EscrowId' : EscrowHolds(escrows'[id])
    BY <1>2, <1>7, <1>8, <2>1, StatusHolds DEF EInv, BooksAgree
  <2> QED BY <2>2 DEF StatusTellsDeposit, EscrowHolds
<1>16. ReleasedByQuorum'
  <2> SUFFICES ASSUME NEW id \in EscrowId', escrows'[id].status = "Released"
               PROVE  Cardinality(SignersOf(id, "Release")) >= escrows'[id].required
                      /\ escrows'[id].lock <= time
    BY <1>1 DEF ReleasedByQuorum, SignersOf
  <2>1. id \in EscrowId BY <1>6, <1>7, <1>8
  <2> QED BY <1>2, <1>7, <2>1 DEF EInv, ReleasedByQuorum
<1> QED BY <1>12, <1>13, <1>14, <1>15, <1>16 DEF EInv, BooksAgree

-----------------------------------------------------------------------------
LEMMA EscrowStarts ==
  ASSUME EscrowInit
  PROVE  EInv
<1> USE DEF EscrowInit
<1>1. escrows = <<>> /\ sigCount = <<>> /\ signatures = {} /\ EscrowId = {}
  BY DEF EscrowId
<1>2. EscrowTypeOK
  <2>1. <<>> \in Seq(EscrowRecord) /\ DOMAIN <<>> = {} /\ <<>> \in [{} -> Nat] OBVIOUS
  <2>2. time \in 0..LastTime BY EscrowAssumption
  <2> QED BY <1>1, <2>1, <2>2 DEF EscrowTypeOK
<1>3. CountMatchesSignatures /\ StatusTellsDeposit /\ ReleasedByQuorum
  BY <1>1 DEF CountMatchesSignatures, StatusTellsDeposit, ReleasedByQuorum
<1>4. NonceCountsEscrows
  <2>1. \A b \in Buyer : {id \in EscrowId : escrows[id].buyer = b} = {} BY <1>1
  <2> QED BY <2>1, FS_EmptySet DEF NonceCountsEscrows
<1> QED BY <1>2, <1>3, <1>4 DEF EInv, BooksAgree

(* Time may pass, the pause change and the storage be migrated.              *)
LEMMA BooksKept ==
  ASSUME EInv, UNCHANGED books, time' \in 0..LastTime, time' >= time,
         paused' \in BOOLEAN, escrowVersion' \in {1, 2}
  PROVE  EInv'
<1>0. EscrowTypeOK BY DEF EInv
<1>1. UNCHANGED <<escrows, signatures, sigCount, nonce>> /\ EscrowId' = EscrowId
  BY DEF books, EscrowId
<1>2. EscrowTypeOK' BY <1>0, <1>1 DEF EscrowTypeOK
<1>3. BooksAgree'
  <2>1. CountMatchesSignatures'
    BY <1>1 DEF EInv, BooksAgree, CountMatchesSignatures, Count, SignersOf
  <2>2. StatusTellsDeposit' BY <1>1 DEF EInv, BooksAgree, StatusTellsDeposit
  <2>3. NonceCountsEscrows' BY <1>1 DEF EInv, BooksAgree, NonceCountsEscrows
  <2> QED BY <2>1, <2>2, <2>3 DEF BooksAgree
<1>4. ReleasedByQuorum'
  <2> SUFFICES ASSUME NEW id \in EscrowId, escrows[id].status = "Released"
               PROVE  Cardinality(SignersOf(id, "Release")) >= escrows[id].required
                      /\ escrows[id].lock <= time'
    BY <1>1 DEF ReleasedByQuorum, SignersOf
  <2>1. Cardinality(SignersOf(id, "Release")) >= escrows[id].required
        /\ escrows[id].lock <= time
    BY DEF EInv, ReleasedByQuorum
  <2>2. escrows[id].lock \in Int /\ time \in Int /\ time' \in Int
    BY <1>0, EscrowList, RecordFields, EscrowAssumption DEF NoLock, EscrowTypeOK
  <2> QED BY <2>1, <2>2
<1> QED BY <1>2, <1>3, <1>4 DEF EInv

LEMMA EscrowStep ==
  ASSUME EInv, [EscrowNext]_escrowVars
  PROVE  EInv'
<1>0. EscrowTypeOK /\ time \in 0..LastTime /\ LastTime \in Nat
  BY EscrowAssumption DEF EInv, EscrowTypeOK
<1>1. ASSUME Advance PROVE EInv'
  <2>1. time' \in 0..LastTime /\ time' >= time BY <1>0, <1>1 DEF Advance
  <2> QED BY <1>0, <1>1, <2>1, BooksKept DEF Advance, EscrowTypeOK
<1>2. ASSUME BreakerStep PROVE EInv'
  BY <1>0, <1>2, BooksKept DEF BreakerStep, EscrowTypeOK
<1>3. ASSUME Migrate PROVE EInv'
  BY <1>0, <1>3, BooksKept DEF Migrate, EscrowTypeOK
<1>4. ASSUME NEW n \in 1..EscrowBatch, NEW asked \in [1..n -> EscrowRequest], NEW given,
             CreateEscrowsBatch(asked, given)
      PROVE  EInv'
  <2>1. n \in Nat BY EscrowAssumption
  <2> QED BY <1>4, <2>1, StepCreate
<1>5. ASSUME NEW n \in 1..EscrowBatch, NEW deposits \in [1..n -> EscrowId \X Deposit],
             DepositFundsBatch(deposits)
      PROVE  EInv'
  <2>1. n \in Nat BY EscrowAssumption
  <2> QED BY <1>5, <2>1, StepDeposit
<1>6. ASSUME NEW approvals \in SUBSET (EscrowId \X ApprovalType \X Signer),
             SignApprovalBatch(approvals)
      PROVE  EInv'
  BY <1>6, StepSign
<1>7. ASSUME NEW id \in EscrowId, ReleaseFunds(id) PROVE EInv'
  BY <1>7, StepRelease
<1>8. ASSUME UNCHANGED escrowVars PROVE EInv'
  BY <1>0, <1>8, BooksKept DEF escrowVars, books, EscrowTypeOK
<1> QED BY <1>1, <1>2, <1>3, <1>4, <1>5, <1>6, <1>7, <1>8 DEF EscrowNext

(* The records of the escrow contract (contracts/escrow/src/lib.rs) agree,   *)
(* have their types and release only by quorum, after every batch.           *)
THEOREM EscrowInvariant == EscrowSpec => []EInv
<1>1. EscrowInit => EInv BY EscrowStarts
<1>2. EInv /\ [EscrowNext]_escrowVars => EInv' BY EscrowStep
<1> QED BY <1>1, <1>2, PTL DEF EscrowSpec

(* Every variable of the escrow contract keeps its type.                     *)
THEOREM EscrowTypes == EscrowSpec => []EscrowTypeOK
<1>1. EInv => EscrowTypeOK BY DEF EInv
<1> QED BY <1>1, EscrowInvariant, PTL

(* The count of signatures, the status and the nonce say what the signatures,*)
(* deposits and escrows themselves say, whatever the sizes of the batches.   *)
THEOREM EscrowBooks == EscrowSpec => []BooksAgree
<1>1. EInv => BooksAgree BY DEF EInv
<1> QED BY <1>1, EscrowInvariant, PTL

(* No escrow is released before its time lock, or by fewer different signers *)
(* than it asks for.                                                         *)
THEOREM EscrowQuorum == EscrowSpec => []ReleasedByQuorum
<1>1. EInv => ReleasedByQuorum BY DEF EInv
<1> QED BY <1>1, EscrowInvariant, PTL
=============================================================================

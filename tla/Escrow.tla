-------------------------------- MODULE Escrow --------------------------------
(*****************************************************************************)
(* The escrow contract (contracts/escrow): an escrow is funded by deposits,  *)
(* signed for by its participants and released once, when it is full, enough *)
(* of them have signed and its time lock has passed.  The contract keeps     *)
(* accounts only; no call of it moves tokens.  Whether it is paused is all   *)
(* that is left here of CircuitBreaker.                                      *)
(*****************************************************************************)
EXTENDS Integers, Sequences, FiniteSets, Functions

CONSTANTS
  Buyer,            \* accounts that buy
  Signer,           \* accounts that sign
  ApprovalType,     \* the kinds of approval; "Release" is one
  EscrowRequest,    \* requests for an escrow: buyer, amount, participants (a list in
                    \* which an account may occur twice), required signatures, lock
  Deposit,          \* amounts deposited: any i128
  MaxParticipants,  \* MAX_PARTICIPANTS: 10 in the code
  EscrowBatch,      \* bound on the length of a batch (20 or 50 in the code)
  EscrowLimit,      \* bound on the number of escrows
  LastTime          \* bound on the ledger's timestamp

NoLock == -1

ASSUME EscrowAssumption ==
  /\ "Release" \in ApprovalType /\ IsFiniteSet(Signer)
  /\ EscrowRequest \subseteq [buyer : Buyer, amount : Int, participants : Seq(Signer),
                               required : Nat, lock : {NoLock} \cup 0..LastTime]
  /\ Deposit \subseteq Int
  /\ {MaxParticipants, EscrowBatch, EscrowLimit, LastTime} \subseteq Nat

VARIABLES
  time,             \* ledger timestamp
  paused,           \* what CircuitBreaker's Paused says
  escrows,          \* Escrow(id) and MultiSig(id) for id in 1..EscrowCount
  signatures,       \* Signature(id, type, signer): the triples that are stored
  sigCount,         \* SigCount(id, type), stored with the first signature
  nonce,            \* Nonce(buyer)
  escrowVersion     \* Version: storage version, 1 or 2

books      == <<escrows, signatures, sigCount, nonce>>
escrowVars == <<time, paused, books, escrowVersion>>

EscrowId == DOMAIN escrows

EscrowInit ==
  /\ time = 0 /\ paused = FALSE
  /\ escrows = <<>> /\ signatures = {} /\ sigCount = <<>>
  /\ nonce = [b \in Buyer |-> 0]
  /\ escrowVersion \in {1, 2}

(* Time passes, and the pause is scheduled, begins or ends.                  *)
Advance ==
  /\ time < LastTime
  /\ time' = time + 1
  /\ paused' \in BOOLEAN
  /\ UNCHANGED <<books, escrowVersion>>

BreakerStep ==
  /\ paused' = ~ paused
  /\ UNCHANGED <<time, books, escrowVersion>>

-----------------------------------------------------------------------------
Acceptable_AnyAmount(request) ==
  /\ Len(request.participants) <= MaxParticipants
  /\ request.required \in 1..Len(request.participants)
  /\ request.lock # NoLock => request.lock > time

(* The checks of a request for an escrow, its nonce apart.                   *)
Acceptable(request) ==
  /\ request.amount > 0
  /\ Len(request.participants) <= MaxParticipants
  /\ request.required \in 1..Len(request.participants)
  /\ request.lock # NoLock => request.lock > time

(* The nonce of the i-th request follows those of its buyer in the batch.    *)
NonceFits(requests, nonces, i) ==
  nonces[i] = nonce[requests[i].buyer]
                + Cardinality({j \in 1..i : requests[j].buyer = requests[i].buyer})

LastOf(requests, buyer) == {i \in DOMAIN requests :
  /\ requests[i].buyer = buyer
  /\ \A j \in DOMAIN requests : requests[j].buyer = buyer => j <= i}

(* create_escrows_batch: every request in turn, all or nothing.              *)
CreateEscrowsBatch(requests, nonces) ==
  /\ ~ paused
  /\ Len(escrows) + Len(requests) <= EscrowLimit
  /\ \A i \in DOMAIN requests :
       Acceptable(requests[i]) /\ NonceFits(requests, nonces, i)
  /\ escrows' = escrows \o [i \in DOMAIN requests |->
       [buyer |-> requests[i].buyer, amount |-> requests[i].amount, deposited |-> 0,
        status |-> "Created", lock |-> requests[i].lock,
        signers |-> Range(requests[i].participants), required |-> requests[i].required]]
  /\ nonce' = [b \in Buyer |->
       IF LastOf(requests, b) = {} THEN nonce[b]
       ELSE nonces[CHOOSE i \in LastOf(requests, b) : TRUE]]
  /\ UNCHANGED <<time, paused, signatures, sigCount, escrowVersion>>

CreateEscrow(request, n) == CreateEscrowsBatch(<<request>>, <<n>>)

-----------------------------------------------------------------------------
Paid(deposits, id) ==
  SumFunctionOnSet([i \in DOMAIN deposits |-> deposits[i][2]],
                   {i \in DOMAIN deposits : deposits[i][1] = id})

Funded(escrow, amount) ==
  [escrow EXCEPT !.deposited = @ + amount,
                 !.status = IF escrow.deposited + amount >= escrow.amount THEN "Active" ELSE "Funded"]

Open(escrow) == escrow.status \in {"Created", "Funded"}

(* deposit_funds_batch: <<escrow_id, amount>> pairs in turn, all or nothing. *)
(* Each amount is positive and none may overfill its escrow, so it is enough *)
(* to look at the sums.                                                      *)
DepositFundsBatch(deposits) ==
  LET ids == {deposits[i][1] : i \in DOMAIN deposits} IN
  /\ ~ paused
  /\ \A i \in DOMAIN deposits : deposits[i][2] > 0
  /\ \A id \in ids :
       /\ Open(escrows[id])
       /\ escrows[id].deposited + Paid(deposits, id) <= escrows[id].amount
  /\ escrows' = [id \in EscrowId |->
       IF id \in ids THEN Funded(escrows[id], Paid(deposits, id)) ELSE escrows[id]]
  /\ UNCHANGED <<time, paused, signatures, sigCount, nonce, escrowVersion>>

DepositFunds(id, amount) == DepositFundsBatch(<<<<id, amount>>>>)

-----------------------------------------------------------------------------
Count(id, type) == IF <<id, type>> \in DOMAIN sigCount THEN sigCount[<<id, type>>] ELSE 0

SignApprovalBatch_CountOnce(approvals) ==
  LET touched == {<<a[1], a[2]>> : a \in approvals} IN
  /\ ~ paused /\ approvals # {}
  /\ \A a \in approvals : a[3] \in escrows[a[1]].signers /\ a \notin signatures
  /\ signatures' = signatures \cup approvals
  /\ sigCount' = [t \in DOMAIN sigCount \cup touched |->
       Count(t[1], t[2]) + (IF t \in touched THEN 1 ELSE 0)]
  /\ UNCHANGED <<time, paused, escrows, nonce, escrowVersion>>

(* sign_approval_batch: triples of escrow, type and signer, in turn, all or  *)
(* nothing; one that occurs twice fails.  The status of the escrow is not    *)
(* looked at.                                                                *)
SignApprovalBatch(approvals) ==
  LET touched == {<<a[1], a[2]>> : a \in approvals} IN
  /\ ~ paused /\ approvals # {}
  /\ \A a \in approvals : a[3] \in escrows[a[1]].signers /\ a \notin signatures
  /\ signatures' = signatures \cup approvals
  /\ sigCount' = [t \in DOMAIN sigCount \cup touched |->
       Count(t[1], t[2]) + Cardinality({a \in approvals : <<a[1], a[2]>> = t})]
  /\ UNCHANGED <<time, paused, escrows, nonce, escrowVersion>>

SignApproval(id, type, signer) == SignApprovalBatch({<<id, type, signer>>})

ReleaseFunds_AnyApproval(id) ==
  /\ ~ paused
  /\ escrows[id].status = "Active"
  /\ escrows[id].lock # NoLock => time >= escrows[id].lock
  /\ \E type \in ApprovalType : Count(id, type) >= escrows[id].required
  /\ escrows' = [escrows EXCEPT ![id].status = "Released", ![id].deposited = 0]
  /\ UNCHANGED <<time, paused, signatures, sigCount, nonce, escrowVersion>>

ReleaseFunds_Strict(id) ==
  /\ ~ paused
  /\ escrows[id].status = "Active"
  /\ escrows[id].lock # NoLock => time >= escrows[id].lock
  /\ Count(id, "Release") > escrows[id].required
  /\ escrows' = [escrows EXCEPT ![id].status = "Released", ![id].deposited = 0]
  /\ UNCHANGED <<time, paused, signatures, sigCount, nonce, escrowVersion>>

(* release_funds: anybody; what was deposited counts as released.            *)
ReleaseFunds(id) ==
  /\ ~ paused
  /\ escrows[id].status = "Active"
  /\ escrows[id].lock # NoLock => time >= escrows[id].lock
  /\ Count(id, "Release") >= escrows[id].required
  /\ escrows' = [escrows EXCEPT ![id].status = "Released", ![id].deposited = 0]
  /\ UNCHANGED <<time, paused, signatures, sigCount, nonce, escrowVersion>>

(* migrate to version 2, by an admin; at version 2 nothing happens.          *)
Migrate ==
  /\ escrowVersion = 1
  /\ escrowVersion' = 2
  /\ UNCHANGED <<time, paused, books>>

EscrowNext ==
  \/ Advance \/ BreakerStep \/ Migrate
  \/ \E n \in 1..EscrowBatch : \E requests \in [1..n -> EscrowRequest],
                                 nonces \in [1..n -> 1..EscrowLimit] :
       CreateEscrowsBatch(requests, nonces)
  \/ \E n \in 1..EscrowBatch : \E deposits \in [1..n -> EscrowId \X Deposit] :
       DepositFundsBatch(deposits)
  \/ \E approvals \in SUBSET (EscrowId \X ApprovalType \X Signer) :
       Cardinality(approvals) <= EscrowBatch /\ SignApprovalBatch(approvals)
  \/ \E id \in EscrowId : ReleaseFunds(id)

EscrowSpec == EscrowInit /\ [][EscrowNext]_escrowVars

(* Time goes on, the participants sign for the release, and somebody calls   *)
(* release_funds.                                                            *)
EscrowFairSpec ==
  /\ EscrowSpec
  /\ WF_escrowVars(Advance)
  /\ \A id \in 1..EscrowLimit :
       /\ WF_escrowVars(id \in EscrowId /\ ReleaseFunds(id))
       /\ \A signer \in Signer :
            WF_escrowVars(id \in EscrowId /\ SignApproval(id, "Release", signer))

-----------------------------------------------------------------------------
Status == {"Created", "Funded", "Active", "Released"}

EscrowRecord ==
  [buyer : Buyer, amount : Nat \ {0}, deposited : Nat, status : Status,
   lock : {NoLock} \cup Nat, signers : SUBSET Signer, required : Nat \ {0}]

EscrowTypeOK ==
  /\ time \in 0..LastTime /\ paused \in BOOLEAN /\ escrowVersion \in {1, 2}
  /\ escrows \in Seq(EscrowRecord)
  /\ signatures \subseteq EscrowId \X ApprovalType \X Signer
  /\ DOMAIN sigCount \subseteq EscrowId \X ApprovalType
  /\ sigCount \in [DOMAIN sigCount -> Nat]
  /\ nonce \in [Buyer -> Nat]

SignersOf(id, type) == {s \in Signer : <<id, type, s>> \in signatures}

(* The counter that releases are decided by is the number of participants    *)
(* who have signed, each once, in whatever batches they did.                 *)
CountMatchesSignatures ==
  \A id \in EscrowId, type \in ApprovalType :
    /\ Count(id, type) = Cardinality(SignersOf(id, type))
    /\ SignersOf(id, type) \subseteq escrows[id].signers

(* Money was released only for as many signatures for the release as the     *)
(* escrow asks for, and not before its time lock.                            *)
ReleasedByQuorum ==
  \A id \in EscrowId : escrows[id].status = "Released" =>
    /\ Cardinality(SignersOf(id, "Release")) >= escrows[id].required
    /\ escrows[id].lock <= time

(* The status of an escrow tells what it holds: it is open for deposits      *)
(* until it is full, never overfull, and empty once it is released.          *)
StatusTellsDeposit ==
  \A id \in EscrowId :
    LET e == escrows[id] IN
    CASE e.status = "Created"  -> e.deposited = 0
      [] e.status = "Funded"   -> e.deposited \in 1..(e.amount - 1)
      [] e.status = "Active"   -> e.deposited = e.amount
      [] e.status = "Released" -> e.deposited = 0

(* A nonce is used for one escrow: a buyer's nonce counts the buyer's        *)
(* escrows, those of one batch as well.                                      *)
NonceCountsEscrows ==
  \A b \in Buyer : nonce[b] = Cardinality({id \in EscrowId : escrows[id].buyer = b})

(* The redundant records of an escrow agree after every order of calls and   *)
(* batches: count and signatures, status and deposit, nonce and escrows.     *)
BooksAgree == CountMatchesSignatures /\ StatusTellsDeposit /\ NonceCountsEscrows

(* Once the pauses are over, an escrow that is full is released, provided it *)
(* asks for no more signatures than it has different participants.           *)
FullEscrowsAreReleased ==
  <>[] ~ paused =>
    \A id \in 1..EscrowLimit :
      ( /\ id \in EscrowId /\ escrows[id].status = "Active"
        /\ escrows[id].required <= Cardinality(escrows[id].signers) )
      ~> (id \in EscrowId /\ escrows[id].status = "Released")
=============================================================================

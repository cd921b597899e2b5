----------------------------- MODULE PropertyShares -----------------------------
(*****************************************************************************)
(* The market for the units of a property token: shares are issued,          *)
(* redeemed, transferred, offered and bought, dividends are paid on them,    *)
(* and the holders vote with them.                                           *)
(*****************************************************************************)
EXTENDS PropertyToken

CONSTANTS
  Scaling,                             \* of dividends_per_share, 10^12 in the code
  IssueAmounts, Prices, Deposits, Quorums,
  MaxShares, MaxDps, MaxProposals      \* bounds

ASSUME SharesAssumption ==
  /\ Scaling \in Nat \ {0} /\ MaxShares \in Nat /\ MaxDps \in Nat /\ MaxProposals \in Nat
  /\ IssueAmounts \subseteq Nat /\ Prices \subseteq Nat /\ Deposits \subseteq Nat /\ Quorums \subseteq Nat

NoAsk == [price |-> 0, amount |-> 0]

VARIABLES
  totalShares, dividendsPerShare,
  dividendBalance, checkpoint,    \* per token and holder
  asks, escrowed,                 \* per token and seller
  tokenProposals,                      \* per token, a sequence; voters is votes_cast
  paidOut, peak                   \* history: dividends withdrawn, the most units ever held

shareVars == <<totalShares, dividendsPerShare, dividendBalance, checkpoint, asks, escrowed, tokenProposals, paidOut>>

restOfToken ==
  <<tokenOwner, ownerCount, lastTo, verified, tokenCounter, totalSupply, grantVars, bridgeVars>>

PerHolder(x) == [t \in Tokens |-> [a \in Accounts |-> x]]

SharesInit ==
  /\ totalShares = [t \in Tokens |-> 0] /\ dividendsPerShare = [t \in Tokens |-> 0]
  /\ dividendBalance = PerHolder(0) /\ checkpoint = PerHolder(0)
  /\ asks = PerHolder(NoAsk) /\ escrowed = PerHolder(0)
  /\ tokenProposals = [t \in Tokens |-> <<>>]
  /\ paidOut = PerHolder(0) /\ peak = PerHolder(0)

Sync_KeepsCheckpoint(t, held) ==
  /\ dividendBalance' = [dividendBalance EXCEPT ![t] =
       [a \in Accounts |-> IF a \in DOMAIN held
          THEN @[a] + (held[a] * (dividendsPerShare[t] - checkpoint[t][a])) \div Scaling ELSE @[a]]]
  /\ UNCHANGED checkpoint

(* update_dividend_credit_on_change, for the accounts in the domain of held, *)
(* with the balance each has at that moment.                                 *)
Sync(t, held) ==
  /\ dividendBalance' = [dividendBalance EXCEPT ![t] =
       [a \in Accounts |-> IF a \in DOMAIN held
          THEN @[a] + (held[a] * (dividendsPerShare[t] - checkpoint[t][a])) \div Scaling ELSE @[a]]]
  /\ checkpoint' = [checkpoint EXCEPT ![t] =
       [a \in Accounts |-> IF a \in DOMAIN held THEN dividendsPerShare[t] ELSE @[a]]]

(* The credit is computed after the balance has grown, so new shares are     *)
(* credited with the dividends of before.                                    *)
IssueShares(caller, t, to, amount) ==
  /\ caller = TokenAdmin \/ caller = tokenOwner[t]
  /\ tokenOwner[t] # Nobody /\ amount > 0
  /\ totalShares[t] + amount <= MaxShares
  /\ units' = [units EXCEPT ![t][to] = @ + amount]
  /\ totalShares' = [totalShares EXCEPT ![t] = @ + amount]
  /\ Sync(t, [a \in {to} |-> units[t][a] + amount])
  /\ UNCHANGED <<restOfToken, dividendsPerShare, asks, escrowed, tokenProposals, paidOut>>

(* The unit a token is registered with is in no total: it may be redeemed,   *)
(* and then the subtraction saturates.                                       *)
RedeemShares(caller, t, from, amount) ==
  /\ caller = from \/ <<from, caller>> \in operatorFor
  /\ amount > 0 /\ units[t][from] >= amount
  /\ units' = [units EXCEPT ![t][from] = @ - amount]
  /\ totalShares' = [totalShares EXCEPT ![t] = IF @ < amount THEN 0 ELSE @ - amount]
  /\ Sync(t, [a \in {from} |-> units[t][a] - amount])
  /\ UNCHANGED <<restOfToken, dividendsPerShare, asks, escrowed, tokenProposals, paidOut>>

TransferOfShares(caller, t, from, to, amount) ==
  /\ caller = from \/ <<from, caller>> \in operatorFor
  /\ amount > 0 /\ units[t][from] >= amount
  /\ Sync(t, [a \in {from, to} |-> units[t][a]])
  /\ units' = [[units EXCEPT ![t][from] = @ - amount] EXCEPT ![t][to] = @ + amount]
  /\ UNCHANGED <<restOfToken, totalShares, dividendsPerShare, asks, escrowed, tokenProposals, paidOut>>

DepositDividends(t, value) ==
  /\ value > 0 /\ totalShares[t] > 0
  /\ dividendsPerShare[t] + (value * Scaling) \div totalShares[t] <= MaxDps
  /\ dividendsPerShare' = [dividendsPerShare EXCEPT ![t] = @ + (value * Scaling) \div totalShares[t]]
  /\ UNCHANGED <<tokenVars, totalShares, dividendBalance, checkpoint, asks, escrowed, tokenProposals, paidOut>>

(* Credited first, then paid: what the caller is owed becomes zero.          *)
WithdrawDividends(a, t) ==
  LET owed == dividendBalance[t][a] + (units[t][a] * (dividendsPerShare[t] - checkpoint[t][a])) \div Scaling
  IN  /\ dividendBalance' = [dividendBalance EXCEPT ![t][a] = 0]
      /\ checkpoint' = [checkpoint EXCEPT ![t][a] = dividendsPerShare[t]]
      /\ paidOut' = [paidOut EXCEPT ![t][a] = @ + owed]
      /\ UNCHANGED <<tokenVars, totalShares, dividendsPerShare, asks, escrowed, tokenProposals>>

CreateProposal(caller, t, quorum) ==
  /\ caller = TokenAdmin \/ caller = tokenOwner[t]
  /\ tokenOwner[t] # Nobody /\ Len(tokenProposals[t]) < MaxProposals
  /\ tokenProposals' = [tokenProposals EXCEPT ![t] = Append(@,
       [quorum |-> quorum, yes |-> 0, no |-> 0, status |-> "Open", voters |-> {}])]
  /\ UNCHANGED <<tokenVars, totalShares, dividendsPerShare, dividendBalance, checkpoint, asks, escrowed, paidOut>>

(* A proposal with one more vote.                                            *)
Voted(proposal, a, weight, support) ==
  [proposal EXCEPT !.yes = IF support THEN @ + weight ELSE @,
                   !.no  = IF support THEN @ ELSE @ + weight,
                   !.voters = @ \cup {a}]

Vote_Again(a, t, p, support) ==
  /\ tokenProposals[t][p].status = "Open"
  /\ tokenProposals' = [tokenProposals EXCEPT ![t][p] = Voted(@, a, units[t][a], support)]
  /\ UNCHANGED <<tokenVars, totalShares, dividendsPerShare, dividendBalance, checkpoint, asks, escrowed, paidOut>>

(* The weight is what the caller holds now: shares that are passed on may be *)
(* voted with again, by their next holder.                                   *)
Vote(a, t, p, support) ==
  /\ tokenProposals[t][p].status = "Open" /\ a \notin tokenProposals[t][p].voters
  /\ tokenProposals' = [tokenProposals EXCEPT ![t][p] = Voted(@, a, units[t][a], support)]
  /\ UNCHANGED <<tokenVars, totalShares, dividendsPerShare, dividendBalance, checkpoint, asks, escrowed, paidOut>>

(* By anyone, at any time.                                                   *)
ExecuteProposal(t, p) ==
  LET proposal == tokenProposals[t][p]
      passed   == proposal.yes >= proposal.quorum /\ proposal.yes > proposal.no
  IN  /\ proposal.status = "Open"
      /\ tokenProposals' = [tokenProposals EXCEPT ![t][p].status = IF passed THEN "Executed" ELSE "Rejected"]
      /\ UNCHANGED <<tokenVars, totalShares, dividendsPerShare, dividendBalance, checkpoint, asks, escrowed, paidOut>>

(* A second ask replaces the first, whose shares stay in escrow with it.     *)
PlaceAsk(seller, t, price, amount) ==
  /\ price > 0 /\ amount > 0 /\ units[t][seller] >= amount
  /\ escrowed' = [escrowed EXCEPT ![t][seller] = @ + amount]
  /\ units'    = [units EXCEPT ![t][seller] = @ - amount]
  /\ asks'     = [asks EXCEPT ![t][seller] = [price |-> price, amount |-> amount]]
  /\ UNCHANGED <<restOfToken, totalShares, dividendsPerShare, dividendBalance, checkpoint, tokenProposals, paidOut>>

(* Refused where the escrow holds more than the ask, as it does for good     *)
(* once an ask was replaced.                                                 *)
CancelAsk(seller, t) ==
  /\ asks[t][seller] # NoAsk /\ escrowed[t][seller] = asks[t][seller].amount
  /\ units'    = [units EXCEPT ![t][seller] = @ + asks[t][seller].amount]
  /\ escrowed' = [escrowed EXCEPT ![t][seller] = 0]
  /\ asks'     = [asks EXCEPT ![t][seller] = NoAsk]
  /\ UNCHANGED <<restOfToken, totalShares, dividendsPerShare, dividendBalance, checkpoint, tokenProposals, paidOut>>

BuyShares_KeepsAsk(buyer, seller, t, amount) ==
  /\ asks[t][seller] # NoAsk /\ amount \in 1..asks[t][seller].amount
  /\ escrowed[t][seller] >= amount
  /\ units'    = [units EXCEPT ![t][buyer] = @ + amount]
  /\ escrowed' = [escrowed EXCEPT ![t][seller] = @ - amount]
  /\ UNCHANGED <<restOfToken, totalShares, dividendsPerShare, dividendBalance, checkpoint, asks, tokenProposals, paidOut>>

(* What a sale leaves of an ask.                                             *)
Unsold(ask, amount) ==
  IF ask.amount = amount THEN NoAsk ELSE [ask EXCEPT !.amount = @ - amount]

(* buy_shares, with the exact price, which goes to the seller.  Neither side *)
(* is credited with its dividends first.                                     *)
BuyShares(buyer, seller, t, amount) ==
  /\ asks[t][seller] # NoAsk /\ amount \in 1..asks[t][seller].amount
  /\ escrowed[t][seller] >= amount
  /\ units'    = [units EXCEPT ![t][buyer] = @ + amount]
  /\ escrowed' = [escrowed EXCEPT ![t][seller] = @ - amount]
  /\ asks'     = [asks EXCEPT ![t][seller] = Unsold(@, amount)]
  /\ UNCHANGED <<restOfToken, totalShares, dividendsPerShare, dividendBalance, checkpoint, tokenProposals, paidOut>>

Trading ==
  \E t \in 1..tokenCounter, a \in Accounts :
    \/ CancelAsk(a, t)
    \/ \E to \in Accounts, amount \in IssueAmounts :
         \/ IssueShares(a, t, to, amount) \/ RedeemShares(a, t, to, amount) \/ BuyShares(a, to, t, amount)
         \/ \E from \in Accounts : TransferOfShares(a, t, from, to, amount)
    \/ \E price \in Prices, amount \in IssueAmounts : PlaceAsk(a, t, price, amount)

Dividends ==
  \E t \in 1..tokenCounter :
    \/ \E value \in Deposits : DepositDividends(t, value)
    \/ \E a \in Accounts : WithdrawDividends(a, t)

Voting ==
  \E t \in 1..tokenCounter :
    \/ \E a \in Accounts, quorum \in Quorums : CreateProposal(a, t, quorum)
    \/ \E p \in DOMAIN tokenProposals[t] :
         ExecuteProposal(t, p) \/ \E a \in Accounts, support \in BOOLEAN : Vote(a, t, p, support)

Peaks ==
  peak' = [t \in Tokens |-> [a \in Accounts |->
             IF units'[t][a] > peak[t][a] THEN units'[t][a] ELSE peak[t][a]]]

SharesNext ==
  /\ \/ TokenNext /\ UNCHANGED shareVars
     \/ Trading \/ Dividends \/ Voting
  /\ Peaks

sharesVars == <<tokenVars, shareVars, peak>>

SharesSpec == TokenInit /\ SharesInit /\ [][SharesNext]_sharesVars

-----------------------------------------------------------------------------
SharesTypeOK ==
  /\ TokenTypeOK
  /\ totalShares \in [Tokens -> Nat] /\ dividendsPerShare \in [Tokens -> Nat]
  /\ \A f \in {dividendBalance, checkpoint, escrowed, paidOut, peak} : f \in [Tokens -> [Accounts -> Nat]]
  /\ asks \in [Tokens -> [Accounts -> [price : Nat, amount : Nat]]]

(* An ask can be served to its last share: the escrow of its seller holds    *)
(* what it offers, through partial sales and asks that replace one another.  *)
EscrowCoversAsk ==
  \A t \in Tokens, a \in Accounts : asks[t][a].amount <= escrowed[t][a]

(* An account is credited no dividend twice over: what it was ever owed and  *)
(* paid is within the dividends up to its checkpoint on the most it ever     *)
(* held, through issues, sales and withdrawals in any order.  It is a bound  *)
(* for each account alone: shares that are sold before either side was       *)
(* brought up to date earn the same dividend for the seller and the buyer.   *)
CreditsWithinPeak ==
  \A t \in Tokens, a \in Accounts :
    /\ checkpoint[t][a] <= dividendsPerShare[t]
    /\ (dividendBalance[t][a] + paidOut[t][a]) * Scaling <= peak[t][a] * checkpoint[t][a]

(* An account votes once, with no more than it ever held, and a proposal was *)
(* executed only on a quorum and a majority of such votes.  Shares that are  *)
(* passed on after a vote may be voted again by their next holder.           *)
VotesAreCastOnce ==
  \A t \in Tokens : \A p \in DOMAIN tokenProposals[t] :
    LET proposal == tokenProposals[t][p]
    IN  /\ proposal.yes + proposal.no <= SumFunctionOnSet(peak[t], proposal.voters)
        /\ proposal.status = "Executed" => proposal.yes >= proposal.quorum /\ proposal.yes > proposal.no
=============================================================================

------------------------------ MODULE Fractional ------------------------------
(*****************************************************************************)
(* The ledger of fractional shares (contracts/fractional): shares of a token *)
(* are minted, burned and transferred between accounts that passed KYC, and  *)
(* a dividend index pays each holder what was distributed since it claimed.  *)
(*****************************************************************************)
EXTENDS Integers, FiniteSets, Functions

CONSTANTS
  Holders, ShareTokens,
  FracAdmin,          \* the deployer
  ShareAmounts,       \* amounts minted, burned and transferred
  DividendAmounts,    \* dividends that are distributed
  MaxShares, MaxIndex \* bounds

ASSUME FractionalAssumption ==
  /\ IsFiniteSet(Holders) /\ FracAdmin \in Holders
  /\ ShareAmounts \subseteq Nat /\ DividendAmounts \subseteq Nat
  /\ MaxShares \in Nat /\ MaxIndex \in Nat

NoMinter == "NoMinter"

VARIABLES
  shareBalance, shareSupply, minter, kyc,
  dividendIndex, lastIndex,   \* dividend_per_share, last_claimed_dividend_per_share
  doubled                     \* history: shares a transfer to oneself added

fracVars == <<shareBalance, shareSupply, minter, kyc, dividendIndex, lastIndex, doubled>>

FracInit ==
  /\ shareBalance = [t \in ShareTokens |-> [h \in Holders |-> 0]]
  /\ shareSupply = [t \in ShareTokens |-> 0]
  /\ minter = [t \in ShareTokens |-> NoMinter]
  /\ kyc = [h \in Holders |-> FALSE]
  /\ dividendIndex = [t \in ShareTokens |-> 0]
  /\ lastIndex = [t \in ShareTokens |-> [h \in Holders |-> 0]]
  /\ doubled = [t \in ShareTokens |-> 0]

(* mint, by the token's minter, for any account.                             *)
MintShares(caller, t, to, amount) ==
  /\ caller = minter[t] /\ amount > 0
  /\ shareSupply[t] + amount <= MaxShares
  /\ shareBalance' = [shareBalance EXCEPT ![t][to] = @ + amount]
  /\ shareSupply'  = [shareSupply EXCEPT ![t] = @ + amount]
  /\ UNCHANGED <<minter, kyc, dividendIndex, lastIndex, doubled>>

(* burn, by the holder or the admin.  Where the supply is below the amount,  *)
(* the subtraction is taken to trap, which depends on the build profile.     *)
BurnShares(caller, t, from, amount) ==
  /\ caller \in {from, FracAdmin} /\ amount > 0
  /\ amount <= shareBalance[t][from] /\ amount <= shareSupply[t]
  /\ shareBalance' = [shareBalance EXCEPT ![t][from] = @ - amount]
  /\ shareSupply'  = [shareSupply EXCEPT ![t] = @ - amount]
  /\ UNCHANGED <<minter, kyc, dividendIndex, lastIndex, doubled>>

(* Both balances are read before either is written, and the recipient's is   *)
(* written last: a transfer to oneself adds the amount.                      *)
TransferShares(from, t, to, amount) ==
  /\ kyc[from] /\ kyc[to] /\ amount > 0
  /\ amount <= shareBalance[t][from]
  /\ from = to => doubled[t] + amount <= MaxShares
  /\ LET fromBalance == shareBalance[t][from]
         toBalance   == shareBalance[t][to]
     IN  shareBalance' = [shareBalance EXCEPT ![t][from] = fromBalance - amount,
                                              ![t][to]   = toBalance + amount]
  /\ doubled' = IF from = to THEN [doubled EXCEPT ![t] = @ + amount] ELSE doubled
  /\ UNCHANGED <<shareSupply, minter, kyc, dividendIndex, lastIndex>>

(* distribute_dividends, by the minter: what does not divide by the supply   *)
(* is on no account.                                                         *)
DistributeDividends(caller, t, total) ==
  /\ caller = minter[t] /\ shareSupply[t] > 0
  /\ dividendIndex[t] + total \div shareSupply[t] <= MaxIndex
  /\ dividendIndex' = [dividendIndex EXCEPT ![t] = @ + total \div shareSupply[t]]
  /\ UNCHANGED <<shareBalance, shareSupply, minter, kyc, lastIndex, doubled>>

(* claim_dividends returns (index - last index) * balance and pays nothing:  *)
(* only the checkpoint changes.                                              *)
ClaimDividends(h, t) ==
  /\ shareBalance[t][h] > 0
  /\ lastIndex' = [lastIndex EXCEPT ![t][h] = dividendIndex[t]]
  /\ UNCHANGED <<shareBalance, shareSupply, minter, kyc, dividendIndex, doubled>>

(* set_kyc and set_authorized_minter, by the admin; the price and the        *)
(* governance address are read by nothing here.                              *)
SetKyc(h, passed) ==
  /\ kyc' = [kyc EXCEPT ![h] = passed]
  /\ UNCHANGED <<shareBalance, shareSupply, minter, dividendIndex, lastIndex, doubled>>

SetMinter(t, h) ==
  /\ minter' = [minter EXCEPT ![t] = h]
  /\ UNCHANGED <<shareBalance, shareSupply, kyc, dividendIndex, lastIndex, doubled>>

FracNext ==
  \E t \in ShareTokens, h \in Holders :
    \/ \E caller \in Holders, amount \in ShareAmounts :
         MintShares(caller, t, h, amount) \/ BurnShares(caller, t, h, amount)
           \/ TransferShares(caller, t, h, amount)
    \/ \E total \in DividendAmounts : DistributeDividends(h, t, total)
    \/ ClaimDividends(h, t)
    \/ \E passed \in BOOLEAN : SetKyc(h, passed)
    \/ SetMinter(t, h)

FracSpec == FracInit /\ [][FracNext]_fracVars

-----------------------------------------------------------------------------
FracTypeOK ==
  /\ shareBalance \in [ShareTokens -> [Holders -> Nat]]
  /\ shareSupply \in [ShareTokens -> Nat] /\ doubled \in [ShareTokens -> Nat]
  /\ minter \in [ShareTokens -> Holders \cup {NoMinter}] /\ kyc \in [Holders -> BOOLEAN]
  /\ dividendIndex \in [ShareTokens -> Nat] /\ lastIndex \in [ShareTokens -> [Holders -> Nat]]

SharesHeld(t) == SumFunctionOnSet(shareBalance[t], Holders)

(* invariants.rs: "Conservation laws: total supply equals sum of individual  *)
(* balances".                                                                *)
SupplyIsHeld == \A t \in ShareTokens : SharesHeld(t) = shareSupply[t]

(* What holders have beyond the supply is what transfers to oneself added:   *)
(* nothing else in the ledger makes or loses a share.                        *)
HeldIsSupplyAndDoubled == \A t \in ShareTokens : SharesHeld(t) = shareSupply[t] + doubled[t]
=============================================================================

---------------------------- MODULE MCInsuranceCore ----------------------------
EXTENDS InsuranceCore, TLC

CONSTANTS bob, pool, claimsAddr, governanceAddr

MCUser        == {bob}
MCHolder      == {bob}
MCAmount      == {1}
MCCoverage    == {1, 2}
MCDays        == {1}
MCClaimAmount == {1, 2}
NoGrantee     == {}
=============================================================================

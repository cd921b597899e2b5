CONSTANTS
  bob = bob
  pool = pool
  claimsAddr = claimsAddr
  governanceAddr = governanceAddr
  User <- MCUser
  Pool <- pool
  Admin <- bob
  Grantee <- NoGrantee
  MinStake = 1
  Funds = 2
  Amount <- MCAmount
  CapitalLimit = 2
  Holder <- MCHolder
  Claims <- claimsAddr
  Governance <- governanceAddr
  Coverage <- MCCoverage
  Days <- MCDays
  DurationMod = 4
  MaxCoverage = 2
  PolicyLimit = 1
  LastDay = 1
  BatchLimit = 2
  ClaimLimit = 2
  I128Max = 2
  ClaimAmount <- MCClaimAmount
  ServedStats <- ExpectedStats
  ann = ann
  ben = ben
  Buyer <- MCBuyer
  Signer <- MCSigner
  ApprovalType <- MCApprovalType
  EscrowRequest <- MCRequest
  Deposit <- MCDeposit
  MaxParticipants = 2
  EscrowBatch = 2
  EscrowLimit = 2
  LastTime = 2
SPECIFICATION FundsFairSpec
INVARIANTS LockNamesTheOpenClaim SettlementIsBooked ClaimedWithinCoverage EscrowTypeOK BooksAgree ReleasedByQuorum
PROPERTIES ImplementsLedger FullEscrowsAreReleased

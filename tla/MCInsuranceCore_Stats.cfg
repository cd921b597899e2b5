CONSTANTS
  bob = bob
  pool = pool
  claimsAddr = claimsAddr
  governanceAddr = governanceAddr
  User <- MCUser
  Pool <- pool
  Admin <- bob
  Grantee <- NoGrantee
  MinStake = 1
  Funds = 2
  Amount <- MCAmount
  CapitalLimit = 2
  Holder <- MCHolder
  Claims <- claimsAddr
  Governance <- governanceAddr
  Coverage <- MCCoverage
  Days <- MCDays
  DurationMod = 4
  MaxCoverage = 2
  PolicyLimit = 1
  LastDay = 1
  BatchLimit = 1
  ClaimLimit = 1
  I128Max = 8
  ClaimAmount <- MCClaimAmount
  ServedStats <- PoolStatsFields
SPECIFICATION FairSpec
PROPERTY PayableClaimsSettle

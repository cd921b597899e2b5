CONSTANTS
  ann = ann
  pool = pool
  provider = provider
  none = none
  User <- MCUser
  Pool = pool
  Admin = ann
  Grantee <- MCGrantee
  MinStake = 1
  Funds = 2
  Amount <- MCAmount
  BatchLimit = 1
  CapitalLimit = 2
  Target <- MCUser
  SlashRole <- MCSlashRole
  SlashAmount <- MCAmount
  Cooldown <- MCCooldown
  MaxHistory = 2
  ViolationLimit = 3
  PauseTimelock = 1
  ResumeTimelock = 1
  MaxTime = 7
  Duration <- MCDuration
  LastTime = 2
  Voter <- MCUser
  Weight <- MCWeight
  Threshold <- MCThreshold
  Action <- MCClaimAction
  NoAction <- none
  VotingPeriod = 0
  I128Max = 255
  ProposalLimit = 1
  ClaimsEntryPoints <- MCClaimsEntryPoints
SPECIFICATION FairSpec
PROPERTIES ClaimApprovalsAreExecuted
CHECK_DEADLOCK FALSE

CONSTANTS
  ann = ann
  pool = pool
  provider = provider
  none = none
  User <- MCUser
  Pool = pool
  Admin = ann
  Grantee <- MCGrantee
  MinStake = 1
  Funds = 2
  Amount <- MCAmount
  BatchLimit = 1
  CapitalLimit = 2
  Target <- MCUser
  SlashRole <- MCSlashRole
  SlashAmount <- MCAmount
  Cooldown <- MCCooldown
  MaxHistory = 2
  ViolationLimit = 3
  PauseTimelock = 1
  ResumeTimelock = 1
  MaxTime = 7
  Duration <- MCDuration
  LastTime = 2
  Voter <- MCUser
  Weight <- MCWeight
  Threshold <- MCThreshold
  Action <- MCAction
  NoAction <- none
  VotingPeriod = 0
  I128Max = 255
  ProposalLimit = 2
  ClaimsEntryPoints <- MCClaimsEntryPoints
  Accounts = {"admin", "alice"}
  TokenAdmin = "admin"
  Chains = {"other"}
  SignatureLimits <- Limits
  Required = {1, 2}
  Timeouts = {0}
  MaxTokens = 2
  MaxRequests = 2
  LastBlock = 1
  MaxUnits = 1
  Scaling = 2
  IssueAmounts = {1, 2}
  Prices = {1}
  Deposits = {2}
  Quorums = {1}
  MaxShares = 2
  MaxDps = 2
  MaxProposals = 1
SPECIFICATION VotingSpec
INVARIANTS EnactedIsCarriedOut SharesTypeOK LockTakesQuorum SlotNamesUndecidedRequest EscrowCoversAsk CreditsWithinPeak VotesAreCastOnce
PROPERTIES SlashesAreOrderly
CHECK_DEADLOCK FALSE

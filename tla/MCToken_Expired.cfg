SPECIFICATION ScenarioFairSpec
CONSTANTS
  Accounts = {"admin", "alice"}
  TokenAdmin = "admin"
  Chains = {"other"}
  SignatureLimits <- Limits
  Required = {1}
  Timeouts = {0}
  MaxTokens = 1
  MaxRequests = 1
  LastBlock = 1
  MaxUnits = 1
  Scaling = 2
  IssueAmounts = {1, 2}
  Prices = {1}
  Deposits = {2}
  Quorums = {1}
  MaxShares = 0
  MaxDps = 2
  MaxProposals = 1
PROPERTY ExpiredIsRecovered
CHECK_DEADLOCK FALSE

SPECIFICATION ContractsSpec
CONSTANTS
  Properties = {"house"}
  s1 = s1
  s2 = s2
  s3 = s3
  Sources = {s1, s2, s3}
  SourceConfigs <- MCSourceConfigs
  OraclePrices = {3, 4}
  Confidences = {50}
  Thresholds = {1}
  ManualDefault = 9
  MinSources = 2
  OutlierThreshold = 2
  InitialRep = 1
  RepGain = 1
  RepLoss = 1
  RepFloor = 1
  MaxRep = 1
  Staleness = 1
  HistoryCap = 1
  OracleLastTime = 1
  MaxUpdates = 2
  MaxOracleRequests = 1
  FeeAccounts = {"ann", "ben"}
  FeeOps = {"PremiumListingBid"}
  FeeConfigs <- MCFeeConfigs
  FeeAmounts = {7, 21}
  Bids = {1, 2}
  Shares <- MCShares
  OpsWindow = 2
  WindowSecs = 1
  AuctionSecs = {1, 2}
  FeeLastTime = 3
  MaxAuctions = 1
  MaxCollected = 42
  Holders = {"hal", "ida"}
  ShareTokens = {"flat"}
  FracAdmin = "hal"
  ShareAmounts = {1, 2}
  DividendAmounts = {3}
  MaxShares = 4
  MaxIndex = 3
  Accounts = {"alice", "bob"}
  Stakes = {1, 2}
  Vestings <- MCVestings
  Precision = 4
  InsStart = 1
  InsLastTime = 3
  MaxMoves = 3
  MaxAvailable = 12
  Insured = {1}
  Assessors = {"bob"}
  Scores = {90, 70}
  Validity = {1}
  Kinds = {"Fire"}
  Coverages = {4}
  Payments = {4}
  Terms = {1}
  ClaimAmounts = {1, 4}
  EvidenceTypes = {"photo", "report"}
  CoverageRatio = 10000
  FeeRate = 0
  MinPremium = 1
  PremiumScale = 1200000
  DeductibleScale = 160000
  Cooldown = 1
  DisputeWindow = 1
  AdminDelay = 1
  ReinsuranceThreshold = 1
  Retention = 1
  RecoveryLimit = 2
  AskPrices = {1, 2}
  MaxCovers = 2
  MaxInsClaims = 2
  MaxItems = 1
  Subjects = {"ann"}
  RegistryAccounts = {"ann", "ver"}
  RegistryOwner = "ver"
  Jurisdictions = {"US", "Other"}
  DefaultRules <- MCDefaultRules
  NewRules <- MCNewRules
  Documents = {"Passport"}
  Biometrics = {"IrisScan"}
  RiskScores = {10, 90}
  RiskGrades = {"Low", "Prohibited"}
  ValidFor = 2
  RegistryLastTime = 2
  MaxVerifications = 2
  Provers = {"ann"}
  ZkCallers = {"ann", "ver"}
  ZkOwner = "ver"
  ZkKinds = {"ComplianceCheck"}
  OneShots = {"ComplianceCheck"}
  ZkKeys = {1, 2}
  Unreadable = 0
  PrivacyLevels = {1, 6}
  YearOfProof = 1
  ZkBatchLimit = 2
  ZkLastTime = 1
  MaxProofs = 2
  MaxKeyChanges = 2
  MaxAuditEntries = 1
  MaxSessions = 2
  MaxVisits = 2
  MaxOutages = 2
  Blocks <- MCBlocks
  Polls = {1, 2}
  Hooks = {"fraud"}
  RetryMax = 2
  MaxRestarts = 1
  Servers = {"api1", "api2"}
  KeyBatch = 2
  MaxKeks = 4
  MaxRows = 4
  PauseTimelock = 2
  ResumeTimelock = 3
  MaxTime = 12
  Duration <- MCDuration
  LastTime = 9
INVARIANT PaidWithinCoverage
CHECK_DEADLOCK FALSE

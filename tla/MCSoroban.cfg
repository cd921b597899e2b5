CONSTANTS
  alice = alice
  bob = bob
  pool = pool
  User <- MCUser
  Pool <- pool
  Admin <- alice
  Grantee <- MCGrantee
  MinStake = 1
  Funds = 2
  Amount <- MCAmount
  BatchLimit = 2
  CapitalLimit = 3
  Voter <- MCUser
  Weight <- MCWeight
  Threshold <- MCThreshold
  Action <- MCAction
  NoAction <- none
  slash = slash
  none = none
  VotingPeriod = 1
  I128Max = 255
  ProposalLimit = 2
  BallotLastTime = 3
  op1 = op1
  op2 = op2
  op3 = op3
  BridgeUser <- MCBridgeUser
  Operator <- MCOperator
  BridgeAdmin <- op1
  Required <- MCRequired
  Timeout <- MCTimeout
  MinSignatures = 2
  MaxSignatures = 2
  MaxOperators = 3
  MaxHistory = 2
  RequestLimit = 2
  ExecutionLimit = 3
  BridgeLastTime = 1
SPECIFICATION SorobanSpec
SYMMETRY Symmetry
INVARIANTS SorobanTypeOK PoolHoldsNetCapital TallyMatchesRecords ExecutedForGood LockedIsAnswered ExecutionsTakeSignatures
PROPERTIES StakeIsPaidOrForfeited
CHECK_DEADLOCK FALSE

CONSTANTS
  ann = ann
  op1 = op1
  op2 = op2
  op3 = op3
  BridgeUser <- MCUser
  Operator <- MCOperator
  BridgeAdmin = op1
  MinSignatures = 2
  MaxSignatures = 2
  Required <- MCRequired
  Timeout <- MCTimeout
  MaxOperators = 3
  MaxHistory = 2
  RequestLimit = 2
  ExecutionLimit = 3
  BridgeLastTime = 1
SPECIFICATION BridgeSpec
SYMMETRY Symmetry
INVARIANT LockedIsApproved

CONSTANTS
  Holders = {"hal", "ida"}
  ShareTokens = {"flat"}
  FracAdmin = "hal"
  ShareAmounts = {1, 2}
  DividendAmounts = {3}
  MaxShares = 4
  MaxIndex = 3
SPECIFICATION FracSpec
INVARIANT SupplyIsHeld
CHECK_DEADLOCK FALSE

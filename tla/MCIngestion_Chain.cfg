SPECIFICATION IngestSpec
CONSTANTS
  Blocks <- MCBlocks
  Polls = {1, 2}
  Hooks = {"fraud"}
  RetryMax = 2
  MaxRestarts = 0
INVARIANT HashChainIsWhole
CHECK_DEADLOCK FALSE

CONSTANTS
  Txs <- SmallTxs
  Blocks <- HonestTree
  INITIAL_REWARD = 4
  HALVING_INTERVAL = 2
  IDEAL_BLOCK_TIME = 10
  MIN_TARGET = 64
  DIFFICULTY_UPDATE_INTERVAL = 2
  MAX_MEMPOOL_TRANSACTION_AGE = 1
  U64 = 16
  U256 = 1024
  OverflowChecks = TRUE
SPECIFICATION Spec
INVARIANT NoConflictInMempool
CHECK_DEADLOCK FALSE

CONSTANTS
  Txs <- OneTx
  Blocks <- ShortTree
  Rivals <- Rival
  INITIAL_REWARD = 4
  HALVING_INTERVAL = 4
  IDEAL_BLOCK_TIME = 10
  MIN_TARGET = 1000000
  DIFFICULTY_UPDATE_INTERVAL = 50
  MAX_MEMPOOL_TRANSACTION_AGE = 0
  U64 = 64
  U256 = 100000000
  OverflowChecks = TRUE
  Protocols = {TRUE, FALSE}
  BLOCK_TRANSACTION_CAP = 2
  MaxMined = 1
  MaxSaved = 1
  None = None
SPECIFICATION MiningSpec
INVARIANTS
  MiningTypeOK
  TakesItsTemplates
  NothingSubmittedTwice
CHECK_DEADLOCK FALSE

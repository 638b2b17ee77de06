CONSTANTS
  Txs <- AllOfTxs
  Blocks <- Tree
  INITIAL_REWARD = 4
  HALVING_INTERVAL = 2
  IDEAL_BLOCK_TIME = 10
  MIN_TARGET = 64
  DIFFICULTY_UPDATE_INTERVAL = 2
  MAX_MEMPOOL_TRANSACTION_AGE = 1
  U64 = 16
  U256 = 1024
  OverflowChecks = TRUE
SPECIFICATION FairSpec
INVARIANTS
  TypeOK
  UtxoIsUnspent
  NoDoubleSpend
  SupplyIsSubsidy
  MarkIsReferenced
  MempoolUnconfirmed
PROPERTIES
  HeaderDeterminesBody
  ImplementsLedger
  MempoolDrains
  MarksReleased
CHECK_DEADLOCK FALSE

CONSTANTS
  Txs <- AllPayments
  Blocks <- PaidTree
  INITIAL_REWARD = 4
  HALVING_INTERVAL = 10
  IDEAL_BLOCK_TIME = 10
  MIN_TARGET = 1000
  DIFFICULTY_UPDATE_INTERVAL = 50
  MAX_MEMPOOL_TRANSACTION_AGE = 0
  U64 = 128
  U256 = 100000
  OverflowChecks = FALSE
  Setups <- ThreeSetups
  MyKeys <- TwoKeys
  KeyOrder <- TwoKeys
  Amounts = {2}
  Recipients = {"shop"}
  FlatFee = 1
  TxQueue = 1
  MaxSaved = 1
  MaxFaults = 1
  MaxPayments <- TwoOrOne
  None = None
SPECIFICATION WalletSpec
INVARIANTS
  WalletTypeOK
  TakenUnlessGone
  PaysExactly
PROPERTIES
  CopyFollows
  QueueDrains
CHECK_DEADLOCK FALSE

CONSTANTS
  Node <- Three
  Seeds <- SeedsInRow
  Blocks <- FourBlocks
  Prev <- Tree
  Body <- Bodies
  Txs <- TwoTxs
  Coin <- Coins
  Lines = {1, 2}
  MaxFaults = 1
  None = None
SPECIFICATION MCSpec
INVARIANTS
  TcpTypeOK
  OnlyMinersFork
PROPERTIES
  Spreads
  Calms
  StartsAgain
CHECK_DEADLOCK FALSE

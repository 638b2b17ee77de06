CONSTANTS
  Node <- Three
  Seeds <- SeedsThree
  Blocks <- TwoBlocks
  Prev <- InRow
  Body <- Bodies
  Txs <- OneTx
  Coin <- Coins
  Capacity = 3
  MaxFaults = 0
  Syncing = {}
  None = None
SPECIFICATION MeshedSpec
PROPERTY LostIsRenewed
CHECK_DEADLOCK FALSE

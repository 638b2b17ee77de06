CONSTANTS
  Node <- Three
  Seeds <- SeedsThree
  Blocks <- TwoBlocks
  Prev <- InRow
  Body <- Bodies
  Txs <- OneTx
  Coin <- Coins
  Capacity = 3
  MaxFaults = 0
  Syncing = {"n3"}
  None = None
SPECIFICATION MeshedSpec
PROPERTIES
  Quiesces
  TxSpreads

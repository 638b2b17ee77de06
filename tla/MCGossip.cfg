CONSTANTS
  Node <- Two
  Seeds <- SeedsTwo
  Blocks <- TwoBlocks
  Prev <- InRow
  Body <- Bodies
  Txs <- OneTx
  Coin <- Coins
  Capacity = 3
  MaxFaults = 1
  Syncing <- Two
  None = None
SPECIFICATION FairSpec
INVARIANT GossipTypeOK
PROPERTIES
  CatchesUp
  ComesUp
CHECK_DEADLOCK FALSE

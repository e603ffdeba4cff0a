SPECIFICATION TurnSpec
CONSTANTS
  p = p  c = c  d = d  k = k  lp = lp  lc = lc
  g = g  a1 = a1  b1 = b1  b2 = b2
  None = None
  Tx = {p, d}
  Coin = {k}
  Spends <- MCSpends
  ISLock = {lp}
  TxidOf <- MCTxidOf
  Block = {g, a1, b1}
  Genesis = g
  Chain <- MCChain
  Height <- MCHeight
  BlockTxs <- MCBlockTxs
  Locked = {}
  ArchiveDepth = 0
  Confirmations = 2
  MaxRestarts = 0
INVARIANTS MinedConflictResolved
CHECK_DEADLOCK FALSE

SPECIFICATION Spec
CONSTANTS
  p = p  c = c  d = d  k = k  lp = lp  lc = lc
  g = g  a1 = a1  b1 = b1  b2 = b2
  None = None
  Tx = {p, c, d}
  Coin = {k}
  Spends <- MCSpends
  ISLock = {lp, lc}
  TxidOf <- MCTxidOf
  Block = {g, a1, b1, b2}
  Genesis = g
  Chain <- MCChain
  Height <- MCHeight
  BlockTxs <- MCBlockTxs
  Locked = {a1, b2}
  ArchiveDepth = 0
  Confirmations = 2
  MaxRestarts = 1
INVARIANTS KeysAgree TrackerSound MinedPointersFresh
 
CHECK_DEADLOCK FALSE

SPECIFICATION FairSpec
CONSTANTS
  g = g
  a1 = a1
  a2 = a2
  b1 = b1
  b2 = b2
  Block = {g, a1, a2, b1, b2}
  Genesis = g
  Chain <- MCChain
  Height <- MCHeight
  None = None
  Locked = {a2}
  Superblock = {a1}
  DIP8Height = 0
  SignOffset = 2
  MaxToggles = 2
  MaxRestarts = 0
PROPERTIES
  LockEnforced

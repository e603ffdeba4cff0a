SPECIFICATION Spec
CONSTANTS
  g = g
  a1 = a1
  a2 = a2
  b1 = b1
  b2 = b2
  Block = {g, a1, a2, b1, b2}
  Genesis = g
  Chain <- MCChain
  Height <- MCHeight
  None = None
  Locked = {a1, a2}
  Superblock = {}
  DIP8Height = 1
  SignOffset = 1
  MaxToggles = 0
  MaxRestarts = 1
INVARIANTS
  TypeOK
  LateHeaderPickedUp
  LockedChainUnharmed
PROPERTIES
  LockHeld

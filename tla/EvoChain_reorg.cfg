SPECIFICATION Spec
CONSTANTS
  g = g
  a1 = a1
  a2 = a2
  x2 = x2
  b1 = b1
  b2 = b2
  e2 = e2
  c1 = c1
  c2 = c2
  None = None
  NullQc = NullQc
  Block = {g, a1, a2, b1, b2, e2}
  Genesis = g
  Chain <- MCChain
  Height <- MCHeight
  Qc = {c1, c2}
  QuorumOf <- MCQuorumOf
  CountSigners <- MCCountSigners
  r1 = r1
  Verified = {c1, c2}
  Commitment <- MCCommitment
  Invalid = {e2}
  DkgInterval = 3
  MiningWindowStart = 1
  MiningWindowEnd = 2
  SnapshotPeriod = 3
  ListsCacheSize = 0
  Announced = {c2}
  Asked = {g, a1, b1, b2}
  Reader = {}
  MaxCalls = 0
  MaxCrashes = 1
INVARIANTS
  TypeOK
  CommitmentsMatch
  
  BestBlocksAgree
  
  
PROPERTIES
  UndoneStaysMinable

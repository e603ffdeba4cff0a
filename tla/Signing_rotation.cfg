CONSTANTS
  n1 = n1
  n2 = n2
  n3 = n3
  q1 = q1
  q2 = q2
  i1 = i1
  Node = {n1, n2, n3}
  Id = {i1}
  Msg = {m1, m2}
  NoMsg = NoMsg
  NoSig = NoSig
  Quorum = {q1, q2}
  Members <- SameMembers
  ValidMembers <- SameMembers
  Keyed <- SameMembers
  Threshold = 2
  MinedAt <- TwoMinedAt
  Score <- TwoScore
  PoolSize = 1
  SignHeightOffset = 0
  MaxHeight = 1
  ReSigning = {n1}
  Aging = {}
  Crashing = {}
SYMMETRY MsgSymmetry
SPECIFICATION Spec
CHECK_DEADLOCK FALSE
INVARIANTS NoConflictingRecoveredSigs
PROPERTIES ImplementsSignedOnce

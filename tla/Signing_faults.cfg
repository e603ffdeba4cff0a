CONSTANTS
  n1 = n1
  n2 = n2
  n3 = n3
  q1 = q1
  q2 = q2
  i1 = i1
  Node = {n1, n2, n3}
  Id = {i1}
  Msg = {m1, m2}
  NoMsg = NoMsg
  NoSig = NoSig
  Quorum = {q1}
  Members <- OneMembers
  ValidMembers <- OneMembers
  Keyed <- OneMembers
  Threshold = 2
  MinedAt <- OneMinedAt
  Score <- OneScore
  PoolSize = 1
  SignHeightOffset = 0
  MaxHeight = 0
  ReSigning = {n1}
  Aging = {n1}
  Crashing = {n1}
SYMMETRY MsgSymmetry
SPECIFICATION Spec
CHECK_DEADLOCK FALSE
INVARIANTS OneVotePerId RecoveredByThreshold NoConflictingRecoveredSigs
PROPERTIES  ImplementsSignedOnce

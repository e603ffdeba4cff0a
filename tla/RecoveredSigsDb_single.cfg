SPECIFICATION Spec
CONSTANTS
  i1 = i1
  s1 = s1
  Id = {i1}
  Sig = {s1}
  IdOf <- OneSig
  None = None
  Reader = {r1, r2}
  Worker = Worker
  MaxAge = 1
  CacheLimit = 1
  MaxTime = 3
INVARIANTS
  IndexesComplete
  NoOrphanedSession
  VoteTimeKeys
  CacheCoherent
  KnownSigBailsOut
SYMMETRY Symmetry
CHECK_DEADLOCK FALSE

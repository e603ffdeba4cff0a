SPECIFICATION Spec
CONSTANTS
  a = a
  b = b
  f = f
  s1 = s1
  s2 = s2
  Node = {a, b, f}
  Broken = {f}
  Late = {}
  Link <- Line
  Flaky <- Pair
  Session = {s1}
  Threshold = 2
  None = None
  Patient = TRUE
  MaxConns = 2
  MaxTimeouts = 0
  MaxId = 6
INVARIANTS
  TypeOK
  RequestOwner
  OnlyBrokenBanned
  
  DoneSessionsGone
  NoneLeftWaiting
CHECK_DEADLOCK FALSE

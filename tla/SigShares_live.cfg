SPECIFICATION FairSpec
CONSTANTS
  a = a
  b = b
  f = f
  s1 = s1
  s2 = s2
  Node = {a, b}
  Broken = {}
  Late = {b}
  Link <- Pair
  Flaky <- NoLink
  Session = {s1, s2}
  Threshold = 2
  None = None
  Patient = TRUE
  MaxConns = 1
  MaxTimeouts = 1
  MaxId = 6
INVARIANTS
  RecvIdsLive
  MessagesUnderstood

  
CHECK_DEADLOCK FALSE

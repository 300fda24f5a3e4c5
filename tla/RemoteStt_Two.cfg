\* Two plugins share the server; nothing fails and no timeout passes.
SPECIFICATION Spec
CONSTANTS
  Nil = Nil
  Clients = {c1, c2}
  Chunks = 1
  MaxRetry = 1
  Workers = {w1, w2}
  Faults = {}
INVARIANTS
  NothingWantedIsLost
CHECK_DEADLOCK FALSE

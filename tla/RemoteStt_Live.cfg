\* One plugin, whose timeout does not pass while its handler waits.
SPECIFICATION FairSpec
CONSTANTS
  Nil = Nil
  Clients = {c1}
  Chunks = 2
  MaxRetry = 2
  Workers = {w1, w2}
  Faults = {"network"}
INVARIANTS
  NothingWantedIsLost
PROPERTIES
  EveryRequestEnds
CHECK_DEADLOCK FALSE

\* One plugin, two chunks, two attempts each; anything may fail.
SPECIFICATION Spec
CONSTANTS
  Nil = Nil
  Clients = {c1}
  Chunks = 2
  MaxRetry = 2
  Workers = {w1, w2}
  Faults = {"network", "slow"}
INVARIANTS
  TypeOK
  DeliveredOnce
  LockHasLiveHolder
  ChunksInOrder
CHECK_DEADLOCK FALSE

\* Two subtitles, two cancels, all the ways the plugin leaves the queue.
SPECIFICATION FairSpec
CONSTANTS
  Stop = Stop
  Tasks = {t1, t2}
  MaxGen = 2
  Concurrency = 1
  Retries = 1
  Closings = {"force", "join", "drop"}
INVARIANTS
  TypeOK
  BatchOfOneGeneration
PROPERTIES
  KeepsPromise
  CancelledStaysCancelled
  ForcedIsQuiet
  TasksAreSettled
  WorkerEnds
CHECK_DEADLOCK FALSE

\* A local file from start to end under fairness; extraction, lists and playback
\* fail or halt now and then.
SPECIFICATION FairSpec
CONSTANTS
  Nil = Nil
  Unreadable = Unreadable
  Chunk = 2
  MinJump = 6
  Lookahead = 2
  FileLength = 5
  Files = 1
  Speech = {0, 4}
  Network = FALSE
  SaveSrt = TRUE
  TempSrt = FALSE
  AutoStart = TRUE
  MaxEvents = 2
  Env = {"wavError", "srtError", "pause"}
INVARIANTS
  PlainIsQueued
PROPERTIES
  LocalSessionFinishes
  EverythingIsRecognised
CHECK_DEADLOCK FALSE

\* Two files, one after the other, with auto_start.
SPECIFICATION FairSpec
CONSTANTS
  Nil = Nil
  Unreadable = Unreadable
  Chunk = 2
  MinJump = 6
  Lookahead = 2
  FileLength = 2
  Files = 2
  Speech = {0}
  Network = FALSE
  SaveSrt = TRUE
  TempSrt = FALSE
  AutoStart = TRUE
  MaxEvents = 2
  Env = {"end"}
PROPERTIES
  EveryFileIsStarted
CHECK_DEADLOCK FALSE

\* A network stream with a manifest; mpv is killed and started again, saves fail.
SPECIFICATION Spec
CONSTANTS
  Nil = Nil
  Unreadable = Unreadable
  Chunk = 1
  MinJump = 1
  Lookahead = 2
  FileLength = 3
  Files = 1
  Speech = {0, 1, 2}
  Network = TRUE
  SaveSrt = TRUE
  TempSrt = FALSE
  AutoStart = TRUE
  MaxEvents = 2
  Env = {"kill", "saveError", "giveUp"}
INVARIANTS
  ProcessedIsHeard
CHECK_DEADLOCK FALSE

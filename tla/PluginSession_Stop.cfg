\* Two files beside their subtitles, which may be unreadable; a script reload,
\* toggles, skips, a failing recogniser, quitting and kills.
SPECIFICATION Spec
CONSTANTS
  Nil = Nil
  Unreadable = Unreadable
  Chunk = 2
  MinJump = 1
  Lookahead = 2
  FileLength = 3
  Files = 2
  Speech = {0}
  Network = FALSE
  SaveSrt = TRUE
  TempSrt = FALSE
  AutoStart = TRUE
  MaxEvents = 3
  Env = {"attach", "end", "toggle", "skip", "quit", "kill", "sttError", "badCache", "fast"}
INVARIANTS
  NothingIsLeft
  ProcessedIsSaved
CHECK_DEADLOCK FALSE

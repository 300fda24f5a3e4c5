\* A local file of two chunks and a half; the user seeks at any moment.
SPECIFICATION Spec
CONSTANTS
  Nil = Nil
  Unreadable = Unreadable
  Chunk = 2
  MinJump = 1
  Lookahead = 2
  FileLength = 5
  Files = 1
  Speech = {0, 4}
  Network = FALSE
  SaveSrt = TRUE
  TempSrt = FALSE
  AutoStart = TRUE
  MaxEvents = 2
  Env = {"seek"}
INVARIANTS
  TypeOK
  CursorOnGrid
  OnlySeeksAreSeeks
PROPERTIES
  UsesQueueAsPromised
  NoChunkSkipped
  WorksByChunks
CHECK_DEADLOCK FALSE

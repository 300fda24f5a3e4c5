\* A file of two chunks, the second one short; every build and every setting.
CONSTANTS
  Frames = 5
  MaxPacket = 2
  Delay = 1
  Voiced = {0, 2, 3}
  NoDevice = NoDevice
  FrameSize = 2
  Lag = 1
  Zero = Zero
  Nil = Nil
  ChunkSize = 3
  MaxRetry = 2
  Keys = {k1}
  Secrets = {s1}
  k1 = k1
  s1 = s1
SPECIFICATION Spec
INVARIANTS
  TypeOK
  SegmentIsWhole
  EntriesInTime
  ProcessedIsComplete
  HeardAsHere
  ErrorMeansCpuFailed
  NoticeTellsDevice
PROPERTIES
  WorksByChunks
CHECK_DEADLOCK FALSE

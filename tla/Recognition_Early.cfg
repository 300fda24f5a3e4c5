\* A file which only some of the chunks can be entered at.
CONSTANTS
  Frames = 5
  MaxPacket = 2
  Delay = 1
  Voiced = {0, 2, 3}
  NoDevice = NoDevice
  FrameSize = 2
  Lag = 1
  Zero = Zero
  Nil = Nil
  ChunkSize = 3
  MaxRetry = 2
  Keys = {k1}
  Secrets = {s1}
  k1 = k1
  s1 = s1
SPECIFICATION Spec
INVARIANT SegmentIsAsked
CHECK_DEADLOCK FALSE

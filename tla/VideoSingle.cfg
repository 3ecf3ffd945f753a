SPECIFICATION FairSpec
CONSTANTS
  BufCount = 2
  Callbacks = {c1}
  MaxFrames = 3
  MaxControls = 1
  PollLimit = 1
  Epoch = 10
INVARIANTS TypeOK MemoryAliveWhileGrabbing OneOwner NeverStale
PROPERTIES  FrameShown ResetReturnsOnceGrabbing

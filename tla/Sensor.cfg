SPECIFICATION FairSpec
CONSTANTS
  Order <- MagOnly
  Callbacks = {c1}
  MaxSamples = 3
  PollLimit = 1
  Epoch = 10
INVARIANTS TypeOK HandleOpenWhileGrabbing 
PROPERTIES  TakenWhole CallbackReturns CloseReturnsOnceGrabbing

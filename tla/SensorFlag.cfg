SPECIFICATION Spec
CONSTANTS
  Order <- MagOnly
  Callbacks = {c1}
  MaxSamples = 3
  PollLimit = 1
  Epoch = 10
INVARIANT NewFlagMeansNewVal

SPECIFICATION FairSpec
CONSTANTS
  Streams = {s1, s2}
  MaxFrames = 3
  Faults = {"late"}
  MaxFaults = 2
  Retry = TRUE
CHECK_DEADLOCK FALSE
PROPERTIES  RecvEnds

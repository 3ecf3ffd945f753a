SPECIFICATION FairSpec
CONSTANTS
  Streams = {s1, s2}
  MaxFrames = 1
  Faults = {"late"}
  MaxFaults = 4
  Retry = FALSE
CHECK_DEADLOCK FALSE
PROPERTIES AnsweredReturns

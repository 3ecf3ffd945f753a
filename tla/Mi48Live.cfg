SPECIFICATION FairSpec
CONSTANTS
  MaxFrames = 2
  MaxGarbled = 1
  MaxOpens = 1
PROPERTIES SetUpEnds 
CHECK_DEADLOCK FALSE

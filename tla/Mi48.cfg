SPECIFICATION Spec
CONSTANTS
  MaxFrames = 2
  MaxGarbled = 1
  MaxOpens = 2
INVARIANTS TypeOK AnsweredAsAsked DesyncBounded  SetUp
CHECK_DEADLOCK FALSE

SPECIFICATION Spec
CONSTANTS
  MaxFrames = 1
  MaxGarbled = 0
  MaxOpens = 1
INVARIANTS AnswerIsItsOwn
CHECK_DEADLOCK FALSE

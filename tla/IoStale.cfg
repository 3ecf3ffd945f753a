SPECIFICATION Spec
CONSTANTS
  Streams = {s1, s2}
  MaxFrames = 2
  Faults = {"late"}
  MaxFaults = 1
  Retry = FALSE
CHECK_DEADLOCK FALSE
INVARIANTS AnswerOnReturn

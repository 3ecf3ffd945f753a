SPECIFICATION Spec
CONSTANTS
  Streams = {s1, s2, s3}
  MaxFrames = 2
  Faults = {"error", "lost", "drop"}
  MaxFaults = 1
  Retry = FALSE
SYMMETRY StreamSymmetry
CHECK_DEADLOCK FALSE
INVARIANTS TypeOK AnswerOnReturn WorkToWaitFor
PROPERTIES InOrder ResponseStable

SPECIFICATION FairSpec
CONSTANTS
  Clients = {c1}
  Recorded = 2
  MaxRequests = 2
  MaxReplays = 1
  MaxPlayed = 3
INVARIANTS TypeOK AnswersInOrder ReplayInOrder 
PROPERTIES AnswerSent ShutdownReturns SessionEnds
CHECK_DEADLOCK FALSE

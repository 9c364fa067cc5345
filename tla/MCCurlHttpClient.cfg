CONSTANTS
  NumRequests = 2
  Answers <- MCAnswers
SPECIFICATION Spec
INVARIANT CompletedMeansDelivered
CHECK_DEADLOCK FALSE

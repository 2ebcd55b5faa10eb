SPECIFICATION RouteSpec
CONSTANTS
  Routes <- TwoThreads
  MaxWorkers = 2
  Threshold = 2
INVARIANT AnswersCurrent
CHECK_DEADLOCK FALSE

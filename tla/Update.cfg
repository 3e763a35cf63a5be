CONSTANTS
  Pages = 2
  Chunks = 2
  Options <- MCOptions
  Answers <- MCAnswers
  Requests <- MCRequests
  CleanStart = TRUE
  BusyCap = 2
  MaxFaults = 1
  MaxNoise = 1
SPECIFICATION Spec
INVARIANTS StartsOnlyTheImage JumpReported
PROPERTIES UpdateReturns
CHECK_DEADLOCK FALSE

SPECIFICATION FairSpec
CONSTANTS
  Subs = {"sub-0", "sub-1"}
  Patterns <- MCPatterns
  Tasks <- MCTasks
  Concurrency = {1, 2}
  MaxCalls = 2
  MaxTurns = 1
INVARIANTS
  WritersApart
  ReleasedInTheEnd
PROPERTY RunReturns
CHECK_DEADLOCK FALSE

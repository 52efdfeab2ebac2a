CONSTANTS
  MaxTurns = 8
  KeepRecent = 2
  MaxFailures = 3
  Thresholds <- MCThresholds
  Long = 3
  GoalLevels = 5
  MaxMessages = 4
  CompactKeep = 2
  MaxRuns = 1
  MaxCrashes = 0
SPECIFICATION Spec
INVARIANT GoalShown
CHECK_DEADLOCK FALSE

CONSTANTS
  MaxTurns = 3
  KeepRecent = 2
  MaxFailures = 1
  Thresholds <- MCThresholds
  Long = 3
  GoalLevels = 1
  MaxMessages = 4
  CompactKeep = 2
  MaxRuns = 2
  MaxCrashes = 1
SPECIFICATION Spec
INVARIANTS
  CacheIsCurrent
  TaskDescends
  RestartRestoresMemory
PROPERTIES
  RecentUntouched
  RunAdvances
CHECK_DEADLOCK FALSE

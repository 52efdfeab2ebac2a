CONSTANTS
  edit = edit
  env = env
  Change <- MCChange
  Secrets <- MCSecrets
  Metric <- MCMetric
  Baseline = 1
  Value <- MCValue
  Mutation <- MCMutation
  File <- MCFile
  HomeFile <- MCHomeFile
  MaxLines = 3
  MaxCrashes = 1
SPECIFICATION Spec
PROPERTY DiscardReverts
CHECK_DEADLOCK FALSE

CONSTANTS
  edit = edit
  env = env
  Change <- MCChange
  Secrets <- MCSecrets
  Metric <- MCMetric
  Baseline = 1
  Value <- MCValue
  Mutation <- MCMutation
  File <- MCFile
  HomeFile <- MCHomeFile
  MaxLines = 3
  MaxCrashes = 1
SPECIFICATION Spec
INVARIANTS
  SecretsNeverCommitted
  KeptAreCommitted
PROPERTIES
  ResumeAgrees
CHECK_DEADLOCK FALSE

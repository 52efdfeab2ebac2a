SPECIFICATION CompactionSpec
CONSTANTS
  FileName <- MCFile
  Calls <- MCCalls
  Usages = {0, 95}
  Keep = 2
  MaxMessages = 4
  MaxErrors = 1
  MaxShown = 1
  MaxCalls = 2
  MaxTurns = 3
  MaxRuns = 3
INVARIANTS ErrorsTold PairedBehindHead
CHECK_DEADLOCK FALSE

SPECIFICATION Spec
CONSTANTS
  Server <- FilesSrv
  NameOrder <- FilesOrder
  Invocations <- Started
  MaxRuns = 2
  MaxEntries = 2
INVARIANTS
  ServersAsTrusted
  ToolsWithinGates
  HooksDecide
CHECK_DEADLOCK FALSE

CONSTANTS
  Callers <- MCCallers
  MaxRespawns <- MCMaxRespawns
SPECIFICATION FairSpec
INVARIANTS
  CallsOnCurrentClient
  OneProcess
PROPERTIES
  EveryoneReturns
CHECK_DEADLOCK FALSE

CONSTANTS
  Callers <- MCCallers
  MaxRespawns <- MCMaxRespawns
SPECIFICATION FairSpec
INVARIANTS
  WipeIsLast
  NoClientForgotten
PROPERTIES
  EveryoneReturns
CHECK_DEADLOCK FALSE

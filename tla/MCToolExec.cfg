CONSTANTS
  N <- MCN
  MaxParallel <- MCMaxParallel
SPECIFICATION FairSpec
INVARIANTS
  KilledByASibling
  EveryCallAnswered
PROPERTIES
  TurnEnds
  ImplementsToolTurn
CHECK_DEADLOCK FALSE

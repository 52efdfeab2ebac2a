CONSTANTS
  N <- MCN
  MaxParallel <- MCMaxParallel
SPECIFICATION Spec
INVARIANT EventsPaired
CHECK_DEADLOCK FALSE

CONSTANTS
  Key <- MCKey
  ToolOf <- MCToolOf
  BuiltIn <- MCBuiltIn
  PromoteThreshold = 2
  MaxSubmits = 2
  MaxPrompts = 2
SPECIFICATION Spec
CHECK_DEADLOCK FALSE
INVARIANTS AnswersItsQuestion

CONSTANTS
  Key <- MCKey
  ToolOf <- MCToolOf
  BuiltIn <- MCBuiltIn
  PromoteThreshold = 2
  MaxSubmits = 2
  MaxPrompts = 2
SPECIFICATION FairSpec
CHECK_DEADLOCK FALSE
INVARIANTS QuestionIsAwaited RunsByRight
PROPERTIES AnswerArrives QuitExits

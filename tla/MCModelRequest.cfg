SPECIFICATION FairRequestSpec
CONSTANTS
  Capacity = 2
  MaxEvents = 3
  MaxTokens <- MCMaxTokens
  DegradeAt <- MCDegradeAt
  Thresholds <- MCThresholds
  Policies <- MCPolicies
  Pins <- MCPins
  Overrides = {"sonnet"}
  Setups <- MCSetups
  Histories <- MCHistories
  Sensitive = {9}
  Usages <- MCUsages
  MaxRequests = 3
INVARIANTS CollectsWhatWasSent NothingAfterError DegradedForGood
PROPERTY RequestEnds
CHECK_DEADLOCK FALSE

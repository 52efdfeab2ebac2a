CONSTANTS
  Requests <- MCRequests
  MaxIssues <- MCMaxIssues
SPECIFICATION Spec
INVARIANT CodeIsWiped
CHECK_DEADLOCK FALSE

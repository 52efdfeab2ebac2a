CONSTANTS
  Requests <- MCRequests
  MaxIssues <- MCMaxIssues
SPECIFICATION AuthSpec
INVARIANTS
  NoReplay
  OneRefreshPerToken
  NothingKept
CHECK_DEADLOCK FALSE

CONSTANTS
  ClaudeRoles <- MCClaudeRoles
  TaskRole <- MCTaskRole
  Files <- MCFiles
  MaxCheapTurns <- MCMaxCheapTurns
  MaxUniqueFiles <- MCMaxUniqueFiles
  MaxConsecFailures <- MCMaxConsecFailures
  MaxTurns <- MCMaxTurns
  MaxPolls <- MCMaxPolls
  MaxReplies <- MCMaxReplies
  MaxSaved <- MCMaxSaved
SPECIFICATION FairSpec
INVARIANTS
  NoLongCheapRun
  GatedNeedsYes
PROPERTY ApprovalEnds

----------------------------- MODULE MCHassease -----------------------------
(* A task of batch code, three turns a process (the code allows fifty), the *)
(* thresholds scaled down so that each of them escalates.                  *)
EXTENDS Hassease

MCClaudeRoles == {"planning", "escalation"}
MCTaskRole == "read"
MCFiles == {"a.go", "b.go"}
MCMaxCheapTurns == 1
MCMaxUniqueFiles == 1
MCMaxConsecFailures == 2
MCMaxTurns == 3
MCMaxPolls == 2
MCMaxReplies == 2
MCMaxSaved == 1
=============================================================================

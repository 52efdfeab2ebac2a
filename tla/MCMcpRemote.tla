----------------------------- MODULE MCMcpRemote -----------------------------
(* Two callers fail together and queue for the reconnect lock; two         *)
(* reconnects (the code allows three) let one succeed and the budget end.  *)
EXTENDS McpRemote

MCCallers == {"agent", "repomap"}
MCMaxRespawns == 2
=============================================================================

---------------------------- MODULE MCMcpManager ----------------------------
(* Two callers are enough for a caller that fails while another respawns;  *)
(* three spawns are the code's own limit.                                  *)
EXTENDS McpManager

MCCallers == {"agent", "repomap"}
MCMaxRespawns == 3
=============================================================================

---------------------------- MODULE MCAgentLoop ----------------------------
(* Two runs of three turns: the second resumes a history of the first.  At *)
(* a threshold of five tokens and two kept messages, both a microCompact   *)
(* that is enough and one that needs a snip occur within a run.            *)
EXTENDS AgentLoop

MCThresholds == {5}
=============================================================================

---------------------------- MODULE MCApprovals ----------------------------
(* Four calls: a tool that prompts, a bash command that prompts, one the    *)
(* built-in rules block, and bash without a command, whose key is the tool. *)
EXTENDS Approvals

MCKey == {"web_search", "bash", "bash:make", "bash:sudo"}

MCToolOf ==
  [k \in MCKey |-> IF k = "web_search" THEN k ELSE "bash"]

MCBuiltIn == [k \in MCKey |-> IF k = "bash:sudo" THEN "block" ELSE "prompt"]
=============================================================================

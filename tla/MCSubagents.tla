----------------------------- MODULE MCSubagents -----------------------------
(* Two subagents that write the same two patterns, or are of a type nobody  *)
(* registered, on two slots, or on one for which the second has to wait;    *)
(* and a second call, whose reservations a late release of the first may    *)
(* drop.                                                                    *)
EXTENDS Subagents

MCPatterns == {"*.go", "*.md"}
MCTasks ==
  {[kind |-> "unknown", wants |-> {}], [kind |-> "writer", wants |-> MCPatterns]}
=============================================================================

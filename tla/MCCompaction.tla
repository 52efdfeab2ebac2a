----------------------------- MODULE MCCompaction -----------------------------
(* Three turns with up to two calls each, in up to three runs of any of the*)
(* three kinds of backend, over a session that is                          *)
(* truncated to four messages and of which a compaction keeps two; a       *)
(* summary has room for one error.                                         *)
EXTENDS Compaction

MCFile == {"a.go"}

(* A command that may run together with others, and one that may not.      *)
MCCalls ==
  {[tool |-> "bash", params |-> [key |-> "command", file |-> "a.go"],
    content |-> "changed", safe |-> safe] : safe \in BOOLEAN}

(* An edit, for FilesTold.                                                  *)
MCEdits ==
  {[tool |-> "edit", params |-> [key |-> "file_path", file |-> "a.go"],
    content |-> "changed", safe |-> FALSE]}

(* TopK picks the highest, whatever the layout of its heap.                *)
ASSUME \A n \in 1 .. 5, k \in 1 .. 4 : \A score \in [1 .. n -> 1 .. 3] :
  \A kept \in TopK(score, k) : AreHighest(score, kept, k)

(* The result that says a file was changed outscores a prompt, a call and   *)
(* an answer, whichever of them names the file.                             *)
Said(role, type, tool, content, names) ==
  Message(role, 1, <<Block(type, tool, content, names, {})>>)

ASSUME \A names \in [1 .. 3 -> SUBSET MCFile] :
  LET ms == <<Said("user", "text", "other", "empty", names[1]),
              Said("assistant", "tool_use", "edit", "empty", MCFile),
              Said("user", "tool_result", "other", "changed", names[2]),
              Said("assistant", "text", "other", "empty", names[3])>>
  IN  TopK(ScoreMessages(ms, MCFile), 1) = {{3}}

(* Every intent tells the same sections.                                   *)
ASSUME \A intent \in {"debugging", "building"} :
  {FormatWithIntent(intent)[i] : i \in DOMAIN FormatWithIntent(intent)} =
    {Format[i] : i \in DOMAIN Format}
=============================================================================

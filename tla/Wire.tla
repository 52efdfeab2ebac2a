--------------------------------- MODULE Wire ---------------------------------
(* internal/provider: what a backend makes of the history of a request, and *)
(* what the answer of a local server means before anything is streamed.     *)
(*                                                                          *)
(* A message is a role and its blocks, a block a type and an id, which      *)
(* stands for what it says; the id of an empty text is 0.  A result has the *)
(* id of its call.                                                          *)
EXTENDS Naturals, SequencesExt

CONSTANT Sensitive  (* the ids of what openai's filter would not send       *)

ASSUME WireAssumption == Sensitive \subseteq Nat \ {0}

(* The system prompt, which goes first, is left out.                        *)
Role == {"user", "assistant"}

Block == [type : {"text", "image", "use", "result"}, id : Nat]

Message == [role : Role, content : Seq(Block)]

Only(types, blocks) == SelectSeq(blocks, LAMBDA b : b.type \in types)

Blocks(message) == Range(message.content)

Has(message, type) == \E b \in Blocks(message) : b.type = type

(* Texts are concatenated, so an empty one is none.                         *)
Texts(blocks) == SelectSeq(Only({"text"}, blocks), LAMBDA b : b.id # 0)

Says(role, content) == IF content = <<>> THEN <<>> ELSE <<[role |-> role, content |-> content]>>

Flat(messages) == FlattenSeq([i \in DOMAIN messages |-> messages[i].content])
-----------------------------------------------------------------------------
(* openai: an assistant's calls go with its text, each result is a message  *)
(* of its own, and images go nowhere.                                       *)
translateAssistantWithTools(message) ==
  <<[role |-> "assistant",
     content |-> Texts(message.content) \o Only({"use"}, message.content)]>>

translateToolResults(message) ==
  LET kept == SelectSeq(Only({"result", "text"}, message.content),
                        LAMBDA b : b.type = "result" \/ b.id # 0) IN
  [i \in DOMAIN kept |->
     [role |-> IF kept[i].type = "result" THEN "tool" ELSE "user", content |-> <<kept[i]>>]]

translateMessage(message) ==
  CASE message.role = "assistant" /\ Has(message, "use") -> translateAssistantWithTools(message)
    [] message.role = "user" /\ Has(message, "result") -> translateToolResults(message)
    [] OTHER -> Says(message.role, Texts(message.content))

translateMessages(history) ==
  FlattenSeq([i \in DOMAIN history |-> translateMessage(history[i])])

(* FilterProviderMessages: texts and results are looked at.                 *)
FilterProviderMessages(history) ==
  \E b \in Range(Flat(history)) : b.type \in {"text", "result"} /\ b.id \in Sensitive

(* local: calls and results become text.                                    *)
convertMessages(history) ==
  LET written(blocks) == SelectSeq(blocks, LAMBDA b : b.type # "image" /\ b.id # 0) IN
  FlattenSeq([i \in DOMAIN history |-> Says(history[i].role, written(history[i].content))])

(* claude-code and tmux: the first text of the last message of the user     *)
(* that has one, and nothing of what was said before.                       *)
lastUserText(history) ==
  LET texts == {i \in DOMAIN history : history[i].role = "user" /\ Has(history[i], "text")} IN
  IF texts = {} THEN 0
  ELSE LET last == CHOOSE i \in texts : \A j \in texts : j <= i IN
       Only({"text"}, history[last].content)[1].id

(* Stream returns an error before it sends anything.                        *)
Declines(backend, history) ==
  CASE backend = "openai" -> FilterProviderMessages(history)
    [] backend \in {"claude-code", "cass", "screen"} -> lastUserText(history) = 0
    [] OTHER -> FALSE
-----------------------------------------------------------------------------
(* ProbeHealth: what /health may come to, and what counts as healthy.       *)
Health ==
  {"probe_error", "unreachable", "http", "parse_error", "degraded", "worker_down", "ready",
   "dry_run"}

ProbeHealth(health) == health \in {"ready", "dry_run"}

(* What a local server may answer: not at all, 503, another status but 200, *)
(* a JSON body that says cloud_fallback or says something else, or events.  *)
LocalReply == {"unreachable", "503", "status", "cascade", "json", "events"}

parseCascadeFallback(reply) == IF reply = "cascade" THEN "ErrCloudFallback" ELSE "ErrUnavailable"

(* The error of LocalProvider.Stream, if any.                               *)
LocalError(reply) ==
  CASE reply = "events" -> "none"
    [] reply = "503" -> "ErrOverloaded"
    [] reply \in {"cascade", "json"} -> parseCascadeFallback(reply)
    [] OTHER -> "ErrUnavailable"
=============================================================================

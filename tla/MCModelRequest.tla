--------------------------- MODULE MCModelRequest ---------------------------
(* Three requests of up to three events over a channel of two, under four  *)
(* configurations of the router and every provider.                        *)
EXTENDS ModelRequest

MCMaxTokens == 2
MCDegradeAt == 80
MCThresholds == {300, 800, 2000, 4000}

MCPolicies ==
  {[constrained |-> TRUE, complexity |-> "shadow", budget |-> "hard-stop", tracking |-> "billing"],
   [constrained |-> TRUE, complexity |-> "off", budget |-> "graceful", tracking |-> "context"],
   [constrained |-> FALSE, complexity |-> "shadow", budget |-> "graceful", tracking |-> "billing"],
   [constrained |-> FALSE, complexity |-> "enforce", budget |-> "graceful", tracking |-> "billing"]}

MCPins ==
  {[file |-> NoModel, intercore |-> NoModel, environment |-> NoModel],
   [file |-> "sonnet", intercore |-> "haiku", environment |-> "opus"]}

MCSetups ==
  {[first |-> b, cloud |-> "none"] : b \in Backend \ {"local", "screen"}}
    \cup {[first |-> "local", cloud |-> "anthropic"]}

MCUsages == {[billed |-> 1, cached |-> 1]}
-----------------------------------------------------------------------------
(* Dialogues as the loop builds them: a prompt, which may show an image,    *)
(* then calls and their results, a text before the calls or not, and the    *)
(* answer, which another prompt may follow.                                 *)
B(type, id) == [type |-> type, id |-> id]
M(role, content) == [role |-> role, content |-> content]

Openings == {<<B("text", 1)>>, <<B("text", 1), B("image", 1)>>, <<B("image", 1)>>}

Rounds ==
  {<<M("assistant", said \o calls), M("user", results)>> :
     said \in {<<>>, <<B("text", 0)>>, <<B("text", 2)>>},
     calls \in {<<B("use", 1), B("use", 2)>>}, results \in {<<B("result", 1), B("result", 2)>>}}
  \cup {<<>>}

Again == <<M("assistant", <<B("use", 3)>>), M("user", <<B("result", 3)>>)>>

Dialogues ==
  {<<M("user", opening)>> \o round \o more \o <<M("assistant", <<B("text", 3)>>)>> \o next :
     opening \in Openings, round \in Rounds, more \in {<<>>, Again},
     next \in {<<>>, <<M("user", <<B("text", 4)>>)>>}}

MCHistories ==
  {<<M("user", <<b>>)>> : b \in {B("text", 1), B("text", 9), B("image", 1)}}

Spoken(types, blocks) == SelectSeq(Only(types, blocks), LAMBDA b : b.id # 0)

(* Whatever is not an image reaches openai and the local server in order,   *)
(* the texts among themselves and the calls with their results.             *)
ASSUME NothingUnsaid ==
  \A h \in Dialogues : \A sent \in {translateMessages(h), convertMessages(h)} :
    \A types \in {{"text"}, {"use", "result"}} : Only(types, Flat(sent)) = Spoken(types, Flat(h))

(* openai wants every result right after the message with its call          *)
(* (translate.go:13).                                                       *)
ASSUME ResultsFollowTheirCall ==
  \A h \in Dialogues : LET sent == translateMessages(h) IN
    \A i \in DOMAIN sent : sent[i].role = "tool" =>
      \E j \in 1 .. i - 1 :
        /\ B("use", sent[i].content[1].id) \in Blocks(sent[j])
        /\ \A k \in j + 1 .. i - 1 : sent[k].role = "tool"

(* The prompt is that of the latest message with a text.                    *)
ASSUME PromptIsTheLatest ==
  \A h \in Dialogues : lastUserText(h) =
    IF Last(h).role = "user" THEN 4 ELSE IF Has(h[1], "text") THEN 1 ELSE 0
=============================================================================

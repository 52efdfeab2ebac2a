------------------------------ MODULE Compaction ------------------------------
(***************************************************************************)
(* The structured compaction of a session in the TUI.  The run's goroutine *)
(* collects the answers, gates and executes their calls and saves the      *)
(* turns.  Meanwhile it sends stream events to Update, one at a time:      *)
(* p.Send waits until Update takes it.  Update accumulates what tools did  *)
(* in compactState, and execCompact - by /compact or because a turn's      *)
(* usage passed 80 % - replaces the older messages of the session with a   *)
(* summary of it.                                                          *)
(***************************************************************************)
EXTENDS Naturals, Sequences, FiniteSetsExt

CONSTANTS
  FileName,         (* file names                                              *)
  Calls,        (* the tool calls an answer may hold; "safe" ones may run  *)
                (* together (ConcurrencySafe)                              *)
  Usages,       (* context percentages a turn may report, 0 for none       *)
  Keep,         (* compactKeepRecent                                       *)
  MaxMessages,  (* the session's maxTurns*2                                *)
  MaxErrors,    (* errors a summary has room for                           *)
  MaxShown,     (* tool calls the sidebar keeps                            *)
  MaxCalls,     (* bound: calls of a turn                                  *)
  MaxTurns,     (* bound: turns of all runs                                *)
  MaxRuns       (* bound: runs                                             *)

NoFile == "none"
NoKey == ""

Tool == {"read", "grep", "glob", "ls", "write", "edit", "bash", "other"}

(* What a result looks like to scoreToolResult: it says that a file was     *)
(* changed, it is a test's output, it is long, it is short, or it is empty. *)
Content == {"changed", "tests", "long", "short", "empty"}

(* The JSON of a call's input: the key a file is under.                     *)
Params == [key : {"file_path", "path", "pattern", "command", "go test"}, file : FileName]
            \cup {[key |-> NoKey, file |-> NoFile]}

NoParams == [key |-> NoKey, file |-> NoFile]

ASSUME CompactionAssumption ==
  /\ NoFile \notin FileName
  /\ Calls \subseteq [tool : Tool, params : Params, content : Content, safe : BOOLEAN]
  /\ Usages \subseteq 0 .. 100
  /\ Keep \in Nat \ {0} /\ MaxMessages \in Nat /\ MaxMessages > Keep + 1
  /\ {MaxErrors, MaxShown, MaxCalls, MaxTurns, MaxRuns} \subseteq Nat

Phase == {"observe", "orient", "decide", "act", "reflect", "compound"}

(* Who answers: an API that leaves the calls to the loop, or an agent that  *)
(* executes them itself and reports what came of them.                      *)
ClaudeCode == "claude-code"

Backend == {"api", ClaudeCode, "tmux"}

VARIABLES
  session,   (* JSONLSession.messages                                       *)
  backend,   (* the provider                                                *)
  stage,     (* the run: "idle", "collect" an answer, or "act" on it        *)
  calls,     (* CollectedResponse.ToolCalls                                 *)
  stop,      (* CollectedResponse.StopReason                                *)
  gated,     (* how many of the calls have been through the gate            *)
  results,   (* what came of each call                                      *)
  todo,      (* the completion of a denied call, still to be sent           *)
  event,     (* the event Update handles                                    *)
  cs,        (* appModel.compactState                                       *)
  sidebar,   (* sidebarModel.toolCalls: tool and target                     *)
  pct,       (* appModel.contextPct                                         *)
  auto,      (* Settings.AutoCompact                                        *)
  turns,     (* ghost: turns saved so far                                   *)
  ran,       (* ghost: the turns whose calls the loop executed              *)
  runs,      (* ghost: runs so far                                          *)
  failed,    (* ghost: errors so far; they are numbered                     *)
  retold     (* ghost: errors whose summary was summed up itself, or that   *)
             (* found no room in theirs                                     *)

answer == <<calls, stop, gated, results>>
loop == <<backend, stage, answer, todo, turns, ran, runs, failed>>
screen == <<cs, sidebar, pct, auto, retold>>
compactionVars == <<session, loop, event, screen>>
-----------------------------------------------------------------------------
(* Messages: "of" is the turn they belong to, "errors" the errors a result  *)
(* or a summary tells.                                                      *)
Block(type, tool, content, names, errors) ==
  [type |-> type, tool |-> tool, content |-> content, names |-> names, errors |-> errors]

Message(role, of, blocks) == [role |-> role, of |-> of, blocks |-> blocks]

Blocks(m) == {m.blocks[i] : i \in DOMAIN m.blocks}

Has(m, type) == \E b \in Blocks(m) : b.type = type

Errors(m) == UNION {b.errors : b \in Blocks(m)}

ErrorsIn(ms) == UNION {Errors(ms[i]) : i \in DOMAIN ms}

Recent(ms, n) == SubSeq(ms, Len(ms) - n + 1, Len(ms))
-----------------------------------------------------------------------------
(* Relevance: scoreToolUse, scoreToolResult, referencesFiles, scoreMessage. *)
scoreToolUse(tool) ==
  CASE tool \in {"write", "edit"} -> 8
    [] tool \in {"read", "grep", "glob", "ls"} -> 4
    [] tool = "bash" -> 5
    [] OTHER -> 3

scoreToolResult(content) ==
  CASE content = "changed" -> 10 [] content = "tests" -> 7 [] content = "long" -> 5 [] OTHER -> 3

scoreBlock(b, role) ==
  CASE b.type = "tool_use" -> scoreToolUse(b.tool)
    [] b.type = "tool_result" -> scoreToolResult(b.content)
    [] b.type = "text" /\ role = "assistant" -> 2
    [] OTHER -> 1

(* A call's input is not among the texts looked at.                         *)
referencesFiles(m, files) ==
  \E b \in Blocks(m) : b.type # "tool_use" /\ b.names \cap files # {}

scoreMessage(m, files) ==
  Max({0} \cup {scoreBlock(b, m.role) : b \in Blocks(m)})
    + (IF referencesFiles(m, files) THEN 3 ELSE 0)

ScoreMessages(ms, files) == [i \in DOMAIN ms |-> scoreMessage(ms[i], files)]

(* The heap's root is one of the weakest of those kept; which, the layout   *)
(* of the heap decides.                                                     *)
Weakest(score, kept) == {i \in kept : \A j \in kept : score[i] <= score[j]}

(* The next message replaces the root when it scores higher.                *)
Replaced(score, kept, i) ==
  LET roots == Weakest(score, kept) IN
  IF \A r \in roots : score[i] > score[r] THEN {(kept \ {r}) \cup {i} : r \in roots} ELSE {kept}

(* The sets of indices TopK may return for k > 0.                           *)
TopK(score, k) ==
  LET after[n \in Nat] ==
        IF n <= k THEN {1 .. k} ELSE UNION {Replaced(score, kept, n) : kept \in after[n - 1]}
  IN  IF k >= Len(score) THEN {DOMAIN score} ELSE after[Len(score)]

(* "the top-K highest-scored messages": nothing left out scores higher.     *)
AreHighest(score, kept, k) ==
  /\ Cardinality(kept) = IF k < Len(score) THEN k ELSE Len(score)
  /\ \A i \in kept, j \in DOMAIN score \ kept : score[i] >= score[j]
-----------------------------------------------------------------------------
(* The accumulator.                                                         *)
newCompactionState == [filesRead |-> {}, filesMutated |-> {}, errors |-> <<>>]

extractFilePath(tool, params) ==
  CASE params.key \in {"file_path", "path", "pattern"} -> params.file
    [] tool = "bash" /\ params.key = "command" -> params.file
    [] OTHER -> NoFile

AddFile(files, tool, tools, path) ==
  IF tool \in tools /\ path # NoFile THEN files \cup {path} ELSE files

PathFirst(state, ev) ==
  LET path == extractFilePath(ev.tool, ev.params) IN
  IF path = NoFile THEN state
  ELSE [state EXCEPT !.errors = IF ev.error # 0 THEN Append(@, ev.error) ELSE @]

(* observeToolComplete; an error without a text has no number.              *)
Observed(state, ev) ==
  LET path == extractFilePath(ev.tool, ev.params) IN
  [filesRead |-> AddFile(state.filesRead, ev.tool, {"read", "glob", "grep"}, path),
   filesMutated |-> AddFile(state.filesMutated, ev.tool, {"write", "edit"}, path),
   errors |-> IF ev.error # 0 THEN Append(state.errors, ev.error) ELSE state.errors]

(* buildSummary keeps the first errors; nothing fills the other fields.     *)
buildSummary ==
  [goal |-> {"goal"}, phase |-> {"phase"}, decisions |-> {}, tests |-> {}, questions |-> {},
   read |-> cs.filesRead, mutated |-> cs.filesMutated,
   errors |-> {cs.errors[i] : i \in {j \in DOMAIN cs.errors : j <= MaxErrors}}]

detectIntent(phase) ==
  CASE cs.errors # <<>> \/ phase = "reflect" -> "debugging"
    [] phase \in {"act", "decide"} -> "building"
    [] OTHER -> "default"

(* The sections of a summary in the order they are told.                    *)
Format ==
  <<"goal", "phase", "decisions", "read", "mutated", "tests", "errors", "questions">>

FormatWithIntent(intent) ==
  CASE intent = "debugging" ->
         <<"goal", "phase", "errors", "tests", "mutated", "decisions", "read", "questions">>
    [] intent = "building" ->
         <<"goal", "phase", "mutated", "decisions", "read", "tests", "errors", "questions">>
    [] OTHER -> Format

(* Empty fields are left out.                                               *)
Sections(summary, intent) ==
  {f \in {FormatWithIntent(intent)[i] : i \in DOMAIN FormatWithIntent(intent)} : summary[f] # {}}

Told(summary, intent, fields) == UNION {summary[f] : f \in fields \cap Sections(summary, intent)}

SummaryMessage(summary, intent) ==
  Message("user", 0,
    <<Block("text", "other", "long", Told(summary, intent, {"read", "mutated"}),
            Told(summary, intent, {"errors"}))>>)

CompactStructured(ms, summary, intent) ==
  IF Sections(summary, intent) = {} \/ Len(ms) <= Keep + 1 THEN ms
  ELSE <<SummaryMessage(summary, intent)>> \o Recent(ms, Keep)

(* Errors only an earlier summary tells.                                    *)
SummedUp(ms) == UNION {Errors(ms[i]) : i \in {j \in DOMAIN ms : ms[j].of = 0}}

(* execCompact with a context of p percent, in whichever phase /advance and *)
(* the settings have left the program (Controls).                           *)
execCompact(p) ==
  \/ Len(session) <= Keep + 1 /\ pct' = p /\ UNCHANGED <<session, cs, retold>>
  \/ /\ Len(session) > Keep + 1
     /\ \E phase \in Phase :
          session' = CompactStructured(session, buildSummary, detectIntent(phase))
     /\ cs' = newCompactionState
     /\ pct' = (p * Len(session')) \div Len(session)
     /\ retold' = retold \cup SummedUp(session)
          \cup {cs.errors[i] : i \in {j \in DOMAIN cs.errors : j > MaxErrors}}
-----------------------------------------------------------------------------
NoReason == "none"

Reason == {"end_turn", "tool_use", "max_tokens"}

Event(type, call, params, content, error, p) ==
  [type |-> type, tool |-> call.tool, params |-> params, content |-> content,
   error |-> error, pct |-> p]

NoCall == [tool |-> "other", params |-> NoParams, content |-> "empty"]

NoEvent == Event("none", NoCall, NoParams, "empty", 0, 0)

(* A call succeeds, or fails with or without a text.                        *)
Outcome == {"ok", "fails", "silent"}

Result(call, outcome) ==
  CASE outcome = "ok" -> call.content [] outcome = "fails" -> "tests" [] OTHER -> "empty"

NoResult == [content |-> "none", error |-> 0]

Settled(i) == results[i] # NoResult

(* The loop executes calls only when the answer says so.                    *)
RunsTools == stop = "tool_use" /\ calls # <<>>

(* The answer with its calls, and one result for each if they were          *)
(* executed.  The text of an answer tells of no error and is left out.      *)
TurnMessages ==
  <<Message("assistant", turns + 1,
      [i \in DOMAIN calls |-> Block("tool_use", calls[i].tool, "short", {}, {})])>> \o
  (IF RunsTools
     THEN <<Message("user", turns + 1,
              [i \in DOMAIN calls |->
                 Block("tool_result", calls[i].tool, results[i].content,
                       {calls[i].params.file} \ {NoFile}, {results[i].error} \ {0})])>>
     ELSE <<>>)

KeepsTwo(ms) ==
  IF Len(ms) <= MaxMessages THEN ms ELSE SubSeq(ms, 1, 2) \o Recent(ms, MaxMessages - 2)

(* truncate.                                                                *)
Truncate(ms) ==
  IF Len(ms) <= MaxMessages THEN ms ELSE <<ms[1]>> \o Recent(ms, MaxMessages - 1)
-----------------------------------------------------------------------------
Fresh == calls' = <<>> /\ results' = <<>> /\ gated' = 0 /\ stop' = NoReason

CompactionInit ==
  /\ session = <<>> /\ backend \in Backend /\ stage = "idle"
  /\ calls = <<>> /\ results = <<>> /\ gated = 0 /\ stop = NoReason
  /\ todo = NoEvent /\ event = NoEvent
  /\ cs = newCompactionState /\ sidebar = <<>> /\ pct = 0 /\ auto \in BOOLEAN
  /\ turns = 0 /\ ran = {} /\ runs = 0 /\ failed = 0 /\ retold = {}

(* Nothing runs and Update has nothing to do: a key, or a command.          *)
Resting == stage = "idle" /\ event = NoEvent

StartRun ==
  /\ Resting /\ runs < MaxRuns /\ turns < MaxTurns
  /\ stage' = "collect" /\ runs' = runs + 1
  /\ UNCHANGED <<session, backend, answer, todo, turns, ran, failed, event, screen>>

(* p.Send has given the last event to Update, which has handled it.         *)
MaySend == event = NoEvent /\ todo = NoEvent

(* collectWithCallbacks: a call begins; only claude-code tells its input.   *)
BeginCall(call) ==
  /\ stage = "collect" /\ MaySend /\ Len(calls) < MaxCalls
  /\ calls' = Append(calls, call) /\ results' = Append(results, NoResult)
  /\ event' = Event("start", call, IF backend = ClaudeCode THEN call.params ELSE NoParams,
                    "empty", 0, 0)
  /\ UNCHANGED <<session, backend, stage, stop, gated, todo, turns, ran, runs, failed, screen>>

(* A call has ended; its error gets the next number.  The event does not    *)
(* tell what the call was given.                                            *)
Ends(i, outcome) ==
  LET error == IF outcome = "fails" THEN failed + 1 ELSE 0
      content == Result(calls[i], outcome)
  IN  /\ results' = [results EXCEPT ![i] = [content |-> content, error |-> error]]
      /\ event' = Event("complete", calls[i], NoParams, content, error, 0)
      /\ failed' = failed + (IF outcome = "fails" THEN 1 ELSE 0)
      /\ UNCHANGED <<session, backend, stage, calls, stop, gated, todo, turns, ran, runs, screen>>

(* An agent reports a call it has executed; tmux knows of no failures.      *)
Reported(i, outcome) ==
  /\ stage = "collect" /\ MaySend /\ ~Settled(i)
  /\ (backend = ClaudeCode \/ (backend = "tmux" /\ outcome = "ok"))
  /\ Ends(i, outcome)

(* The answer is complete, with its usage, which tmux does not know.        *)
Done(reason, p) ==
  /\ stage = "collect" /\ MaySend
  /\ backend # "api" => reason = "end_turn"
  /\ stop' = reason /\ stage' = "act"
  /\ event' = Event("turn", NoCall, NoParams, "empty", 0, IF backend = "tmux" THEN 0 ELSE p)
  /\ UNCHANGED <<session, backend, calls, gated, results, todo, turns, ran, runs, failed, screen>>

(* The stream ends without a word.                                          *)
EndOfStream ==
  /\ stage = "collect" /\ stage' = "act"
  /\ UNCHANGED <<session, backend, answer, todo, turns, ran, runs, failed, event, screen>>

(* The stream fails, at its end at the latest: the run saves nothing.       *)
StreamFails ==
  /\ stage # "idle" /\ gated = 0 /\ stage' = "idle" /\ Fresh
  /\ UNCHANGED <<session, backend, todo, turns, ran, runs, failed, event, screen>>

(* Calls let through and not yet executed.                                  *)
Waiting == {i \in 1 .. gated : ~Settled(i)}

(* The next call belongs to the batch of the last one.                      *)
InBatch == gated \in 1 .. Len(calls) - 1 /\ calls[gated].safe /\ calls[gated + 1].safe

(* A batch is gated, and then executed, before the next.                    *)
Gating ==
  /\ stage = "act" /\ RunsTools /\ todo = NoEvent
  /\ gated < Len(calls) /\ (Waiting = {} \/ InBatch)
  /\ gated' = gated + 1

Grant ==
  /\ Gating
  /\ UNCHANGED <<session, backend, stage, calls, stop, results, todo, turns, ran, runs, failed,
                 event, screen>>

(* The gate announces what it denies, with its input.                       *)
Deny ==
  /\ Gating /\ event = NoEvent
  /\ LET call == calls[gated + 1] IN
     /\ event' = Event("start", call, call.params, "empty", 0, 0)
     /\ todo' = Event("complete", call, NoParams, "short", failed + 1, 0)
  /\ results' = [results EXCEPT ![gated + 1] = [content |-> "short", error |-> failed + 1]]
  /\ failed' = failed + 1
  /\ UNCHANGED <<session, backend, stage, calls, stop, turns, ran, runs, screen>>

(* The results of a batch are told in the order of its calls.               *)
Complete(i, outcome) ==
  /\ stage = "act" /\ MaySend /\ ~InBatch
  /\ i \in Waiting /\ \A j \in Waiting : i <= j
  /\ Ends(i, outcome)

(* p.Send of what the gate has still to say.                                *)
Send ==
  /\ todo # NoEvent /\ event = NoEvent
  /\ event' = todo /\ todo' = NoEvent
  /\ UNCHANGED <<session, backend, stage, answer, turns, ran, runs, failed, screen>>

(* Session.Save, while Update may still handle the turn's last event.  The  *)
(* run goes on, unless this was its answer, it was cancelled, or it had all *)
(* its turns.                                                               *)
Save ==
  /\ stage = "act" /\ todo = NoEvent
  /\ RunsTools => gated = Len(calls) /\ Waiting = {}
  /\ session' = Truncate(session \o TurnMessages)
  /\ turns' = turns + 1 /\ ran' = IF RunsTools THEN ran \cup {turns + 1} ELSE ran
  /\ \/ stage' = "idle"
     \/ stop # "end_turn" /\ turns' < MaxTurns /\ stage' = "collect"
  /\ Fresh
  /\ UNCHANGED <<backend, todo, runs, failed, event, screen>>
-----------------------------------------------------------------------------
Handled(type) == event.type = type /\ event' = NoEvent /\ UNCHANGED loop

(* handleStreamEvent: a tool call starts; the sidebar keeps the last ones.  *)
ToolStart ==
  /\ Handled("start")
  /\ LET shown == Append(sidebar, <<event.tool, extractFilePath(event.tool, event.params)>>)
     IN  sidebar' = IF Len(shown) > MaxShown THEN Recent(shown, MaxShown) ELSE shown
  /\ UNCHANGED <<session, cs, pct, auto, retold>>

ToolComplete ==
  /\ Handled("complete") /\ cs' = Observed(cs, event)
  /\ UNCHANGED <<session, sidebar, pct, auto, retold>>

(* A turn without usage leaves the context as it was estimated.             *)
Context == IF event.pct > 0 THEN event.pct ELSE pct

TurnComplete ==
  /\ Handled("turn")
  /\ \/ auto /\ Context > 80 /\ execCompact(Context)
     \/ ~(auto /\ Context > 80) /\ pct' = Context /\ UNCHANGED <<session, cs, retold>>
  /\ UNCHANGED <<sidebar, auto>>

(* /compact.                                                                *)
Compact ==
  /\ Resting /\ execCompact(pct)
  /\ UNCHANGED <<loop, event, sidebar, auto>>

CompactionNext ==
  \/ StartRun \/ EndOfStream \/ StreamFails \/ Grant \/ Deny \/ Send \/ Save
  \/ \E call \in Calls : BeginCall(call)
  \/ \E i \in DOMAIN calls, outcome \in Outcome : Reported(i, outcome) \/ Complete(i, outcome)
  \/ \E reason \in Reason, p \in Usages : Done(reason, p)
  \/ ToolStart \/ ToolComplete \/ TurnComplete \/ Compact

CompactionSpec == CompactionInit /\ [][CompactionNext]_compactionVars
-----------------------------------------------------------------------------
(* A message belongs to a turn or is a summary (turn 0), and tells of       *)
(* errors that happened; what is accumulated are files and errors.          *)
CompactionTypeOK ==
  LET error == 1 .. failed
      block == [type : {"text", "tool_use", "tool_result"}, tool : Tool, content : Content,
                names : SUBSET FileName, errors : SUBSET error]
      message == [role : {"user", "assistant"}, of : 0 .. turns, blocks : Seq(block)]
      stream == [type : {"none", "turn", "start", "complete"}, tool : Tool, params : Params,
                 content : Content, error : {0} \cup error, pct : 0 .. 100]
  IN  /\ session \in Seq(message) /\ Len(session) <= MaxMessages
      /\ backend \in Backend /\ stage \in {"idle", "collect", "act"}
      /\ calls \in Seq(Calls) /\ Len(calls) <= MaxCalls /\ Len(results) = Len(calls)
      /\ results \in Seq([content : Content, error : {0} \cup error] \cup {NoResult})
      /\ gated \in 0 .. Len(calls) /\ stop \in Reason \cup {NoReason}
      /\ todo \in stream /\ event \in stream
      /\ cs \in [filesRead : SUBSET FileName, filesMutated : SUBSET FileName, errors : Seq(error)]
      /\ sidebar \in Seq(Tool \X (FileName \cup {NoFile})) /\ Len(sidebar) <= MaxShown
      /\ pct \in 0 .. 100 /\ auto \in BOOLEAN
      /\ turns \in 0 .. MaxTurns /\ ran \subseteq 1 .. turns /\ runs \in 0 .. MaxRuns
      /\ failed \in Nat /\ retold \subseteq error

(* No error of a tool is lost between the run and the summaries: it is      *)
(* still on its way, accumulated, or told in the session, by its result or  *)
(* by a summary - until that summary is itself summed up, or had no room    *)
(* (CompactionSummary, "errors encountered").                               *)
ErrorsTold ==
  1 .. failed \subseteq
    ErrorsIn(session) \cup {cs.errors[i] : i \in DOMAIN cs.errors}
      \cup {event.error, todo.error} \cup retold

(* Behind the second message of a session every result follows its own      *)
(* turn's calls, and calls the loop executed are followed by their results: *)
(* truncating and compacting by number of messages can separate the two at  *)
(* the head only.  Calls the loop did not execute stand alone.              *)
PairedBehindHead ==
  \A i \in DOMAIN session : i > 2 =>
    /\ Has(session[i], "tool_result") =>
         Has(session[i - 1], "tool_use") /\ session[i - 1].of = session[i].of
    /\ Has(session[i], "tool_use") /\ session[i].of \in ran =>
         i < Len(session) /\ Has(session[i + 1], "tool_result")
         /\ session[i + 1].of = session[i].of

(* "OpenAI requires: assistant messages with tool_calls array, separate     *)
(* role:tool messages" (openai/translate.go:13): behind the head, no call   *)
(* is sent without its results.                                             *)
CallsAreAnswered ==
  \A i \in DOMAIN session : i > 2 /\ Has(session[i], "tool_use") =>
    i < Len(session) /\ Has(session[i + 1], "tool_result")

(* "FilesMutated: files the agent wrote or edited" (compaction.go:21): the  *)
(* summary that replaces the result of an edit names its file.              *)
FilesTold ==
  [][session # <<>> /\ session' # <<>> /\ session'[1].of = 0 /\ Len(session') <= Len(session) =>
       \A i \in 1 .. Len(session) - Keep : \A b \in Blocks(session[i]) :
         b.type = "tool_result" /\ b.tool \in {"write", "edit"} /\ b.content = "changed"
           => b.names \subseteq UNION {c.names : c \in Blocks(session'[1])}]_session

(* "keep last 4 messages (2 turns)" (commands.go:888): no turn is cut.      *)
KeepsWholeTurns ==
  \A i \in DOMAIN session : Has(session[i], "tool_result") =>
    i > 1 /\ session[i - 1].of = session[i].of
=============================================================================

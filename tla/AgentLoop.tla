----------------------------- MODULE AgentLoop -----------------------------
(***************************************************************************)
(* One agent process: the turn loop of agentloop.RunWithContent with its   *)
(* automatic compaction, over the JSONL session it resumes from and saves  *)
(* to.  The user starts runs, cancels them and compacts the session; the   *)
(* provider answers or fails; a write to the session file may fail or be   *)
(* cut short; the process may crash anywhere and be restarted.             *)
(* The execution of one turn's tool calls is ToolExec; here it is Act.     *)
(***************************************************************************)
EXTENDS Integers, FiniteSets, Sequences

CONSTANTS
  MaxTurns,      (* Loop.maxTurns                                            *)
  KeepRecent,    (* AutoCompactConfig.KeepRecent                             *)
  MaxFailures,   (* AutoCompactConfig.MaxConsecutiveFailures                 *)
  Thresholds,    (* TokenPressure.Threshold under the models routed to       *)
  Long,          (* tokens of a tool result microCompact elides              *)
  GoalLevels,    (* restorations a goal survives, each cutting it further    *)
  MaxMessages,   (* the session's maxTurns*2                                 *)
  CompactKeep,   (* compactKeepRecent of /compact                            *)
  MaxRuns,       (* bound: runs the user starts                              *)
  MaxCrashes     (* bound: crashes of the process                            *)

ASSUME AgentLoopAssumption ==
  /\ MaxTurns \in Nat \ {0} /\ KeepRecent \in Nat \ {0} /\ MaxFailures \in Nat \ {0}
  /\ Thresholds \subseteq Int /\ Long \in Nat /\ Long > 1 /\ GoalLevels \in Nat \ {0}
  /\ MaxMessages \in Nat /\ MaxMessages > 1 /\ CompactKeep \in Nat \ {0}
  /\ MaxRuns \in Nat /\ MaxCrashes \in Nat

(* A message: from the user "task" (the prompt of run "of"), "result" and  *)
(* "long" (tool results below and above the elision limit), "marker" (of   *)
(* snip), "restored" (of the post-compact hook: "left" is what remains of  *)
(* the goal it quotes), "summary" (of /compact); from the assistant "text" *)
(* and "use" (a tool call).                                                *)
Kind == {"task", "result", "long", "marker", "restored", "summary", "text", "use"}

Message == [kind : Kind, of : 0 .. MaxRuns, left : 0 .. GoalLevels]

Plain(k) == [kind |-> k, of |-> 0, left |-> 0]

(* A response cut by max_tokens may carry calls; the loop runs none then.  *)
Response == [stop : {"end_turn", "tool_use", "max_tokens"}, calls : BOOLEAN]

NoResponse == [stop |-> "end_turn", calls |-> FALSE]

VARIABLES
  pc,            (* where the run is; "idle" between runs, "down" crashed    *)
  run,           (* the run started last                                     *)
  turn,          (* turn                                                     *)
  messages,      (* messages                                                 *)
  cache,         (* Loop.tokenCache                                          *)
  failures,      (* autoCompactState.consecutiveFailures                     *)
  response,      (* collected                                                *)
  owed,          (* where a turn charged to the budget is not recorded yet   *)
  mem,           (* JSONLSession.messages                                    *)
  file,          (* the messages of its file's lines, as far as they parse   *)
  unterminated,  (* the file's last line has no newline                      *)
  partial,       (* the messages of that line, none if it does not parse     *)
  drifted,       (* memory was edited or a write failed: history, to state   *)
                 (* when a restart must restore exactly what was there       *)
  crashes        (* crashes so far                                           *)

loop    == <<run, turn, messages, cache, failures, response>>
disk    == <<file, unterminated, partial>>
session == <<mem, disk, drifted>>
vars == <<pc, loop, owed, session, crashes>>
-----------------------------------------------------------------------------
(* Token estimates.                                                        *)
Weight(m) == IF m.kind = "long" THEN Long ELSE 1

Weights(ms) == [i \in DOMAIN ms |-> Weight(ms[i])]

Total(ws) == Len(ws) + (Long - 1) * Cardinality({i \in DOMAIN ws : ws[i] = Long})

(* estimateMessageTokensCached estimates the new tail only.                *)
Refreshed(c, ms) ==
  IF Len(c) > Len(ms) THEN Weights(ms)
  ELSE c \o Weights(SubSeq(ms, Len(c) + 1, Len(ms)))

KeptCache == cache

(* resetTokenCache.                                                        *)
ResetCache == <<>>

Recent(ms, k) == SubSeq(ms, Len(ms) - k + 1, Len(ms))

ElidedTooFar(ms) ==
  [i \in DOMAIN ms |-> IF i <= Len(ms) - KeepRecent + 1 /\ ms[i].kind = "long"
                         THEN Plain("result") ELSE ms[i]]

(* microCompact.                                                           *)
Elided(ms) ==
  [i \in DOMAIN ms |-> IF i <= Len(ms) - KeepRecent /\ ms[i].kind = "long"
                         THEN Plain("result") ELSE ms[i]]

(* snip.                                                                   *)
Snipped(ms) ==
  IF Len(ms) <= KeepRecent THEN ms
  ELSE <<Plain("marker")>> \o Recent(ms, KeepRecent)

IsUserText(m) == m.kind \in {"task", "marker", "restored", "summary"}

RestoredFromRecent(ms) == [Plain("restored") EXCEPT !.of = ms[Len(ms)].of]

(* buildPostCompactHook quotes the first user text before the compaction,  *)
(* cut to 200 characters: quoting a restoration message cuts the goal it   *)
(* quotes by that message's own heading.                                   *)
FirstUserText(ms) ==
  {i \in DOMAIN ms : IsUserText(ms[i]) /\ \A j \in 1 .. i - 1 : ~IsUserText(ms[j])}

Quoted(m) ==
  [kind |-> "restored", of |-> m.of,
   left |-> CASE m.kind = "task" -> GoalLevels
              [] m.kind = "restored" /\ m.left > 0 -> m.left - 1
              [] OTHER -> 0]

Restored(ms) ==
  IF FirstUserText(ms) = {} THEN Plain("restored")
  ELSE Quoted(ms[CHOOSE i \in FirstUserText(ms) : TRUE])

(* autoCompactMessages: what it returns, and whether it freed anything.    *)
Compaction(ms, threshold) ==
  LET elided  == Elided(ms)
      freed   == Total(Weights(ms)) - Total(Weights(elided))
      enough  == freed > 0 /\ Total(Weights(elided)) < threshold
      snipped == IF enough THEN elided ELSE Snipped(elided)
      more    == Total(Weights(elided)) - Total(Weights(snipped))
      rest    == IF more > 0 THEN Tail(snipped) ELSE snipped
  IN  [applied |-> freed > 0 \/ more > 0, messages |-> <<Restored(ms)>> \o rest]

(* The session: truncate and Load.                                         *)
Truncate(ms) ==
  IF Len(ms) <= MaxMessages THEN ms
  ELSE <<ms[1]>> \o Recent(ms, MaxMessages - 1)

LoadedUntruncated == file \o partial

Loaded == Truncate(file \o partial)

(* The turn's messages: the assistant's, and its results if it ran tools.  *)
RunsTools(r) == r.stop = "tool_use" /\ r.calls

TurnMessages == Recent(messages, IF RunsTools(response) THEN 2 ELSE 1)
-----------------------------------------------------------------------------
Init ==
  /\ pc = "idle" /\ run = 0 /\ turn = 0
  /\ messages = <<>> /\ cache = <<>> /\ failures = 0
  /\ response = NoResponse
  /\ owed = {}
  /\ mem = <<>> /\ file = <<>> /\ unterminated = FALSE /\ partial = <<>> /\ drifted = FALSE
  /\ crashes = 0

(* RunWithContent returns, and its locals with it.                         *)
Return ==
  /\ pc' = "idle" /\ turn' = 0 /\ messages' = <<>> /\ cache' = <<>> /\ failures' = 0
  /\ response' = NoResponse
  /\ UNCHANGED run

(* Agent.Run builds a new Loop.  The task joins the session's messages for *)
(* this run only.                                                          *)
StartRun ==
  /\ pc = "idle" /\ run < MaxRuns
  /\ pc' = "top" /\ run' = run + 1
  /\ messages' = Append(mem, [Plain("task") EXCEPT !.of = run + 1])
  /\ UNCHANGED <<turn, cache, failures, response, owed, session, crashes>>

TurnNotCounted == turn

NextTurn == turn + 1

NeedsCompaction(threshold) == Total(Refreshed(cache, messages)) >= threshold

(* The top of a turn: select the model, estimate, compact if need be.      *)
Orient(threshold) ==
  /\ pc = "top" /\ turn < MaxTurns
  /\ turn' = NextTurn /\ pc' = "call"
  /\ LET done  == Compaction(messages, threshold)
         tries == failures < MaxFailures /\ NeedsCompaction(threshold)
     IN  \/ /\ tries /\ done.applied
            /\ messages' = done.messages
            /\ cache' = Refreshed(ResetCache, done.messages)
            /\ failures' = 0
         \/ /\ tries /\ ~done.applied
            /\ failures' = failures + 1
            /\ cache' = Refreshed(cache, messages)
            /\ UNCHANGED messages
         \/ /\ ~tries
            /\ cache' = Refreshed(cache, messages)
            /\ UNCHANGED <<messages, failures>>
  /\ UNCHANGED <<run, response, owed, session, crashes>>

OutOfTurns == turn >= MaxTurns

(* "exceeded max turns".                                                   *)
GiveUp ==
  /\ pc = "top" /\ OutOfTurns
  /\ Return
  /\ UNCHANGED <<owed, session, crashes>>

(* Stream or Collect fails, a cancelled context among the reasons.         *)
StreamFails ==
  /\ pc = "call"
  /\ Return
  /\ UNCHANGED <<owed, session, crashes>>

(* The provider answers: charge the budget, append the assistant message.  *)
Respond(r) ==
  /\ pc = "call"
  /\ response' = r
  /\ messages' = Append(messages, Plain(IF r.calls THEN "use" ELSE "text"))
  /\ owed' = {"evidence", "session"}
  /\ pc' = IF RunsTools(r) THEN "act" ELSE "emit"
  /\ UNCHANGED <<run, turn, cache, failures, session, crashes>>

AfterTools == "emit"

(* executeToolsWithCallbacks returns the results, cancelled or not.        *)
Act(result) ==
  /\ pc = "act"
  /\ messages' = Append(messages, Plain(result))
  /\ pc' = AfterTools
  /\ UNCHANGED <<run, turn, cache, failures, response, owed, session, crashes>>

Emit ==
  /\ pc = "emit"
  /\ owed' = owed \ {"evidence"}
  /\ pc' = "save"
  /\ UNCHANGED <<loop, session, crashes>>

(* appendRecord: the whole line is written; written after an unterminated  *)
(* one it completes that line, which then parses as neither record.        *)
RecordWritten ==
  /\ IF unterminated THEN UNCHANGED file ELSE file' = file \o TurnMessages
  /\ unterminated' = FALSE /\ partial' = <<>>

(* The write is cut short, in the record or just before its newline.       *)
RecordTorn ==
  /\ unterminated' = TRUE
  /\ partial' \in IF unterminated THEN {<<>>} ELSE {<<>>, TurnMessages}
  /\ UNCHANGED file

(* Session.Save, whose error the loop ignores, and the end of the turn:    *)
(* the run returns on end_turn, or because its context was cancelled.      *)
Save ==
  /\ pc = "save"
  /\ mem' = Truncate(mem \o TurnMessages)
  /\ \/ RecordWritten /\ drifted' = (drifted \/ unterminated)
     \/ (RecordTorn \/ UNCHANGED disk) /\ drifted' = TRUE
  /\ owed' = owed \ {"session"}
  /\ \/ Return
     \/ response.stop # "end_turn" /\ pc' = "top" /\ UNCHANGED loop
  /\ UNCHANGED crashes

(* CompactStructured.                                                      *)
Compacted(ms) == <<Plain("summary")>> \o Recent(ms, CompactKeep)

(* execCompact, by /compact or because a turn's usage passed 80 %: the     *)
(* TUI's Update edits memory, not the file, while a run may be going on    *)
(* with the messages it began with.                                        *)
Compact ==
  /\ pc # "down" /\ Len(mem) > CompactKeep + 1
  /\ mem' = Compacted(mem)
  /\ drifted' = TRUE
  /\ UNCHANGED <<pc, loop, owed, disk, crashes>>

(* The process dies; a Save in progress has reached the file or not.       *)
Crash ==
  /\ pc # "down" /\ crashes < MaxCrashes
  /\ crashes' = crashes + 1 /\ pc' = "down"
  /\ \/ UNCHANGED disk
     \/ pc = "save" /\ (RecordWritten \/ RecordTorn)
  /\ mem' = <<>> /\ drifted' = FALSE
  /\ owed' = {}
  /\ turn' = 0 /\ messages' = <<>> /\ cache' = <<>> /\ failures' = 0
  /\ response' = NoResponse
  /\ UNCHANGED run

(* A new process resumes the session by its ID: Load.                      *)
Restart ==
  /\ pc = "down"
  /\ pc' = "idle"
  /\ mem' = Loaded
  /\ UNCHANGED <<loop, owed, disk, drifted, crashes>>

LoopStep ==
  \/ \E threshold \in Thresholds : Orient(threshold)
  \/ GiveUp
  \/ StreamFails
  \/ \E r \in Response : Respond(r)
  \/ \E result \in {"result", "long"} : Act(result)
  \/ Emit
  \/ Save

Next == StartRun \/ LoopStep \/ Compact \/ Crash \/ Restart

Spec == Init /\ [][Next]_vars
-----------------------------------------------------------------------------
TypeOK ==
  /\ pc \in {"idle", "top", "call", "act", "emit", "save", "down"}
  /\ run \in 0 .. MaxRuns /\ turn \in 0 .. MaxTurns
  /\ messages \in Seq(Message) /\ mem \in Seq(Message)
  /\ file \in Seq(Message) /\ partial \in Seq(Message)
  /\ cache \in Seq({1, Long}) /\ failures \in 0 .. MaxFailures
  /\ response \in Response
  /\ Len(mem) <= MaxMessages
  /\ owed \subseteq {"evidence", "session"}
  /\ unterminated \in BOOLEAN /\ drifted \in BOOLEAN
  /\ crashes \in 0 .. MaxCrashes

(* When the provider is called, the incrementally kept token estimate is   *)
(* that of the messages sent, after a compaction as well                   *)
(* (estimateMessageTokensCached assumes messages are append-only).         *)
CacheIsCurrent == pc = "call" => cache = Weights(messages)

(* A compaction never modifies the messages within the keepRecent tail     *)
(* (microCompact's comment), and a turn changes nothing else it was shown. *)
RecentUntouched ==
  [][pc = "top" /\ pc' = "call" =>
       \/ messages' = messages
       \/ Recent(messages', KeepRecent) = Recent(messages, KeepRecent)]_vars

(* Every request of a run carries the run's task, or a restoration message *)
(* that descends from it, however often the history was compacted; only a  *)
(* /compact summary ahead of it can be taken for the task.                 *)
TaskDescends ==
  pc = "call" /\ (mem = <<>> \/ mem[1].kind # "summary") =>
    \E i \in DOMAIN messages : messages[i].of = run

(* The goal itself reaches the model in every request of the run:          *)
(* buildPostCompactHook builds "a context restoration message with the     *)
(* goal".                                                                  *)
GoalShown ==
  pc = "call" =>
    \E i \in DOMAIN messages :
      messages[i].of = run /\ (messages[i].kind = "task" \/ messages[i].left > 0)

(* The budget, the evidence and the session agree on the turns taken: no   *)
(* exit, error or cancellation falls between them.                         *)
TurnsAccounted == pc \in {"idle", "top", "call"} => owed = {}

(* Truncating the history turn by turn gives what Load's single truncation *)
(* of the whole file gives: unless something edited memory or a write      *)
(* failed, a restart resumes from exactly the history that was in memory.  *)
RestartRestoresMemory == pc # "down" /\ ~drifted => mem = Loaded

(* Every way round the loop consumes a turn and every step of a turn moves *)
(* on: no compaction, error or continuation makes a run go on for ever.    *)
Remaining ==
  8 * (MaxTurns - turn) +
  (CASE pc = "call" -> 4 [] pc = "act" -> 3 [] pc = "emit" -> 2 [] pc = "save" -> 1
     [] OTHER -> 0)

RunAdvances ==
  [][pc \notin {"idle", "down"} /\ pc' \notin {"idle", "down"} =>
       Remaining' >= 0 /\ Remaining' < Remaining]_<<pc, loop>>

=============================================================================

# A verification project for Skaffen

Skaffen is a coding agent written in Go: a loop that sends a conversation to a
model provider, runs the tools the model asks for, and keeps the conversation,
its evidence and its budget. These TLA+ modules are kept beside that code. Each
is translated from the source; `PROJECT.json` maps every definition to the
lines it stands for, names the runs, the mutants that show each property can
fail, the hazards the properties are for, the disagreements found between code
and comments, and the theorems.

Run a model with `tlc -config MCToolExec.cfg MCToolExec`, check a proof with
`tlapm TurnProofs.tla`.

## 1. Inventory

The parts of the program, the state each keeps, what changes it, what it shares
with the others, what is hard about it, and what makes it correct. "M" marks
what is modelled, "m" what is modelled in part.

### The agent's core

**Tool execution** (M; `internal/agentloop/loop.go`, `executeToolsWithCallbacks`
and below). One assistant message carries N tool calls. *State*: the batches, the
result slots, a semaphore of ten, a WaitGroup, a result channel, a context shared
by the error-propagating calls of a batch. *Operations*: partition, gate (hook,
then approver), execute serially or in parallel, collect, start PostToolUse in
the background. *Interacts*: with the TUI through the approver (a blocking call)
and stream events, with `internal/hooks`, with the tools of `internal/tool`.
*Hard*: goroutines ending in any order, panics, one bash error cancelling its
siblings, the user's cancellation. *Correct* when every call is answered exactly
once, an unsafe call is a barrier, the gate never overlaps execution, the bound
on parallelism holds and the turn ends.

**The turn loop** (m; `agentloop.RunWithContent`, `autocompact.go`,
`agent.buildPostCompactHook`). *State*: the messages of the run, the turn counter,
the cached token estimates, the failure count of the compaction breaker.
*Operations*: per turn, select a model, estimate, compact (elide old tool
results, then snip, then prepend a restoration message), call the provider, charge
the budget, run tools, emit evidence, save the turn, leave or continue. *Hard*: an
incremental cache over a history that compaction rewrites; the order of the
side effects of a turn against its exits; compactions of compacted histories.
*Correct* when the estimate is current, the recent tail survives compaction, the
task stays in the history, budget, evidence and session agree, and a run is bounded.

**Session** (m; `internal/session`, `internal/tui/compaction_state.go`). *State*:
messages in memory, a JSONL file, possibly with an unterminated last line, and in
the TUI the accumulator of files and errors for the next summary. *Operations*:
Save (append and truncate), Load, CompactStructured, TopK, Fork. *Shared*: the loop
reads it at the start of a run and saves after every turn; the TUI compacts it, by
`/compact` or because a turn's usage passed 80 %, while the run goes on. *Hard*:
torn writes, memory truncated turn by turn against a file truncated at load,
summaries of summaries, cuts by number of messages. *Correct* when a restart
resumes the history that was there, no tool error gets lost on the way to a
summary, and the calls the loop executed stay with their results.

**Agent, phases, tools and gates** (m; `internal/agent`, `internal/tool`). *State*:
the phase FSM, the model override, plan mode, the tools and gates of the registry.
A run's loop gets a flat copy of the tools its phase and plan mode allow at that
moment; servers register theirs before the first run can start. *Hard*: commands,
keys, skills and prompts could change phase and plan mode while a copy is in use.
*Correct* when a run has only tools of its own phase's gate.

**Trust** (m; `internal/trust`). *State*: session decisions with counters, learned
overrides. *Operations*: Evaluate, Learn (with promotion), Revoke. *Shared*: the
agent goroutine evaluates while the TUI learns. *Hard*: learned rules move between
maps. *Correct* when what they allow is what the user allowed.

**Hooks** (m; `internal/hooks`). External commands with a timeout before and after
a tool call. *Hard*: several judge one call, fail, time out or disagree. *Correct*
when a denial is final and an ask is heard where somebody can answer.

**Router and providers** (m; `internal/router`, `internal/provider/*`). *State*: the
layers of the model's choice, the budget spent; per answer a goroutine, a bounded
channel of events and a collector; whether the local server is down; the tmux
session. *Hard*: eight layers that replace each other's choice, a budget measured
two ways, streams that break, interleave or outlive the far side, a fallback
between servers. *Correct* when the answer collected is the one sent, an error is
the last event, a spent budget binds for good, and every request ends.

### Processes and servers

**MCP manager** (M; `internal/mcp/manager.go`). *State*: per server a handle
(client, spawn count, respawning flag, RWMutex), and the shutdown flag.
*Operations*: LoadAll, CallTool with one retry, tryRespawn, Shutdown. *Hard*:
callers that fail together, a respawn in two critical sections with the slow
part between them, Shutdown in the middle of it, the lock held during calls.
*Correct* when one caller respawns, one subprocess lives, calls use the current
client, the spawn bound holds and everybody returns.

**MCP remotes** (m; `manager_remote.go`, `remote.go`, `oauth.go`,
`oauth_callback.go`, `secret.go`). *State*: per remote a client with a generation, a
reconnect budget, closed flags, OAuth tokens and what is left of them, pending
consents. *Operations*: ConnectRemote, calls with a reconnect, the refresh of
tokens, doShutdown. *Hard*: reconnect by generation under a lock with a deadline,
consent racing shutdown, requests that meet 401 together, secrets to be wiped after
their last use. *Correct* when no client is forgotten, secrets are wiped last and
completely, a token is refreshed once, and everybody returns.

**Subagents** (m; `internal/subagent`). *State*: a semaphore, per task a loop and an
aggregating emitter, file reservations held by the external `ic`. *Hard*:
partial reservations, release in a background goroutine, timeouts. *Correct* when
writers on one pattern exclude each other, nothing stays reserved, slots come back.

**Start-up and configuration** (m; `cmd/skaffen`, `internal/config`, `internal/skill`,
`internal/command`, `internal/plugin`, `internal/mcp/config.go`). *State*: what the
files of the user, the project, the flags and the plugins say, merged in an order.
*Hard*: names that collide across four sources, files that do not parse, servers
that fail to answer. *Correct* when a credential goes only to a server a trusted
file names, and a later source overrides an earlier one as documented.

### Records and front ends

**Experiments** (m; `internal/experiment`, `internal/tool/experiment_*.go`). *State*:
a campaign file, its JSONL log, its git worktree, index and branch, the segment in
memory. *Operations*: init_experiment, run_experiment, log_experiment. *Hard*: three
stores written in sequence with no transaction; git commands that fail half way;
torn lines; crashes. *Correct* when the log never claims a commit that does not
exist, secrets are not committed, a resumed segment has the counts of the
interrupted one and a resumed worktree is clean.

**TUI** (m; `internal/tui`). *State*: whether something runs, the queued skills, the
last prompt, the open question and the channel its answer goes to, overlays.
*Operations*: Update, for keys and for the messages of commands, agent goroutines
and shell escapes, in any order. *Interacts*: it starts the agent, whose approver
blocks on the channel; it teaches Trust; quitting ends the loop while goroutines
still run. *Hard*: one reply slot for every question, guards spread over the message
cases, messages under way when the program quits. *Correct* when no goroutine's
question is forgotten, an answer reaches its own question, and the TUI quits when asked.

**Hassease** (m; `cmd/hassease`, `internal/costrouter`, `internal/signal`). A daemon
that asks over Signal before a mutating tool and routes turns by cost. *State*: the
session file, the cost router's counters, the replies in the Signal account. *Hard*:
replies late, batched or lost; kills and torn records. *Correct* when a gated call
runs at most once for a yes (which request a reply was for, it does not tell), every
approval ends, and cheap models do not go on for ever.

**Evidence, mutations** (`internal/evidence`, `internal/mutations`): an append-only log
and its aggregation. **Lens and extraction** (`pkg/*`, `internal/auraken`), **sidecar**
(`internal/mcpsidecar`), repository map, git helpers, context files, sandbox, style,
the **TypeScript package and the VS Code extension**: lookup, formatting and I/O.

## 2. The modules

| module | models | checked by | proved in |
|---|---|---|---|
| `ToolTurn` | what one turn's tool calls are promised | refined by `ToolExec` | |
| `ToolExec` | tool execution of a turn | `MCToolExec` | `TurnProofs` |
| `McpManager` | one MCP stdio server under the manager | `MCMcpManager` | `McpProofs` |
| `McpRemote` | one remote server under the manager | `MCMcpRemote` | `McpRemoteProofs` |
| `RemoteAuth` | the credentials of a remote | `MCRemoteAuth` | `McpProofs` |
| `AgentLoop` | the turn loop, automatic compaction, session | `MCAgentLoop` | `AgentLoopProofs` |
| `Compaction` | structured compaction by the TUI during runs | `MCCompaction` | `RecordProofs` |
| `Experiment` | one experiment campaign | `MCExperiment` | `RecordProofs` |
| `Approvals` | the TUI's run control, the tool approver, trust | `MCApprovals` | `ApprovalsProofs` |
| `Subagents` | Agent calls, their tasks and reservations | `MCSubagents` | `SubagentsProofs` |
| `Routing`, `ProviderStream`, `Wire` | the router; one streamed answer; what a backend is sent | `MCModelRequest` | `TurnProofs` |
| `ModelRequest` | requests through all three and the local fallback | `MCModelRequest` | `TurnProofs` |
| `CostRouter`, `Hassease` | the cost router; the Signal daemon over it | `MCHassease` | `ProgramProofs` |
| `Startup`, `AgentRuns`, `Controls` | files and servers; runs, gates and hooks; the TUI's controls | `MCProgram` | `ProgramProofs` |
| `Program` | main from its flags to its end, over those three | `MCProgram` | `ProgramProofs` |
| `Configuration` | project roots, skills, commands, plugins, agent types | assumptions of `MCProgram` | |

A module of proofs may hold two components that belong together: `TurnProofs` the two
halves of a turn (the answer collected and the tools it asks for), `McpProofs` the
stdio manager and a remote's credentials, `RecordProofs` campaigns and compaction,
`ProgramProofs` the two programs, `skaffen` and `hassease`. A name in two components
of one such module is told apart by a prefix (`AuthSpec`, `BotSpec`).

**ToolTurn** is the abstract specification: a call is refused, or begins and is
answered; it may begin or be refused only when every call ordered before it, that
is with an unsafe call between or among them, is settled.

**ToolExec**. `pc` is the loop goroutine: `batch` (next batch), `gate` and `ask` (phase
1), `exec` (phase 2), `collect` (phase 3). `worker[i]` is the goroutine of call i, or in
a serial batch the loop goroutine's turn at it. `Launch` takes a semaphore slot;
`Finish` is executeOne up to its send, with the deferred release; `siblingStop` is
the cancelled propagatingCtx. A tool's outcome is any of ok, error, panic, or killed
when its context is cancelled. `SerialPanic` ends the process, as the code does. A
`kind` stands for what `ConcurrencySafe` and `PropagatesErrorToSiblings` say of
a call. The refinement maps `result` and `worker` to a call's status.

**McpManager**. Callers move through `CallTool` and `tryRespawn` by `pc`; `held` is the
client in a caller's local variable. `sync.RWMutex` is modelled with its readers
(calls in flight) and waiting writers, who keep new readers out. A subprocess is
identified by the spawn that started it; it may crash at any time, and a call may
fail without a crash (a JSON-RPC error also respawns).

**McpRemote**. Three parties share one remote. `conn` is ConnectRemote: dial or
consent, install, list, register, and the two ways a failure is undone (`FailShutsDown`,
`FailCloses`). `pc[p]` is a caller: it takes a snapshot of client and generation, calls,
and after a failure queues for `rmu`, compares generations (`Reconsider`), dials,
replaces the client or discards what it dialed, and retries; `late` holds the callers
whose deadline has passed. `sd`, `stage` and `closer` are Manager.Shutdown and
doShutdown, entered once by whoever comes first (`once`, sync.Once) with the client it
was given (`arg`); the DELETE has a grace, the transport is cancelled, the setup and
the replaced clients are joined, and the tokens are wiped. A session is named by the
number of its dial.

**RemoteAuth**. `su` is the consent with the loopback callback; `at[p]` a request in
RoundTrip, which may meet 401, wait for `tokMu`, refresh, and send again once.
Credentials are numbered by the token response that brought them; `live` are the
secrets not yet zeroed, `retired` those the code put aside. `spent` and `tries` are
history: refresh tokens the server may have rotated, and refreshes per access token.

**AgentLoop**. A message is its kind, the run whose task it descends from and what
is left of the goal it quotes. `Orient` is the top of a turn with the whole of
compaction; `Act` is ToolExec, as one step; `Save` writes memory and file, where a
write may fail or be torn. `file` holds the messages of the lines that parse,
`partial` those of an unterminated last line that happens to be complete. `owed` and
`drifted` are history variables: the records a charged turn still owes, and whether
memory was edited or a write failed. The TUI compacts the session between any two steps of a run.
`Crash` may fall anywhere; `Restart` loads the session.

**Compaction**. The run's goroutine collects an answer (`BeginCall`, `Done`,
`EndOfStream`, `StreamFails`), gates and executes its calls batch by batch (`Grant`,
`Deny`, `Complete`) if the stop reason is `tool_use` (`RunsTools`), and saves the turn,
with results only then (`TurnMessages`, `Save`). A `backend` that executes its calls
itself (claude-code, tmux) reports them inside the stream (`Reported`) and ends with
`end_turn`. Each event waits until Update has handled the one before (`event`,
`MaySend`; `Send` is the second of a denial's two); Update accumulates what tools did
(`Observed`) and compacts (`execCompact`), in the middle of a turn too. A block carries
the errors it tells; errors are numbered. `ran` is history: the turns whose calls the
loop executed. The stop reason "max_tokens" stands for every one that is neither
`end_turn` nor `tool_use`. `TopK` gives every set of indices the heap may return,
whatever its layout.

**Experiment**. Files, index and commits are sets of changes; a line of the log is
its kind, id, decision, metric, mutation and commit. `EditCampaign` writes the
project's campaign file, `InitExperiment`, `InitWorktree` and `OpenSegment` are
init_experiment, `RunExperiment` is run_experiment with what its command leaves
behind, `LogExperiment`, `KeepChanges` or `DiscardChanges`, and `AppendRecord` are
log_experiment, each of which may fail. `ExpandMutations` is what a campaign's
mutations come to, with the IDs' rounding (`Printed`).

**Approvals**. `inbox` holds the messages sent to Bubble Tea and not yet taken, in
any order; keys reach `Update` directly (`Enter`, `Choose`, `CtrlC`). `agent[r]` is the
goroutine of a run: `turn`, `ask` while its p.Send waits, `blocked` on the reply. `slot`
is `approvalReply`, named by the question whose channel it is. `loop` is `off` once
p.Run returned and would be `stuck` if Update blocked on a send. A call is its trust
key; "Always" learns the tool, which for bash is never the key of a command. The
question widget is a library: it is taken to send one SelectedMsg per question.
`answer`, `always`, `ran` and `quitting` are history variables.

**Subagents**. `StartCall` is a call of Run with its tasks and a semaphore of its own, as
wide as the run's `maxConcurrent`; a subagent waits for a slot of `sem`, reserves its
patterns one by one at `ic` (`holder`, an external service from what the code asks of
it), runs, flushes its evidence, starts the release and leaves.
`releases` are release commands under way in the background, named by owner, which
is sub-0 again in the next call. `lapsed` and `dropped` are history: reservations
whose TTL ended, and those a late release took.

**Routing, ProviderStream, Wire, ModelRequest**. `SelectModel` composes the layers in
the code's order. `reader` is a backend's goroutine, which reads what the far side
sends event by event onto `channel`; `CollectEvent` is Collect and collectWithCallbacks.
`produced` is history, the answer as it was sent. Wire gives, per backend, what becomes
of a history: openai's messages, the local server's text, and for claude-code and tmux
nothing but the latest text of the user. ModelRequest chooses the answerer
(`Answerer`, FallbackProvider), remembers the model a tmux session was spawned with,
and charges the budget.

**CostRouter, Hassease**. `SelectModel` and `EmitTurn` keep the counters that escalate.
Hassease's `pc` is the one process of a session: load, turns, approval with polls of
the account, execution, evidence, save; `Kill` and `Interrupt` end it anywhere, `Launch`
starts it again. `PollReply` takes all that waits in the account and looks at the
first message, as the code does.

**Startup, AgentRuns, Controls, Program**. One state machine in four layers. Startup
merges files into plugins and remotes, loads plugins, connects remotes (in the TUI,
before its first prompt) and registers tools and gates. AgentRuns is the goroutine of
a run: it copies the tools of its phase, and passes each call through the hooks in
their order and the approver. Controls is Update as far as it reaches the agent:
prompts, commands, keys, overlays, queued skills. Program adds `Wire` (runTUI and
runPrint before the first run), print mode's loop over run and test, and the end.

**Configuration** is without state: operators over a disk, from the walk to the
project's root to the skills, commands and agent types offered, plugins included.

The modules compose by variables where the code shares state (Program over
Controls, AgentRuns and Startup; ModelRequest over Routing, ProviderStream and Wire;
Hassease over CostRouter) and by abstraction elsewhere: AgentLoop's `Act` is what
ToolExec implements, a worker of ToolExec may be a caller of McpManager or
McpRemote, ToolExec's gate is the goroutine of Approvals, McpRemote's dial and
requests are RemoteAuth's.

## 3. The runs

| run | what it shows | bounds |
|---|---|---|
| `tool_exec` | safety, termination and refinement of ToolTurn | 3 calls of 4 kinds, semaphore 2 |
| `mcp_manager` | one process, currency, liveness | 2 callers, 3 spawns |
| `mcp_remote` | no client forgotten, secrets last, liveness | 2 callers, 2 reconnects |
| `remote_auth` | one refresh per token, no spent refresh token sent again, nothing kept after the wipe | 3 requests, 3 token responses |
| `agent_loop` | cache, tail, task, restart, progress | 2 runs of 3 turns, 4 messages kept, 1 crash |
| `compaction` | errors told, executed calls paired | 3 kinds of backend, 3 runs, 3 turns of up to 2 calls, session of 4, 2 kept, room for 1 error |
| `experiment` | log, branch, index and segment agree | 1 change and 1 secret, 3 lines, 1 crash |
| `approvals` | questions, rights, answers, quitting | 2 prompts, 2 questions, 4 keys, promotion at 2 |
| `subagents` | writers apart, releases, every call returns | 2 subagents, 2 slots or 1, 2 patterns, 2 calls |
| `request` | answers as sent, errors last, budget, end | 3 requests of 3 events over a channel of 2 |
| `hassease` | approvals, escalation | 3 turns a process, 2 polls, 2 replies, 1 record |
| `program` | servers, tools, hooks | 9 ways to start, 2 servers, 2 runs, 2 entries |

Beside the runs, TLC evaluates at their start the assumptions that check the pure
algorithms against a reference over bounded inputs: that TopK picks the highest
scores whatever the heap's layout, that a changed file's result outscores the rest
and that every intent tells the same sections (`MCCompaction`); that nothing but
images gets lost between a history and what openai and the local server are sent,
that a result follows its call, and which prompt claude-code and tmux get
(`MCModelRequest`); that roots lie above, the highest tier of skills wins, the line by
line reading of front matter agrees with yaml, plugins override nothing, and where
labels and the home directory go wrong (`MCProgram`).

*Why the bounds are enough.* Three calls give every shape of batch (three
single ones, two and one, one and two, one of three), an approval pattern with
exactly one, two or three granted calls, and more workers than slots. Two callers
are a respawner and a bystander, and the lock is symmetric in the rest; three
spawns are the code's own constant. In `mcp_remote` two reconnects let one succeed
and the budget end (the code allows three). In `remote_auth` two requests meet one
rejected token while a third is the DELETE, and three responses allow the refresh of
a refreshed token. Two runs let the second resume what the first saved; four kept
messages are reached in two turns, so truncation happens, and at a threshold of
five tokens some compactions are satisfied by eliding and others go on to snip. In
`compaction` three turns save up to six messages, enough to truncate at four, to compact
a compacted session and to truncate behind a summary; two calls are one batch or two,
with a denial before, between or after; a summary with room for one error loses a second. In `experiment` three lines
are a segment and two records, torn or not, and one crash may fall between any
two steps. In `approvals` two prompts are a run and whatever may collide with it (a
second run, a shell escape, a command, a retry, queued skills); two questions are
one open and one that could take its place or its answer; the keys are a plain
tool, a bash command, one that is blocked, and bash without a command, the only
call an "Always" for bash covers. In `subagents` two tasks want the same two
patterns, so the second can be refused half way, and a second call reuses the owner
of a release under way; where the semaphore has one slot, the second subagent has to
wait for the first to leave, and each call begins with a semaphore of its own. In
`request` an answer longer than the channel blocks the backend's goroutine, and the
third request is made on a spent budget. In `hassease`
the thresholds are scaled down so that each of them escalates within three turns. In
`program` the two names collide across all sources of files.

Deadlock checking is off where the system may stop: the turn returns, the user
closes the program, the bound on runs or lines is reached. That nobody waits for
ever is stated as liveness where it matters (`TurnEnds`, `EveryoneReturns`,
`AnswerArrives`, `QuitExits`, `RunReturns`, `RequestEnds`, `ApprovalEnds`, and for
bounded runs the measure of `RunAdvances`). Hassease, whose daemon can always be
launched again, is checked for deadlock.

*Fairness.* `ToolExec`: weak fairness of the loop goroutine, of the workers and of
the gate. Go runs every runnable goroutine, tools have timeouts, hooks are killed
at theirs, and the TUI answers a pending approval on quit. Nothing is assumed of the
user's cancellation. `McpManager`: strong fairness of each caller's steps, because a
`sync.RWMutex` lets the readers that waited proceed when a writer unlocks and vice
versa, and weak fairness of a call's return and of Shutdown's steps. Nothing makes
a caller call, a subprocess crash or main shut down. `McpRemote`: weak fairness of
every goroutine's next step and of every deadline; a request ends by its context, the
DELETE only once the transport is cancelled; the reconnect lock is not taken to be
fair, a caller that never gets it gives up when late. `Approvals`: weak fairness of
Update on some message, of each goroutine and of shell escapes, which have a
timeout; a run that is not asking returns, which `AgentLoop` bounds. Nothing makes
the user answer or quit. `Subagents`: weak fairness of each subagent's steps; `ic`'s
commands have a timeout of five seconds, and the deadline ends a loop. `ModelRequest`:
weak fairness of the backend's goroutine, of the far side (which ends an answer or
is cut off), of the collector and of the fallback's answer. `Hassease`: weak
fairness of the process; nobody owes a reply, a launch or a kill. `AgentLoop`,
`Compaction`, `Experiment`, `RemoteAuth` and `Program` have no liveness property.

## 4. What is proved

All for every value of the constants, under the assumption named in each module
(`ToolExecAssumption` and so on: sets have the types their comments name, numbers are
positive where the code's are, names that stand for nobody are no caller's). Three say
more: a session keeps more messages than a compaction leaves (`CompactionAssumption`, 4
and a summary against 40 messages in the code), no more prompts are entered than runs are
bounded to (`ControlsAssumption`), and no server has the name of a built-in tool
(`StartupAssumption`).

* `TurnProofs`, the tools: the invariant ties `pc` to the workers: outside `exec`
  none is queued or running, inside only approved calls of the batch are; calls
  before `lo` are settled, with result and completion as granted; calls after
  `hi` are untouched. The semaphore bound needs that running calls are those of
  the batch. From it follow type correctness, `GateIsQuiet`, `BoundedParallelism`,
  `EveryCallAnswered`, and, with the maximality of batches, that every step is a
  step or a stutter of ToolTurn. `KilledByASibling` rests on two facts more: an
  outcome belongs to a call whose worker is done, and the context the propagating
  calls share is cancelled only by an error in the open batch or by the user.
* `TurnProofs`, the answer: `StreamInv` says that an error is the last event of its
  trace (`ErrorIsLast`) and that what was collected, what is on the channel and what
  was produced are joined by a trace of answers, each one the next event after the
  one before (`UnderWayIsSent`). The trace stands where one would like to say that
  collecting the channel gives the answer, which is a fold and would need induction;
  each step moves its first or its last link. `CollectsWhatWasSent` and
  `NothingAfterError` are read off it. `DegradedForGood` needs `BudgetInv`: with a
  budget, what was billed never exceeds what the tracker counts, and while an answer streams the
  model asked for is the one the router chose.
* `McpProofs`, the manager: the invariant says which caller the respawning flag stands
  for, that clients up to `spawns` have been started and none beyond except one
  being installed, and that while a respawn is past its close no other process
  runs. `OneProcess`, `SpawnsAccurate` and the rest are read off it.
* `McpProofs`, the credentials: `AuthInv` says that before the consent is through nobody
  has credentials (`BeforeReady`), that they are numbered up to the last response
  (`Numbered`), that `tokMu` has one holder and only it refreshes (`OneRefreshing`), that
  the current refresh token and the one a holder is about to send were not sent
  (`Unspent`), and that each live secret is in the hands of somebody who will put it aside
  (`NoneAstray`). `NoReplay`, `OneRefreshPerToken` and `NothingKept` are three
  consequences of one invariant, since whether a token was refreshed is decided by
  comparing a snapshot with the current one.
* `McpRemoteProofs`: `Lock` says who holds `rmu`; `Budget` that the sessions opened are
  ConnectRemote's one and one for each reconnect, a dialed one not yet installed
  included, which keeps dials within MaxRespawns + 1; `Sessions` that generations
  and sessions grow together, so that a caller's snapshot is the current client or an
  older one; `Connecting` and `Ending`
  where ConnectRemote and doShutdown have what client, and that only the caller
  that entered the Once is past it. `NoClientForgotten` needs all of them, because a
  client changes hands in most steps; `WipeIsLast` needs `Ending`.
* `AgentLoopProofs`: the lemma `RefreshedIsCurrent` (extending the cache by the
  new tail gives the weights of all messages) carries `CacheIsCurrent`, under the
  invariant that the cache is the weights of a prefix. `TruncateTwice` (truncating
  an already truncated history extended by a turn is truncating the whole)
  carries `RestartRestoresMemory`. `RunAdvances` follows from the measure.
  `TaskDescends` has an invariant of its own: the session, in memory and on disk,
  holds turns only, behind one /compact summary at most; the turn under way is at the
  end of the history; and the first user text of the history, which the next
  compaction quotes, descends from the run's task. `RecentUntouched` compares the ends of histories through microCompact and snip.
* `RecordProofs`, campaigns: the invariant adds that commits are contained in index and
  files, that a keep waits to be appended only with its commit on the branch, and that
  every line of the log, however appended, is backed.
  `ResumeAgrees`: a segment's totals over a log with one line more are the incremental update (`LoadedAppended`). That the log
  has a last segment and a last keep, which LoadSegment looks for, is kept as an
  invariant of every prefix of the log, because a line that runs into a torn one
  takes it away; so no induction over the log is needed.
* `RecordProofs`, compaction: an error a tool reported is on its way to Update, noted by
  the accumulator, told by a summary, or excepted with a summary summed up; that the session still has the result itself
  does not count, because a truncation may drop it. What a turn adds is an answer whose
  calls were not executed, or one with a result for each call (`TurnSaves`). A summary can only be the first
  message (`Leads`), which is why a cut that keeps the head keeps it, and what is cut
  leaves the head and an unbroken tail (`ShiftKeeps`): so behind the head results still
  follow their calls (`PairedBehindHead`). Nothing bounds the calls of a turn, and calls
  that are saved without results are in the session as the code saves them.
* `ApprovalsProofs`: the invariant says that a run or shell escape, or the one
  message of its end, accounts for `running`, so there is one at a time; that a
  goroutine waits for the last question asked, which is in the inbox, on the
  screen or answered; and that until the user quits, a choice under way is for
  the question shown. `QuestionIsAwaited` and `RunsByRight` need all three, and
  that Update never blocks on a reply (the stuck branch of `Selected`) follows.
* `ProgramProofs`, skaffen: `OneAtATime`, a token argument: while the TUI thinks that nothing
  runs nothing does, and otherwise one run, one shell escape or one message of an
  end. So nothing changes phase or plan mode under a run, and what the servers
  registered before it is in the gates of its phase: `ToolsWithinGates`. `HooksDecide` and
  `ServersAsTrusted` follow from what the goroutine and the merge keep.
* `ProgramProofs`, hassease: `GatedNeedsYes` is inductive beside the types: nothing but
  an approval lets a gated call through, in this process or after a kill. For
  `NoLongCheapRun`, `CheapRunTracked` says that the router's counter is never behind the history
  of cheap turns, and that a cheap turn is under way only within the counter's limit.
* `SubagentsProofs`: `Reserved` says that what a subagent was granted is its own, or
  lapsed or dropped; `Accounted` that a pattern held has somebody at work, a release
  under way or a release that failed; `Slots` that `sem` holds exactly those past
  `Start`. From them `WritersApart`, `ReleasedInTheEnd`, `EvidenceOnce`, `BoundedConcurrency`.

Only model-checked: the eight liveness properties (`TurnEnds`, `EveryoneReturns` of both
managers, `AnswerArrives`, `QuitExits`, `RunReturns`, `ApprovalEnds`, `RequestEnds`), which
are out of the prover's reach; every invariant and action property of the runs is a
theorem. The operators of `Compaction`, `Configuration` and `Wire` that fold over data are
checked over bounded inputs only: induction over data is out of its reach as well,
and the proofs use of such an operator only what one unfolding or its type gives.

## 5. Disagreements between code and text

`PROJECT.json` lists under "findings" each place where the code does other than a
comment, a doc or a name says, as it was met while translating. None is a run of its
own; many are stated in the modules, and TLC refutes the statement:

| statement | how to see it |
|---|---|
| `EventsPaired` (a denied call starts twice) | `MCToolExecPairing.cfg` |
| `GoalShown` (the goal is quoted away) | `MCAgentLoopGoal.cfg` |
| `DiscardReverts` (a staged change survives a discard) | `MCExperimentDiscard.cfg` |
| `AnswersItsQuestion` (an answer is taken for the next question) | `MCApprovalsStale.cfg` |
| `CodeIsWiped` (a code that came with the cancellation is kept) | `MCRemoteAuthCode.cfg` |
| `ShutdownKillsAll` (a respawn outlives Shutdown) | as an invariant in `MCMcpManager.cfg` |
| `SessionCannotLinger` (no DELETE for a session) | as an invariant in `MCMcpRemote.cfg` |
| `KeepsReservation` (a late release takes the next call's) | as an invariant in `MCSubagents.cfg` |
| `BudgetOverridesEverything` (the fallback picks its own model) | as an invariant in `MCModelRequest.cfg` |
| `ResumeStarts` (Load never returns after a torn record) | as a property in `MCHassease.cfg` |
| `FilesTold` (no summary names a file) | as a property in `MCCompaction.cfg`, with `Calls <- MCEdits` |
| `CallsAreAnswered` (calls saved and sent without results) | as an invariant in `MCCompaction.cfg` |
| `KeepsWholeTurns` (a compaction cuts a turn) | as an invariant in `MCCompaction.cfg` |

The models have what the code does; no property of a passing run excludes a
behaviour because of these, except where the property says so in its comment
(`RestartRestoresMemory` is about sessions whose writes succeeded, `WritersApart`
about reservations that neither lapsed nor were dropped, `NoClientForgotten` about a
remote whose pending entry did not win doShutdown's Once after it was registered,
`NothingKept` about all but the code of `CodeIsWiped`,
`CollectsWhatWasSent` about answers whose fragments do not interleave,
`RequestEnds` about readers neither stuck on a pipe nor panicked, `ErrorsTold` about
errors whose summary was not itself summed up).

## 6. What is not modelled, and why

Within the modelled parts: text and formatting; the size limits of lines; Fork;
the Priompt renderer; stream events other than a call's start and completion in
ToolExec; truncation of oversize results; the trust evaluator's globs, Revoke and
other scopes, which the program does not use; what OAuth discovery and registration
exchange (RemoteAuth has them as steps that succeed or fail) and the validation of
URLs; shadow profiles and the router's decision records (outputs); the content filter's patterns (a set of ids in `Wire`); the log analysis of
experiments, `Close` and `RemoveWorktree`, which have no caller; pickers, history and
rendering of the TUI.

Whole components: evidence (an append-only log whose errors the loop ignores), built-in
tools (I/O of one call), quality signals and mutations (arithmetic over files), the
sidecar (stateless), Lens and extraction, the repository map, git, context files,
sandbox, style and prompts (lookup, formatting, I/O), and the TypeScript front end.

Bounds are named in the modules' CONSTANTS ("bound: ..."). What TLC shows is shown
within them; what section 4 lists holds for all of them.

## 7. Plan

1. Done: all modules of section 2 with their runs, and the proofs of section 4.
2. Done: every invariant and action property of the runs is proved. Left to prove are
   statements no run makes yet, first of all those of item 3.
3. An abstract specification shared by McpManager and McpRemote (calls on a current
   session, one reconnect for callers that fail together) and the two refinements.
4. Fork and the extraction debouncer (`pkg/extraction`), the only parts left with
   state that several steps share.

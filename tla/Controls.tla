------------------------------- MODULE Controls -------------------------------
(* What the TUI's Update makes of prompts, commands, keys and overlays, and *)
(* what of it reaches the agent: runs, the phase and plan mode.             *)
(*                                                                          *)
(* As in Approvals, keys reach Update directly and messages wait in         *)
(* "inbox", taken in any order.  The injections queued in pendingSkills     *)
(* and the text of prompts are left out; what only shows something, or only *)
(* works on git, the session or the settings, is "show".                    *)
EXTENDS AgentRuns

CONSTANTS
  MaxEntries  (* bound: prompts the user enters                              *)

ASSUME ControlsAssumption == MaxEntries \in Nat /\ MaxEntries <= MaxRuns

EntryId == 1 .. MaxEntries

(* A prompt: a task, a shell escape or a slash command.  "skill" stands for *)
(* all that fills pendingSkills, "overlay" for what opens one.              *)
Prompt ==
  {"task", "shell", "show", "plan", "advance", "overlay", "skill", "retry", "continue"}

Message ==
  [kind : {"submit", "result"}, what : Prompt, of : EntryId]
    \cup [kind : {"done", "shelldone"}, of : EntryId]
    \cup [kind : {"dismissed"}, of : {0}]

VARIABLES
  running,     (* appModel.running                                           *)
  cancelRun,   (* appModel.cancelRun: the run it stops, 0 when nil           *)
  overlay,     (* appModel.settingsOpen                                      *)
  queued,      (* appModel.pendingSkills is not empty                        *)
  lastPrompt,  (* appModel.lastPrompt is not empty                           *)
  stopped,     (* appModel.wasInterrupted                                    *)
  shown,       (* appModel.phase                                             *)
  inbox,       (* messages not taken yet                                     *)
  entered,     (* prompts entered                                            *)
  shell        (* the shell escape that runs, 0 if none                      *)

screen == <<running, cancelRun, overlay, queued, lastPrompt, stopped, shown>>
controls == <<screen, inbox, entered, shell>>
-----------------------------------------------------------------------------
EvenRunning == TRUE

(* Update drops a submitMsg while something runs.                           *)
MayStart == ~running

(* A question of Approvals is on the screen.                                *)
Asking == \E r \in Run : agent[r] = "gate" /\ HooksDone(r)

KeysReachPrompt == ~running /\ ~overlay /\ ~Asking

(* The user enters a prompt; two may be on their way before the first is    *)
(* taken.                                                                   *)
Enter(what) ==
  /\ KeysReachPrompt /\ entered < MaxEntries
  /\ entered' = entered + 1
  /\ inbox' = inbox \cup {[kind |-> "submit", what |-> what, of |-> entered + 1]}
  /\ UNCHANGED <<screen, shell>>

(* runAgent, with what was queued.                                          *)
Start(r) ==
  /\ running' = TRUE /\ cancelRun' = r /\ queued' = FALSE
  /\ agent' = [agent EXCEPT ![r] = "starting"]

(* /plan and Shift+Tab.                                                     *)
TogglePlan == planMode' = ~planMode

(* /advance; the agent's error leaves the screen alone.                     *)
AdvancePhase ==
  /\ Advance
  /\ shown' = IF IsTerminal THEN shown ELSE fsm'.current

(* /continue refuses unless Esc stopped a run, and only once.               *)
Continues == lastPrompt /\ stopped

(* What opens the overlay, and what queues an injection for the next run.   *)
execSettings(what) == overlay' = (overlay \/ what = "overlay")
execSkill(what) == queued' = (queued \/ what = "skill")

(* executeCommand.  It works at once; its result comes back as a message.   *)
Execute(what) ==
  /\ \/ what = "plan" /\ TogglePlan /\ UNCHANGED <<fsm, shown>>
     \/ what = "advance" /\ AdvancePhase /\ UNCHANGED planMode
     \/ what \notin {"plan", "advance"} /\ UNCHANGED <<modes, shown>>
  /\ execSettings(what)
  /\ execSkill(what)
  /\ stopped' = (stopped /\ ~(what = "continue" /\ Continues))

(* What the result says: a retry or a continuation that found no prompt     *)
(* comes back as a message to show.                                         *)
Outcome(what) ==
  IF (what = "retry" /\ ~lastPrompt) \/ (what = "continue" /\ ~Continues)
    THEN "show" ELSE what

Submitted(m) ==
  /\ m.kind = "submit"
  /\ \/ /\ ~MayStart
        /\ inbox' = inbox \ {m} /\ UNCHANGED <<screen, shell, agent, modes>>
     \/ /\ MayStart /\ m.what = "task"
        /\ lastPrompt' = TRUE /\ stopped' = FALSE /\ Start(m.of)
        /\ inbox' = inbox \ {m} /\ UNCHANGED <<overlay, shown, shell, modes>>
     \/ /\ MayStart /\ m.what = "shell"
        /\ running' = TRUE /\ shell' = m.of /\ inbox' = inbox \ {m}
        /\ UNCHANGED <<cancelRun, overlay, queued, lastPrompt, stopped, shown, agent, modes>>
     \/ /\ MayStart /\ m.what \notin {"task", "shell"} /\ Execute(m.what)
        /\ inbox' = (inbox \ {m})
             \cup {[kind |-> "result", what |-> Outcome(m.what), of |-> m.of]}
        /\ UNCHANGED <<running, cancelRun, lastPrompt, shell, agent>>
  /\ UNCHANGED entered

(* A commandResultMsg: a retry is submitted again, and what is queued       *)
(* starts a run, both unless something runs by now.                         *)
Returned(m) ==
  /\ m.kind = "result"
  /\ inbox' = (inbox \ {m}) \cup
       {s \in {[kind |-> "submit", what |-> "task", of |-> m.of]} :
          m.what \in {"retry", "continue"} /\ MayStart}
  /\ \/ queued /\ MayStart /\ Start(m.of)
     \/ ~(queued /\ MayStart) /\ UNCHANGED <<running, cancelRun, queued, agent>>
  /\ UNCHANGED <<overlay, lastPrompt, stopped, shown, entered, shell, modes>>

ShiftTab ==
  /\ ~running /\ ~overlay /\ ~Asking
  /\ TogglePlan
  /\ UNCHANGED <<controls, fsm>>

(* Esc stops the run; the run returns when it notices.                      *)
Esc ==
  /\ running /\ cancelRun # 0 /\ ~overlay /\ ~Asking
  /\ stopped' = TRUE
  /\ UNCHANGED <<running, cancelRun, overlay, queued, lastPrompt, shown, inbox, entered, shell>>

(* Keys in an overlay: a change of settings, models or effort only sets     *)
(* what the next turn reads; leaving it is a message.                       *)
Leaves ==
  /\ overlay /\ ~Asking
  /\ inbox' = inbox \cup {[kind |-> "dismissed", of |-> 0]}
  /\ UNCHANGED <<screen, entered, shell>>

Dismissed(m) ==
  /\ m.kind = "dismissed"
  /\ overlay' = FALSE /\ inbox' = inbox \ {m}
  /\ UNCHANGED <<running, cancelRun, queued, lastPrompt, stopped, shown, entered, shell>>

(* An agentDoneMsg forgets the run, a shellResultMsg does not.              *)
Finished(m) ==
  /\ m.kind \in {"done", "shelldone"}
  /\ running' = FALSE /\ cancelRun' = (IF m.kind = "done" THEN 0 ELSE cancelRun)
  /\ inbox' = inbox \ {m}
  /\ UNCHANGED <<overlay, queued, lastPrompt, stopped, shown, entered, shell>>

(* The goroutine of a run sends agentDoneMsg as it returns.                 *)
RunDone(r) ==
  /\ Ends(r)
  /\ inbox' = inbox \cup {[kind |-> "done", of |-> r]}
  /\ UNCHANGED <<screen, entered, shell>>

(* A shell escape ends, after 30 seconds at the latest.                     *)
ShellDone ==
  /\ shell # 0
  /\ inbox' = inbox \cup {[kind |-> "shelldone", of |-> shell]} /\ shell' = 0
  /\ UNCHANGED <<screen, entered>>

(* newAppModel: the phase on the screen is act, whatever --phase says.      *)
ControlsInit ==
  /\ running = FALSE /\ cancelRun = 0 /\ overlay = FALSE /\ queued = FALSE
  /\ lastPrompt = FALSE /\ stopped = FALSE /\ shown = "act"
  /\ inbox = {} /\ entered = 0 /\ shell = 0

ControlsType ==
  /\ running \in BOOLEAN /\ cancelRun \in {0} \cup Run /\ overlay \in BOOLEAN
  /\ queued \in BOOLEAN /\ lastPrompt \in BOOLEAN /\ stopped \in BOOLEAN
  /\ shown \in PhaseName /\ inbox \subseteq Message /\ entered \in 0 .. MaxEntries
  /\ shell \in {0} \cup EntryId
=============================================================================

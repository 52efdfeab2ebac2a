------------------------------ MODULE Approvals ------------------------------
(* Who may run a tool: the TUI's Update loop, the agent goroutine of a run  *)
(* blocked in the tool approver, and the rules of trust.Evaluator.          *)
(*                                                                          *)
(* Keys reach Update directly; what goroutines and commands send waits in   *)
(* "inbox", from which Bubble Tea takes messages in any order.  A tool call *)
(* is its trust key (buildKey).  The evaluator learns from the TUI alone,   *)
(* which learns Allow for a tool's name and this session, so a learned      *)
(* pattern is a tool and no glob.  No caller passes NewEvaluator a          *)
(* configuration, learns for another scope or calls Revoke.                 *)
EXTENDS Naturals

CONSTANTS
  Key,               (* trust keys of the calls the model may make           *)
  ToolOf,            (* the tool of a key: itself, or "bash" of "bash:..."   *)
  BuiltIn,           (* evaluateBuiltIn                                      *)
  PromoteThreshold,  (* DefaultPromoteThreshold                              *)
  MaxSubmits,        (* bound: prompts the user enters                       *)
  MaxPrompts         (* bound: questions the agent asks                      *)

Tool == {ToolOf[k] : k \in Key}

(* The built-in rules block bash commands only, and never the empty one.    *)
ASSUME ApprovalsAssumption ==
  /\ BuiltIn \in [Key -> {"allow", "prompt", "block"}]
  /\ DOMAIN ToolOf = Key
  /\ \A k \in Key \cap Tool : ToolOf[k] = k /\ BuiltIn[k] # "block"
  /\ PromoteThreshold \in Nat \ {0} /\ MaxSubmits \in Nat /\ MaxPrompts \in Nat

Run == 1 .. MaxSubmits

Question == 1 .. MaxPrompts

Choice == {"yes", "no", "always"}

(* What the user enters: a task, a shell escape, or a command that queues a *)
(* skill, retries or quits and comes back as a commandResultMsg.            *)
Entry == {"task", "shell", "skill", "retry", "exit"}

(* A message; "of" is the question or the entry it belongs to.  The code's  *)
(* SelectedMsg carries the choice alone.                                    *)
Message ==
  [kind : {"submit", "result"}, what : Entry, of : Run]
    \cup [kind : {"request"}, of : Question]
    \cup [kind : {"selected"}, what : Choice, of : Question]
    \cup [kind : {"done", "shelldone"}, of : Run]
    \cup [kind : {"quit"}]

VARIABLES
  loop,        (* Bubble Tea's loop: "on", "off" after p.Run, or "stuck"     *)
  running,     (* appModel.running                                           *)
  skills,      (* appModel.pendingSkills is not empty                        *)
  lastPrompt,  (* appModel.lastPrompt is not empty                           *)
  slot,        (* whose channel approvalReply is, 0 when nil                 *)
  approving,   (* appModel.approving                                         *)
  inbox,       (* messages not taken yet                                     *)
  entered,     (* how many prompts the user has entered                      *)
  agent,       (* per run its goroutine: "none", "turn", or in the approver  *)
               (* "ask" (in p.Send) or "blocked" (on the reply)              *)
  waits,       (* the question it waits for                                  *)
  shell,       (* the shell escape that runs, 0 if none                      *)
  asked,       (* questions asked                                            *)
  about,       (* the key each question is about                             *)
  reply,       (* what its channel holds: "none", "yes" or "no"              *)
  remembered,  (* Evaluator.session                                          *)
  count,       (* Evaluator.sessionCount                                     *)
  promoted,    (* Evaluator.exactOverrides                                   *)
  answer,      (* history: what the user chose for each question             *)
  always,      (* history: the tools the user chose to allow always          *)
  ran,         (* history: the calls let run, by which question (0: none)    *)
  quitting     (* history: the user asked to quit                            *)

typed == <<skills, lastPrompt>>
overlay == <<slot, approving>>
screen == <<loop, running, typed, overlay>>
goroutines == <<agent, waits, shell>>
questions == <<asked, about, reply>>
rules == <<remembered, count, promoted>>
history == <<answer, always, ran, quitting>>
vars == <<screen, inbox, entered, goroutines, questions, rules, history>>
-----------------------------------------------------------------------------
EvaluateByTool(k) ==
  IF ToolOf[k] \in remembered \cup promoted THEN "allow" ELSE BuiltIn[k]

(* Evaluator.Evaluate: what was learned for the call's key, else the        *)
(* built-in rules.                                                          *)
Evaluate(k) ==
  IF k \in remembered \cup promoted THEN "allow" ELSE BuiltIn[k]

Promotes(t) == count[t] + 1 >= PromoteThreshold

(* Evaluator.Learn(t, Allow, ScopeSession).                                 *)
Learn(t) ==
  \/ /\ ~Promotes(t)
     /\ remembered' = remembered \cup {t}
     /\ count' = [count EXCEPT ![t] = @ + 1]
     /\ UNCHANGED promoted
  \/ /\ Promotes(t)
     /\ promoted' = promoted \cup {t}
     /\ remembered' = remembered \ {t}
     /\ count' = [count EXCEPT ![t] = 0]

AlwaysStarts == TRUE

(* Update's guard on everything that starts a run or a shell escape.        *)
MayStart == ~running

AnySelection == TRUE

(* Update drops a SelectedMsg that comes when no question is open.          *)
Expected == approving

Init ==
  /\ loop = "on" /\ running = FALSE /\ skills = FALSE /\ lastPrompt = FALSE
  /\ slot = 0 /\ approving = FALSE
  /\ inbox = {} /\ entered = 0
  /\ agent = [r \in Run |-> "none"] /\ waits = [r \in Run |-> 0] /\ shell = 0
  /\ asked = 0 /\ about = [q \in Question |-> "none"]
  /\ reply = [q \in Question |-> "none"]
  /\ remembered = {} /\ count = [t \in Tool |-> 0] /\ promoted = {}
  /\ answer = [q \in Question |-> "none"] /\ always = {} /\ ran = {} /\ quitting = FALSE
-----------------------------------------------------------------------------
(* The user enters a prompt; the prompt widget answers with a submitMsg.    *)
Enter(what) ==
  /\ loop = "on" /\ ~running /\ ~approving /\ entered < MaxSubmits
  /\ what = "retry" => lastPrompt
  /\ entered' = entered + 1
  /\ inbox' = inbox \cup {[kind |-> "submit", what |-> what, of |-> entered + 1]}
  /\ UNCHANGED <<screen, goroutines, questions, rules, history>>

(* runAgent: Agent.Run in a goroutine of its own.                           *)
Start(r) ==
  /\ running' = TRUE /\ skills' = FALSE
  /\ agent' = [agent EXCEPT ![r] = "turn"]

Takes(m) == loop = "on" /\ m \in inbox

(* A submitMsg.  Each prompt takes the queued skills with it.               *)
Submitted(m) ==
  /\ Takes(m) /\ m.kind = "submit"
  /\ \/ /\ ~MayStart
        /\ inbox' = inbox \ {m} /\ UNCHANGED <<running, typed, agent, shell>>
     \/ /\ MayStart /\ m.what = "task"
        /\ lastPrompt' = TRUE /\ Start(m.of)
        /\ inbox' = inbox \ {m} /\ UNCHANGED shell
     \/ /\ MayStart /\ m.what = "shell"
        /\ running' = TRUE /\ shell' = m.of
        /\ inbox' = inbox \ {m} /\ UNCHANGED <<typed, agent>>
     \/ /\ MayStart /\ m.what \in {"skill", "retry", "exit"}
        /\ skills' = (skills \/ m.what = "skill")
        /\ inbox' = (inbox \ {m}) \cup {[kind |-> "result", what |-> m.what, of |-> m.of]}
        /\ UNCHANGED <<running, lastPrompt, agent, shell>>
  /\ UNCHANGED <<loop, overlay, entered, waits, questions, rules, history>>

(* drainApproval.                                                           *)
Drain ==
  \/ /\ approving /\ slot # 0
     /\ reply' = [reply EXCEPT ![slot] = "no"]
     /\ slot' = 0 /\ approving' = FALSE
  \/ /\ ~(approving /\ slot # 0)
     /\ UNCHANGED <<reply, overlay>>

(* A commandResultMsg: /quit drains and quits; /retry submits the last      *)
(* prompt; queued skills start a run.  All but /quit wait for no run.       *)
Returned(m) ==
  /\ Takes(m) /\ m.kind = "result"
  /\ \/ /\ m.what = "exit" /\ Drain /\ quitting' = TRUE
        /\ inbox' = (inbox \ {m}) \cup {[kind |-> "quit"]}
        /\ UNCHANGED <<running, skills, agent>>
     \/ /\ m.what # "exit"
        /\ inbox' = (inbox \ {m}) \cup
             {s \in {[kind |-> "submit", what |-> "task", of |-> m.of]} :
                m.what = "retry" /\ MayStart}
        /\ \/ skills /\ MayStart /\ Start(m.of)
           \/ ~(skills /\ MayStart) /\ UNCHANGED <<running, skills, agent>>
        /\ UNCHANGED <<overlay, reply, quitting>>
  /\ UNCHANGED <<loop, lastPrompt, entered, waits, shell, asked, about, rules>>
  /\ UNCHANGED <<answer, always, ran>>

(* A toolApprovalRequestMsg: the question goes on the screen.               *)
Requested(m) ==
  /\ Takes(m) /\ m.kind = "request"
  /\ approving' = TRUE /\ slot' = m.of
  /\ agent' = [r \in Run |-> IF waits[r] = m.of THEN "blocked" ELSE agent[r]]
  /\ inbox' = inbox \ {m}
  /\ UNCHANGED <<loop, running, typed, entered, waits, shell, questions, rules, history>>

(* The user chooses; the question widget, a library, answers with one       *)
(* SelectedMsg per question.                                                *)
Choose(choice) ==
  /\ loop = "on" /\ approving /\ slot # 0 /\ answer[slot] = "none"
  /\ answer' = [answer EXCEPT ![slot] = choice]
  /\ always' = IF choice = "always" THEN always \cup {ToolOf[about[slot]]} ELSE always
  /\ inbox' = inbox \cup {[kind |-> "selected", what |-> choice, of |-> slot]}
  /\ UNCHANGED <<screen, entered, goroutines, questions, rules, ran, quitting>>

Allows(choice) == choice \in {"yes", "always"}

SendsIfAllowed(choice) == IF Allows(choice) THEN "yes" ELSE "none"

(* What Update sends to the goroutine that asked.                           *)
Sends(choice) == IF Allows(choice) THEN "yes" ELSE "no"

(* The channel of the open question takes one value, a nil channel none.    *)
HasRoom == slot # 0 /\ reply[slot] = "none"

(* A question.SelectedMsg.  A send without room would block Update.         *)
Selected(m) ==
  /\ Takes(m) /\ m.kind = "selected"
  /\ inbox' = inbox \ {m}
  /\ \/ /\ ~Expected /\ UNCHANGED <<screen, reply, rules>>
     \/ /\ Expected /\ HasRoom
        /\ \/ m.what = "always" /\ Learn(ToolOf[about[slot]])
           \/ m.what # "always" /\ UNCHANGED rules
        /\ reply' = [reply EXCEPT ![slot] = Sends(m.what)]
        /\ slot' = 0 /\ approving' = FALSE /\ UNCHANGED <<loop, running, typed>>
     \/ /\ Expected /\ ~HasRoom
        /\ loop' = "stuck"
        /\ UNCHANGED <<running, typed, overlay, reply, rules>>
  /\ UNCHANGED <<entered, goroutines, asked, about, history>>

(* An agentDoneMsg or a shellResultMsg.                                     *)
Finished(m) ==
  /\ Takes(m) /\ m.kind \in {"done", "shelldone"}
  /\ running' = FALSE /\ inbox' = inbox \ {m}
  /\ UNCHANGED <<loop, typed, overlay, entered, goroutines, questions, rules, history>>

CtrlC ==
  /\ loop = "on" /\ Drain
  /\ inbox' = inbox \cup {[kind |-> "quit"]} /\ quitting' = TRUE
  /\ UNCHANGED <<loop, running, typed, entered, goroutines, asked, about, rules>>
  /\ UNCHANGED <<answer, always, ran>>

(* tea.Quit: p.Run returns, nothing takes messages any more and p.Send      *)
(* drops them.  A goroutine in the approver then waits until main exits.    *)
Quit(m) ==
  /\ Takes(m) /\ m.kind = "quit"
  /\ loop' = "off" /\ inbox' = inbox \ {m}
  /\ UNCHANGED <<running, typed, overlay, entered, goroutines, questions, rules, history>>

Handle(m) ==
  \/ Submitted(m) \/ Returned(m) \/ Requested(m) \/ Selected(m) \/ Finished(m) \/ Quit(m)
-----------------------------------------------------------------------------
(* The agent calls a tool: the approver evaluates it, and asks if need be.  *)
Approve(r, k) ==
  /\ agent[r] = "turn"
  /\ \/ /\ Evaluate(k) = "allow"
        /\ ran' = ran \cup {[key |-> k, by |-> 0, late |-> quitting]}
        /\ UNCHANGED <<inbox, agent, waits, asked, about>>
     \/ /\ Evaluate(k) = "prompt" /\ asked < MaxPrompts
        /\ asked' = asked + 1 /\ about' = [about EXCEPT ![asked + 1] = k]
        /\ agent' = [agent EXCEPT ![r] = "ask"] /\ waits' = [waits EXCEPT ![r] = asked + 1]
        /\ inbox' = inbox \cup {[kind |-> "request", of |-> asked + 1]}
        /\ UNCHANGED ran
  /\ UNCHANGED <<screen, entered, shell, reply, rules, answer, always, quitting>>

(* The reply arrives: gateToolCall lets the call run or denies it.          *)
Resume(r) ==
  /\ agent[r] = "blocked" /\ reply[waits[r]] # "none"
  /\ ran' = IF reply[waits[r]] = "yes"
              THEN ran \cup {[key |-> about[waits[r]], by |-> waits[r], late |-> quitting]}
              ELSE ran
  /\ agent' = [agent EXCEPT ![r] = "turn"] /\ waits' = [waits EXCEPT ![r] = 0]
  /\ UNCHANGED <<screen, inbox, entered, shell, questions, rules, answer, always, quitting>>

(* Agent.Run returns: finished, failed, or cancelled by Esc, which Update   *)
(* takes only while no question is open.                                    *)
Return(r) ==
  /\ agent[r] = "turn"
  /\ agent' = [agent EXCEPT ![r] = "none"]
  /\ inbox' = inbox \cup {[kind |-> "done", of |-> r]}
  /\ UNCHANGED <<screen, entered, waits, shell, questions, rules, history>>

ShellEnds ==
  /\ shell # 0
  /\ inbox' = inbox \cup {[kind |-> "shelldone", of |-> shell]} /\ shell' = 0
  /\ UNCHANGED <<screen, entered, agent, waits, questions, rules, history>>

Next ==
  \/ \E what \in Entry : Enter(what)
  \/ \E choice \in Choice : Choose(choice)
  \/ CtrlC
  \/ \E m \in inbox : Handle(m)
  \/ \E r \in Run : Resume(r) \/ Return(r) \/ \E k \in Key : Approve(r, k)
  \/ ShellEnds

Spec == Init /\ [][Next]_vars

(* Bubble Tea takes messages and goroutines run; nothing makes the user     *)
(* answer, or quit.  Runs end (AgentLoop) and shell escapes time out.       *)
FairSpec ==
  /\ Spec
  /\ WF_vars(\E m \in inbox : Handle(m))
  /\ \A r \in Run : WF_vars(Resume(r)) /\ WF_vars(Return(r))
  /\ WF_vars(ShellEnds)
-----------------------------------------------------------------------------
TypeOK ==
  /\ loop \in {"on", "off", "stuck"} /\ running \in BOOLEAN
  /\ skills \in BOOLEAN /\ lastPrompt \in BOOLEAN
  /\ approving \in BOOLEAN
  /\ slot \in {0} \cup Question /\ inbox \subseteq Message /\ entered \in 0 .. MaxSubmits
  /\ agent \in [Run -> {"none", "turn", "ask", "blocked"}]
  /\ waits \in [Run -> {0} \cup Question] /\ shell \in {0} \cup Run
  /\ asked \in 0 .. MaxPrompts /\ about \in [Question -> Key \cup {"none"}]
  /\ reply \in [Question -> {"none", "yes", "no"}]
  /\ remembered \subseteq Tool /\ promoted \subseteq Tool
  /\ count \in [Tool -> 0 .. PromoteThreshold - 1]
  /\ answer \in [Question -> {"none"} \cup Choice] /\ always \subseteq Tool
  /\ ran \subseteq [key : Key, by : {0} \cup Question, late : BOOLEAN]
  /\ quitting \in BOOLEAN

(* The question on the screen is the one a goroutine is blocked on, and a   *)
(* goroutine blocked without a reply has its question on the screen: no     *)
(* order of prompts, commands, answers and quits makes appModel's single    *)
(* approvalReply forget one.                                                *)
QuestionIsAwaited ==
  /\ \A r \in Run : agent[r] = "blocked" /\ reply[waits[r]] = "none" =>
       approving /\ slot = waits[r]
  /\ approving => \E r \in Run : agent[r] = "blocked" /\ waits[r] = slot

(* What lets a call run: the built-in rules, the user's answer to the very  *)
(* question about it, or an earlier "Always" for its tool; and never what   *)
(* the built-in rules block.                                                *)
Rightful(c) ==
  /\ BuiltIn[c.key] # "block"
  /\ \/ BuiltIn[c.key] = "allow" /\ c.by = 0
     \/ ToolOf[c.key] \in always /\ c.by = 0
     \/ c.by # 0 /\ answer[c.by] \in {"yes", "always"} /\ about[c.by] = c.key

(* "allow this call" (the question's first option), until the user quits.   *)
RunsByRight == \A c \in ran : c.late \/ Rightful(c)

(* The same, with the calls of a run that outlives the request to quit.     *)
AnswersItsQuestion == \A c \in ran : Rightful(c)

(* A question answered is over: the goroutine that asked goes on.           *)
AnswerArrives ==
  \A q \in Question :
    answer[q] # "none" ~> loop = "off" \/ \A r \in Run : waits[r] # q

(* Asked to quit, the TUI quits: no reply to deliver blocks its loop        *)
(* (drainApproval).                                                         *)
QuitExits == quitting ~> loop = "off"
=============================================================================

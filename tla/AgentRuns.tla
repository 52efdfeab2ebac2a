------------------------------ MODULE AgentRuns ------------------------------
(* A run of the agent in its phase: the tools it is offered when it begins, *)
(* and the hooks and the approver every call of a tool passes.              *)
(*                                                                          *)
(* What a run does with a call is ToolExec's, how the user is asked         *)
(* Approvals'; here an approver says yes or no.  A hook fails when it exits *)
(* with an error or times out; one that prints no decision allows.          *)
EXTENDS Startup

CONSTANTS
  MaxRuns  (* bound: runs of the agent                                       *)

ASSUME RunsAssumption == MaxRuns \in Nat

Run == 1 .. MaxRuns

Verdict == {"allow", "ask", "deny", "fail"}

NoCall == [tool |-> "none", verdicts |-> <<>>, decision |-> "allow"]

VARIABLES
  fsm,       (* Agent.fsm: the phase, and its place in phaseOrder            *)
  planMode,  (* Registry.planMode                                            *)
  agent,     (* per run: "none", "starting", "turn", "gate" or "tool"        *)
  offered,   (* per run: the tools of its loop's registry                    *)
  call       (* per run: the call in the gate or running, and the verdicts   *)

goroutines == <<agent, offered, call>>
modes == <<fsm, planMode>>
-----------------------------------------------------------------------------
(* newPhaseFSM takes what it is given; a phase it does not know has the     *)
(* first one's place.                                                       *)
newPhaseFSM(phase) ==
  [current |-> phase,
   index |-> IF phase \in Phase THEN CHOOSE i \in 1 .. 6 : PhaseOrder[i] = phase ELSE 1]

IsTerminal == fsm.index = 6

(* phaseFSM.Advance; IsTerminal fails.                                      *)
Advance ==
  fsm' = IF IsTerminal THEN fsm
         ELSE [current |-> PhaseOrder[fsm.index + 1], index |-> fsm.index + 1]

matchingGroups(all, t) == SelectSeq(all, LAMBDA h : t \in h.on)

(* The hooks of a tool, in the order of the files.                          *)
Matching(t) == matchingGroups(hooks, t)

LastCounts(d, h, v) ==
  IF v = "deny" \/ (v = "fail" /\ h.closed) THEN "deny"
  ELSE IF v = "fail" THEN d ELSE v

(* Executor.PreToolUse after the next verdict: deny > ask > allow, and a    *)
(* failure denies when the hook says so.                                    *)
PreToolUse(d, h, v) ==
  IF v = "deny" \/ (v = "fail" /\ h.closed) THEN "deny"
  ELSE IF v = "ask" THEN "ask" ELSE d

(* A denial ends the hooks; the rest does not run.                          *)
HooksDone(r) ==
  \/ call[r].decision = "deny"
  \/ Len(call[r].verdicts) = Len(Matching(call[r].tool))

(* Only runTUI sets an approver.                                            *)
HasApprover == flags.mode = "tui"
-----------------------------------------------------------------------------
(* The goroutine of a run: runWithContent reads the phase and builds the    *)
(* registry of its loop.                                                    *)
Begin(r) ==
  /\ agent[r] = "starting"
  /\ agent' = [agent EXCEPT ![r] = "turn"]
  /\ offered' = [offered EXCEPT ![r] = Tools(fsm.current, planMode)]
  /\ UNCHANGED call

(* The model calls a tool, offered or not.                                  *)
Call(r, t) ==
  /\ agent[r] = "turn"
  /\ agent' = [agent EXCEPT ![r] = "gate"]
  /\ call' = [call EXCEPT ![r] = [NoCall EXCEPT !.tool = t]]
  /\ UNCHANGED offered

HookRuns(r, v) ==
  /\ agent[r] = "gate" /\ ~HooksDone(r)
  /\ LET h == Matching(call[r].tool)[Len(call[r].verdicts) + 1] IN
       call' = [call EXCEPT ![r].verdicts = Append(@, v),
                            ![r].decision = PreToolUse(@, h, v)]
  /\ UNCHANGED <<agent, offered>>

Leave(r) ==
  /\ agent' = [agent EXCEPT ![r] = "turn"]
  /\ call' = [call EXCEPT ![r] = NoCall]

Denied(r) ==
  /\ agent[r] = "gate" /\ HooksDone(r)
  /\ \/ call[r].decision = "deny"
     \/ call[r].decision = "ask" /\ ~HasApprover
     \/ HasApprover
  /\ Leave(r)
  /\ UNCHANGED offered

(* gateToolCall lets the call through; a tool that was not offered is an    *)
(* error without running.                                                   *)
Passes(r) ==
  /\ agent[r] = "gate" /\ HooksDone(r)
  /\ call[r].decision # "deny"
  /\ call[r].decision = "ask" => HasApprover
  /\ \/ /\ call[r].tool \in offered[r]
        /\ agent' = [agent EXCEPT ![r] = "tool"] /\ UNCHANGED call
     \/ call[r].tool \notin offered[r] /\ Leave(r)
  /\ UNCHANGED offered

ToolEnds(r) == agent[r] = "tool" /\ Leave(r) /\ UNCHANGED offered

(* Run returns, finished, failed or cancelled.                              *)
Ends(r) ==
  /\ agent[r] \in {"starting", "turn"}
  /\ agent' = [agent EXCEPT ![r] = "none"]
  /\ UNCHANGED <<offered, call>>

AgentStep(r) ==
  \/ Begin(r)
  \/ \E t \in tools \cup {"unknown"} : Call(r, t)
  \/ \E v \in Verdict : HookRuns(r, v)
  \/ Denied(r) \/ Passes(r) \/ ToolEnds(r)
-----------------------------------------------------------------------------
AgentInit ==
  /\ fsm = newPhaseFSM("act") /\ planMode = FALSE
  /\ agent = [r \in Run |-> "none"] /\ offered = [r \in Run |-> {}]
  /\ call = [r \in Run |-> NoCall]

AgentType ==
  /\ fsm \in [current : PhaseName, index : 1 .. 6] /\ planMode \in BOOLEAN
  /\ agent \in [Run -> {"none", "starting", "turn", "gate", "tool"}]
  /\ offered \in [Run -> SUBSET Tool]
  /\ call \in [Run -> [tool : Tool \cup {"none", "unknown"}, verdicts : Seq(Verdict),
                       decision : {"allow", "ask", "deny"}]]

(* A tool that runs passed every hook for it, in the order of the files:    *)
(* none denied, none failed closed, and where one asked there was an        *)
(* approver to answer (executor.go:76, "deny > ask > allow"; loop.go:432).  *)
HooksDecide ==
  \A r \in Run : agent[r] = "tool" =>
    LET asked == Matching(call[r].tool)
        said == call[r].verdicts IN
    /\ Len(said) = Len(asked)
    /\ \A i \in DOMAIN said :
         /\ said[i] # "deny"
         /\ said[i] = "fail" => ~asked[i].closed
         /\ said[i] = "ask" => HasApprover

(* What a run was offered is what the registry allows in the phase and the  *)
(* plan mode of this moment, as long as it runs: nothing changes them under *)
(* it (registry.go:157, "Must not be called while Agent.Run is executing"). *)
ToolsWithinGates ==
  \A r \in Run :
    agent[r] \in {"turn", "gate", "tool"} => offered[r] = Tools(fsm.current, planMode)
=============================================================================

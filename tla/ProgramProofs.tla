--------------------------- MODULE ProgramProofs ----------------------------
(***************************************************************************)
(* Proofs about the two programs, skaffen (Program) and hassease           *)
(* (Hassease). In the first a run keeps the tools of its phase and plan    *)
(* mode: what Update may change while something runs cannot reach the      *)
(* registry or the phase.                                                  *)
(***************************************************************************)
EXTENDS Program, Hassease, TLAPS

Ends1 == {m \in inbox : m.kind \in {"done", "shelldone"}}

Shape ==
  /\ agent \in [Run -> {"none", "starting", "turn", "gate", "tool"}]
  /\ offered = [r \in Run |-> offered[r]]

Idle == shell = 0 /\ Ends1 = {} /\ \A r \in Run : agent[r] = "none"

(* While Update thinks that nothing runs, nothing does; otherwise one run, *)
(* one shell escape or one message that either ended.                      *)
OneAtATime ==
  /\ ~running => Idle
  /\ \A r \in Run : agent[r] # "none" => shell = 0 /\ Ends1 = {}
  /\ \A r, s \in Run : agent[r] # "none" /\ agent[s] # "none" => r = s
  /\ shell # 0 => Ends1 = {}
  /\ \A m, n \in Ends1 : m = n

Before == stage \in {"config", "load", "connect", "wire"}

IInv ==
  /\ Shape
  /\ Before => ~running /\ Idle
  /\ stage = "ready" /\ flags.mode = "tui" => OneAtATime
  /\ ToolsWithinGates
-----------------------------------------------------------------------------
LEMMA InitIdle == Init => IInv
  BY DEF Init, StartupInit, AgentInit, ControlsInit, IInv, Shape, Before, Idle, Ends1,
         OneAtATime, ToolsWithinGates

(* Nothing of the startup touches what runs.                               *)
LEMMA StartupStep ==
  ASSUME IInv, Before, stage' \in {"config", "load", "connect", "wire", "gone"},
         UNCHANGED <<modes, goroutines, controls, printed>>
  PROVE  IInv'
  <1>1. UNCHANGED <<running, shell, inbox, agent, offered>>
    BY DEF goroutines, controls, screen
  <1>2. Idle /\ Idle'
    BY <1>1 DEF IInv, Idle, Ends1
  <1>. QED
    BY <1>1, <1>2 DEF IInv, Shape, Before, Idle, Ends1, ToolsWithinGates

(* A step that leaves modes and registry alone and begins no run.          *)
LEMMA SameTools ==
  ASSUME ToolsWithinGates, UNCHANGED <<offered, modes, registry>>,
         \A r \in Run : agent'[r] \in {"turn", "gate", "tool"}
                          => agent[r] \in {"turn", "gate", "tool"}
  PROVE  ToolsWithinGates'
  <1>. UNCHANGED <<fsm, planMode, tools, gates, offered>>
    BY DEF modes, registry
  <1>. QED
    BY DEF ToolsWithinGates, Tools

(* What the goroutine of a run does, in any mode.                          *)
LEMMA RunStep ==
  ASSUME IInv, NEW r \in Run, RunSteps(r)
  PROVE  IInv'
  <1>1. /\ UNCHANGED <<stage, flags, tools, gates, fsm, planMode, running, shell, inbox>>
        /\ ~Before
    BY DEF RunSteps, started, config, registry, modes, controls, screen, Before
  <1>2. /\ agent[r] # "none" /\ Shape'
        /\ agent' = [agent EXCEPT ![r] = agent'[r]] /\ agent'[r] # "none"
    BY DEF RunSteps, AgentStep, Begin, Call, HookRuns, Denied, Passes, ToolEnds, Leave,
           IInv, Shape, Tools
  <1>3. ToolsWithinGates'
    <2>1. CASE Begin(r)
      BY <2>1, <1>1 DEF Begin, IInv, Shape, ToolsWithinGates, Tools
    <2>2. CASE ~Begin(r)
      BY <2>2, <1>1 DEF RunSteps, AgentStep, Begin, Call, HookRuns, Denied, Passes, ToolEnds,
                        Leave, IInv, Shape, ToolsWithinGates, Tools
    <2>. QED
      BY <2>1, <2>2
  <1>4. stage' = "ready" /\ flags'.mode = "tui" => OneAtATime'
    BY <1>1, <1>2 DEF IInv, Shape, OneAtATime, Idle, Ends1
  <1>. QED
    BY <1>1, <1>2, <1>3, <1>4 DEF IInv, Before

(* Update takes a submitMsg; a run, a shell escape, /plan and /advance     *)
(* begin only when nothing runs.                                           *)
LEMMA SubmitStep ==
  ASSUME IInv, NEW m \in inbox, TuiSubmitted(m)
  PROVE  IInv'
  <1>1. /\ stage = "ready" /\ flags.mode = "tui" /\ OneAtATime
        /\ UNCHANGED <<stage, flags, tools, gates, offered>> /\ ~Before /\ ~Before'
    BY DEF TuiSubmitted, On, Unwired, started, config, registry, IInv, Before
  <1>2. Ends1' = Ends1
    BY DEF TuiSubmitted, Submitted, Ends1
  <1>3. CASE running
    <2>1. UNCHANGED <<running, agent, fsm, planMode, shell>>
      BY <1>3 DEF TuiSubmitted, Submitted, MayStart, screen, modes
    <2>. QED
      BY <1>1, <1>2, <2>1 DEF IInv, Shape, OneAtATime, Idle, ToolsWithinGates, Tools
  <1>4. CASE ~running
    <2>1. Idle
      BY <1>1, <1>4 DEF OneAtATime
    <2>2. CASE m.what = "task"
      <3>1. /\ running' = TRUE /\ shell' = shell
            /\ agent' = [agent EXCEPT ![m.of] = "starting"]
        BY <1>4, <2>2 DEF TuiSubmitted, Submitted, MayStart, Start
      <3>. QED
        BY <1>1, <1>2, <2>1, <3>1
           DEF IInv, Shape, OneAtATime, Idle, ToolsWithinGates
    <2>3. CASE m.what = "shell"
      <3>1. running' = TRUE /\ agent' = agent
        BY <1>4, <2>3 DEF TuiSubmitted, Submitted, MayStart
      <3>. QED
        BY <1>1, <1>2, <2>1, <3>1 DEF IInv, Shape, OneAtATime, Idle, ToolsWithinGates
    <2>4. CASE m.what \notin {"task", "shell"}
      <3>1. UNCHANGED <<running, agent, shell>>
        BY <1>4, <2>4 DEF TuiSubmitted, Submitted, MayStart
      <3>. QED
        BY <1>1, <1>2, <2>1, <3>1 DEF IInv, Shape, OneAtATime, Idle, ToolsWithinGates
    <2>. QED
      BY <2>2, <2>3, <2>4
  <1>. QED
    BY <1>3, <1>4

(* A command's result starts a run only when nothing runs.                 *)
LEMMA ReturnStep ==
  ASSUME IInv, NEW m \in inbox, TuiReturned(m)
  PROVE  IInv'
  <1>1. /\ stage = "ready" /\ flags.mode = "tui" /\ OneAtATime
        /\ UNCHANGED <<stage, flags, tools, gates, offered, fsm, planMode, shell>>
        /\ ~Before /\ ~Before'
    BY DEF TuiReturned, Returned, On, Unwired, started, config, registry, modes, IInv, Before
  <1>2. Ends1' = Ends1
    BY DEF TuiReturned, Returned, Ends1
  <1>3. CASE queued /\ MayStart /\ Start(m.of)
    <2>1. Idle
      BY <1>1, <1>3 DEF OneAtATime, MayStart
    <2>2. running' = TRUE /\ agent' = [agent EXCEPT ![m.of] = "starting"]
      BY <1>3 DEF Start
    <2>. QED
      BY <1>1, <1>2, <2>1, <2>2 DEF IInv, Shape, OneAtATime, Idle, ToolsWithinGates
  <1>4. CASE UNCHANGED <<running, agent>>
    BY <1>1, <1>2, <1>4 DEF IInv, Shape, OneAtATime, Idle, ToolsWithinGates, Tools
  <1>. QED
    BY <1>3, <1>4 DEF TuiReturned, Returned

(* What ended is the one thing that ran.                                   *)
LEMMA MessageStep ==
  ASSUME IInv, NEW m \in inbox, TuiMessage(m)
  PROVE  IInv'
  <1>1. /\ stage = "ready" /\ flags.mode = "tui" /\ OneAtATime
        /\ UNCHANGED <<stage, flags, tools, gates, offered, agent, fsm, planMode, shell>>
        /\ ~Before /\ ~Before' /\ inbox' = inbox \ {m}
    BY DEF TuiMessage, Dismissed, Finished, On, Unwired, started, config, registry, modes,
           goroutines, IInv, Before
  <1>2. OneAtATime'
    <2>1. CASE Dismissed(m)
      BY <1>1, <2>1 DEF Dismissed, OneAtATime, Idle, Ends1
    <2>2. CASE Finished(m)
      <3>1. m \in Ends1 /\ Ends1' = {}
        BY <1>1, <2>2 DEF Finished, OneAtATime, Ends1
      <3>. QED
        BY <1>1, <2>2, <3>1 DEF Finished, OneAtATime, Idle
    <2>. QED
      BY <2>1, <2>2 DEF TuiMessage
  <1>. QED
    BY <1>1, <1>2 DEF IInv, Shape, ToolsWithinGates, Tools

(* Keys, and Shift+Tab, which waits for the run to end.                    *)
LEMMA KeyStep ==
  ASSUME IInv, TuiKey \/ TuiShiftTab
  PROVE  IInv'
  <1>1. /\ stage = "ready" /\ flags.mode = "tui" /\ OneAtATime
        /\ UNCHANGED <<stage, flags, tools, gates, offered, agent, running, shell>>
        /\ ~Before /\ ~Before'
    BY DEF TuiKey, TuiShiftTab, Esc, Leaves, Enter, ShiftTab, On, Unwired, started, config,
           registry, goroutines, controls, screen, IInv, Before
  <1>2. Ends1' = Ends1
    BY DEF TuiKey, TuiShiftTab, Esc, Leaves, Enter, ShiftTab, controls, Ends1
  <1>3. ToolsWithinGates'
    <2>1. CASE TuiShiftTab
      <3>1. \A r \in Run : agent'[r] = "none"
        BY <1>1, <2>1 DEF TuiShiftTab, ShiftTab, OneAtATime, Idle
      <3>. QED
        BY <3>1 DEF ToolsWithinGates
    <2>2. CASE TuiKey
      BY <1>1, <2>2 DEF TuiKey, modes, IInv, ToolsWithinGates, Tools
    <2>. QED
      BY <2>1, <2>2
  <1>. QED
    BY <1>1, <1>2, <1>3 DEF IInv, Shape, OneAtATime, Idle

(* A run or a shell escape ends, and its message is on its way.            *)
LEMMA EndStep ==
  ASSUME IInv, TuiShellDone \/ \E r \in Run : TuiRunDone(r)
  PROVE  IInv'
  <1>1. /\ stage = "ready" /\ flags.mode = "tui" /\ OneAtATime
        /\ UNCHANGED <<stage, flags, tools, gates, offered, fsm, planMode, running>>
        /\ ~Before /\ ~Before'
    BY DEF TuiShellDone, TuiRunDone, ShellDone, RunDone, Ends, On, Unwired, started, config,
           registry, modes, goroutines, screen, IInv, Before
  <1>2. CASE TuiShellDone
    <2>1. /\ agent' = agent /\ shell # 0 /\ shell' = 0
          /\ inbox' = inbox \cup {[kind |-> "shelldone", of |-> shell]}
      BY <1>2 DEF TuiShellDone, ShellDone, goroutines
    <2>2. Ends1 = {} /\ Ends1' = {[kind |-> "shelldone", of |-> shell]} /\ running
      BY <1>1, <2>1 DEF OneAtATime, Idle, Ends1
    <2>3. \A r \in Run : agent[r] = "none"
      BY <1>1, <2>1 DEF OneAtATime
    <2>. QED
      BY <1>1, <2>1, <2>2, <2>3 DEF IInv, Shape, OneAtATime, Idle, ToolsWithinGates, Tools
  <1>3. ASSUME NEW r \in Run, TuiRunDone(r)
        PROVE  IInv'
    <2>1. /\ agent' = [agent EXCEPT ![r] = "none"] /\ agent[r] # "none" /\ shell' = shell
          /\ inbox' = inbox \cup {[kind |-> "done", of |-> r]}
      BY <1>3 DEF TuiRunDone, RunDone, Ends
    <2>2. /\ Ends1 = {} /\ Ends1' = {[kind |-> "done", of |-> r]} /\ shell = 0 /\ running
          /\ \A s \in Run : agent'[s] = "none"
      BY <1>1, <2>1 DEF OneAtATime, Idle, Ends1, IInv, Shape
    <2>. QED
      BY <1>1, <2>1, <2>2 DEF IInv, Shape, OneAtATime, Idle, ToolsWithinGates
  <1>. QED
    BY <1>2, <1>3

(* Print mode has no controls, and the end of the program changes neither  *)
(* modes nor registry.                                                     *)
LEMMA PrintOrExitStep ==
  ASSUME IInv, TuiQuits \/ PrintRuns \/ PrintRunDone \/ PrintTested \/ Exit
  PROVE  IInv'
  <1>1. /\ UNCHANGED <<flags, offered, modes, registry>> /\ ~Before /\ ~Before'
        /\ stage' = "ready" => flags.mode = "print"
    BY DEF TuiQuits, PrintRuns, PrintRunDone, PrintTested, Exit, On, Ends, started, config,
           goroutines, Before
  <1>2. /\ Shape'
        /\ \A r \in Run : agent'[r] \in {"turn", "gate", "tool"}
                            => agent[r] \in {"turn", "gate", "tool"}
    BY <1>1 DEF TuiQuits, PrintRuns, PrintRunDone, PrintTested, Exit, Ends, goroutines,
                IInv, Shape
  <1>3. ToolsWithinGates'
    BY <1>1, <1>2, SameTools DEF IInv
  <1>. QED
    BY <1>1, <1>2, <1>3 DEF IInv

(* Wire sets the modes before the first run.                               *)
LEMMA WireStep ==
  ASSUME IInv, Wire
  PROVE  IInv'
  <1>1. /\ UNCHANGED <<running, shell, inbox, agent, offered, flags>> /\ ~Before'
        /\ Idle /\ ~running
    BY DEF Wire, config, goroutines, controls, screen, IInv, Before
  <1>. QED
    BY <1>1 DEF IInv, Shape, OneAtATime, Idle, Ends1, ToolsWithinGates
-----------------------------------------------------------------------------
(* The invariant is inductive, for any configuration files, servers and    *)
(* bounds.                                                                 *)
THEOREM Inductive == Spec => []IInv
  <1>1. ASSUME IInv, [Next]_vars
        PROVE  IInv'
    <2>1. CASE \/ Starts(BadPhase) \/ Starts(InitConfig)
               \/ \E n \in Server : Starts(PluginAnswers(n)) \/ Starts(RemoteAnswers(n))
               \/ Starts(PluginsLoaded) \/ Starts(RemotesDone)
      <3>1. /\ Before /\ stage' \in {"config", "load", "connect", "wire", "gone"}
            /\ UNCHANGED <<modes, goroutines, controls, printed>>
        BY <2>1 DEF Starts, BadPhase, InitConfig, PluginAnswers, RemoteAnswers, PluginsLoaded,
                    RemotesDone, Before
      <3>. QED
        BY <1>1, <3>1, StartupStep
    <2>2. CASE UNCHANGED vars
      BY <1>1, <2>2 DEF vars, started, config, registry, modes, goroutines, controls, screen,
                        IInv, Shape, Before, OneAtATime, Idle, Ends1, ToolsWithinGates, Tools
    <2>. QED
      BY <1>1, <2>1, <2>2, WireStep, RunStep, SubmitStep, ReturnStep, MessageStep, KeyStep,
         EndStep, PrintOrExitStep DEF Next
  <1>. QED
    BY <1>1, InitIdle, PTL DEF Spec

(* A run has the tools of the live phase and plan mode as long as it runs  *)
(* (agent.go:267 builds its registry once; registry.go:157 forbids changes *)
(* under it), in every order of prompts, commands, keys and messages.      *)
THEOREM ToolsWithinGatesHolds == Spec => []ToolsWithinGates
  BY Inductive, PTL DEF IInv
-----------------------------------------------------------------------------
(* What the verdicts so far say of a call in the gate or running: unless   *)
(* the decision is deny, none denied, and one that asked made it ask.      *)
Summed(r) ==
  LET said == call[r].verdicts IN
  /\ said \in Seq(Verdict)
  /\ call[r].decision # "deny" =>
       \A i \in DOMAIN said :
         /\ said[i] # "deny"
         /\ said[i] = "fail" => ~Matching(call[r].tool)[i].closed
         /\ said[i] = "ask" => call[r].decision = "ask"

IsCall(c) == [tool |-> c.tool, verdicts |-> c.verdicts, decision |-> c.decision]

Settled(r) ==
  /\ HooksDone(r) /\ call[r].decision # "deny"
  /\ call[r].decision = "ask" => HasApprover

HInv ==
  /\ Before => \A r \in Run : agent[r] = "none"
  /\ agent \in [Run -> {"none", "starting", "turn", "gate", "tool"}]
  /\ call = [r \in Run |-> IsCall(call[r])]
  /\ \A r \in Run : agent[r] \in {"gate", "tool"} => Summed(r)
  /\ \A r \in Run : agent[r] = "tool" => Settled(r)

LEMMA HooksStay ==
  ASSUME HInv, UNCHANGED <<hooks, flags, call>>, ~Before \/ UNCHANGED agent,
         agent' \in [Run -> {"none", "starting", "turn", "gate", "tool"}],
         Before' => Before,
         \A r \in Run : agent'[r] \in {"gate", "tool"} => agent'[r] = agent[r]
  PROVE  HInv'
  BY DEF HInv, Summed, Settled, HooksDone, HasApprover, Matching

(* The next hook's verdict is added up.                                    *)
LEMMA HookStep ==
  ASSUME HInv, NEW r \in Run, NEW v \in Verdict, HookRuns(r, v)
  PROVE  Summed(r)' \/ hooks' # hooks
  <1>. DEFINE said == call[r].verdicts
              h == Matching(call[r].tool)[Len(said) + 1]
  <1>1. /\ said \in Seq(Verdict) /\ Summed(r) /\ call[r].decision # "deny"
    BY DEF HookRuns, HInv, Summed, HooksDone
  <1>2. /\ call'[r].verdicts = Append(said, v) /\ call'[r].tool = call[r].tool
        /\ call'[r].decision = PreToolUse(call[r].decision, h, v)
    <2>1. call[r] = IsCall(call[r]) /\ call = [s \in Run |-> call[s]]
      BY DEF HInv
    <2>2. call'[r] = [call[r] EXCEPT !.verdicts = Append(said, v),
                                     !.decision = PreToolUse(call[r].decision, h, v)]
      BY <2>1 DEF HookRuns
    <2>. QED
      BY <2>1, <2>2 DEF IsCall
  <1>3. \A i \in DOMAIN Append(said, v) :
          \/ i \in DOMAIN said /\ Append(said, v)[i] = said[i]
          \/ i = Len(said) + 1 /\ Append(said, v)[i] = v
    BY <1>1
  <1>4. Append(said, v) \in Seq(Verdict)
    BY <1>1
  <1>5. SUFFICES ASSUME hooks' = hooks
        PROVE  Summed(r)'
    OBVIOUS
  <1>6. Matching(call[r].tool)' = Matching(call[r].tool)
    BY <1>2, <1>5 DEF Matching
  <1>7. ASSUME call'[r].decision # "deny", NEW i \in DOMAIN Append(said, v)
        PROVE  /\ Append(said, v)[i] # "deny"
               /\ Append(said, v)[i] = "fail" => ~Matching(call[r].tool)[i].closed
               /\ Append(said, v)[i] = "ask" => call'[r].decision = "ask"
    <2>1. CASE i \in DOMAIN said /\ Append(said, v)[i] = said[i]
      BY <1>1, <1>2, <1>7, <2>1 DEF Summed, PreToolUse
    <2>2. CASE i = Len(said) + 1 /\ Append(said, v)[i] = v
      BY <1>2, <1>7, <2>2 DEF PreToolUse
    <2>. QED
      BY <1>3, <2>1, <2>2
  <1>. QED
    BY <1>2, <1>4, <1>6, <1>7 DEF Summed, Matching

LEMMA HookRunStep ==
  ASSUME HInv, NEW r \in Run, RunSteps(r)
  PROVE  HInv'
  <1>1. UNCHANGED <<stage, flags, hooks>> /\ ~Before /\ ~Before'
    BY DEF RunSteps, started, config, Before
  <1>2. /\ agent' \in [Run -> {"none", "starting", "turn", "gate", "tool"}]
        /\ call' = [s \in Run |-> IsCall(call'[s])]
        /\ \A s \in Run : s # r => agent'[s] = agent[s] /\ call'[s] = call[s]
    BY DEF RunSteps, AgentStep, Begin, Call, HookRuns, Denied, Passes, ToolEnds, Leave, HInv,
           IsCall, NoCall
  <1>3. /\ agent'[r] \in {"gate", "tool"} => Summed(r)'
        /\ agent'[r] = "tool" => Settled(r)'
    <2>1. ASSUME NEW v \in Verdict, HookRuns(r, v)
          PROVE  agent'[r] = "gate" /\ Summed(r)'
      BY <1>1, <2>1, HookStep DEF HookRuns
    <2>2. ASSUME NEW t, Call(r, t)
          PROVE  agent'[r] = "gate" /\ Summed(r)'
      <3>1. call'[r] = [NoCall EXCEPT !.tool = t] /\ agent'[r] = "gate"
        BY <2>2 DEF Call, HInv, IsCall, NoCall
      <3>. QED
        BY <3>1 DEF NoCall, Summed
    <2>3. CASE Passes(r) /\ agent'[r] = "tool"
      <3>1. call' = call /\ Summed(r) /\ Settled(r)
        BY <2>3, <1>1 DEF Passes, Leave, HInv, Settled
      <3>. QED
        BY <3>1, <1>1 DEF Summed, Settled, HooksDone, HasApprover, Matching
    <2>4. CASE Begin(r) \/ Denied(r) \/ (Passes(r) /\ agent'[r] # "tool") \/ ToolEnds(r)
      BY <2>4 DEF Begin, Denied, Passes, ToolEnds, Leave, HInv
    <2>. QED
      BY <2>1, <2>2, <2>3, <2>4 DEF RunSteps, AgentStep
  <1>4. ASSUME NEW s \in Run, s # r
        PROVE  /\ agent'[s] \in {"gate", "tool"} => Summed(s)'
               /\ agent'[s] = "tool" => Settled(s)'
    BY <1>1, <1>2, <1>4 DEF HInv, Summed, Settled, HooksDone, HasApprover, Matching
  <1>. QED
    BY <1>1, <1>2, <1>3, <1>4 DEF HInv

(* No tool runs against its hooks, whatever files they come from, however  *)
(* they answer or fail, with an approver or without.                       *)
THEOREM HooksDecideHolds == Spec => []HooksDecide
  <1>1. Init => HInv
    BY DEF Init, AgentInit, HInv, IsCall, NoCall
  <1>2. ASSUME HInv, [Next]_vars
        PROVE  HInv'
    <2>1. CASE Starts(InitConfig)
      <3>1. UNCHANGED <<agent, call>> /\ Before
        BY <2>1 DEF Starts, InitConfig, goroutines, Before
      <3>. QED
        BY <1>2, <3>1 DEF HInv
    <2>2. CASE \/ Starts(BadPhase) \/ Wire
               \/ \E n \in Server : Starts(PluginAnswers(n)) \/ Starts(RemoteAnswers(n))
               \/ Starts(PluginsLoaded) \/ Starts(RemotesDone) \/ UNCHANGED vars
      <3>1. UNCHANGED <<hooks, flags, agent, call>> /\ (Before' => Before)
        BY <2>2 DEF Starts, BadPhase, Wire, PluginAnswers, RemoteAnswers, PluginsLoaded,
                    RemotesDone, vars, started, config, goroutines, Before
      <3>. QED
        BY <1>2, <3>1, HooksStay DEF HInv
    <2>3. CASE \/ \E m \in inbox : TuiSubmitted(m) \/ TuiReturned(m) \/ TuiMessage(m)
               \/ TuiKey \/ TuiShiftTab \/ TuiShellDone \/ TuiQuits
               \/ PrintRuns \/ PrintRunDone \/ PrintTested \/ Exit
               \/ \E r \in Run : TuiRunDone(r)
      <3>1. UNCHANGED <<hooks, flags, call>> /\ ~Before /\ ~Before'
        BY <2>3 DEF TuiSubmitted, TuiReturned, TuiMessage, TuiKey, TuiShiftTab, TuiShellDone,
                    TuiQuits, PrintRuns, PrintRunDone, PrintTested, Exit, TuiRunDone, RunDone,
                    Ends, ShiftTab, On, Unwired, started, config, goroutines, Before
      <3>2. /\ agent' \in [Run -> {"none", "starting", "turn", "gate", "tool"}]
            /\ \A r \in Run : agent'[r] \in {"gate", "tool"} => agent'[r] = agent[r]
        BY <1>2, <2>3 DEF TuiSubmitted, TuiReturned, TuiMessage, TuiKey, TuiShiftTab,
                    TuiShellDone, TuiQuits, PrintRuns, PrintRunDone, PrintTested, Exit,
                    TuiRunDone, RunDone, Ends, ShiftTab, Submitted, Returned, Start, goroutines,
                    HInv
      <3>. QED
        BY <1>2, <3>1, <3>2, HooksStay
    <2>. QED
      BY <1>2, <2>1, <2>2, <2>3, HookRunStep DEF Next
  <1>3. HInv => HooksDecide
    BY DEF HInv, HooksDecide, Summed, Settled, HooksDone
  <1>. QED
    BY <1>1, <1>2, <1>3, PTL DEF Spec
-----------------------------------------------------------------------------
(* A gate of a server comes from the one table that has its name.          *)
TInv ==
  /\ stage = "config" => servers = {} /\ connected = {} /\ \E i \in Invocations : files = i.files
  /\ servers \cup connected \subseteq Server
  /\ servers \subseteq DOMAIN plugins /\ connected \subseteq DOMAIN remotes
  /\ DOMAIN plugins \cap DOMAIN remotes = {}
  /\ stage = "load" => waiting \subseteq DOMAIN plugins
  /\ stage = "connect" => waiting \subseteq DOMAIN remotes /\ flags.mode = "tui"
  /\ connected # {} => flags.mode = "tui"
  /\ \A n \in DOMAIN remotes : remotes[n].from \in {"flag", "user"}
  /\ \A n \in Server, p \in PhaseName : <<p, n>> \in gates =>
       \/ n \in DOMAIN plugins /\ p \in plugins[n].phases
       \/ n \in DOMAIN remotes /\ p \in remotes[n].phases

LEMMA TrustedRemotes ==
  ASSUME NEW i \in Invocations, NEW n \in DOMAIN LoadRemoteConfig(TrustedFile(i.files))
  PROVE  LoadRemoteConfig(TrustedFile(i.files))[n].from \in {"flag", "user"}
  BY StartupAssumption DEF LoadRemoteConfig, TrustedFile, Valid

(* Remote servers are who the user said they are, for any files, plugins   *)
(* and answers.                                                            *)
THEOREM ServersAsTrustedHolds == Spec => []ServersAsTrusted
  <1>1. Init => TInv
    BY DEF Init, StartupInit, NoEntries, TInv
  <1>2. ASSUME TInv, [Next]_vars
        PROVE  TInv'
    <2>1. CASE Starts(InitConfig)
      <3>1. PICK i \in Invocations : files = i.files
        BY <1>2, <2>1 DEF TInv, Starts, InitConfig
      <3>2. /\ DOMAIN remotes' \cap DOMAIN plugins' = {}
            /\ \A n \in DOMAIN remotes' : remotes'[n].from \in {"flag", "user"}
        BY <2>1, <3>1, TrustedRemotes DEF Starts, InitConfig, DropCollidingRemotes
      <3>3. \A n \in Server, p \in PhaseName : <<p, n>> \notin gates'
        BY <2>1, StartupAssumption
           DEF Starts, InitConfig, DefaultGates, OwnTool, Builtin, ReadOnly
      <3>4. /\ stage = "config" /\ stage' = "load" /\ waiting' = DOMAIN plugins'
            /\ UNCHANGED <<flags, servers, connected>>
        BY <2>1 DEF Starts, InitConfig
      <3>5. servers = {} /\ connected = {}
        BY <1>2, <3>4 DEF TInv
      <3>. QED
        BY <3>2, <3>3, <3>4, <3>5 DEF TInv
    <2>2. ASSUME NEW n \in Server, Starts(PluginAnswers(n))
          PROVE  TInv'
      <3>1. /\ stage = "load" /\ n \in waiting /\ waiting' = waiting \ {n}
            /\ UNCHANGED <<stage, flags, plugins, remotes, connected>>
            /\ \/ servers' = servers \cup {n} /\ gates' = gates \cup (plugins[n].phases \X {n})
               \/ UNCHANGED <<servers, gates>>
        BY <2>2 DEF Starts, PluginAnswers, config, registry, RegisterForPhases
      <3>. QED
        BY <1>2, <3>1 DEF TInv
    <2>3. ASSUME NEW n \in Server, Starts(RemoteAnswers(n))
          PROVE  TInv'
      <3>1. /\ stage = "connect" /\ n \in waiting /\ waiting' = waiting \ {n}
            /\ UNCHANGED <<stage, flags, plugins, remotes, servers>>
            /\ \/ /\ connected' = connected \cup {n}
                  /\ gates' = gates \cup (remotes[n].phases \X {n})
               \/ UNCHANGED <<connected, gates>>
        BY <2>3 DEF Starts, RemoteAnswers, IsNext, config, registry, RegisterForPhases
      <3>. QED
        BY <1>2, <3>1 DEF TInv
    <2>4. CASE Starts(PluginsLoaded) \/ Starts(RemotesDone) \/ Starts(BadPhase) \/ UNCHANGED vars
      <3>1. /\ UNCHANGED <<files, flags, plugins, remotes, servers, connected, gates>>
            /\ stage' \in {"config", "load"} => UNCHANGED <<stage, waiting>>
            /\ stage' = "connect" => \/ UNCHANGED <<stage, waiting>>
                                     \/ flags.mode = "tui" /\ waiting' = DOMAIN remotes
        BY <2>4 DEF Starts, PluginsLoaded, RemotesDone, BadPhase, ConnectsRemotes, vars,
                    started, config, registry
      <3>. QED
        BY <1>2, <3>1 DEF TInv
    <2>5. CASE Wire
      <3>1. /\ UNCHANGED <<flags, plugins, remotes, servers, connected>>
            /\ stage' \in {"ready", "exit"}
        BY <2>5 DEF Wire, config
      <3>2. \A n \in Server, p \in PhaseName : <<p, n>> \in gates' => <<p, n>> \in gates
        BY <2>5, StartupAssumption DEF Wire, LastGates, OwnTool
      <3>. QED
        BY <1>2, <3>1, <3>2 DEF TInv
    <2>6. CASE \/ \E m \in inbox : TuiSubmitted(m) \/ TuiReturned(m) \/ TuiMessage(m)
               \/ \E r \in Run : RunSteps(r) \/ TuiRunDone(r)
               \/ TuiKey \/ TuiShiftTab \/ TuiShellDone \/ TuiQuits
               \/ PrintRuns \/ PrintRunDone \/ PrintTested \/ Exit
      <3>1. /\ UNCHANGED <<flags, plugins, remotes, gates>>
            /\ servers' \subseteq servers /\ connected' \subseteq connected
            /\ stage' \in {"ready", "exit", "gone"}
        BY <2>6 DEF TuiSubmitted, TuiReturned, TuiMessage, RunSteps, TuiRunDone, TuiKey,
                    TuiShiftTab, TuiShellDone, TuiQuits, PrintRuns, PrintRunDone, PrintTested,
                    Exit, On, Unwired, started, config, registry
      <3>. QED
        BY <1>2, <3>1 DEF TInv
    <2>. QED
      BY <1>2, <2>1, <2>2, <2>3, <2>4, <2>5, <2>6 DEF Next
  <1>3. TInv => ServersAsTrusted
    BY DEF TInv, ServersAsTrusted
  <1>. QED
    BY <1>1, <1>2, <1>3, PTL DEF Spec
-----------------------------------------------------------------------------
(* The chat bot (Hassease) and its cost router (CostRouter).               *)

USE CostRouterAssumption, HasseaseAssumption DEF CostRouterAssumption, HasseaseAssumption, Role

(* A turn has its model and has not been reported to the router yet.       *)
UnderWay == pc \in {"streaming", "approving", "waiting", "executing", "emitting"}

(* The tracker counts at least the turns since the last on the escalation  *)
(* model, and lets one begin on the task's own model within the limit only.*)
CheapRunTracked ==
  /\ model \in {TaskRole, "escalation"}
  /\ TaskRole \notin ClaudeRoles =>
       /\ pc \in {"loading", "ready", "saving"} => cheapRun <= cheapTurns
       /\ UnderWay /\ model = TaskRole =>
            cheapRun <= cheapTurns /\ cheapTurns <= MaxCheapTurns

BotInv == BotTypeOK /\ CheapRunTracked /\ NoLongCheapRun /\ GatedNeedsYes
-----------------------------------------------------------------------------
LEMMA Thresholds ==
  /\ MaxTurns \in Nat /\ MaxPolls \in Nat /\ MaxReplies \in Nat /\ MaxSaved \in Nat
  /\ MaxCheapTurns \in Nat /\ MaxUniqueFiles \in Nat /\ MaxConsecFailures \in Nat
  /\ TaskRole \in Role /\ TaskRole # "escalation"
  OBVIOUS

USE Thresholds DEF Failure, Escalating, ToolCall, NoTool

Flags == stop \in BOOLEAN /\ torn \in BOOLEAN /\ skipped \in BOOLEAN /\ asked \in BOOLEAN

Counts ==
  /\ pc \in {"off", "loading", "ready", "streaming", "approving", "waiting", "executing",
             "emitting", "saving"}
  /\ turn \in 0 .. MaxTurns /\ tool \in ToolCall \cup {NoTool} /\ failure \in Failure
  /\ whole \in 0 .. MaxSaved /\ restored \in 0 .. MaxSaved /\ polls \in 0 .. MaxPolls
  /\ mailbox \in Seq(Says) /\ replies \in 0 .. MaxReplies /\ approvals \in Nat /\ ran \in Nat

LEMMA BotInitInv == BotInit => BotInv
<1>. SUFFICES ASSUME BotInit PROVE BotInv  OBVIOUS
<1>. USE DEF BotInit, RouterInit
<1>1. BotTypeOK
  <2>1. RouterTypeOK  BY DEF RouterTypeOK
  <2>2. Flags  BY DEF Flags
  <2>3. Counts  BY DEF Counts
  <2>. QED  BY <2>1, <2>2, <2>3 DEF BotTypeOK, Flags, Counts
<1>2. CheapRunTracked /\ NoLongCheapRun /\ GatedNeedsYes
  BY DEF CheapRunTracked, UnderWay, NoLongCheapRun, GatedNeedsYes
<1>. QED  BY <1>1, <1>2 DEF BotInv

(* The steps that leave the router alone and do not touch the counts of    *)
(* approvals and gated calls; a call starts to run only in Approve, by     *)
(* itself, or in PollReply, for a yes.                                     *)
LEMMA TurnGoesOn ==
  ASSUME BotInv,
         \/ LoadRecord \/ Loaded \/ Stream \/ Approve \/ PollReply \/ PollEmpty
         \/ GiveUp \/ RunTool \/ Save \/ ReceiveFails \/ Kill \/ Interrupt \/ Reply
  PROVE  BotInv'
<1>. USE DEF BotInv, file, loading, chat, history, Deny, Running
<1>1. UNCHANGED router
  BY DEF LoadRecord, Loaded, Stream, Approve, PollReply, PollEmpty, GiveUp, RunTool, Save,
       ReceiveFails, Kill, Interrupt, Reply
<1>2. CheapRunTracked' /\ NoLongCheapRun'
  BY <1>1 DEF router, CheapRunTracked, NoLongCheapRun, UnderWay,
       LoadRecord, Loaded, Stream, Approve, PollReply, PollEmpty, GiveUp, RunTool, Save,
       ReceiveFails, Kill, Interrupt, Reply
<1>0. Flags /\ Counts  BY DEF BotTypeOK, Flags, Counts
<1>a. RouterTypeOK'  BY <1>1 DEF BotTypeOK, RouterTypeOK, router
<1>3. CASE LoadRecord \/ Loaded \/ Stream \/ Save \/ Kill \/ Interrupt
  <2>. USE <1>3 DEF LoadRecord, Loaded, Stream, Save, Kill, Interrupt
  <2>b. Flags'  BY <1>0 DEF Flags
  <2>d. torn \in BOOLEAN /\ whole' \in {whole, whole + 1} /\ (whole' # whole => whole < MaxSaved)
    BY <1>0 DEF Flags
  <2>e. restored' \in {restored, restored + 1} /\ (restored' # restored => restored < whole)
    OBVIOUS
  <2>f. /\ pc' \in {pc, "ready", "emitting", "approving", "off"}
        /\ tool' \in {tool, NoTool} \cup ToolCall /\ failure' \in {failure, "none"}
        /\ UNCHANGED <<turn, polls, mailbox, replies, approvals, ran>>
    OBVIOUS
  <2>c. Counts'
    <3>. HIDE <1>3 DEF LoadRecord, Loaded, Stream, Save, Kill, Interrupt
    <3>. QED  BY <1>0, <2>d, <2>e, <2>f DEF Counts
  <2>1. BotTypeOK'  BY <1>a, <2>b, <2>c DEF BotTypeOK, Flags, Counts
  <2>a. /\ UNCHANGED <<approvals, ran>>
        /\ pc' # "executing" \/ (pc' = pc /\ tool' = tool)
    OBVIOUS
  <2>2. GatedNeedsYes'  BY <2>a DEF GatedNeedsYes, BotTypeOK
  <2>. QED  BY <1>2, <2>1, <2>2
<1>4. CASE Approve \/ PollEmpty \/ GiveUp
  <2>. USE <1>4 DEF Approve, PollEmpty, GiveUp, NextPoll
  <2>b. Flags'  BY <1>0 DEF Flags
  <2>c. Counts'
    <3>0. polls' \in {polls, 0} \/ (polls < MaxPolls /\ polls' = polls + 1)  OBVIOUS
    <3>1. polls' \in 0 .. MaxPolls
      <4>. HIDE <1>4 DEF Approve, PollEmpty, GiveUp
      <4>. QED  BY <1>0, <3>0 DEF Counts
    <3>2. /\ pc' \in {pc, "executing", "emitting", "waiting"} /\ failure' \in {failure, "tool_error"}
          /\ UNCHANGED <<turn, tool, whole, restored, mailbox, replies, approvals, ran>>
      OBVIOUS
    <3>. QED  BY <1>0, <3>1, <3>2 DEF Counts
  <2>1. BotTypeOK'  BY <1>a, <2>b, <2>c DEF BotTypeOK, Flags, Counts
  <2>2. GatedNeedsYes'  BY DEF GatedNeedsYes, BotTypeOK
  <2>. QED  BY <1>2, <2>1, <2>2
<1>5. CASE PollReply \/ ReceiveFails
  <2>. USE <1>5 DEF PollReply, ReceiveFails, Approving
  <2>b. Flags'  BY <1>0 DEF Flags
  <2>c. Counts'
    <3>1. /\ pc' \in {pc, "executing", "emitting"} /\ failure' \in {failure, "tool_error"}
          /\ polls' \in {polls, 0} /\ approvals' \in {approvals, approvals + 1}
          /\ mailbox' = <<>>
          /\ UNCHANGED <<turn, tool, whole, restored, replies, ran>>
      OBVIOUS
    <3>2. mailbox' \in Seq(Says)  BY <3>1
    <3>. QED  BY <1>0, <3>1, <3>2 DEF Counts
  <2>1. BotTypeOK'  BY <1>a, <2>b, <2>c DEF BotTypeOK, Flags, Counts
  <2>2. GatedNeedsYes'  BY DEF GatedNeedsYes, BotTypeOK
  <2>. QED  BY <1>2, <2>1, <2>2
<1>6. CASE RunTool
  <2>. USE <1>6 DEF RunTool
  <2>b. Flags'  BY <1>0 DEF Flags
  <2>c. Counts'  BY <1>0 DEF Counts
  <2>1. BotTypeOK'  BY <1>a, <2>b, <2>c DEF BotTypeOK, Flags, Counts
  <2>2. GatedNeedsYes'  BY DEF GatedNeedsYes, BotTypeOK
  <2>. QED  BY <1>2, <2>1, <2>2
<1>7. CASE Reply
  <2>. USE <1>7 DEF Reply
  <2>b. Flags'  BY <1>0 DEF Flags
  <2>c. Counts'  BY <1>0 DEF Counts
  <2>1. BotTypeOK'  BY <1>a, <2>b, <2>c DEF BotTypeOK, Flags, Counts
  <2>2. GatedNeedsYes'  BY DEF GatedNeedsYes, BotTypeOK
  <2>. QED  BY <1>2, <2>1, <2>2
<1>. QED  BY <1>3, <1>4, <1>5, <1>6, <1>7

LEMMA LaunchStep == ASSUME BotInv, Launch PROVE BotInv'
<1>. USE DEF BotInv, Launch, FreshRouter, file, chat, history
<1>1. BotTypeOK'
  <2>0. Flags /\ Counts  BY DEF BotTypeOK, Flags, Counts
  <2>1. RouterTypeOK'  BY DEF RouterTypeOK
  <2>2. Flags'  BY <2>0 DEF Flags
  <2>3. Counts'  BY <2>0 DEF Counts
  <2>. QED  BY <2>1, <2>2, <2>3 DEF BotTypeOK, Flags, Counts
<1>2. CheapRunTracked' /\ NoLongCheapRun' /\ GatedNeedsYes'
  BY DEF CheapRunTracked, UnderWay, NoLongCheapRun, GatedNeedsYes, BotTypeOK, Running
<1>. QED  BY <1>1, <1>2

(* The router chooses: within the limit, or the escalation model.          *)
LEMMA BeginTurnStep == ASSUME BotInv, BeginTurn PROVE BotInv'
<1>. USE DEF BotInv, BeginTurn, SelectModel, Proactive, file, loading, chat, history
<1>1. BotTypeOK'  BY DEF BotTypeOK, RouterTypeOK, router
<1>2. CheapRunTracked' /\ NoLongCheapRun'
  BY DEF CheapRunTracked, UnderWay, NoLongCheapRun, BotTypeOK, RouterTypeOK, router,
       ShouldEscalate
<1>3. GatedNeedsYes'  BY DEF GatedNeedsYes, BotTypeOK
<1>. QED  BY <1>1, <1>2, <1>3

LEMMA EmitStep == ASSUME BotInv, Emit PROVE BotInv'
<1>. USE DEF BotInv, Emit, EmitTurn, file, loading, chat, history
<1>1. BotTypeOK'  BY DEF BotTypeOK, RouterTypeOK
<1>2. CheapRunTracked' /\ NoLongCheapRun'
  BY DEF CheapRunTracked, UnderWay, NoLongCheapRun, BotTypeOK, RouterTypeOK
<1>3. GatedNeedsYes'  BY DEF GatedNeedsYes, BotTypeOK
<1>. QED  BY <1>1, <1>2, <1>3

(* What the turns, the approvals and the cost router of the chat bot agree *)
(* on through every restart: the theorems below follow from it.            *)
THEOREM BotInvHolds == BotSpec => []BotInv
<1>1. BotInv /\ [BotNext]_botVars => BotInv'
  <2>. SUFFICES ASSUME BotInv, [BotNext]_botVars PROVE BotInv'  OBVIOUS
  <2>1. CASE UNCHANGED botVars
    BY <2>1 DEF BotInv, botVars, router, file, loading, chat, history, BotTypeOK, RouterTypeOK,
         CheapRunTracked, UnderWay, NoLongCheapRun, GatedNeedsYes
  <2>2. CASE BotNext
    BY <2>2, TurnGoesOn, LaunchStep, BeginTurnStep, EmitStep DEF BotNext, Step
  <2>. QED  BY <2>1, <2>2
<1>. QED  BY <1>1, BotInitInv, PTL DEF BotSpec

(* The cost router leaves the cheap model at most one turn above its limit *)
(* to itself (CostRouter), for any limits and whatever the tasks do.       *)
THEOREM NoLongCheapRunHolds == BotSpec => []NoLongCheapRun
<1>1. BotInv => NoLongCheapRun  BY DEF BotInv
<1>. QED  BY <1>1, BotInvHolds, PTL

(* A mutating tool runs at most once per y of the builder, through late,   *)
(* repeated and lost replies and restarts.                                 *)
THEOREM GatedNeedsYesHolds == BotSpec => []GatedNeedsYes
<1>1. BotInv => GatedNeedsYes  BY DEF BotInv
<1>. QED  BY <1>1, BotInvHolds, PTL

(* Every variable of the chat bot and of its router keeps its type.        *)
THEOREM BotTypeCorrect == BotSpec => []BotTypeOK
<1>1. BotInv => BotTypeOK  BY DEF BotInv
<1>. QED  BY <1>1, BotInvHolds, PTL
=============================================================================

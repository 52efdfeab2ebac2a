------------------------------- MODULE Program -------------------------------
(* The program from main to its last deferred call: Startup, the agent's    *)
(* runs, and what drives them, the TUI (Controls) or runPrint's loop over   *)
(* run and test command.                                                    *)
EXTENDS Controls

VARIABLES
  iteration,  (* runPrint's iteration                                        *)
  printing    (* where its loop is: "run", "wait" or "test"                  *)

printed == <<iteration, printing>>
vars == <<started, modes, goroutines, controls, printed>>

Init ==
  /\ StartupInit /\ AgentInit /\ ControlsInit
  /\ iteration = 0 /\ printing = "run"

(* A step of the startup changes nothing of what comes after it.            *)
Starts(step) == step /\ UNCHANGED <<modes, goroutines, controls, printed>>

(* What runTUI and runPrint do before the first run; runPrint gives up when *)
(* its flags do not agree.                                                  *)
Wire ==
  /\ stage = "wire"
  /\ gates' = gates \cup LastGates
  /\ tools' = tools \cup {g[2] : g \in LastGates}
  /\ fsm' = newPhaseFSM(flags.phase) /\ planMode' = flags.plan
  /\ stage' = IF FlagsAgree THEN "ready" ELSE "exit"
  /\ UNCHANGED <<config, waiting, servers, connected, goroutines, controls, printed>>

On(mode) == stage = "ready" /\ flags.mode = mode
-----------------------------------------------------------------------------
(* A run's goroutine goes on after p.Run returned, until main is done.      *)
RunSteps(r) ==
  /\ stage \in {"ready", "exit"} /\ AgentStep(r)
  /\ UNCHANGED <<started, modes, controls, printed>>

Unwired == UNCHANGED <<started, printed>>

TuiSubmitted(m) == On("tui") /\ Submitted(m) /\ UNCHANGED <<offered, call>> /\ Unwired

TuiReturned(m) == On("tui") /\ Returned(m) /\ UNCHANGED <<offered, call>> /\ Unwired

TuiMessage(m) ==
  On("tui") /\ (Dismissed(m) \/ Finished(m)) /\ UNCHANGED <<modes, goroutines>> /\ Unwired

TuiKey ==
  /\ On("tui") /\ (Esc \/ Leaves \/ \E what \in Prompt : Enter(what))
  /\ UNCHANGED <<modes, goroutines>> /\ Unwired

TuiShiftTab == On("tui") /\ ShiftTab /\ UNCHANGED goroutines /\ Unwired

TuiShellDone == On("tui") /\ ShellDone /\ UNCHANGED <<modes, goroutines>> /\ Unwired

TuiRunDone(r) == On("tui") /\ RunDone(r) /\ UNCHANGED modes /\ Unwired

(* Ctrl-C, or /quit, taken whatever runs: p.Run returns.                    *)
TuiQuits ==
  /\ On("tui") /\ stage' = "exit"
  /\ UNCHANGED <<config, waiting, servers, connected, registry>>
  /\ UNCHANGED <<modes, goroutines, controls, printed>>
-----------------------------------------------------------------------------
PrintRuns ==
  /\ On("print") /\ printing = "run" /\ iteration < MaxRuns
  /\ iteration' = iteration + 1 /\ printing' = "wait"
  /\ agent' = [agent EXCEPT ![iteration + 1] = "starting"]
  /\ UNCHANGED <<started, modes, offered, call, controls>>

(* No iterate mode, or the last iteration, which is not tested.             *)
LastRun == flags.iterate = 0 \/ iteration > flags.iterate

(* The run's answer is printed; its error, or the last answer, ends it all. *)
PrintRunDone ==
  /\ On("print") /\ printing = "wait" /\ Ends(iteration)
  /\ \/ /\ stage' = "exit" /\ UNCHANGED printing
     \/ /\ ~LastRun /\ printing' = "test" /\ UNCHANGED stage
  /\ UNCHANGED <<config, waiting, servers, connected, registry, modes, controls, iteration>>

(* The test command passes, or its output becomes the next prompt.          *)
PrintTested ==
  /\ On("print") /\ printing = "test"
  /\ \/ /\ stage' = "exit" /\ UNCHANGED printing
     \/ /\ printing' = "run" /\ UNCHANGED stage
  /\ UNCHANGED <<config, waiting, servers, connected, registry>>
  /\ UNCHANGED <<modes, goroutines, controls, iteration>>

(* The deferred Shutdown, and the process ends.                             *)
Exit ==
  /\ stage = "exit" /\ stage' = "gone"
  /\ servers' = {} /\ connected' = {}
  /\ UNCHANGED <<config, waiting, registry, modes, goroutines, controls, printed>>
-----------------------------------------------------------------------------
Next ==
  \/ Starts(BadPhase) \/ Starts(InitConfig)
  \/ \E n \in Server : Starts(PluginAnswers(n)) \/ Starts(RemoteAnswers(n))
  \/ Starts(PluginsLoaded) \/ Starts(RemotesDone)
  \/ Wire
  \/ \E r \in Run : RunSteps(r) \/ TuiRunDone(r)
  \/ \E m \in inbox : TuiSubmitted(m) \/ TuiReturned(m) \/ TuiMessage(m)
  \/ TuiKey \/ TuiShiftTab \/ TuiShellDone \/ TuiQuits
  \/ PrintRuns \/ PrintRunDone \/ PrintTested
  \/ Exit

Spec == Init /\ [][Next]_vars
-----------------------------------------------------------------------------
TypeOK ==
  /\ StartupType /\ AgentType /\ ControlsType
  /\ iteration \in 0 .. MaxRuns /\ printing \in {"run", "wait", "test"}

(* A remote server is connected for a person at the TUI only, as the        *)
(* trusted file has it and under no name of a stdio plugin; neither kind of *)
(* server is offered in a phase its file does not name (main.go:115, "it    *)
(* can never add, replace or redirect a remote server").                    *)
ServersAsTrusted ==
  /\ connected # {} => flags.mode = "tui"
  /\ \A n \in connected :
       /\ n \notin DOMAIN plugins
       /\ remotes[n].from \in {"flag", "user"}
       /\ \A p \in PhaseName : <<p, n>> \in gates => p \in remotes[n].phases
  /\ \A n \in servers, p \in PhaseName : <<p, n>> \in gates => p \in plugins[n].phases
=============================================================================

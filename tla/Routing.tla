------------------------------ MODULE Routing ------------------------------
(***************************************************************************)
(* internal/router: which model a request asks for.  SelectModel goes      *)
(* through the layers in order, each of which may replace the choice of    *)
(* the one before: phase default, /model, configuration file, intercore,   *)
(* environment, hardware, complexity, budget.                              *)
(***************************************************************************)
EXTENDS Naturals, FiniteSets

CONSTANTS MaxTokens,   (* BudgetConfig.MaxTokens                           *)
          DegradeAt,   (* BudgetConfig.DegradeAt, in per cent              *)
          Thresholds,  (* the input tokens at which tiers 2, 3, ... begin  *)
          Policies,    (* the configurations a process may be started with *)
          Pins,        (* what file, intercore and environment may say of a phase *)
          Overrides    (* what /model may be given                         *)

NoModel == "none"
Model == {"opus", "sonnet", "haiku", "other"}
Choice == Model \cup {NoModel}

Policy == [constrained : BOOLEAN, complexity : {"off", "shadow", "enforce"},
           budget : {"off", "advisory", "hard-stop", "graceful"},
           tracking : {"billing", "context"}]

ASSUME RoutingAssumption ==
  /\ MaxTokens \in Nat \ {0} /\ DegradeAt \in 1 .. 100
  /\ Policies \subseteq Policy /\ Overrides \subseteq Model
  /\ Pins \subseteq [file : Choice, intercore : Choice, environment : Choice]

VARIABLES
  policy,    (* hardware profile, complexity mode, budget mode             *)
  pins,      (* what the layers say of the agent's current phase           *)
  override,  (* runtimeModel, set by /model                                *)
  spent      (* BudgetTracker.spent                                        *)

routing == <<policy, pins, override, spent>>
-----------------------------------------------------------------------------
Else(choice, model) == IF choice # NoModel THEN choice ELSE model

(* phaseDefaults: opus in every phase.                                     *)
Explicit ==
  Else(pins.environment, Else(pins.intercore, Else(pins.file, Else(override, "opus"))))

Downgraded(m) == IF policy.constrained /\ m = "opus" THEN "sonnet" ELSE m

(* Classify: 1 for the smallest prompts, one more at each threshold.       *)
Tier(tokens) == 1 + Cardinality({t \in Thresholds : tokens >= t})

(* Nothing calls SetInputTokens: the classifier always sees 0 tokens.      *)
InputTokens == 0

(* ComplexityClassifier.MaybeOverride; shadow mode only records.           *)
Complexity(m) ==
  IF policy.complexity # "enforce" THEN m
  ELSE IF Tier(InputTokens) >= 4 THEN "opus"
  ELSE IF Tier(InputTokens) <= 2 THEN "haiku"
  ELSE m

UsedUp == spent >= MaxTokens

(* BudgetTracker.MaybeDegrade.                                             *)
Budgeted(m) ==
  CASE policy.budget = "hard-stop" /\ UsedUp -> NoModel
    [] policy.budget = "graceful" /\ 100 * spent >= DegradeAt * MaxTokens -> "haiku"
    [] OTHER -> m

BudgetBelowPins == Complexity(Downgraded(Else(pins.environment, Budgeted(Explicit))))

SelectModel == Budgeted(Complexity(Downgraded(Explicit)))

(* BudgetTracker.Record of a response's usage.                             *)
Recorded(usage) ==
  spent + usage.billed + (IF policy.tracking = "context" THEN usage.cached ELSE 0)
-----------------------------------------------------------------------------
RoutingInit ==
  /\ policy \in Policies /\ pins \in Pins /\ override = NoModel /\ spent = 0

(* /model with a name, or without one.                                     *)
SetModelOverride ==
  /\ override' \in Overrides \cup {NoModel}
  /\ UNCHANGED <<policy, pins, spent>>

(* The agent's phase advances: other entries of the maps apply.            *)
AdvancePhase ==
  /\ pins' \in Pins
  /\ UNCHANGED <<policy, override, spent>>

RecordUsage(usage) ==
  /\ spent' = IF policy.budget = "off" THEN spent ELSE Recorded(usage)
  /\ UNCHANGED <<policy, pins, override>>
=============================================================================

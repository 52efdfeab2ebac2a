----------------------------- MODULE CostRouter -----------------------------
(***************************************************************************)
(* internal/costrouter: the router of hassease.  It picks the cheapest     *)
(* model a turn may be served by, and a stronger one after a failure that  *)
(* Emit reported (once) or when the complexity tracker says so.  Models    *)
(* are named by their role in the configuration.                           *)
(***************************************************************************)
EXTENDS Naturals, FiniteSets

CONSTANTS ClaudeRoles,    (* the roles whose model has the claude- prefix   *)
          TaskRole,       (* the role task type and urgency ask for         *)
          Files,          (* files a turn may write or edit                 *)
          MaxCheapTurns, MaxUniqueFiles, MaxConsecFailures  (* thresholds   *)

Role == {"planning", "read", "default", "escalation"}
Escalating == {"tool_error", "hallucination", "syntax_error"}
Failure == Escalating \cup {"none", "test_failure"}

ASSUME CostRouterAssumption ==
  /\ ClaudeRoles \subseteq Role /\ TaskRole \in Role \ {"escalation"}
  /\ {MaxCheapTurns, MaxUniqueFiles, MaxConsecFailures} \subseteq Nat \ {0}

VARIABLES
  model,          (* the role of the model of the current turn             *)
  lastFailure,    (* what Emit last reported and no turn has consumed      *)
  cheapTurns,     (* turns since the last one on a claude- model           *)
  uniqueFiles,    (* files written or edited                               *)
  consecFailures, (* failed turns in a row                                 *)
  cheapRun        (* history: turns since the last on the escalation model *)

router == <<model, lastFailure, cheapTurns, uniqueFiles, consecFailures, cheapRun>>
-----------------------------------------------------------------------------
(* New.                                                                    *)
FreshRouter ==
  /\ model' = TaskRole /\ lastFailure' = "none" /\ cheapTurns' = 0
  /\ uniqueFiles' = {} /\ consecFailures' = 0 /\ cheapRun' = 0

RouterInit ==
  /\ model = TaskRole /\ lastFailure = "none" /\ cheapTurns = 0
  /\ uniqueFiles = {} /\ consecFailures = 0 /\ cheapRun = 0

ShouldEscalate ==
  \/ cheapTurns > MaxCheapTurns
  \/ Cardinality(uniqueFiles) > MaxUniqueFiles
  \/ consecFailures >= MaxConsecFailures

EscalatesOnFailures == consecFailures >= MaxConsecFailures

(* SelectModel's three answers: the escalation model for a failure, which  *)
(* is consumed; the escalation model for the tracker, which is reset; the  *)
(* model of the task type.                                                 *)
Proactive == ShouldEscalate

SelectModel ==
  \/ /\ lastFailure \in Escalating
     /\ model' = "escalation" /\ lastFailure' = "none"
     /\ UNCHANGED <<cheapTurns, uniqueFiles, consecFailures, cheapRun>>
  \/ /\ lastFailure \notin Escalating /\ Proactive
     /\ model' = "escalation"
     /\ cheapTurns' = 0 /\ uniqueFiles' = {} /\ consecFailures' = 0
     /\ UNCHANGED <<lastFailure, cheapRun>>
  \/ /\ lastFailure \notin Escalating /\ ~Proactive
     /\ model' = TaskRole
     /\ UNCHANGED <<lastFailure, cheapTurns, uniqueFiles, consecFailures, cheapRun>>

(* Emit, with tracker.observe, of a turn that failed so and touched these. *)
EmitTurn(failure, touched) ==
  /\ lastFailure' = failure
  /\ cheapTurns' = IF model \in ClaudeRoles THEN 0 ELSE cheapTurns + 1
  /\ uniqueFiles' = uniqueFiles \cup touched
  /\ consecFailures' = IF failure = "none" THEN 0 ELSE consecFailures + 1
  /\ cheapRun' = IF model = "escalation" THEN 0 ELSE cheapRun + 1
  /\ UNCHANGED model

RouterTypeOK ==
  /\ model \in Role /\ lastFailure \in Failure
  /\ cheapTurns \in Nat /\ uniqueFiles \in SUBSET Files
  /\ consecFailures \in Nat /\ cheapRun \in Nat

(* The cheap model never has more than one turn above the limit to itself: *)
(* whatever a task does, and through every reset, a turn on the escalation *)
(* model comes in between (unless the task's own model is a claude- one).  *)
NoLongCheapRun == TaskRole \notin ClaudeRoles => cheapRun <= MaxCheapTurns + 1
=============================================================================

---------------------------- MODULE ModelRequest ----------------------------
(***************************************************************************)
(* The requests of an agent: the router chooses a model, the provider the  *)
(* process was started with - possibly a local server with a cloud behind  *)
(* it (provider/local/fallback.go) - answers, and the answer's usage is    *)
(* charged to the budget.                                                  *)
(***************************************************************************)
EXTENDS Routing, ProviderStream, Wire

CONSTANTS Setups,      (* the providers a process may be started with      *)
          Histories,   (* the messages a request may have                  *)
          Usages,      (* what an answer may cost                          *)
          MaxRequests  (* bound: requests of one behaviour                 *)

(* resolveProvider: "local" is wrapped with a cloud provider.              *)
Setup == [first : Backend, cloud : {"anthropic", "claude-code", "none"}]

ASSUME RequestAssumption ==
  /\ Histories \subseteq Seq(Message)
  /\ \A s \in Setups : s \in Setup /\ (s.first = "local") = (s.cloud # "none")
  /\ \A u \in Usages : u.billed \in Nat /\ u.cached \in Nat
  /\ MaxRequests \in Nat

VARIABLES
  setup,      (* the provider                                              *)
  localDown,  (* FallbackProvider.localDown                                *)
  stage,      (* idle, or streaming                                        *)
  asked,      (* the model SelectModel chose for the current request       *)
  used,       (* the model that answers                                    *)
  session,    (* the model of the tmux session, or "none" without one      *)
  billed,     (* ghost: what the collected answers cost                    *)
  requests    (* the requests made                                         *)

request == <<setup, localDown, stage, asked, used, session, billed, requests>>
requestVars == <<routing, stream, request>>

Tiers == 1 .. 5
MaxLocalTier == 2
-----------------------------------------------------------------------------
(* SelectCloudModel of main.go.                                            *)
CloudModel(tier, model) ==
  CASE tier >= 4 -> "opus" [] tier = 3 -> "sonnet" [] OTHER -> model

(* FallbackProvider.Stream: local servers get no tools and small prompts.  *)
SkipsLocal(tools, tier) == localDown \/ tools \/ tier > MaxLocalTier

(* Who answers, with which model, when the local server replies so: the     *)
(* cloud when the local server is skipped, or its error is one to fall back *)
(* on.                                                                      *)
FallsBack == {"ErrCloudFallback", "ErrOverloaded", "ErrUnavailable"}

Answerer(model, tools, tier, reply) ==
  IF setup.first # "local" THEN [by |-> setup.first, model |-> model]
  ELSE IF SkipsLocal(tools, tier) \/ LocalError(reply) \in FallsBack
         THEN [by |-> setup.cloud, model |-> CloudModel(tier, model)]
         ELSE [by |-> "local", model |-> model]

(* The answerers of a request, whatever it needs and the server replies.    *)
Answerers ==
  LET model == SelectModel IN
  {Answerer(model, tools, tier, reply) :
     tools \in BOOLEAN, tier \in Tiers, reply \in LocalReply}

(* Without a model a backend takes the one it was configured with.         *)
Given(model) == IF model = NoModel THEN "other" ELSE model

(* A tmux session that is alive keeps the model it was spawned with; one    *)
(* that is gone, and nothing says when it goes, is replaced.                *)
IsAlive == session # "none" /\ UNCHANGED session

Spawn(model) == session' = Given(model)

(* The session an answer comes from, for a backend that has one.            *)
Session(a) ==
  IF a.by \in Tmux THEN IsAlive \/ Spawn(a.model) ELSE UNCHANGED session

Answers(a) == IF a.by \in Tmux THEN session' ELSE Given(a.model)

RequestInit ==
  /\ RoutingInit
  /\ setup \in Setups
  /\ \E health \in Health : localDown = (setup.first = "local" /\ ~ProbeHealth(health))
  /\ stage = "idle" /\ asked = NoModel /\ used = NoModel /\ session = "none"
  /\ billed = 0 /\ requests = 0
  /\ backend = setup.first /\ reader = "closed" /\ nested = FALSE /\ reason = NoReason
  /\ produced = NoAnswer /\ channel = <<>> /\ collector = "collected"
  /\ collected = NoAnswer /\ interleaved = FALSE

(* The top of a turn.                                                      *)
Ask(a) ==
  /\ stage = "idle" /\ reader = "closed" /\ requests < MaxRequests
  /\ \E history \in Histories : ~Declines(a.by, history)
  /\ Open(a.by)
  /\ Session(a) /\ used' = Answers(a)
  /\ asked' = SelectModel
  /\ stage' = "streaming" /\ requests' = requests + 1
  /\ UNCHANGED <<routing, setup, localDown, billed>>

(* Stream returns an error: the backend declines, or there is a status      *)
(* other than 200, or a process or a session that does not start or does    *)
(* not take the prompt.  The run ends; the user may start another.  No      *)
(* error of the local server ends here.                                     *)
RequestRefused(a) ==
  /\ stage = "idle" /\ reader = "closed" /\ requests < MaxRequests
  /\ a.by # "local"
  /\ \/ UNCHANGED session
     \/ Session(a) /\ \E history \in Histories : ~Declines(a.by, history)
  /\ asked' = SelectModel
  /\ requests' = requests + 1
  /\ UNCHANGED <<routing, stream, setup, localDown, stage, used, billed>>

(* The answer is complete: charge it.                                      *)
Answered ==
  /\ stage = "streaming" /\ collector = "collected" /\ reader # "crashed"
  /\ RecordUsage(collected.usage)
  /\ billed' = billed + collected.usage.billed
  /\ stage' = "idle"
  /\ UNCHANGED <<stream, setup, localDown, asked, used, session, requests>>

(* It failed: the run ends and nothing is charged.                         *)
Failed ==
  /\ stage = "streaming" /\ collector = "failed" /\ reader # "crashed"
  /\ stage' = "idle"
  /\ UNCHANGED <<routing, stream, setup, localDown, asked, used, session, billed, requests>>

(* /model and the phase matter to the next SelectModel only.               *)
Reconfigure ==
  /\ stage = "idle" /\ reader # "crashed"
  /\ SetModelOverride \/ AdvancePhase
  /\ UNCHANGED <<stream, request>>

Streams ==
  /\ stage = "streaming"
  /\ FarSide \/ CollectEvent \/ CancelStream \/ \E u \in Usages : FarEnd(u)
  /\ UNCHANGED <<routing, request>>

RequestNext ==
  \/ \E a \in Answerers : Ask(a) \/ RequestRefused(a)
  \/ Answered \/ Failed \/ Reconfigure \/ Streams

RequestSpec == RequestInit /\ [][RequestNext]_requestVars

(* The goroutine and the loop go on, and whoever answers comes to an end   *)
(* of its answer; nobody need cancel.                                      *)
Ends == stage = "streaming" /\ (\E u \in Usages : FarEnd(u)) /\ UNCHANGED <<routing, request>>
LoopReads == stage = "streaming" /\ CollectEvent /\ UNCHANGED <<routing, request>>

FairRequestSpec ==
  /\ RequestSpec
  /\ WF_requestVars(Ends) /\ WF_requestVars(LoopReads)
  /\ WF_requestVars(Answered) /\ WF_requestVars(Failed)
-----------------------------------------------------------------------------
(* What the loop collected is what was sent: every text delta, every call  *)
(* with its own fragments in order, the stop reason - unless the server    *)
(* went back to an earlier call (stream.go Collect, loop.go                *)
(* collectWithCallbacks).                                                  *)
CollectsWhatWasSent ==
  collector = "collected" /\ ~interleaved =>
    /\ collected.text = produced.text
    /\ collected.calls = produced.calls
    /\ collected.stop = produced.stop

(* An error is the last thing a backend sends: when the loop has stopped   *)
(* reading, no goroutine is left that would wait for room in the channel.  *)
NothingAfterError ==
  collector = "failed" => channel = <<>> /\ reader \in {"closed", "crashed"}

(* A graceful budget binds: once what the answers cost has reached the     *)
(* threshold, every request asks for the cheapest model, whatever /model,  *)
(* phase, environment, hardware and complexity say (router.go SelectModel).*)
DegradedForGood ==
  /\ stage = "streaming"
  /\ policy.budget = "graceful" /\ 100 * billed >= DegradeAt * MaxTokens
  => asked = "haiku"

(* Every answer comes to an end and the loop is told, unless the claude    *)
(* process is stuck on a pipe nobody reads, or the goroutine panicked.     *)
RequestEnds ==
  stage = "streaming" ~> stage = "idle" \/ reader \in {"jammed", "crashed"}

(* "Budget degradation (overrides everything when budget is exhausted)"    *)
(* (router.go:127): the model that answers is the degraded one.            *)
BudgetOverridesEverything ==
  /\ stage = "streaming"
  /\ policy.budget = "graceful" /\ UsedUp
  => used = "haiku"
=============================================================================

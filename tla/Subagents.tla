------------------------------ MODULE Subagents ------------------------------
(***************************************************************************)
(* The Agent tool and the subagent runner: calls of AgentTool.Execute one  *)
(* after the other (the loop runs them serially, the tool is no            *)
(* ConcurrencyClassifier), each a Runner.Run whose goroutines take a slot, *)
(* reserve their file patterns with the `ic coordination` command, run a   *)
(* turn loop under a deadline, flush its evidence and release in a         *)
(* background goroutine.  Run names the tasks of every call sub-0, sub-1,  *)
(* ...: the IDs are Subs in each call, and they are the owners ic knows.   *)
(***************************************************************************)
EXTENDS Naturals, FiniteSets

CONSTANTS Subs,          (* the IDs sub-<i> of the tasks of one Run        *)
          Patterns,      (* file patterns; distinct ones do not overlap     *)
          Tasks,         (* what a call may ask for: a type and its patterns *)
          Concurrency,   (* what RunnerConfig.MaxConcurrent may be          *)
          MaxCalls,      (* bound: Agent calls                              *)
          MaxTurns       (* bound: evidence events of one subagent          *)

Nobody == "nobody"
Call == 0 .. MaxCalls             (* 0: none yet                           *)
Kind == {"unknown", "reader", "writer"}   (* not registered, ReadOnly, or not *)

ASSUME SubagentsAssumption ==
  /\ Nobody \notin Subs /\ IsFiniteSet(Subs)
  /\ Tasks \subseteq [kind : Kind, wants : SUBSET Patterns]
  /\ Concurrency \subseteq Nat \ {0} /\ MaxCalls \in Nat /\ MaxTurns \in Nat

VARIABLES
  ic,        (* the ic binary was found at start                           *)
  maxConcurrent, (* RunnerConfig.MaxConcurrent                             *)
  call,      (* the current Agent call                                     *)
  task,      (* what it asks of each ID                                    *)
  todo,      (* the patterns each has still to reserve                     *)
  pc,        (* where its goroutine is                                     *)
  sem,       (* the goroutines that hold a slot                            *)
  result,    (* results[i]                                                 *)
  events,    (* evidence its emitter has buffered                          *)
  parent,    (* how much of it the parent emitter has received             *)
  holder,    (* ic: the owner of each pattern                              *)
  releases,  (* release commands under way: of which call, for which owner *)
  unreleased,(* owners that hold something a release command did not drop  *)
  lapsed,    (* history: patterns whose TTL ran out on a task at work      *)
  dropped    (* history: those an earlier call's release took from one     *)

runner == <<ic, maxConcurrent>>
request == <<call, task>>
progress == <<sem, result, events, parent>>
coordination == <<holder, releases, unreleased, lapsed, dropped>>
vars == <<runner, request, todo, pc, progress, coordination>>
-----------------------------------------------------------------------------
Returned == \A s \in Subs : pc[s] = "done"

Held(s) == {p \in Patterns : holder[p] = s}

Writes(s) == ic /\ task[s].kind = "writer" /\ task[s].wants # {}

(* Between its first Reserve and its Release.                              *)
Working(s) == pc[s] \in {"reserving", "running", "flushing", "releasing"}

Init ==
  /\ ic \in BOOLEAN /\ maxConcurrent \in Concurrency /\ call = 0
  /\ task = [s \in Subs |-> [kind |-> "reader", wants |-> {}]]
  /\ todo = [s \in Subs |-> {}] /\ pc = [s \in Subs |-> "done"]
  /\ sem = {} /\ result = [s \in Subs |-> "none"]
  /\ events = [s \in Subs |-> 0] /\ parent = [s \in Subs |-> 0]
  /\ holder = [p \in Patterns |-> Nobody]
  /\ releases = {} /\ unreleased = {} /\ lapsed = {} /\ dropped = {}

(* Execute and Run: a semaphore of its own, and a goroutine and a result   *)
(* slot for every task.                                                    *)
StartCall ==
  /\ Returned /\ call < MaxCalls
  /\ call' = call + 1
  /\ task' \in [Subs -> Tasks]
  /\ todo' = [s \in Subs |-> task'[s].wants] /\ pc' = [s \in Subs |-> "queued"]
  /\ result' = [s \in Subs |-> "none"]
  /\ sem' = {} /\ events' = [s \in Subs |-> 0] /\ parent' = [s \in Subs |-> 0]
  /\ UNCHANGED <<runner, coordination>>

(* sem <- struct{}{}, then the registry's answer: an unregistered type     *)
(* fails, a writer with patterns reserves them when ic is there, everyone  *)
(* else runs.                                                              *)
Start(s) ==
  /\ pc[s] = "queued" /\ Cardinality(sem) < maxConcurrent
  /\ sem' = sem \cup {s}
  /\ \/ /\ task[s].kind = "unknown"
        /\ pc' = [pc EXCEPT ![s] = "leaving"]
        /\ result' = [result EXCEPT ![s] = "failed"]
     \/ /\ task[s].kind # "unknown" /\ Writes(s)
        /\ pc' = [pc EXCEPT ![s] = "reserving"] /\ UNCHANGED result
     \/ /\ task[s].kind # "unknown" /\ ~Writes(s)
        /\ pc' = [pc EXCEPT ![s] = "running"] /\ UNCHANGED result
  /\ UNCHANGED <<runner, request, todo, events, parent, coordination>>

(* ic coordination reserve --exclusive exits 0: no other owner holds it.   *)
Granted(s, p) == holder[p] \in {Nobody, s}

FirstWasReserved(s, p) == TRUE

(* Reserve has come to the end of its patterns.                            *)
LastReserved(s, p) == todo[s] = {p}

Reserve(s) ==
  /\ pc[s] = "reserving"
  /\ \E p \in todo[s] :
       /\ Granted(s, p)
       /\ holder' = [holder EXCEPT ![p] = s]
       /\ todo' = [todo EXCEPT ![s] = @ \ {p}]
       /\ IF LastReserved(s, p)
            THEN pc' = [pc EXCEPT ![s] = "running"]
            ELSE UNCHANGED pc
  /\ UNCHANGED <<runner, request, sem, result, events, parent, releases, unreleased, lapsed, dropped>>

(* Release: a command in a goroutine of its own.                           *)
Releasing(s) == releases \cup {<<call, s>>}

NotReleasing(s) == releases

(* It exits with an error: a conflict with another task or with an owner   *)
(* outside this process, or a command that failed or ran into its five     *)
(* seconds, perhaps after ic had granted the pattern.                      *)
Undo(s) == Releasing(s)

Refuse(s) ==
  /\ pc[s] = "reserving"
  /\ \E p \in todo[s] :
       holder' \in {holder} \cup
                   (IF Granted(s, p) THEN {[holder EXCEPT ![p] = s]} ELSE {})
  /\ releases' = Undo(s)
  /\ pc' = [pc EXCEPT ![s] = "leaving"]
  /\ result' = [result EXCEPT ![s] = "failed"]
  /\ UNCHANGED <<runner, request, todo, sem, events, parent, unreleased, lapsed, dropped>>

(* One turn of the subagent's loop, whose evidence the emitter buffers.    *)
Turn(s) ==
  /\ pc[s] = "running" /\ events[s] < MaxTurns
  /\ events' = [events EXCEPT ![s] = @ + 1]
  /\ UNCHANGED <<runner, request, todo, pc, sem, result, parent, coordination>>

(* The loop returns, with an answer or with an error: the deadline's, the  *)
(* parent's cancellation, the provider's.                                  *)
LoopReturns(s) ==
  /\ pc[s] = "running"
  /\ \E r \in {"done", "failed"} : result' = [result EXCEPT ![s] = r]
  /\ pc' = [pc EXCEPT ![s] = "flushing"]
  /\ UNCHANGED <<runner, request, todo, sem, events, parent, coordination>>

(* The deferred Flush hands the parent emitter all there is, on every path *)
Flushed(s) == events[s]

Flush(s) ==
  /\ pc[s] = "flushing"
  /\ parent' = [parent EXCEPT ![s] = Flushed(s)]
  /\ pc' = [pc EXCEPT ![s] = "releasing"]
  /\ UNCHANGED <<runner, request, todo, sem, result, events, coordination>>

FreedOnSuccess(s) == IF result[s] = "done" THEN sem \ {s} ELSE sem

(* ... then the deferred Release of a task that reserved, and the slot,    *)
(* whatever became of the task; wg.Done.                                   *)
Freed(s) == sem \ {s}

Leave(s) ==
  /\ pc[s] \in {"releasing", "leaving"}
  /\ releases' = IF pc[s] = "releasing" /\ Writes(s) THEN Releasing(s) ELSE releases
  /\ sem' = Freed(s) /\ pc' = [pc EXCEPT ![s] = "done"]
  /\ lapsed' = lapsed \ ({s} \X Patterns) /\ dropped' = dropped \ ({s} \X Patterns)
  /\ UNCHANGED <<runner, request, todo, result, events, parent, holder, unreleased>>
-----------------------------------------------------------------------------
(* ic runs a release command: all the owner holds, whichever call asked.   *)
ReleaseRuns ==
  \E r \in releases :
    /\ releases' = releases \ {r}
    /\ holder' = [p \in Patterns |-> IF holder[p] = r[2] THEN Nobody ELSE holder[p]]
    /\ unreleased' = unreleased \ {r[2]}
    /\ dropped' = IF r[1] # call /\ Working(r[2])
                  THEN dropped \cup ({r[2]} \X Held(r[2])) ELSE dropped
    /\ UNCHANGED <<runner, request, todo, pc, progress, lapsed>>

(* It fails or runs into its five seconds, and nobody looks.               *)
ReleaseFails ==
  \E r \in releases :
    /\ releases' = releases \ {r}
    /\ unreleased' = IF Held(r[2]) = {} THEN unreleased ELSE unreleased \cup {r[2]}
    /\ UNCHANGED <<runner, request, todo, pc, progress, holder, lapsed, dropped>>

(* A reservation's TTL runs out.  It is the subagent's timeout in whole    *)
(* seconds, counted from the grant; the deadline counts from the last one. *)
Expire ==
  \E p \in Patterns :
    /\ holder[p] # Nobody
    /\ holder' = [holder EXCEPT ![p] = Nobody]
    /\ lapsed' = lapsed \cup ({s \in Subs : Working(s) /\ holder[p] = s} \X {p})
    /\ unreleased' = {s \in unreleased : Held(s) # {p}}
    /\ UNCHANGED <<runner, request, todo, pc, progress, releases, dropped>>

Subagent(s) ==
  \/ Start(s) \/ Reserve(s) \/ Refuse(s) \/ Turn(s) \/ LoopReturns(s)
  \/ Flush(s) \/ Leave(s)

Next ==
  \/ StartCall \/ \E s \in Subs : Subagent(s)
  \/ ReleaseRuns \/ ReleaseFails \/ Expire

Spec == Init /\ [][Next]_vars

(* Goroutines are scheduled; ic's commands end within five seconds; the    *)
(* loop ends, its context at the latest with the deadline (a provider is   *)
(* taken to obey its context).  Nobody owes another Agent call.            *)
Fairness == \A s \in Subs :
  /\ WF_vars(Reserve(s) \/ Refuse(s)) /\ WF_vars(LoopReturns(s))
  /\ WF_vars(Start(s)) /\ WF_vars(Flush(s)) /\ WF_vars(Leave(s))

FairSpec == Spec /\ Fairness
-----------------------------------------------------------------------------
TypeOK ==
  /\ ic \in BOOLEAN /\ maxConcurrent \in Concurrency /\ call \in Call
  /\ task \in [Subs -> [kind : Kind, wants : SUBSET Patterns]]
  /\ todo \in [Subs -> SUBSET Patterns]
  /\ pc \in [Subs -> {"queued", "reserving", "running", "flushing",
                      "releasing", "leaving", "done"}]
  /\ sem \in SUBSET Subs /\ result \in [Subs -> {"none", "done", "failed"}]
  /\ events \in [Subs -> 0 .. MaxTurns] /\ parent \in [Subs -> 0 .. MaxTurns]
  /\ holder \in [Patterns -> Subs \cup {Nobody}]
  /\ releases \in SUBSET (Call \X Subs) /\ unreleased \in SUBSET Subs
  /\ lapsed \in SUBSET (Subs \X Patterns)
  /\ dropped \in SUBSET (Subs \X Patterns)

(* Two writers of one Run work on one pattern together only when a         *)
(* reservation ran out or was dropped: a subagent starts only once the     *)
(* whole of its pattern list is granted (reservation.go).                  *)
WritersApart ==
  \A s, t \in Subs : \A p \in task[s].wants \cap task[t].wants :
    s # t /\ pc[s] = "running" /\ pc[t] = "running" /\ Writes(s) /\ Writes(t)
      => {<<s, p>>, <<t, p>>} \cap (lapsed \cup dropped) # {}

(* No reservation is left behind: while ic holds a pattern for a task ID,  *)
(* a task of that ID is still at work, or a release for it is under way,   *)
(* or the last one was cut short.  This is about a Reserve that fails half *)
(* way through its patterns (runner.go, the Release after the error).      *)
ReleasedInTheEnd ==
  \A p \in Patterns : holder[p] \in Subs =>
    LET s == holder[p]
    IN  \/ Working(s)
        \/ \E c \in Call : <<c, s>> \in releases
        \/ s \in unreleased

(* When its goroutine is done, the parent emitter has every event of a     *)
(* subagent, failed or not, and none of them twice.                        *)
EvidenceOnce ==
  \A s \in Subs : parent[s] <= events[s] /\ (pc[s] = "done" => parent[s] = events[s])

(* The semaphore: no more subagents than MaxConcurrent are past Start,     *)
(* whichever way they leave it.                                            *)
BoundedConcurrency ==
  Cardinality({s \in Subs : pc[s] \notin {"queued", "done"}}) <= maxConcurrent

(* Every Agent call returns: slots come back on every path, and the        *)
(* deadline ends every loop.                                               *)
RunReturns == \A n \in 1 .. MaxCalls : (call = n) ~> (call = n /\ Returned)

(* What types.go and reservation.go promise: the ID is unique, and the     *)
(* reservations are the owner's until it releases them or their TTL ends.  *)
(* Every call's first task is sub-0, so a release command still under way  *)
(* from an earlier call takes the reservations of the next one.            *)
KeepsReservation ==
  \A s \in Subs : pc[s] = "running" /\ Writes(s) =>
    \A p \in task[s].wants : holder[p] = s \/ <<s, p>> \in lapsed
=============================================================================

------------------------------ MODULE ToolExec ------------------------------
(***************************************************************************)
(* The execution of one assistant message's tool calls by                  *)
(* internal/agentloop: executeToolsWithCallbacks and what it calls.        *)
(* Calls are partitioned into batches; each batch is gated serially        *)
(* (PreToolUse hook, then approver), executed in parallel goroutines when  *)
(* it is concurrency-safe and more than one call was approved, and then    *)
(* collected in call order.  The main goroutine, the worker goroutines,    *)
(* the background PostToolUse goroutines and the user's cancellation       *)
(* interleave.                                                             *)
(***************************************************************************)
EXTENDS Integers, FiniteSets

CONSTANTS N,            (* tool calls in the assistant message           *)
          MaxParallel   (* maxParallelToolCalls: the semaphore's width   *)

ASSUME ToolExecAssumption == /\ N \in Nat \ {0}
                             /\ MaxParallel \in Nat \ {0}

Ids == 1 .. N

(* The kinds of call the loop tells apart: "read" declares itself safe;    *)
(* "shell" is a read-only bash command, safe and error-propagating;        *)
(* "write" is every unsafe call (write, edit, an MCP tool, other bash);    *)
(* "unknown" names no registered tool.                                     *)
Kind == {"read", "shell", "write", "unknown"}

Safe(k) == k \in {"read", "shell"}

Propagates(k) == k = "shell"

Outcome == {"ok", "err", "panic", "killed"}

VARIABLES
  kind,         (* the calls                                               *)
  hasApprover,  (* SetToolApprover was called                              *)
  pc,           (* the loop goroutine                                      *)
  lo, hi,       (* the current batch is lo .. hi                           *)
  cur,          (* the call the gate or collect phase is at                *)
  granted,      (* calls that passed the gate                              *)
  worker,       (* the execution of each call                              *)
  outcome,      (* what Execute gave, as sent on resultCh                  *)
  result,       (* totalResults: the tool_result block of each call        *)
  siblingStop,  (* propagatingCtx of the current batch is cancelled        *)
  ctxDone,      (* the run's context is cancelled                          *)
  starts,       (* StreamToolStart events emitted per call                 *)
  completes,    (* StreamToolComplete events emitted per call              *)
  postHook      (* the background PostToolUse goroutine of each call       *)

vars == <<kind, hasApprover, pc, lo, hi, cur, granted, worker, outcome, result,
          siblingStop, ctxDone, starts, completes, postHook>>

inputs == <<kind, hasApprover>>
place  == <<lo, hi, granted>>
events == <<starts, completes>>
-----------------------------------------------------------------------------
BatchByLastCallOnly(l, h) ==
  /\ \A k \in l .. h - 1 : Safe(kind[k])
  /\ h = N \/ ~Safe(kind[h])

(* A batch is a maximal run of safe calls, or one unsafe call.             *)
IsBatch(l, h) ==
  IF Safe(kind[l])
    THEN /\ \A k \in l .. h : Safe(kind[k])
         /\ h = N \/ ~Safe(kind[h + 1])
    ELSE h = l

Approved == granted \cap (lo .. hi)

InParallel == Safe(kind[lo]) /\ Cardinality(Approved) > 1

Running == {i \in Ids : worker[i] = "running"}

SlotWithoutRelease ==
  Cardinality({i \in Approved : worker[i] \in {"running", "done"}}) < MaxParallel

(* The semaphore has room; the serial path has no semaphore.               *)
HasSlot == InParallel => Cardinality(Running) < MaxParallel

CancelledForEverySibling(i) == ctxDone \/ (InParallel /\ siblingStop)

(* The context call i runs under is cancelled: only propagating calls of a *)
(* parallel batch run under propagatingCtx.                                *)
Cancelled(i) ==
  \/ ctxDone
  \/ InParallel /\ Propagates(kind[i]) /\ siblingStop

JoinedByFirst == \E i \in Approved : worker[i] = "done"

(* wg.Wait in the parallel path, falling off the loop in the serial one.   *)
Joined == \A i \in Approved : worker[i] = "done"

(* Phase 3 walks the approved calls of the batch only.                     *)
Collects(i) == i \in granted

(* What Execute may answer: an unknown tool is an error, a tool notices a  *)
(* cancelled context or not.                                               *)
OutcomesOf(i) ==
  IF kind[i] = "unknown" THEN {"err"}
  ELSE {"ok", "err", "panic"} \cup (IF Cancelled(i) THEN {"killed"} ELSE {})
-----------------------------------------------------------------------------
(* collectWithCallbacks has already emitted one StreamToolStart per call.  *)
Init ==
  /\ kind \in [Ids -> Kind]
  /\ hasApprover \in BOOLEAN
  /\ pc = "batch" /\ lo = 1 /\ hi = 0 /\ cur = 1
  /\ granted = {}
  /\ worker = [i \in Ids |-> "idle"]
  /\ outcome = [i \in Ids |-> "none"]
  /\ result = [i \in Ids |-> "none"]
  /\ siblingStop = FALSE /\ ctxDone = FALSE
  /\ starts = [i \in Ids |-> 1]
  /\ completes = [i \in Ids |-> 0]
  /\ postHook = [i \in Ids |-> "none"]

OpenBatch ==
  /\ pc = "batch" /\ lo <= N
  /\ \E h \in {h \in lo .. N : IsBatch(lo, h)} : hi' = h
  /\ pc' = "gate" /\ cur' = lo
  /\ UNCHANGED <<inputs, lo, granted, worker, outcome, result, siblingStop, ctxDone,
                 events, postHook>>

ReturnResults ==
  /\ pc = "batch" /\ lo > N
  /\ pc' = "returned"
  /\ UNCHANGED <<inputs, place, cur, worker, outcome, result, siblingStop, ctxDone,
                 events, postHook>>

(* gateToolCall's deny: the error result and a start/complete pair.        *)
Deny ==
  /\ result' = [result EXCEPT ![cur] = "denied"]
  /\ starts' = [starts EXCEPT ![cur] = @ + 1]
  /\ completes' = [completes EXCEPT ![cur] = @ + 1]
  /\ pc' = "gate" /\ cur' = cur + 1
  /\ UNCHANGED granted

Grant ==
  /\ granted' = granted \cup {cur}
  /\ pc' = "gate" /\ cur' = cur + 1
  /\ UNCHANGED <<result, events>>

(* gateToolCall up to the approver: "ask" without one is a denial.         *)
GateHook(decision) ==
  /\ pc = "gate" /\ cur <= hi
  /\ \/ decision = "deny" /\ Deny
     \/ decision = "ask" /\ ~hasApprover /\ Deny
     \/ decision = "allow" /\ ~hasApprover /\ Grant
     \/ decision # "deny" /\ hasApprover
        /\ pc' = "ask" /\ UNCHANGED <<cur, granted, result, events>>
  /\ UNCHANGED <<inputs, lo, hi, worker, outcome, siblingStop, ctxDone, postHook>>

(* The blocking approver call returns.                                     *)
ApproverAnswers(yes) ==
  /\ pc = "ask"
  /\ IF yes THEN Grant ELSE Deny
  /\ UNCHANGED <<inputs, lo, hi, worker, outcome, siblingStop, ctxDone, postHook>>

(* The gate phase is over: with nothing approved the loop moves on,        *)
(* otherwise executeBatchParallel or executeBatchSerial takes the batch.   *)
CloseGate ==
  /\ pc = "gate" /\ cur > hi
  /\ IF Approved = {}
       THEN pc' = "batch" /\ lo' = hi + 1 /\ UNCHANGED <<worker, siblingStop>>
       ELSE /\ pc' = "exec" /\ siblingStop' = FALSE /\ UNCHANGED lo
            /\ worker' = [i \in Ids |-> IF i \in Approved THEN "queued" ELSE worker[i]]
  /\ UNCHANGED <<inputs, hi, cur, granted, outcome, result, ctxDone, events, postHook>>

(* A worker acquires the semaphore and calls Execute; serially, the loop   *)
(* goroutine reaches the call.                                             *)
Launch(i) ==
  /\ pc = "exec" /\ worker[i] = "queued"
  /\ HasSlot
  /\ InParallel \/ \A j \in Approved : j < i => worker[j] = "done"
  /\ worker' = [worker EXCEPT ![i] = "running"]
  /\ UNCHANGED <<inputs, pc, place, cur, outcome, result, siblingStop, ctxDone, events,
                 postHook>>

(* executeOne up to its single send, with the deferred semaphore release:  *)
(* an error of a propagating call cancels its propagating siblings.  A     *)
(* panic is recovered here and nowhere else.                               *)
Finish(i) ==
  /\ pc = "exec" /\ worker[i] = "running"
  /\ \E o \in OutcomesOf(i) :
       /\ InParallel \/ o # "panic"
       /\ outcome' = [outcome EXCEPT ![i] = o]
       /\ siblingStop' = (siblingStop \/ (InParallel /\ Propagates(kind[i])
                                          /\ o \in {"err", "killed"}))
  /\ worker' = [worker EXCEPT ![i] = "done"]
  /\ UNCHANGED <<inputs, pc, place, cur, result, ctxDone, events, postHook>>

(* executeBatchSerial has no recover: a panicking tool ends the process.   *)
SerialPanic(i) ==
  /\ pc = "exec" /\ worker[i] = "running"
  /\ ~InParallel /\ "panic" \in OutcomesOf(i)
  /\ pc' = "crashed"
  /\ UNCHANGED <<inputs, place, cur, worker, outcome, result, siblingStop, ctxDone, events,
                 postHook>>

(* The drain of resultCh into the slots, by index.                         *)
Join ==
  /\ pc = "exec" /\ Joined
  /\ result' = [i \in Ids |-> IF i \in Approved THEN outcome[i] ELSE result[i]]
  /\ pc' = "collect" /\ cur' = lo
  /\ UNCHANGED <<inputs, place, worker, outcome, siblingStop, ctxDone, events, postHook>>

Collect ==
  /\ pc = "collect" /\ cur <= hi
  /\ IF Collects(cur)
       THEN /\ completes' = [completes EXCEPT ![cur] = @ + 1]
            /\ postHook' = [postHook EXCEPT ![cur] = "running"]
       ELSE UNCHANGED <<completes, postHook>>
  /\ cur' = cur + 1
  /\ UNCHANGED <<inputs, pc, place, worker, outcome, result, siblingStop, ctxDone, starts>>

CloseBatch ==
  /\ pc = "collect" /\ cur > hi
  /\ pc' = "batch" /\ lo' = hi + 1
  /\ UNCHANGED <<inputs, hi, cur, granted, worker, outcome, result, siblingStop, ctxDone,
                 events, postHook>>

(* The advisory hook runs on context.Background, past the turn's end too.  *)
PostHookEnds(i) ==
  /\ pc # "crashed" /\ postHook[i] = "running"
  /\ postHook' = [postHook EXCEPT ![i] = "done"]
  /\ UNCHANGED <<inputs, pc, place, cur, worker, outcome, result, siblingStop, ctxDone,
                 events>>

CancelRun ==
  /\ pc \notin {"returned", "crashed"} /\ ~ctxDone
  /\ ctxDone' = TRUE
  /\ UNCHANGED <<inputs, pc, place, cur, worker, outcome, result, siblingStop, events,
                 postHook>>

Gate == \/ \E d \in {"allow", "ask", "deny"} : GateHook(d)
        \/ \E yes \in BOOLEAN : ApproverAnswers(yes)

LoopStep == OpenBatch \/ ReturnResults \/ CloseGate \/ Join \/ Collect \/ CloseBatch

WorkerStep(i) == Launch(i) \/ Finish(i) \/ SerialPanic(i)

Next ==
  \/ LoopStep
  \/ Gate
  \/ \E i \in Ids : WorkerStep(i)
  \/ \E i \in Ids : PostHookEnds(i)
  \/ CancelRun

Spec == Init /\ [][Next]_vars

(* The Go scheduler runs every goroutine; tools, hooks and the approver    *)
(* return (tools have timeouts, the TUI drains a pending approval on       *)
(* quit).                                                                  *)
FairSpec ==
  /\ Spec
  /\ WF_vars(LoopStep) /\ WF_vars(Gate)
  /\ \A i \in Ids : WF_vars(WorkerStep(i))
-----------------------------------------------------------------------------
TypeOK ==
  /\ kind \in [Ids -> Kind] /\ hasApprover \in BOOLEAN
  /\ pc \in {"batch", "gate", "ask", "exec", "collect", "returned", "crashed"}
  /\ lo \in 1 .. N + 1 /\ hi \in 0 .. N /\ cur \in 1 .. N + 1
  /\ granted \in SUBSET Ids
  /\ worker \in [Ids -> {"idle", "queued", "running", "done"}]
  /\ outcome \in [Ids -> Outcome \cup {"none"}]
  /\ result \in [Ids -> Outcome \cup {"none", "denied"}]
  /\ siblingStop \in BOOLEAN /\ ctxDone \in BOOLEAN
  /\ starts \in [Ids -> 1 .. 2] /\ completes \in [Ids -> 0 .. 1]
  /\ postHook \in [Ids -> {"none", "running", "done"}]

(* The approver is not reentrant and hooks gate serially: while the gate   *)
(* phase or the user's prompt is open, no call of this turn is waiting to  *)
(* run or running (executeToolsWithCallbacks, phase 1).                    *)
GateIsQuiet ==
  pc \in {"gate", "ask", "batch", "collect"} =>
    \A i \in Ids : worker[i] \notin {"queued", "running"}

(* At most maxParallelToolCalls calls run at once in a parallel batch, and *)
(* exactly one at a time otherwise (the semaphore; the serial path).       *)
BoundedParallelism ==
  /\ Cardinality(Running) <= MaxParallel
  /\ pc = "exec" /\ ~InParallel => Cardinality(Running) <= 1

SameBatch(i, j) == \A k \in Ids : (i <= k /\ k <= j) \/ (j <= k /\ k <= i) => Safe(kind[k])

(* A call is killed only by the user's cancellation or by the error of     *)
(* another propagating call of its own batch; a panicking sibling or a     *)
(* read's error never kills anyone (propagatingCtx).                       *)
KilledByASibling ==
  \A i \in Ids : outcome[i] = "killed" =>
    \/ ctxDone
    \/ /\ Propagates(kind[i])
       /\ \E j \in Ids \ {i} : /\ Propagates(kind[j]) /\ outcome[j] = "err"
                               /\ SameBatch(i, j)

(* When the results message is built, every call has exactly one result:   *)
(* denied if the gate refused it, otherwise what its own execution sent,   *)
(* and its completion was announced once.                                  *)
EveryCallAnswered ==
  pc = "returned" => \A i \in Ids :
    /\ result[i] = IF i \in granted THEN outcome[i] ELSE "denied"
    /\ result[i] # "none"
    /\ completes[i] = 1

(* The start and complete events of a call pair up when the turn is over   *)
(* (loop.go: deny "Emits StreamToolStart + StreamToolComplete for denied   *)
(* calls to maintain TUI pairing").                                        *)
EventsPaired == pc = "returned" => starts = completes

(* The turn's tool phase ends: no lost wakeup, no worker left without a    *)
(* semaphore slot, no batch reopened.                                      *)
TurnEnds == <>(pc \in {"returned", "crashed"})

(* The promise of ToolTurn: batches, goroutines and gates implement it.    *)
StatusOf(i) ==
  IF result[i] = "denied" THEN "refused"
  ELSE IF worker[i] = "running" THEN "running"
  ELSE IF worker[i] = "done" THEN "answered"
  ELSE "pending"

Turn == INSTANCE ToolTurn WITH
          safe <- [i \in Ids |-> Safe(kind[i])],
          status <- [i \in Ids |-> StatusOf(i)]

ImplementsToolTurn == Turn!Spec
=============================================================================

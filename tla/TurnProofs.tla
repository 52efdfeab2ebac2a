----------------------------- MODULE TurnProofs -----------------------------
(***************************************************************************)
(* Proofs about the two halves of a turn: the tools of an answer           *)
(* (ToolExec), for every number of calls, every mix of kinds and every     *)
(* semaphore width, and the answer itself (ModelRequest), for every        *)
(* backend, channel capacity and configuration of the router.              *)
(***************************************************************************)
EXTENDS ToolExec, ModelRequest, FiniteSetTheorems, SequenceTheorems, TLAPS

InBatch == pc \in {"gate", "ask", "exec", "collect"}

(* The first call the gate has not decided.                                *)
Frontier == IF pc = "batch" THEN lo ELSE IF pc \in {"gate", "ask"} THEN cur ELSE hi + 1

(* The open batch is one unsafe call or safe calls only.                   *)
BatchShape ==
  InBatch => /\ lo <= hi /\ hi <= N
             /\ Safe(kind[lo]) => \A k \in lo .. hi : Safe(kind[k])
             /\ ~Safe(kind[lo]) => hi = lo

CursorInBatch ==
  /\ pc = "gate" => lo <= cur /\ cur <= hi + 1
  /\ pc = "ask" => lo <= cur /\ cur <= hi
  /\ pc = "collect" => lo <= cur /\ cur <= hi + 1
  /\ pc \in {"batch", "returned"} => lo = hi + 1
  /\ pc = "returned" => lo > N
  /\ pc = "crashed" => lo <= hi

(* Nothing has happened to the calls the gate has not reached.             *)
Fresh ==
  \A i \in Ids : i >= Frontier =>
    /\ i \notin granted
    /\ worker[i] = "idle" /\ result[i] = "none"
    /\ starts[i] = 1 /\ completes[i] = 0

(* A call the gate has decided and not granted is denied, for good.        *)
Refused ==
  \A i \in Ids :
    /\ i < Frontier /\ i \notin granted => result[i] = "denied" /\ completes[i] = 1
    /\ i \in granted => result[i] # "denied"

(* Only approved calls of the open batch are waiting or running.           *)
ActiveInBatch ==
  \A i \in Ids : worker[i] \in {"queued", "running"} =>
    /\ pc \in {"exec", "crashed"}
    /\ i \in Approved

(* How far each granted call has come.                                     *)
Progress ==
  \A i \in granted :
    /\ i < lo \/ (pc = "collect" /\ i <= hi) =>
         worker[i] = "done" /\ result[i] = outcome[i]
    /\ worker[i] = "done" => outcome[i] # "none"
    /\ worker[i] = "idle" <=> pc \in {"gate", "ask"} /\ i >= lo

Announced ==
  \A i \in granted :
    completes[i] = IF i < lo \/ (pc = "collect" /\ i < cur) THEN 1 ELSE 0

Steady == BatchShape /\ CursorInBatch /\ Fresh /\ Refused

IInv == TypeOK /\ Steady /\ ActiveInBatch /\ Progress /\ Announced

-----------------------------------------------------------------------------
(* The pieces of the inductive invariant and what they speak about.        *)
LEMMA InitIInv == Init => IInv
  <1> SUFFICES ASSUME Init PROVE IInv
    OBVIOUS
  <1> USE ToolExecAssumption DEF ToolExecAssumption, Init, Ids
  <1>1. TypeOK
    <2>1. kind \in [Ids -> Kind] /\ hasApprover \in BOOLEAN
      BY DEF Init
    <2>2. lo \in 1 .. N + 1 /\ hi \in 0 .. N /\ cur \in 1 .. N + 1
      OBVIOUS
    <2>3. /\ worker \in [Ids -> {"idle", "queued", "running", "done"}]
          /\ outcome \in [Ids -> Outcome \cup {"none"}]
          /\ result \in [Ids -> Outcome \cup {"none", "denied"}]
          /\ postHook \in [Ids -> {"none", "running", "done"}]
      OBVIOUS
    <2>4. starts \in [Ids -> 1 .. 2] /\ completes \in [Ids -> 0 .. 1]
      OBVIOUS
    <2> QED BY <2>1, <2>2, <2>3, <2>4 DEF TypeOK
  <1>2. BatchShape /\ CursorInBatch
    BY DEF BatchShape, CursorInBatch, InBatch
  <1>3. Fresh /\ Refused
    BY DEF Fresh, Refused, Frontier
  <1>4. ActiveInBatch /\ Progress /\ Announced
    BY DEF ActiveInBatch, Progress, Announced
  <1> QED BY <1>1, <1>2, <1>3, <1>4 DEF IInv, Steady

(* Deny and Grant decide the call at the cursor and move past it.          *)
LEMMA DenyIInv ==
  ASSUME IInv, pc \in {"gate", "ask"}, cur <= hi, Deny,
         UNCHANGED <<inputs, lo, hi, worker, outcome, siblingStop, ctxDone, postHook>>
  PROVE  IInv'
  <1> USE ToolExecAssumption DEF ToolExecAssumption, IInv, Steady, InBatch, Deny, inputs
  <1>1. cur \in Ids /\ cur \notin granted /\ completes[cur] = 0 /\ starts[cur] = 1
        /\ worker[cur] = "idle"
    BY DEF TypeOK, Fresh, Frontier, CursorInBatch, BatchShape, Ids
  <1>2. TypeOK'
    BY <1>1 DEF TypeOK, Ids, BatchShape
  <1>3. BatchShape' /\ CursorInBatch'
    BY DEF BatchShape, CursorInBatch, TypeOK, Ids
  <1>4. Fresh' /\ Refused'
    BY <1>1 DEF Fresh, Refused, Frontier, TypeOK, Ids
  <1>5. ActiveInBatch' /\ Progress'
    BY <1>1 DEF ActiveInBatch, Progress, Approved, TypeOK, Ids
  <1>6. Announced'
    BY <1>1 DEF Announced, TypeOK, Ids
  <1> QED BY <1>2, <1>3, <1>4, <1>5, <1>6

LEMMA GrantIInv ==
  ASSUME IInv, pc \in {"gate", "ask"}, cur <= hi, Grant,
         UNCHANGED <<inputs, lo, hi, worker, outcome, siblingStop, ctxDone, postHook>>
  PROVE  IInv'
  <1> USE ToolExecAssumption DEF ToolExecAssumption, IInv, Steady, InBatch, Grant, inputs, events
  <1>1. cur \in Ids /\ completes[cur] = 0 /\ worker[cur] = "idle" /\ result[cur] = "none"
        /\ lo <= cur
    BY DEF TypeOK, Fresh, Frontier, CursorInBatch, BatchShape, Ids
  <1>2. TypeOK'
    BY <1>1 DEF TypeOK, Ids, BatchShape
  <1>3. BatchShape' /\ CursorInBatch'
    BY DEF BatchShape, CursorInBatch, TypeOK, Ids
  <1>4. Fresh' /\ Refused'
    BY <1>1 DEF Fresh, Refused, Frontier, TypeOK, Ids
  <1>5. ActiveInBatch' /\ Progress'
    BY <1>1 DEF ActiveInBatch, Progress, Approved, TypeOK, Ids
  <1>6. Announced'
    BY <1>1 DEF Announced, TypeOK, Ids
  <1> QED BY <1>2, <1>3, <1>4, <1>5, <1>6

LEMMA OpenBatchIInv == IInv /\ OpenBatch => IInv'
  <1> SUFFICES ASSUME IInv, OpenBatch PROVE IInv'
    OBVIOUS
  <1> USE ToolExecAssumption DEF ToolExecAssumption, IInv, Steady, InBatch, OpenBatch, inputs,
      events
  <1>1. PICK h \in lo .. N : IsBatch(lo, h) /\ hi' = h
    OBVIOUS
  <1>2. TypeOK'
    BY <1>1 DEF TypeOK, Ids
  <1>3. BatchShape' /\ CursorInBatch'
    BY <1>1 DEF BatchShape, CursorInBatch, IsBatch, TypeOK, Ids
  <1>4. Fresh' /\ Refused'
    BY <1>1 DEF Fresh, Refused, Frontier, TypeOK, Ids
  <1>5. ActiveInBatch' /\ Progress' /\ Announced'
    BY <1>1 DEF Fresh, Frontier, ActiveInBatch, Progress, Announced, TypeOK, Ids
  <1> QED BY <1>2, <1>3, <1>4, <1>5

LEMMA ReturnResultsIInv == IInv /\ ReturnResults => IInv'
  <1> SUFFICES ASSUME IInv, ReturnResults PROVE IInv'
    OBVIOUS
  <1> USE ToolExecAssumption DEF ToolExecAssumption, IInv, Steady, InBatch, ReturnResults,
      inputs, place, events
  <1>1. TypeOK'
    BY DEF TypeOK
  <1>2. BatchShape' /\ CursorInBatch'
    BY DEF BatchShape, CursorInBatch
  <1>3. Fresh' /\ Refused'
    BY DEF CursorInBatch, Fresh, Refused, Frontier, TypeOK, Ids
  <1>4. ActiveInBatch' /\ Progress' /\ Announced'
    BY DEF ActiveInBatch, Progress, Announced
  <1> QED BY <1>1, <1>2, <1>3, <1>4

LEMMA CloseGateIInv == IInv /\ CloseGate => IInv'
  <1> SUFFICES ASSUME IInv, CloseGate PROVE IInv'
    OBVIOUS
  <1> USE ToolExecAssumption DEF ToolExecAssumption, IInv, Steady, InBatch, CloseGate, inputs,
      events
  <1>0. cur = hi + 1 /\ lo <= hi
    BY DEF CursorInBatch, BatchShape, TypeOK
  <1>1. TypeOK'
    BY <1>0 DEF TypeOK, Ids, BatchShape
  <1>2. BatchShape' /\ CursorInBatch'
    BY <1>0 DEF BatchShape, CursorInBatch, TypeOK
  <1>3. Frontier' = Frontier /\ Frontier = hi + 1
    BY <1>0 DEF Frontier, TypeOK
  <1>4. Fresh'
    BY <1>3 DEF Fresh, TypeOK, Ids, Approved
  <1>5. Refused'
    BY <1>3 DEF Refused
  <1>6. ActiveInBatch'
    BY DEF ActiveInBatch, Approved, TypeOK
  <1>7. Progress'
    <2>1. CASE Approved = {}
      BY <2>1, <1>0, <1>3 DEF Fresh, Progress, Approved, TypeOK, Ids
    <2>2. CASE Approved # {}
      BY <2>2, <1>0, <1>3 DEF Fresh, Progress, Approved, TypeOK, Ids
    <2> QED BY <2>1, <2>2
  <1>8. Announced'
    BY <1>0 DEF Announced, Approved, TypeOK, Ids
  <1> QED BY <1>1, <1>2, <1>4, <1>5, <1>6, <1>7, <1>8

LEMMA LaunchIInv == ASSUME NEW i \in Ids, IInv, Launch(i) PROVE IInv'
  <1> USE ToolExecAssumption DEF ToolExecAssumption, IInv, Steady, InBatch, Launch, inputs,
      place, events
  <1>1. TypeOK'
    BY DEF TypeOK
  <1>2. BatchShape' /\ CursorInBatch'
    BY DEF BatchShape, CursorInBatch
  <1>3. Fresh' /\ Refused'
    BY DEF Fresh, Refused, Frontier, TypeOK
  <1>4. ActiveInBatch' /\ Progress' /\ Announced'
    BY DEF ActiveInBatch, Progress, Announced, Approved, TypeOK, Ids
  <1> QED BY <1>1, <1>2, <1>3, <1>4

LEMMA FinishIInv == ASSUME NEW i \in Ids, IInv, Finish(i) PROVE IInv'
  <1> USE ToolExecAssumption DEF ToolExecAssumption, IInv, Steady, InBatch, Finish, inputs,
      place, events
  <1>1. PICK o \in OutcomesOf(i) :
          /\ outcome' = [outcome EXCEPT ![i] = o]
          /\ siblingStop' \in BOOLEAN
    BY DEF TypeOK
  <1>2. o \in Outcome /\ o # "none" /\ i \in granted /\ i \in lo .. hi
    BY DEF OutcomesOf, Outcome, ActiveInBatch, Approved
  <1>3. TypeOK'
    BY <1>1, <1>2 DEF TypeOK
  <1>4. BatchShape' /\ CursorInBatch'
    BY DEF BatchShape, CursorInBatch
  <1>5. Fresh' /\ Refused'
    BY DEF Fresh, Refused, Frontier, TypeOK
  <1>6. ActiveInBatch' /\ Progress' /\ Announced'
    BY <1>1, <1>2 DEF ActiveInBatch, Progress, Announced, Approved, TypeOK, Ids
  <1> QED BY <1>3, <1>4, <1>5, <1>6

LEMMA SerialPanicIInv == ASSUME NEW i \in Ids, IInv, SerialPanic(i) PROVE IInv'
  <1> USE ToolExecAssumption DEF ToolExecAssumption, IInv, Steady, InBatch, SerialPanic, inputs,
      place, events
  <1>1. TypeOK'
    BY DEF TypeOK
  <1>2. BatchShape' /\ CursorInBatch'
    BY DEF BatchShape, CursorInBatch
  <1>3. Fresh' /\ Refused'
    BY DEF Fresh, Refused, Frontier, TypeOK
  <1>4. ActiveInBatch' /\ Progress' /\ Announced'
    BY DEF ActiveInBatch, Progress, Announced, Approved, TypeOK
  <1> QED BY <1>1, <1>2, <1>3, <1>4

LEMMA JoinIInv == IInv /\ Join => IInv'
  <1> SUFFICES ASSUME IInv, Join PROVE IInv'
    OBVIOUS
  <1> USE ToolExecAssumption DEF ToolExecAssumption, IInv, Steady, InBatch, Join, inputs, place,
      events
  <1>1. TypeOK'
    BY DEF TypeOK
  <1>2. BatchShape' /\ CursorInBatch'
    BY DEF BatchShape, CursorInBatch, TypeOK, Ids
  <1>3. Fresh' /\ Refused'
    BY DEF Fresh, Refused, Frontier, Approved, TypeOK, Ids, Outcome
  <1>4. ActiveInBatch' /\ Progress' /\ Announced'
    BY DEF ActiveInBatch, Progress, Announced, Joined, Approved, TypeOK, Ids
  <1> QED BY <1>1, <1>2, <1>3, <1>4

LEMMA CollectIInv == IInv /\ Collect => IInv'
  <1> SUFFICES ASSUME IInv, Collect PROVE IInv'
    OBVIOUS
  <1> USE ToolExecAssumption DEF ToolExecAssumption, IInv, Steady, InBatch, Collect, Collects,
      inputs, place
  <1>a. pc = "collect" /\ lo <= cur /\ cur <= hi /\ hi <= N
    BY DEF BatchShape, CursorInBatch
  <1>b. cur \in Ids
    BY <1>a DEF TypeOK, Ids
  <1>c. cur \in granted => completes[cur] = 0
    BY <1>a DEF TypeOK, Announced
  <1>0. cur \in Ids /\ (cur \in granted => completes[cur] = 0)
    BY <1>b, <1>c
  <1>1. TypeOK'
    BY <1>a, <1>0 DEF TypeOK, Ids
  <1>2. BatchShape' /\ CursorInBatch'
    BY DEF BatchShape, CursorInBatch, TypeOK
  <1>3. Fresh' /\ Refused'
    BY <1>0 DEF Fresh, Refused, Frontier, TypeOK, Ids
  <1>4. ActiveInBatch' /\ Progress'
    BY DEF ActiveInBatch, Progress, Approved, TypeOK
  <1>5. Announced'
    BY <1>0 DEF Announced, TypeOK, Ids
  <1> QED BY <1>1, <1>2, <1>3, <1>4, <1>5

LEMMA CloseBatchIInv == IInv /\ CloseBatch => IInv'
  <1> SUFFICES ASSUME IInv, CloseBatch PROVE IInv'
    OBVIOUS
  <1> USE ToolExecAssumption DEF ToolExecAssumption, IInv, Steady, InBatch, CloseBatch, inputs,
      events
  <1>0. cur = hi + 1 /\ lo <= hi
    BY DEF CursorInBatch, BatchShape, TypeOK
  <1>1. TypeOK'
    BY <1>0 DEF TypeOK, Ids, BatchShape
  <1>2. BatchShape' /\ CursorInBatch'
    BY <1>0 DEF BatchShape, CursorInBatch
  <1>3. Fresh' /\ Refused'
    BY <1>0 DEF Fresh, Refused, Frontier, TypeOK, Ids
  <1>4. ActiveInBatch'
    BY DEF ActiveInBatch, TypeOK
  <1>5. Progress' /\ Announced'
    BY <1>0 DEF Progress, Announced, TypeOK, Ids
  <1> QED BY <1>1, <1>2, <1>3, <1>4, <1>5

(* Steps that touch no variable the invariant relates to another one.      *)
LEMMA QuietIInv ==
  ASSUME IInv, postHook' \in [Ids -> {"none", "running", "done"}], ctxDone' \in BOOLEAN,
         UNCHANGED <<inputs, pc, place, cur, worker, outcome, result, siblingStop, events>>
  PROVE  IInv'
  <1> USE ToolExecAssumption DEF ToolExecAssumption, IInv, Steady, InBatch, inputs, place, events
  <1>1. TypeOK'
    BY DEF TypeOK
  <1>2. BatchShape' /\ CursorInBatch' /\ Fresh' /\ Refused'
    BY DEF BatchShape, CursorInBatch, Fresh, Refused, Frontier
  <1>3. ActiveInBatch' /\ Progress' /\ Announced'
    BY DEF ActiveInBatch, Progress, Announced, Approved
  <1> QED BY <1>1, <1>2, <1>3

LEMMA GateIInv == IInv /\ Gate => IInv'
  <1>1. ASSUME IInv, NEW d \in {"allow", "ask", "deny"}, GateHook(d) PROVE IInv'
    <2>1. CASE pc' = "ask"
      <3> USE <1>1, <2>1 DEF IInv, Steady, InBatch, GateHook, inputs, events, Deny, Grant
      <3>0. UNCHANGED <<cur, granted, result, starts, completes>>
        OBVIOUS
      <3>1. TypeOK'
        BY <3>0 DEF TypeOK
      <3>2. BatchShape' /\ CursorInBatch' /\ Fresh' /\ Refused'
        BY <3>0 DEF BatchShape, CursorInBatch, Fresh, Refused, Frontier
      <3>3. ActiveInBatch' /\ Progress' /\ Announced'
        BY <3>0 DEF ActiveInBatch, Progress, Announced, Approved
      <3> QED BY <3>1, <3>2, <3>3
    <2>2. CASE Deny
      BY <1>1, <2>2, DenyIInv DEF GateHook
    <2>3. CASE Grant
      BY <1>1, <2>3, GrantIInv DEF GateHook
    <2> QED BY <1>1, <2>1, <2>2, <2>3 DEF GateHook
  <1>2. ASSUME IInv, NEW yes \in BOOLEAN, ApproverAnswers(yes) PROVE IInv'
    <2>1. cur <= hi
      BY <1>2 DEF ApproverAnswers, IInv, Steady, CursorInBatch
    <2> QED BY <1>2, <2>1, DenyIInv, GrantIInv DEF ApproverAnswers
  <1> QED BY <1>1, <1>2 DEF Gate

THEOREM IInvInductive == Spec => []IInv
  <1>1. IInv /\ [Next]_vars => IInv'
    <2> SUFFICES ASSUME IInv, [Next]_vars PROVE IInv'
      OBVIOUS
    <2>1. CASE LoopStep
      BY <2>1, OpenBatchIInv, ReturnResultsIInv, CloseGateIInv, JoinIInv, CollectIInv,
         CloseBatchIInv DEF LoopStep
    <2>2. CASE Gate
      BY <2>2, GateIInv
    <2>3. ASSUME NEW i \in Ids, WorkerStep(i) PROVE IInv'
      BY <2>3, LaunchIInv, FinishIInv, SerialPanicIInv DEF WorkerStep
    <2>4. ASSUME NEW i \in Ids, PostHookEnds(i) PROVE IInv'
      BY <2>4, QuietIInv DEF PostHookEnds, IInv, TypeOK
    <2>5. CASE CancelRun
      BY <2>5, QuietIInv DEF CancelRun, IInv, TypeOK
    <2>6. CASE UNCHANGED vars
      BY <2>6, QuietIInv DEF vars, inputs, place, events, IInv, TypeOK
    <2> QED BY <2>1, <2>2, <2>3, <2>4, <2>5, <2>6 DEF Next
  <1> QED BY <1>1, InitIInv, PTL DEF Spec

(* Every variable keeps its type: in particular no call is announced as    *)
(* complete twice.                                                         *)
THEOREM TypeCorrect == Spec => []TypeOK
  BY IInvInductive, PTL DEF IInv

(* The gate and the user's prompt are never open while a call waits or     *)
(* runs: what ToolApprover's non-reentrancy needs.                         *)
THEOREM GateIsQuietHolds == Spec => []GateIsQuiet
  <1>1. IInv => GateIsQuiet
    BY DEF IInv, GateIsQuiet, ActiveInBatch
  <1> QED BY <1>1, IInvInductive, PTL

(* When the results message is built every call has exactly its own        *)
(* result and one completion event.                                        *)
THEOREM EveryCallAnsweredHolds == Spec => []EveryCallAnswered
  <1>1. IInv => EveryCallAnswered
    <2> SUFFICES ASSUME IInv, pc = "returned", NEW i \in Ids
                 PROVE  /\ result[i] = IF i \in granted THEN outcome[i] ELSE "denied"
                        /\ result[i] # "none" /\ completes[i] = 1
      BY DEF EveryCallAnswered
    <2> USE ToolExecAssumption DEF ToolExecAssumption, IInv, Steady
    <2>1. i < lo /\ Frontier = hi + 1 /\ lo = hi + 1
      BY DEF CursorInBatch, Frontier, TypeOK, Ids
    <2>2. CASE i \in granted
      BY <2>1, <2>2 DEF Progress, Announced
    <2>3. CASE i \notin granted
      BY <2>1, <2>3 DEF Refused
    <2> QED BY <2>2, <2>3
  <1> QED BY <1>1, IInvInductive, PTL

-----------------------------------------------------------------------------
(* An outcome is the last thing a worker leaves behind.                    *)
Settled == \A i \in Ids : outcome[i] # "none" => worker[i] = "done"

(* propagatingCtx is cancelled only by the error of a propagating call of  *)
(* the open batch, unless the user had cancelled the run before.           *)
Stopped ==
  pc = "exec" /\ siblingStop /\ ~ctxDone =>
    InParallel /\ \E j \in lo .. hi : Propagates(kind[j]) /\ outcome[j] = "err"

KInv == Settled /\ Stopped /\ KilledByASibling

LEMMA OpenCallsShareABatch ==
  ASSUME IInv, pc = "exec", InParallel, NEW i \in lo .. hi, NEW j \in lo .. hi
  PROVE  SameBatch(i, j)
  BY DEF IInv, Steady, BatchShape, InBatch, InParallel, SameBatch, TypeOK, Ids

(* Steps that give no worker an outcome and take no worker's one away.     *)
LEMMA OutcomesKept ==
  ASSUME IInv, KInv, UNCHANGED <<kind, outcome>>, ctxDone' \in {ctxDone, TRUE},
         \A i \in Ids : worker[i] = "done" => worker'[i] = "done", Stopped'
  PROVE  KInv'
  BY DEF IInv, TypeOK, KInv, Settled, KilledByASibling, SameBatch

LEMMA CloseGateKilled == ASSUME IInv, KInv, CloseGate PROVE KInv'
  <1>1. \A i \in Approved : worker[i] = "idle"
    BY DEF IInv, Steady, CursorInBatch, Progress, Approved, CloseGate, TypeOK
  <1>2. \A i \in Ids : worker[i] = "done" => worker'[i] = "done"
    BY <1>1 DEF CloseGate, IInv, TypeOK
  <1>3. Stopped'
    BY DEF CloseGate, Stopped
  <1> QED BY <1>2, <1>3, OutcomesKept DEF CloseGate, inputs

LEMMA FinishKilled == ASSUME NEW i \in Ids, IInv, KInv, Finish(i) PROVE KInv'
  <1>1. PICK o \in OutcomesOf(i) :
           /\ outcome' = [outcome EXCEPT ![i] = o]
           /\ siblingStop' = (siblingStop \/ (InParallel /\ Propagates(kind[i])
                                              /\ o \in {"err", "killed"}))
    BY DEF Finish
  <1>2. /\ UNCHANGED <<kind, lo, hi, pc, ctxDone, granted>> /\ pc = "exec"
        /\ worker[i] = "running" /\ worker' = [worker EXCEPT ![i] = "done"]
    BY DEF Finish, inputs, place
  <1>3. i \in lo .. hi /\ outcome[i] = "none" /\ lo \in Nat /\ hi \in Nat
    BY <1>2 DEF KInv, Settled, IInv, ActiveInBatch, Approved, TypeOK, Ids
  <1>4. /\ outcome \in [Ids -> Outcome \cup {"none"}]
        /\ worker \in [Ids -> {"idle", "queued", "running", "done"}]
        /\ ctxDone \in BOOLEAN /\ siblingStop \in BOOLEAN /\ lo .. hi \subseteq Ids
    BY <1>2, <1>3, ToolExecAssumption DEF IInv, Steady, BatchShape, InBatch, TypeOK, Ids
  <1>5. o = "killed" =>
          ctxDone \/ (InParallel /\ Propagates(kind[i]) /\ siblingStop)
    BY <1>1 DEF OutcomesOf, Cancelled
  <1>6. InParallel' <=> InParallel
    BY <1>2 DEF InParallel, Approved
  <1>7. Settled'
    BY <1>1, <1>2, <1>4 DEF KInv, Settled
  <1>8. \A j \in lo .. hi : Propagates(kind[j]) /\ outcome[j] = "err" =>
          j # i /\ outcome'[j] = "err"
    BY <1>1, <1>3, <1>4
  <1>9. Stopped'
    <2>1. CASE siblingStop
      BY <1>2, <1>6, <1>8, <2>1 DEF KInv, Stopped
    <2>2. CASE ~siblingStop /\ o = "err"
      BY <1>1, <1>2, <1>3, <1>4, <1>6, <2>2 DEF Stopped
    <2>3. CASE ~siblingStop /\ o # "err"
      BY <1>1, <1>2, <1>5, <2>3 DEF Stopped
    <2> QED BY <2>1, <2>2, <2>3
  <1>10. KilledByASibling'
    <2> SUFFICES ASSUME NEW k \in Ids, outcome'[k] = "killed", ~ctxDone
                 PROVE  /\ Propagates(kind[k])
                        /\ \E j \in Ids \ {k} : /\ Propagates(kind[j]) /\ outcome'[j] = "err"
                                                /\ SameBatch(k, j)
      BY <1>2 DEF KilledByASibling, SameBatch
    <2>1. CASE k # i
      <3>1. PICK j \in Ids \ {k} : Propagates(kind[j]) /\ outcome[j] = "err" /\ SameBatch(k, j)
        BY <1>1, <1>4, <2>1 DEF KInv, KilledByASibling
      <3>2. Propagates(kind[k])
        BY <1>1, <1>4, <2>1 DEF KInv, KilledByASibling
      <3> QED BY <1>1, <1>3, <1>4, <3>1, <3>2
    <2>2. CASE k = i
      <3>1. InParallel /\ Propagates(kind[i]) /\ siblingStop
        BY <1>1, <1>4, <1>5, <2>2
      <3>2. PICK j \in lo .. hi : Propagates(kind[j]) /\ outcome[j] = "err"
        BY <1>2, <3>1 DEF KInv, Stopped
      <3>3. SameBatch(i, j)
        BY <1>2, <1>3, <3>1, <3>2, OpenCallsShareABatch
      <3> QED BY <1>4, <1>8, <2>2, <3>1, <3>2, <3>3
    <2> QED BY <2>1, <2>2
  <1> QED BY <1>7, <1>9, <1>10 DEF KInv

(* A call is killed only by the user's cancellation or by the error of     *)
(* another propagating call of its own batch.                              *)
THEOREM KilledByASiblingHolds == Spec => []KilledByASibling
  <1>1. Init => KInv
    BY DEF Init, KInv, Settled, Stopped, KilledByASibling
  <1>2. IInv /\ KInv /\ [Next]_vars => KInv'
    <2> SUFFICES ASSUME IInv, KInv, [Next]_vars PROVE KInv'
      OBVIOUS
    <2> USE OutcomesKept DEF inputs, place, events
    <2>1. CASE LoopStep /\ ~CloseGate
      BY <2>1 DEF LoopStep, OpenBatch, ReturnResults, Join, Collect, CloseBatch, Stopped
    <2>2. CASE CloseGate
      BY <2>2, CloseGateKilled
    <2>3. CASE Gate
      BY <2>3 DEF Gate, GateHook, ApproverAnswers, Deny, Grant, Stopped
    <2>4. ASSUME NEW i \in Ids, Launch(i) PROVE KInv'
      BY <2>4 DEF Launch, Stopped, InParallel, Approved, KInv, IInv, TypeOK
    <2>5. ASSUME NEW i \in Ids, Finish(i) PROVE KInv'
      BY <2>5, FinishKilled
    <2>6. ASSUME NEW i \in Ids, SerialPanic(i) PROVE KInv'
      BY <2>6 DEF SerialPanic, Stopped
    <2>7. ASSUME NEW i \in Ids, PostHookEnds(i) PROVE KInv'
      BY <2>7 DEF PostHookEnds, Stopped, InParallel, Approved, KInv
    <2>8. CASE CancelRun
      BY <2>8 DEF CancelRun, Stopped
    <2>9. CASE UNCHANGED vars
      BY <2>9 DEF vars, Stopped, InParallel, Approved, KInv
    <2> QED BY <2>1, <2>2, <2>3, <2>4, <2>5, <2>6, <2>7, <2>8, <2>9 DEF Next, WorkerStep
  <1>3. KInv => KilledByASibling
    BY DEF KInv
  <1> QED BY <1>1, <1>2, <1>3, IInvInductive, PTL DEF Spec

-----------------------------------------------------------------------------
LEMMA FiniteIds == IsFiniteSet(Ids) /\ \A S \in SUBSET Ids : IsFiniteSet(S)
  <1>1. IsFiniteSet(Ids)
    BY ToolExecAssumption, FS_Interval DEF ToolExecAssumption, Ids
  <1> QED BY <1>1, FS_Subset

(* Off the parallel path the batch has at most one approved call.          *)
LEMMA SerialIsSingle ==
  ASSUME IInv, InBatch, ~InParallel PROVE Cardinality(Approved) <= 1
  <1> USE DEF IInv, Steady
  <1>1. Approved \in SUBSET Ids /\ IsFiniteSet(Approved) /\ Cardinality(Approved) \in Nat
    BY FiniteIds, FS_CardinalityType DEF Approved, TypeOK
  <1>2. CASE Safe(kind[lo])
    BY <1>1, <1>2 DEF InParallel
  <1>3. CASE ~Safe(kind[lo])
    <2>1. Approved \subseteq {lo}
      BY <1>3 DEF BatchShape, Approved, TypeOK
    <2>2. IsFiniteSet({lo}) /\ Cardinality({lo}) = 1
      BY FS_Singleton
    <2> QED BY <2>1, <2>2, FS_Subset
  <1> QED BY <1>2, <1>3

LEMMA RunningIsApproved ==
  ASSUME IInv
  PROVE  /\ Running \subseteq Approved /\ Approved \subseteq Ids
         /\ IsFiniteSet(Running) /\ IsFiniteSet(Approved)
         /\ Cardinality(Running) \in Nat /\ Cardinality(Approved) \in Nat
         /\ Cardinality(Running) <= Cardinality(Approved)
  <1>1. Running \subseteq Approved /\ Approved \subseteq Ids
    BY DEF IInv, ActiveInBatch, Running, Approved, TypeOK
  <1>2. IsFiniteSet(Running) /\ IsFiniteSet(Approved)
    BY <1>1, FiniteIds
  <1> QED BY <1>1, <1>2, FS_Subset, FS_CardinalityType

(* No more than MaxParallel calls run at once, and one at a time outside   *)
(* the parallel path.                                                      *)
THEOREM BoundedParallelismHolds == Spec => []BoundedParallelism
  <1> DEFINE Bound == Cardinality(Running) <= MaxParallel
  <1> USE ToolExecAssumption DEF ToolExecAssumption
  <1>1. Init => Bound
    <2> SUFFICES ASSUME Init PROVE Bound
      OBVIOUS
    <2>1. Running = {}
      BY DEF Init, Running
    <2> QED BY <2>1, FS_EmptySet
  <1>2. IInv /\ IInv' /\ Bound /\ [Next]_vars => Bound'
    <2> SUFFICES ASSUME IInv, IInv', Bound, [Next]_vars PROVE Bound'
      OBVIOUS
    <2>1. ASSUME Running' \subseteq Running PROVE Bound'
      <3>1. Cardinality(Running') <= Cardinality(Running) /\ Cardinality(Running') \in Nat
        BY <2>1, RunningIsApproved, FS_Subset, FS_CardinalityType
      <3> QED BY <3>1, RunningIsApproved
    <2>2. ASSUME NEW i \in Ids, Launch(i) PROVE Bound'
      <3>1. i \notin Running /\ Running' = Running \cup {i}
        BY <2>2 DEF Launch, Running, IInv, TypeOK
      <3>2. Cardinality(Running') = Cardinality(Running) + 1
        BY <3>1, RunningIsApproved, FS_AddElement
      <3>3. CASE InParallel
        BY <2>2, <3>2, <3>3, RunningIsApproved DEF Launch, HasSlot
      <3>4. CASE ~InParallel
        <4>1. Running' \subseteq Approved
          BY <2>2, <3>1, RunningIsApproved DEF Launch, IInv, ActiveInBatch
        <4>2. Cardinality(Running') <= Cardinality(Approved)
          BY <4>1, RunningIsApproved, FS_Subset
        <4>3. Cardinality(Approved) <= 1
          BY <2>2, <3>4, SerialIsSingle DEF Launch, InBatch
        <4> QED BY <3>2, <4>2, <4>3, RunningIsApproved
      <3> QED BY <3>3, <3>4
    <2>3. ASSUME NEW i \in Ids, Finish(i) \/ SerialPanic(i) PROVE Running' \subseteq Running
      BY <2>3 DEF Finish, SerialPanic, Running, IInv, TypeOK
    <2>4. CASE LoopStep
      BY <2>4, <2>1 DEF LoopStep, OpenBatch, ReturnResults, CloseGate, Join, Collect, CloseBatch,
                        Running, IInv, TypeOK
    <2>5. CASE Gate
      BY <2>5, <2>1 DEF Gate, GateHook, ApproverAnswers, Running
    <2>6. ASSUME NEW i \in Ids, PostHookEnds(i) PROVE Bound'
      BY <2>6, <2>1 DEF PostHookEnds, Running
    <2>7. CASE CancelRun \/ UNCHANGED vars
      BY <2>7, <2>1 DEF CancelRun, vars, Running
    <2> QED BY <2>1, <2>2, <2>3, <2>4, <2>5, <2>6, <2>7 DEF Next, WorkerStep
  <1>3. IInv /\ Bound => BoundedParallelism
    <2> SUFFICES ASSUME IInv, Bound, pc = "exec", ~InParallel
                 PROVE Cardinality(Running) <= 1
      BY DEF BoundedParallelism
    <2> QED BY SerialIsSingle, RunningIsApproved DEF InBatch
  <1> QED BY <1>1, <1>2, <1>3, IInvInductive, PTL DEF Spec

-----------------------------------------------------------------------------
(* ToolExec implements ToolTurn: a call is refused or run once, and an     *)
(* unsafe call is a barrier between the calls before and after it.         *)
LEMMA DecidedMayBegin ==
  ASSUME IInv, InBatch, NEW i \in Ids, lo <= i, i <= hi PROVE Turn!MayBegin(i)
  <1> SUFFICES ASSUME NEW j \in Ids, Turn!Ordered(j, i) PROVE Turn!Settled(j)
    BY DEF Turn!MayBegin, Turn!Ids, Ids
  <1> USE ToolExecAssumption DEF ToolExecAssumption, IInv, Steady
  <1>1. j < i /\ \E k \in j .. i : ~Safe(kind[k])
    BY DEF Turn!Ordered, Ids
  <1>2. j < lo
    BY <1>1 DEF BatchShape, Ids, TypeOK
  <1>3. j < Frontier
    BY <1>2 DEF CursorInBatch, Frontier, Ids, TypeOK, InBatch
  <1>4. StatusOf(j) \in {"answered", "refused"}
    <2>1. CASE j \in granted
      BY <1>2, <2>1 DEF Progress, Refused, StatusOf
    <2>2. CASE j \notin granted
      BY <1>3, <2>2 DEF Refused, StatusOf
    <2> QED BY <2>1, <2>2
  <1> QED BY <1>4 DEF Turn!Settled

LEMMA SameStatus ==
  ASSUME UNCHANGED kind, \A i \in Ids : StatusOf(i)' = StatusOf(i)
  PROVE  UNCHANGED Turn!vars
  BY DEF Turn!vars

(* A step that moves one call's status, seen from ToolTurn.                *)
LEMMA OneStatus ==
  ASSUME NEW i \in Ids, NEW s, UNCHANGED kind,
         \A j \in Ids : StatusOf(j)' = IF j = i THEN s ELSE StatusOf(j)
  PROVE  /\ [j \in Ids |-> StatusOf(j)]' = [[j \in Ids |-> StatusOf(j)] EXCEPT ![i] = s]
         /\ UNCHANGED [j \in Ids |-> Safe(kind[j])]
  OBVIOUS

LEMMA DenyRefines ==
  ASSUME IInv, pc \in {"gate", "ask"}, cur <= hi, Deny,
         UNCHANGED <<inputs, lo, hi, worker>>
  PROVE  Turn!Next
  <1> USE ToolExecAssumption DEF ToolExecAssumption, Deny, inputs
  <1>1. cur \in Ids /\ lo <= cur /\ StatusOf(cur) = "pending"
    BY DEF IInv, Steady, TypeOK, Fresh, Frontier, CursorInBatch, BatchShape, InBatch, Ids,
           StatusOf
  <1>2. \A j \in Ids : StatusOf(j)' = IF j = cur THEN "refused" ELSE StatusOf(j)
    BY <1>1 DEF StatusOf, IInv, TypeOK
  <1>3. Turn!MayBegin(cur)
    BY <1>1, DecidedMayBegin DEF InBatch
  <1>4. Turn!Refuse(cur)
    BY <1>1, <1>2, <1>3, OneStatus DEF Turn!Refuse
  <1> QED BY <1>1, <1>4 DEF Turn!Next, Turn!Ids, Ids

LEMMA LaunchRefines == ASSUME NEW i \in Ids, IInv, Launch(i) PROVE Turn!Next
  <1> USE DEF Launch, inputs, place
  <1>1. i \in granted /\ lo <= i /\ i <= hi
    BY DEF IInv, ActiveInBatch, Approved
  <1>2. result[i] # "denied"
    BY <1>1 DEF IInv, Steady, Refused
  <1>3. \A j \in Ids : StatusOf(j)' = IF j = i THEN "running" ELSE StatusOf(j)
    BY <1>2 DEF StatusOf, IInv, TypeOK
  <1>4. Turn!MayBegin(i) /\ StatusOf(i) = "pending"
    BY <1>1, <1>2, DecidedMayBegin DEF InBatch, StatusOf
  <1>5. Turn!Begin(i)
    BY <1>3, <1>4, OneStatus DEF Turn!Begin
  <1> QED BY <1>5 DEF Turn!Next, Turn!Ids, Ids

LEMMA FinishRefines == ASSUME NEW i \in Ids, IInv, Finish(i) PROVE Turn!Next
  <1> USE DEF Finish, inputs, place
  <1>1. result[i] # "denied"
    BY DEF IInv, Steady, Refused, ActiveInBatch, Approved
  <1>2. \A j \in Ids : StatusOf(j)' = IF j = i THEN "answered" ELSE StatusOf(j)
    BY <1>1 DEF StatusOf, IInv, TypeOK
  <1>3. StatusOf(i) = "running"
    BY <1>1 DEF StatusOf
  <1>4. Turn!Answer(i)
    BY <1>2, <1>3, OneStatus DEF Turn!Answer
  <1> QED BY <1>4 DEF Turn!Next, Turn!Ids, Ids

(* The loop's own steps and the gate's grants are invisible to ToolTurn.   *)
LEMMA LoopStepStutters == ASSUME IInv, LoopStep PROVE UNCHANGED Turn!vars
  <1>1. UNCHANGED kind
    BY DEF LoopStep, OpenBatch, ReturnResults, CloseGate, Join, Collect, CloseBatch, inputs
  <1>2. ASSUME NEW j \in Ids PROVE StatusOf(j)' = StatusOf(j)
    <2>1. CASE CloseGate
      <3>1. j \in Approved => worker[j] = "idle"
        BY <2>1 DEF CloseGate, IInv, Progress, TypeOK, Approved, Ids
      <3> QED BY <2>1, <3>1 DEF CloseGate, StatusOf, IInv, TypeOK
    <2>2. CASE Join
      BY <2>2 DEF Join, Joined, StatusOf, IInv, Steady, Refused, TypeOK, Approved, Outcome
    <2>3. CASE OpenBatch \/ ReturnResults \/ Collect \/ CloseBatch
      BY <2>3 DEF OpenBatch, ReturnResults, Collect, CloseBatch, StatusOf
    <2> QED BY <2>1, <2>2, <2>3 DEF LoopStep
  <1> QED BY <1>1, <1>2, SameStatus

THEOREM ToolExecRefinesToolTurn == Spec => ImplementsToolTurn
  <1>1. Init => Turn!Init
    <2> SUFFICES ASSUME Init PROVE Turn!Init
      OBVIOUS
    <2>1. \A i \in Ids : Safe(kind[i]) \in BOOLEAN
      BY DEF Safe
    <2>2. \A i \in Ids : StatusOf(i) = "pending"
      BY DEF Init, StatusOf
    <2> QED BY <2>1, <2>2 DEF Turn!Init, Turn!Ids, Ids
  <1>2. IInv /\ [Next]_vars => [Turn!Next]_(Turn!vars)
    <2> SUFFICES ASSUME IInv, [Next]_vars PROVE Turn!Next \/ UNCHANGED Turn!vars
      OBVIOUS
    <2>1. CASE LoopStep
      BY <2>1, LoopStepStutters
    <2>2. ASSUME NEW d \in {"allow", "ask", "deny"}, GateHook(d)
          PROVE Turn!Next \/ UNCHANGED Turn!vars
      <3>1. CASE Deny
        BY <2>2, <3>1, DenyRefines DEF GateHook
      <3>2. CASE UNCHANGED result
        BY <2>2, <3>2, SameStatus DEF GateHook, StatusOf, inputs
      <3> QED BY <2>2, <3>1, <3>2 DEF GateHook, Grant
    <2>3. ASSUME NEW yes \in BOOLEAN, ApproverAnswers(yes)
          PROVE Turn!Next \/ UNCHANGED Turn!vars
      <3>1. cur <= hi
        BY <2>3 DEF ApproverAnswers, IInv, Steady, CursorInBatch
      <3>2. CASE Deny
        BY <2>3, <3>1, <3>2, DenyRefines DEF ApproverAnswers
      <3>3. CASE Grant
        BY <2>3, <3>3, SameStatus DEF ApproverAnswers, Grant, StatusOf, inputs
      <3> QED BY <2>3, <3>2, <3>3 DEF ApproverAnswers
    <2>4. ASSUME NEW i \in Ids, WorkerStep(i)
          PROVE Turn!Next \/ UNCHANGED Turn!vars
      <3>1. CASE SerialPanic(i)
        BY <3>1, SameStatus DEF SerialPanic, StatusOf, inputs
      <3> QED BY <2>4, <3>1, LaunchRefines, FinishRefines DEF WorkerStep
    <2>5. CASE \/ \E i \in Ids : PostHookEnds(i)
               \/ CancelRun
               \/ UNCHANGED vars
      BY <2>5, SameStatus DEF PostHookEnds, CancelRun, vars, StatusOf, inputs
    <2> QED BY <2>1, <2>2, <2>3, <2>4, <2>5 DEF Next, Gate
  <1> QED BY <1>1, <1>2, IInvInductive, PTL DEF Spec, ImplementsToolTurn, Turn!Spec
-----------------------------------------------------------------------------
(* The answer of a model: the stream of events and the budget              *)
(* (ModelRequest).                                                         *)

USE RequestAssumption, RoutingAssumption, StreamAssumption, WireAssumption
    DEF RequestAssumption, RoutingAssumption, StreamAssumption
-----------------------------------------------------------------------------
Reader == {"reading", "done", "jammed", "closed", "crashed"}

(* The goroutine has returned.                                             *)
Gone == reader \in {"closed", "crashed"}

Usage == Usages \cup {NoUsage}

Answer ==
  [text : Nat, calls : Seq(Seq(Nat \X Nat)), stop : StopReason, usage : Usage]

Event ==
  {Text, Start, Result, Error} \cup {Delta(f) : f \in Nat \X Nat}
    \cup {Done(s, u) : s \in StopReason, u \in Usage}

StreamTypeOK ==
  /\ reader \in Reader /\ reason \in StopReason
  /\ produced \in Answer /\ collected \in Answer
  /\ channel \in Seq(Event) /\ collector \in {"collecting", "collected", "failed"}

(* An error is the last event; the loop reads until it or until the channel*)
(* is closed and empty.                                                    *)
ErrorIsLast ==
  /\ \A i \in 1 .. Len(channel) : channel[i].type = "error" => i = Len(channel) /\ Gone
  /\ collector # "collecting" => channel = <<>> /\ Gone

(* What the answer says, usage apart.                                      *)
SaysTheSame(a, b) == a.text = b.text /\ a.calls = b.calls /\ a.stop = b.stop

(* s: the answers the loop will have collected, event by event.            *)
LeadsToProduced(s) ==
  /\ s \in [1 .. Len(channel) + 1 -> Answer]
  /\ s[1] = collected /\ SaysTheSame(s[Len(channel) + 1], produced)
  /\ \A i \in 1 .. Len(channel) : s[i + 1] = Collected(s[i], channel[i])

UnderWayIsSent == ~interleaved /\ collector # "failed" => \E s : LeadsToProduced(s)

StreamInv == StreamTypeOK /\ ErrorIsLast /\ UnderWayIsSent

(* The budget has counted all that was billed, and a request under way     *)
(* asked for what SelectModel says now.                                    *)
BudgetInv ==
  /\ spent \in Nat /\ billed \in Nat
  /\ policy.budget # "off" => billed <= spent
  /\ stage = "streaming" => asked = SelectModel

RequestInv == StreamInv /\ BudgetInv
-----------------------------------------------------------------------------
LEMMA UsageType == \A u \in Usage : u.billed \in Nat /\ u.cached \in Nat
  BY DEF Usage, NoUsage

LEMMA NoAnswerType == NoAnswer \in Answer /\ NoReason \in StopReason
<1>1. NoReason \in StopReason /\ NoUsage \in Usage  BY DEF StopReason, Usage
<1>2. <<>> \in Seq(Seq(Nat \X Nat))  OBVIOUS
<1>. QED  BY <1>1, <1>2 DEF NoAnswer, Answer

LEMMA AppendLast ==
  ASSUME NEW calls \in Seq(Seq(Nat \X Nat)), NEW n, NEW f \in Nat \X Nat
  PROVE  [calls EXCEPT ![n] = Append(@, f)] \in Seq(Seq(Nat \X Nat))
<1>. DEFINE new == [calls EXCEPT ![n] = Append(@, f)]
<1>0. Len(calls) \in Nat /\ calls \in [1 .. Len(calls) -> Seq(Nat \X Nat)]  OBVIOUS
<1>1. CASE n \in 1 .. Len(calls)
  <2>1. Append(calls[n], f) \in Seq(Nat \X Nat)  BY <1>0, <1>1
  <2>2. new \in [1 .. Len(calls) -> Seq(Nat \X Nat)]  BY <1>0, <2>1
  <2>. QED  BY <1>0, <2>2
<1>2. CASE n \notin 1 .. Len(calls)
  <2>1. new = calls  BY <1>0, <1>2
  <2>. QED  BY <2>1
<1>. QED  BY <1>1, <1>2

LEMMA CollectedType ==
  ASSUME NEW a \in Answer, NEW e \in Event
  PROVE  Collected(a, e) \in Answer
<1>1. CASE e = Text \/ e = Result \/ e = Error
  <2>1. CASE e = Text
    <3>1. Collected(a, e) = [a EXCEPT !.text = @ + 1]  BY <2>1 DEF Collected, Text
    <3>2. a.text + 1 \in Nat  BY DEF Answer
    <3>. QED  BY <3>1, <3>2 DEF Answer
  <2>2. CASE e = Result  BY <2>2 DEF Collected, Result
  <2>3. CASE e = Error  BY <2>3 DEF Collected, Error
  <2>. QED  BY <1>1, <2>1, <2>2, <2>3
<1>2. CASE e = Start
  <2>1. Append(a.calls, <<>>) \in Seq(Seq(Nat \X Nat))  BY DEF Answer
  <2>. QED  BY <1>2, <2>1 DEF Collected, Answer, Start
<1>3. ASSUME NEW f \in Nat \X Nat, e = Delta(f) PROVE Collected(a, e) \in Answer
  <2>1. AddFragment(a.calls, f) \in Seq(Seq(Nat \X Nat))
    BY AppendLast DEF Answer, AddFragment
  <2>. QED  BY <1>3, <2>1 DEF Collected, Answer, Delta
<1>4. ASSUME NEW s \in StopReason, NEW u \in Usage, e = Done(s, u)
      PROVE  Collected(a, e) \in Answer
  BY <1>4 DEF Collected, Answer, Done
<1>. QED  BY <1>1, <1>2, <1>3, <1>4 DEF Event

(* An event is put on the channel by a goroutine that has not returned.    *)
LEMMA EventSent ==
  ASSUME StreamInv, NEW e \in Event, ~Gone, channel' = Append(channel, e),
         UNCHANGED <<collector, collected>>, reader' \in Reader, reason' \in StopReason,
         produced' \in Answer,
         e.type = "error" => reader' = "closed",
         ~interleaved' => ~interleaved,
         ~interleaved' => \A a \in Answer : SaysTheSame(a, produced) =>
                            SaysTheSame(Collected(a, e), produced')
  PROVE  StreamInv'
<1>. USE DEF StreamInv
<1>0. channel \in Seq(Event) /\ Len(channel) \in Nat  BY DEF StreamTypeOK
<1>1. StreamTypeOK'  BY <1>0 DEF StreamTypeOK
<1>2. collector = "collecting"  BY DEF ErrorIsLast, StreamTypeOK
<1>3. /\ Len(channel') = Len(channel) + 1 /\ channel'[Len(channel) + 1] = e
      /\ \A i \in 1 .. Len(channel) : channel'[i] = channel[i]
  BY <1>0
<1>4. ErrorIsLast'  BY <1>0, <1>2, <1>3 DEF ErrorIsLast, Gone
<1>5. UnderWayIsSent'
  <2>. SUFFICES ASSUME ~interleaved' PROVE \E s : LeadsToProduced(s)'
    BY DEF UnderWayIsSent
  <2>1. PICK s : LeadsToProduced(s)  BY <1>2 DEF UnderWayIsSent
  <2>. DEFINE last == s[Len(channel) + 1]
              t == [i \in 1 .. Len(channel) + 2 |->
                      IF i = Len(channel) + 2 THEN Collected(last, e) ELSE s[i]]
  <2>2. last \in Answer /\ SaysTheSame(last, produced)  BY <1>0, <2>1 DEF LeadsToProduced
  <2>3. Collected(last, e) \in Answer /\ SaysTheSame(Collected(last, e), produced')
    BY <2>2, CollectedType
  <2>4. t \in [1 .. Len(channel') + 1 -> Answer]
    BY <1>0, <1>3, <2>1, <2>3 DEF LeadsToProduced
  <2>5. t[1] = collected' /\ t[Len(channel') + 1] = Collected(last, e)
    BY <1>0, <1>3, <2>1 DEF LeadsToProduced
  <2>6. ASSUME NEW i \in 1 .. Len(channel') PROVE t[i + 1] = Collected(t[i], channel'[i])
    <3>1. CASE i = Len(channel) + 1  BY <1>0, <1>3, <3>1
    <3>2. CASE i \in 1 .. Len(channel)
      <4>1. t[i + 1] = s[i + 1] /\ t[i] = s[i]  BY <1>0, <3>2
      <4>. QED  BY <1>3, <2>1, <3>2, <4>1 DEF LeadsToProduced
    <3>. QED  BY <1>0, <1>3, <3>1, <3>2
  <2>. HIDE DEF t
  <2>. QED  BY <2>3, <2>4, <2>5, <2>6 DEF LeadsToProduced
<1>. QED  BY <1>1, <1>4, <1>5

(* The goroutine goes on, or returns, without a word.                      *)
LEMMA NothingSent ==
  ASSUME StreamInv, UNCHANGED <<produced, channel, collector, collected, interleaved>>,
         reader' \in Reader, reason' \in StopReason, Gone => Gone'
  PROVE  StreamInv'
<1>. USE DEF StreamInv
<1>1. StreamTypeOK'  BY DEF StreamTypeOK
<1>2. ErrorIsLast'  BY DEF ErrorIsLast
<1>3. UnderWayIsSent'  BY DEF UnderWayIsSent, LeadsToProduced
<1>. QED  BY <1>1, <1>2, <1>3

(* The loop reads an event, or the end of the channel.                     *)
LEMMA CollectStep == ASSUME StreamInv, CollectEvent PROVE StreamInv'
<1>. USE DEF StreamInv, CollectEvent
<1>0. channel \in Seq(Event) /\ Len(channel) \in Nat /\ collected \in Answer
  BY DEF StreamTypeOK
<1>1. CASE channel = <<>> /\ reader = "closed" /\ collector' = "collected"
           /\ UNCHANGED <<channel, collected>>
  <2>1. StreamTypeOK' /\ ErrorIsLast'  BY <1>1 DEF StreamTypeOK, ErrorIsLast, Gone
  <2>2. UnderWayIsSent'  BY <1>1 DEF UnderWayIsSent, LeadsToProduced
  <2>. QED  BY <2>1, <2>2
<1>2. CASE /\ channel # <<>> /\ channel' = Tail(channel)
           /\ collected' = Collected(collected, Head(channel))
           /\ collector' = IF Head(channel) = Error THEN "failed" ELSE "collecting"
  <2>1. /\ Head(channel) = channel[1] /\ Head(channel) \in Event /\ Len(channel) >= 1
        /\ channel' \in Seq(Event) /\ Len(channel') = Len(channel) - 1
        /\ \A i \in 1 .. Len(channel') : channel'[i] = channel[i + 1]
    BY <1>0, <1>2
  <2>2. StreamTypeOK'
    <3>1. collected' \in Answer  BY <1>0, <1>2, <2>1, CollectedType
    <3>. QED  BY <1>2, <2>1, <3>1 DEF StreamTypeOK
  <2>3. ErrorIsLast'
    <3>1. CASE Head(channel) = Error
      <4>1. channel[1].type = "error"  BY <2>1, <3>1 DEF Error
      <4>2. Len(channel) = 1 /\ Gone  BY <1>0, <2>1, <4>1 DEF ErrorIsLast
      <4>3. channel' = <<>>  BY <1>0, <1>2, <2>1, <4>2
      <4>. QED  BY <1>0, <2>1, <4>2, <4>3 DEF ErrorIsLast, Gone
    <3>2. CASE Head(channel) # Error
      <4>1. collector' = "collecting"  BY <1>2, <3>2
      <4>. QED  BY <1>0, <2>1, <4>1 DEF ErrorIsLast, Gone
    <3>. QED  BY <3>1, <3>2
  <2>4. UnderWayIsSent'
    <3>. SUFFICES ASSUME ~interleaved' PROVE \E s : LeadsToProduced(s)'
      BY DEF UnderWayIsSent
    <3>1. PICK s : LeadsToProduced(s)  BY DEF UnderWayIsSent
    <3>. DEFINE t == [i \in 1 .. Len(channel) |-> s[i + 1]]
    <3>2. t \in [1 .. Len(channel') + 1 -> Answer]
      BY <1>0, <2>1, <3>1 DEF LeadsToProduced
    <3>3. t[1] = collected' /\ SaysTheSame(t[Len(channel') + 1], produced')
      BY <1>0, <1>2, <2>1, <3>1 DEF LeadsToProduced
    <3>4. ASSUME NEW i \in 1 .. Len(channel') PROVE t[i + 1] = Collected(t[i], channel'[i])
      <4>1. i \in 1 .. Len(channel) /\ i + 1 \in 1 .. Len(channel) /\ channel'[i] = channel[i + 1]
        BY <1>0, <2>1
      <4>2. s[i + 1 + 1] = Collected(s[i + 1], channel[i + 1])
        BY <3>1, <4>1 DEF LeadsToProduced
      <4>. QED  BY <4>1, <4>2
    <3>. HIDE DEF t
    <3>. QED  BY <3>2, <3>3, <3>4 DEF LeadsToProduced
  <2>. QED  BY <2>2, <2>3, <2>4
<1>. QED  BY <1>1, <1>2
-----------------------------------------------------------------------------
(* What a backend sends of the answer it goes on with.                     *)
LEMMA MoreSent ==
  ASSUME StreamInv, NEW e \in Event, NEW answer \in Answer, More(e, answer),
         e.type # "error", ~interleaved' => ~interleaved,
         ~interleaved' => \A a \in Answer : SaysTheSame(a, produced) =>
                            SaysTheSame(Collected(a, e), answer)
  PROVE  StreamInv'
<1>1. /\ channel' = Append(channel, e) /\ UNCHANGED <<collector, collected, reason, reader>>
      /\ produced' = answer /\ ~Gone /\ reader' \in Reader /\ reason' \in StopReason
  BY DEF More, Emit, Reading, Gone, StreamInv, StreamTypeOK
<1>. QED  BY <1>1, EventSent

LEMMA TextStep == ASSUME StreamInv, SendText PROVE StreamInv'
<1>. DEFINE answer == [produced EXCEPT !.text = @ + 1]
<1>1. answer \in Answer
  <2>1. produced \in Answer  BY DEF StreamInv, StreamTypeOK
  <2>2. produced.text + 1 \in Nat  BY <2>1 DEF Answer
  <2>. QED  BY <2>1, <2>2 DEF Answer
<1>2. Text \in Event /\ Text.type # "error"  BY DEF Event, Text
<1>3. More(Text, answer) /\ interleaved' = interleaved  BY DEF SendText
<1>4. \A a \in Answer : SaysTheSame(a, produced) => SaysTheSame(Collected(a, Text), answer)
  <2>. SUFFICES ASSUME NEW a \in Answer, SaysTheSame(a, produced)
                PROVE  SaysTheSame(Collected(a, Text), answer)
    OBVIOUS
  <2>1. Collected(a, Text) = [a EXCEPT !.text = @ + 1]  BY DEF Collected, Text
  <2>2. produced \in Answer  BY DEF StreamInv, StreamTypeOK
  <2>. QED  BY <2>1, <2>2 DEF SaysTheSame, Answer
<1>. HIDE DEF answer
<1>. QED  BY <1>1, <1>2, <1>3, <1>4, MoreSent

LEMMA CallStep == ASSUME StreamInv, SendCall PROVE StreamInv'
<1>. DEFINE answer == [produced EXCEPT !.calls = Append(@, <<>>)]
<1>0. produced \in Answer  BY DEF StreamInv, StreamTypeOK
<1>1. answer \in Answer
  <2>1. Append(produced.calls, <<>>) \in Seq(Seq(Nat \X Nat))  BY <1>0 DEF Answer
  <2>. QED  BY <1>0, <2>1 DEF Answer
<1>2. Start \in Event /\ Start.type # "error"  BY DEF Event, Start
<1>3. More(Start, answer) /\ interleaved' = interleaved  BY DEF SendCall
<1>4. \A a \in Answer : SaysTheSame(a, produced) => SaysTheSame(Collected(a, Start), answer)
  <2>. SUFFICES ASSUME NEW a \in Answer, SaysTheSame(a, produced)
                PROVE  SaysTheSame(Collected(a, Start), answer)
    OBVIOUS
  <2>1. Collected(a, Start) = [a EXCEPT !.calls = Append(@, <<>>)]  BY DEF Collected, Start
  <2>. QED  BY <1>0, <2>1 DEF SaysTheSame, Answer
<1>. HIDE DEF answer
<1>. QED  BY <1>1, <1>2, <1>3, <1>4, MoreSent

LEMMA FragmentStep ==
  ASSUME StreamInv, NEW c \in DOMAIN produced.calls, SendFragment(c)
  PROVE  StreamInv'
<1>. DEFINE fragment == <<c, Len(produced.calls[c]) + 1>>
            answer == [produced EXCEPT !.calls[c] = Append(@, fragment)]
<1>0. /\ produced \in Answer /\ produced.calls \in Seq(Seq(Nat \X Nat))
      /\ c \in 1 .. Len(produced.calls) /\ Len(produced.calls) \in Nat
  BY DEF StreamInv, StreamTypeOK, Answer
<1>1. fragment \in Nat \X Nat
  <2>1. produced.calls[c] \in Seq(Nat \X Nat)  BY <1>0
  <2>2. Len(produced.calls[c]) + 1 \in Nat  BY <2>1
  <2>. QED  BY <1>0, <2>2
<1>2. More(Delta(fragment), answer) /\ interleaved' = (interleaved \/ c # Len(produced.calls))
  BY DEF SendFragment
<1>. HIDE DEF fragment
<1>3. answer \in Answer
  <2>1. [produced.calls EXCEPT ![c] = Append(@, fragment)] \in Seq(Seq(Nat \X Nat))
    BY <1>0, <1>1, AppendLast
  <2>. QED  BY <1>0, <2>1 DEF Answer
<1>4. Delta(fragment) \in Event /\ Delta(fragment).type # "error"  BY <1>1 DEF Event, Delta
<1>5. ASSUME ~interleaved', NEW a \in Answer, SaysTheSame(a, produced)
      PROVE  SaysTheSame(Collected(a, Delta(fragment)), answer)
  <2>1. Collected(a, Delta(fragment)) = [a EXCEPT !.calls = AddFragment(@, fragment)]
    BY DEF Collected, Delta
  <2>2. c = Len(produced.calls)  BY <1>2, <1>5
  <2>. QED  BY <1>0, <1>5, <2>1, <2>2 DEF SaysTheSame, Answer, AddFragment
<1>. HIDE DEF answer
<1>6. ~interleaved' => ~interleaved  BY <1>2
<1>. QED  BY <1>2, <1>3, <1>4, <1>5, <1>6, MoreSent

LEMMA ResultStep == ASSUME StreamInv, SendResult PROVE StreamInv'
<1>1. Result \in Event /\ Result.type # "error"  BY DEF Event, Result
<1>2. More(Result, produced) /\ interleaved' = interleaved  BY DEF SendResult
<1>3. \A a \in Answer : Collected(a, Result) = a  BY DEF Collected, Result
<1>4. produced \in Answer  BY DEF StreamInv, StreamTypeOK
<1>. QED  BY <1>1, <1>2, <1>3, <1>4, MoreSent

LEMMA DoneStep ==
  ASSUME StreamInv, NEW stop \in StopReason, NEW u \in Usage, NEW next \in Reader,
         SendDone(stop, u, next)
  PROVE  StreamInv'
<1>. DEFINE e == Done(stop, u)
<1>1. e \in Event /\ e.type # "error"  BY DEF Event, Done
<1>2. /\ ~Gone /\ channel' = Append(channel, e) /\ UNCHANGED <<collector, collected>>
      /\ reader' = next /\ UNCHANGED <<reason, interleaved>>
      /\ produced' = [produced EXCEPT !.stop = stop]
  BY DEF SendDone, Emit, Reading, Gone
<1>3. produced \in Answer /\ reason \in StopReason  BY DEF StreamInv, StreamTypeOK
<1>4. produced' \in Answer  BY <1>2, <1>3 DEF Answer
<1>5. ASSUME NEW a \in Answer, SaysTheSame(a, produced)
      PROVE  SaysTheSame(Collected(a, e), produced')
  <2>1. Collected(a, e) = [a EXCEPT !.stop = stop, !.usage = u]  BY DEF Collected, Done
  <2>. QED  BY <1>2, <1>3, <1>5, <2>1 DEF SaysTheSame, Answer
<1>. HIDE DEF e
<1>. QED  BY <1>1, <1>2, <1>3, <1>4, <1>5, EventSent

(* An error goes out last, from the goroutine or for a jammed process.     *)
LEMMA ErrorSent ==
  ASSUME StreamInv, ~Gone, channel' = Append(channel, Error), reader' = "closed",
         UNCHANGED <<collector, collected, reason, produced, interleaved>>
  PROVE  StreamInv'
<1>1. Error \in Event  BY DEF Event
<1>2. \A a \in Answer : Collected(a, Error) = a  BY DEF Collected, Error
<1>3. /\ produced' \in Answer /\ reason' \in StopReason /\ reader' \in Reader
  BY DEF StreamInv, StreamTypeOK, Reader
<1>. QED  BY <1>1, <1>2, <1>3, EventSent

LEMMA FailStep == ASSUME StreamInv, Fail PROVE StreamInv'
  BY ErrorSent DEF Fail, Emit, Reading, Gone, AfterError

LEMMA QuietStep == ASSUME StreamInv, CloseQuietly PROVE StreamInv'
<1>1. reader' \in Reader /\ reason' \in StopReason /\ (Gone => Gone')
  BY DEF CloseQuietly, StreamInv, StreamTypeOK, Reader, Gone
<1>. QED  BY <1>1, NothingSent DEF CloseQuietly

LEMMA FarSideStep == ASSUME StreamInv, FarSide PROVE StreamInv'
<1>0. /\ reader \in Reader /\ reason \in StopReason /\ produced.calls \in Seq(Seq(Nat \X Nat))
  BY DEF StreamInv, StreamTypeOK, Answer
<1>1. CASE SendText  BY <1>1, TextStep
<1>2. CASE SendCall  BY <1>2, CallStep
<1>3. CASE SendResult  BY <1>3, ResultStep
<1>4. CASE AnthropicSends
  <2>1. CASE produced.calls # <<>> /\ SendFragment(Len(produced.calls))
    <3>1. Len(produced.calls) \in DOMAIN produced.calls  BY <1>0, <2>1
    <3>. QED  BY <2>1, <3>1, FragmentStep
  <2>2. CASE /\ reason' \in StopReason \ {NoReason}
             /\ UNCHANGED <<backend, reader, nested, produced, channel, collector, collected,
                            interleaved>>
    BY <1>0, <2>2, NothingSent DEF Gone
  <2>. QED  BY <1>1, <1>2, <1>4, <2>1, <2>2 DEF AnthropicSends
<1>5. CASE OpenaiSends  BY <1>1, <1>2, <1>5, FragmentStep DEF OpenaiSends
<1>6. CASE LocalSends \/ CassSends \/ ScreenSends
  BY <1>1, <1>2, <1>3, <1>6 DEF LocalSends, CassSends, ScreenSends
<1>7. CASE ClaudeSends
  <2>1. CASE /\ Reading /\ reader' = "jammed"
             /\ UNCHANGED <<backend, nested, reason, produced, channel, collector, collected,
                            interleaved>>
    BY <1>0, <2>1, NothingSent DEF Reader, Reading, Gone
  <2>. QED  BY <1>1, <1>2, <1>3, <1>7, <2>1 DEF ClaudeSends
<1>8. CASE FallBackToScreen
  BY <1>0, <1>8, NothingSent DEF FallBackToScreen, Gone
<1>. QED  BY <1>4, <1>5, <1>6, <1>7, <1>8 DEF FarSide

LEMMA FarEndStep == ASSUME StreamInv, NEW u \in Usages, FarEnd(u) PROVE StreamInv'
<1>0. /\ reader \in Reader /\ reason \in StopReason /\ u \in Usage /\ NoUsage \in Usage
      /\ "end_turn" \in StopReason /\ {"done", Returned} \subseteq Reader
  BY DEF StreamInv, StreamTypeOK, Usage, StopReason, Reader, Returned
<1>1. CASE Fail  BY <1>1, FailStep
<1>2. CASE CloseQuietly  BY <1>2, QuietStep
<1>3. CASE AnthropicEnds(u)  BY <1>0, <1>1, <1>2, <1>3, DoneStep DEF AnthropicEnds
<1>4. CASE OpenaiEnds(u)  BY <1>0, <1>1, <1>4, DoneStep DEF OpenaiEnds
<1>5. CASE LocalEnds(u)  BY <1>0, <1>1, <1>5, DoneStep DEF LocalEnds
<1>6. CASE ClaudeEnds(u)  BY <1>0, <1>1, <1>2, <1>6, DoneStep DEF ClaudeEnds
<1>7. CASE CassEnds  BY <1>0, <1>2, <1>7, DoneStep DEF CassEnds
<1>8. CASE ScreenEnds  BY <1>0, <1>1, <1>8, DoneStep DEF ScreenEnds
<1>9. CASE CloseAgain
  <2>1. reader' \in Reader /\ Gone'  BY <1>9 DEF CloseAgain, Reader, Gone
  <2>. QED  BY <1>0, <1>9, <2>1, NothingSent DEF CloseAgain
<1>. QED  BY <1>3, <1>4, <1>5, <1>6, <1>7, <1>8, <1>9 DEF FarEnd

LEMMA CancelStep == ASSUME StreamInv, CancelStream PROVE StreamInv'
<1>1. CASE /\ reader = "jammed" /\ Len(channel) < Capacity
           /\ channel' = Append(channel, Error) /\ reader' = "closed"
           /\ UNCHANGED <<backend, nested, reason, produced, collector, collected, interleaved>>
  BY <1>1, ErrorSent DEF Gone
<1>. QED  BY <1>1, QuietStep DEF CancelStream

LEMMA OpenedStream ==
  ASSUME reader' = "reading" \/ reader' = "closed", reason' = NoReason, produced' = NoAnswer,
         channel' = <<>>, collected' = NoAnswer,
         collector' = "collecting" \/ (collector' = "collected" /\ reader' = "closed")
  PROVE  StreamInv'
<1>1. StreamTypeOK'  BY NoAnswerType DEF StreamTypeOK, Reader
<1>2. ErrorIsLast'  BY DEF ErrorIsLast, Gone
<1>3. UnderWayIsSent'
  <2>. DEFINE s == [i \in 1 .. 1 |-> NoAnswer]
  <2>1. s \in [1 .. 1 -> Answer] /\ s[1] = NoAnswer  BY NoAnswerType
  <2>2. Len(channel') = 0  OBVIOUS
  <2>. HIDE DEF s
  <2>3. LeadsToProduced(s)'  BY <2>1, <2>2 DEF LeadsToProduced, SaysTheSame
  <2>. QED  BY <2>3 DEF UnderWayIsSent
<1>. QED  BY <1>1, <1>2, <1>3 DEF StreamInv

(* What the stream does not touch.                                         *)
LEMMA StreamStutters == ASSUME StreamInv, UNCHANGED stream PROVE StreamInv'
<1>1. StreamTypeOK'  BY DEF StreamInv, StreamTypeOK, stream
<1>2. ErrorIsLast'  BY DEF StreamInv, ErrorIsLast, Gone, stream
<1>3. UnderWayIsSent'  BY DEF StreamInv, UnderWayIsSent, LeadsToProduced, stream
<1>. QED  BY <1>1, <1>2, <1>3 DEF StreamInv
-----------------------------------------------------------------------------
(* SelectModel looks at the routing only.                                  *)
LEMMA SameModel == ASSUME UNCHANGED routing PROVE SelectModel' = SelectModel
  BY DEF routing, SelectModel, Budgeted, Complexity, Downgraded, Explicit, Tier, InputTokens,
         UsedUp, Else

LEMMA BudgetKept ==
  ASSUME BudgetInv, UNCHANGED <<routing, billed>>,
         stage' = "streaming" => asked' = SelectModel
  PROVE  BudgetInv'
  BY SameModel DEF BudgetInv, routing

LEMMA Charged == ASSUME RequestInv, Answered PROVE BudgetInv'
<1>1. collected.usage.billed \in Nat /\ collected.usage.cached \in Nat
  BY UsageType DEF RequestInv, StreamInv, StreamTypeOK, Answer
<1>2. /\ spent \in Nat /\ billed \in Nat /\ (policy.budget # "off" => billed <= spent)
  BY DEF RequestInv, BudgetInv
<1>3. /\ billed' = billed + collected.usage.billed /\ policy' = policy /\ stage' = "idle"
      /\ spent' = IF policy.budget = "off" THEN spent ELSE Recorded(collected.usage)
  BY DEF Answered, RecordUsage
<1>4. Recorded(collected.usage) \in Nat /\ Recorded(collected.usage) >= spent + collected.usage.billed
  BY <1>1, <1>2 DEF Recorded
<1>. QED  BY <1>1, <1>2, <1>3, <1>4 DEF BudgetInv

LEMMA RequestInvInit == RequestInit => RequestInv
<1>. SUFFICES ASSUME RequestInit PROVE RequestInv  OBVIOUS
<1>1. StreamTypeOK  BY NoAnswerType DEF RequestInit, StreamTypeOK, Reader
<1>2. ErrorIsLast  BY DEF RequestInit, ErrorIsLast, Gone
<1>3. UnderWayIsSent
  <2>. DEFINE s == [i \in 1 .. 1 |-> NoAnswer]
  <2>1. s \in [1 .. 1 -> Answer] /\ s[1] = NoAnswer  BY NoAnswerType
  <2>2. Len(channel) = 0  BY DEF RequestInit
  <2>. HIDE DEF s
  <2>3. LeadsToProduced(s)  BY <2>1, <2>2 DEF RequestInit, LeadsToProduced, SaysTheSame
  <2>. QED  BY <2>3 DEF UnderWayIsSent
<1>4. BudgetInv  BY DEF RequestInit, RoutingInit, BudgetInv
<1>. QED  BY <1>1, <1>2, <1>3, <1>4 DEF RequestInv, StreamInv

LEMMA RequestInvStep == RequestInv /\ [RequestNext]_requestVars => RequestInv'
<1>. SUFFICES ASSUME RequestInv, [RequestNext]_requestVars PROVE RequestInv'  OBVIOUS
<1>. USE DEF RequestInv
<1>1. ASSUME NEW a \in Answerers, Ask(a) PROVE RequestInv'
  <2>1. StreamInv'  BY <1>1, OpenedStream DEF Ask, Open
  <2>2. BudgetInv'  BY <1>1, BudgetKept DEF Ask
  <2>. QED  BY <2>1, <2>2
<1>2. ASSUME NEW a \in Answerers, RequestRefused(a) PROVE RequestInv'
  <2>1. StreamInv'  BY <1>2, StreamStutters DEF RequestRefused
  <2>2. BudgetInv'  BY <1>2, BudgetKept DEF RequestRefused
  <2>. QED  BY <2>1, <2>2
<1>3. CASE Answered
  <2>1. StreamInv'  BY <1>3, StreamStutters DEF Answered
  <2>. QED  BY <1>3, <2>1, Charged
<1>4. CASE Failed
  <2>1. StreamInv'  BY <1>4, StreamStutters DEF Failed
  <2>2. BudgetInv'  BY <1>4, BudgetKept DEF Failed
  <2>. QED  BY <2>1, <2>2
<1>5. CASE Reconfigure
  <2>1. StreamInv'  BY <1>5, StreamStutters DEF Reconfigure
  <2>2. BudgetInv'
    BY <1>5 DEF Reconfigure, SetModelOverride, AdvancePhase, BudgetInv, request
  <2>. QED  BY <2>1, <2>2
<1>6. CASE Streams
  <2>1. StreamInv'  BY <1>6, FarSideStep, FarEndStep, CollectStep, CancelStep DEF Streams
  <2>2. BudgetInv'  BY <1>6, BudgetKept DEF Streams, request, BudgetInv
  <2>. QED  BY <2>1, <2>2
<1>7. CASE UNCHANGED requestVars
  <2>1. StreamInv'  BY <1>7, StreamStutters DEF requestVars
  <2>2. BudgetInv'  BY <1>7, BudgetKept DEF requestVars, request, BudgetInv
  <2>. QED  BY <2>1, <2>2
<1>. QED  BY <1>1, <1>2, <1>3, <1>4, <1>5, <1>6, <1>7 DEF RequestNext

(* What the loop has collected, what is under way on the channel and what  *)
(* was sent fit together at every step, and the budget counts what was     *)
(* billed.                                                                 *)
THEOREM RequestInvHolds == RequestSpec => []RequestInv
  BY RequestInvInit, RequestInvStep, PTL DEF RequestSpec

LEMMA RequestInvImplies ==
  RequestInv => CollectsWhatWasSent /\ NothingAfterError /\ DegradedForGood
<1>. SUFFICES ASSUME RequestInv PROVE CollectsWhatWasSent /\ NothingAfterError /\ DegradedForGood
  OBVIOUS
<1>. USE DEF RequestInv
<1>1. CollectsWhatWasSent
  <2>. SUFFICES ASSUME collector = "collected", ~interleaved
                PROVE  SaysTheSame(collected, produced)
    BY DEF CollectsWhatWasSent, SaysTheSame
  <2>1. PICK s : LeadsToProduced(s)  BY DEF StreamInv, UnderWayIsSent
  <2>2. Len(channel) = 0  BY DEF StreamInv, ErrorIsLast
  <2>. QED  BY <2>1, <2>2 DEF LeadsToProduced
<1>2. NothingAfterError  BY DEF StreamInv, ErrorIsLast, Gone, NothingAfterError
<1>3. DegradedForGood
  <2>. SUFFICES ASSUME stage = "streaming", policy.budget = "graceful",
                       100 * billed >= DegradeAt * MaxTokens
                PROVE  asked = "haiku"
    BY DEF DegradedForGood
  <2>1. /\ asked = SelectModel /\ billed <= spent /\ spent \in Nat /\ billed \in Nat
        /\ DegradeAt \in Nat /\ MaxTokens \in Nat
    BY DEF BudgetInv
  <2>. DEFINE limit == DegradeAt * MaxTokens
  <2>2. limit \in Nat /\ 100 * billed >= limit  BY <2>1
  <2>. HIDE DEF limit
  <2>3. 100 * spent >= limit  BY <2>1, <2>2
  <2>. USE DEF limit
  <2>. QED  BY <2>1, <2>3 DEF SelectModel, Budgeted
<1>. QED  BY <1>1, <1>2, <1>3

(* The answer the loop ends with is the one the backend sent, text, calls  *)
(* with their fragments and stop reason, for every backend, any channel    *)
(* capacity and any number of events.                                      *)
THEOREM CollectsWhatWasSentHolds == RequestSpec => []CollectsWhatWasSent
  BY RequestInvHolds, RequestInvImplies, PTL

(* A backend sends nothing after an error, so that no goroutine is left    *)
(* behind when the loop stops reading.                                     *)
THEOREM NothingAfterErrorHolds == RequestSpec => []NothingAfterError
  BY RequestInvHolds, RequestInvImplies, PTL

(* Once what the answers cost has reached the threshold of a graceful      *)
(* budget, every request asks for the cheapest model, whatever the other   *)
(* layers of the router say.                                               *)
THEOREM DegradedForGoodHolds == RequestSpec => []DegradedForGood
  BY RequestInvHolds, RequestInvImplies, PTL
=============================================================================

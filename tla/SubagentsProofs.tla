--------------------------- MODULE SubagentsProofs ---------------------------
(* Subagents for any IDs, patterns and tasks and any number of slots and    *)
(* Agent calls: writers keep apart, reservations come back, evidence        *)
(* arrives, and the semaphore holds.                                        *)
EXTENDS Subagents, FiniteSetTheorems, TLAPS

USE SubagentsAssumption DEF SubagentsAssumption, runner

(* Releases of the current call belong to tasks that have left.             *)
LateReleases ==
  \A r \in releases :
    r[1] <= call /\ (r[1] = call => pc[r[2]] \in {"leaving", "done"})

(* A goroutine holds its slot from Start to Leave.                          *)
Slots ==
  /\ sem = {s \in Subs : pc[s] \notin {"queued", "done"}}
  /\ Cardinality(sem) <= maxConcurrent

(* A writer at work has what it no longer has to reserve, unless the TTL or *)
(* an earlier call's release took it.                                       *)
Has(s, p) == holder[p] = s \/ <<s, p>> \in lapsed \cup dropped

Reserved ==
  \A s \in Subs :
    /\ todo[s] \subseteq task[s].wants
    /\ pc[s] = "queued" => todo[s] = task[s].wants
    /\ pc[s] = "reserving" => Writes(s)
    /\ pc[s] = "reserving" => \A p \in task[s].wants \ todo[s] : Has(s, p)
    /\ pc[s] = "running" /\ Writes(s) => \A p \in task[s].wants : Has(s, p)

(* What ic holds for an ID: its task is a writer at work, or else a release *)
(* is under way or was cut short.                                           *)
Accounted ==
  \A p \in Patterns : holder[p] \in Subs =>
    \/ Working(holder[p]) /\ Writes(holder[p])
    \/ \E c \in Call : <<c, holder[p]>> \in releases
    \/ holder[p] \in unreleased

Evidence ==
  \A s \in Subs :
    /\ parent[s] <= events[s]
    /\ pc[s] \in {"queued", "reserving"} => events[s] = 0 /\ parent[s] = 0
    /\ pc[s] \in {"releasing", "leaving", "done"} => parent[s] = events[s]

IInv == TypeOK /\ LateReleases /\ Slots /\ Reserved /\ Accounted /\ Evidence

LEMMA WidthIsNat == IInv => maxConcurrent \in Nat
  BY DEF IInv, TypeOK
-----------------------------------------------------------------------------
LEMMA InitIInv == Init => IInv
<1>. SUFFICES ASSUME Init PROVE IInv  OBVIOUS
<1>1. TypeOK  BY DEF Init, TypeOK, Call, Kind
<1>2. LateReleases /\ Reserved /\ Accounted /\ Evidence
  BY DEF Init, LateReleases, Reserved, Accounted, Evidence
<1>3. Slots  BY FS_EmptySet DEF Init, Slots
<1>. QED  BY <1>1, <1>2, <1>3 DEF IInv

LEMMA StartCallStep ==
  ASSUME IInv, StartCall
  PROVE  IInv'
<1>. USE DEF IInv, StartCall, coordination
<1>1. TypeOK'
  <2>1. task' \in [Subs -> [kind : Kind, wants : SUBSET Patterns]]  OBVIOUS
  <2>2. todo' \in [Subs -> SUBSET Patterns]  BY <2>1
  <2>3. call' \in Call  BY DEF TypeOK, Call
  <2>. QED  BY <2>1, <2>2, <2>3 DEF TypeOK
<1>2. LateReleases'  BY DEF LateReleases, TypeOK, Call, Working
<1>3. Slots'  BY FS_EmptySet DEF Slots, TypeOK
<1>4. Reserved'  BY DEF Reserved
<1>5. Accounted'  BY DEF Accounted, TypeOK, Returned, Working
<1>6. Evidence'  BY DEF Evidence
<1>. QED  BY <1>1, <1>2, <1>3, <1>4, <1>5, <1>6

LEMMA StartStep ==
  ASSUME IInv, NEW s \in Subs, Start(s)
  PROVE  IInv'
<1>. USE DEF IInv, Start, request, coordination
<1>1. /\ pc[s] = "queued" /\ sem' = sem \cup {s} /\ UNCHANGED <<runner, call, task, todo, events, parent>>
      /\ \E w \in {"reserving", "running", "leaving"} :
           /\ pc' = [pc EXCEPT ![s] = w]
           /\ w = "reserving" => Writes(s)
           /\ w = "running" => ~Writes(s)
  OBVIOUS
<1>2. TypeOK'  BY DEF TypeOK
<1>3. LateReleases'  BY <1>1 DEF LateReleases, TypeOK
<1>4. Slots'
  <2>1. sem \in SUBSET Subs /\ IsFiniteSet(sem) /\ s \notin sem
    BY <1>1, FS_Subset DEF TypeOK, Slots
  <2>2. Cardinality(sem') = Cardinality(sem) + 1 /\ Cardinality(sem) \in Nat
    BY <1>1, <2>1, FS_AddElement, FS_CardinalityType
  <2>3. Cardinality(sem) < maxConcurrent /\ maxConcurrent' = maxConcurrent  OBVIOUS
  <2>. HIDE DEF IInv, Start
  <2>4. Cardinality(sem') <= maxConcurrent'  BY <2>2, <2>3, WidthIsNat
  <2>5. sem' = {t \in Subs : pc'[t] \notin {"queued", "done"}}
    BY <1>1 DEF IInv, TypeOK, Slots
  <2>. QED  BY <2>4, <2>5 DEF Slots
<1>5. Reserved'  BY <1>1 DEF Reserved, TypeOK, Writes, Has
<1>6. Accounted'
  <2>1. \A t \in Subs : Working(t) => Working(t)'  BY <1>1 DEF TypeOK, Working
  <2>2. UNCHANGED <<ic, task, holder, releases, unreleased>> /\ holder \in [Patterns -> Subs \cup {Nobody}]
    BY DEF TypeOK
  <2>. HIDE DEF IInv, Start
  <2>3. \A t \in Subs : Writes(t)' = Writes(t)  BY <2>2 DEF Writes
  <2>. QED  BY <2>1, <2>2, <2>3 DEF IInv, Accounted
<1>7. Evidence'  BY <1>1 DEF Evidence, TypeOK
<1>. QED  BY <1>2, <1>3, <1>4, <1>5, <1>6, <1>7

LEMMA ReserveStep ==
  ASSUME IInv, NEW s \in Subs, Reserve(s)
  PROVE  IInv'
<1>. USE DEF IInv, request
<1>1. PICK p \in todo[s] :
        /\ Granted(s, p)
        /\ holder' = [holder EXCEPT ![p] = s]
        /\ todo' = [todo EXCEPT ![s] = @ \ {p}]
        /\ IF LastReserved(s, p) THEN pc' = [pc EXCEPT ![s] = "running"] ELSE UNCHANGED pc
  BY DEF Reserve
<1>2. /\ pc[s] = "reserving" /\ Writes(s) /\ p \in task[s].wants /\ p \in Patterns
      /\ UNCHANGED <<runner, request, sem, result, events, parent, releases, unreleased, lapsed, dropped>>
  BY <1>1 DEF Reserve, Reserved, TypeOK
<1>3. TypeOK'  BY <1>1, <1>2 DEF TypeOK
<1>4. LateReleases'  BY <1>1, <1>2 DEF LateReleases, TypeOK
<1>5. Slots'  BY <1>1, <1>2 DEF Slots, TypeOK
<1>6. Reserved'
  <2>1. \A t \in Subs, q \in Patterns : Has(t, q) => Has(t, q)'
    BY <1>1, <1>2 DEF Has, Granted, TypeOK
  <2>2. Has(s, p)'  BY <1>1, <1>2 DEF Has, TypeOK
  <2>3. \A t \in Subs : Writes(t)' = Writes(t)  BY <1>2 DEF Writes
  <2>4. \A t \in Subs : t # s => pc'[t] = pc[t] /\ todo'[t] = todo[t]
    BY <1>1, <1>2 DEF TypeOK
  <2>5. todo'[s] = todo[s] \ {p} /\ (pc'[s] = "running" => todo'[s] = {}) /\ pc'[s] # "queued"
    BY <1>1, <1>2 DEF TypeOK, LastReserved
  <2>6. \A q \in task[s].wants \ todo'[s] : Has(s, q)'
    BY <1>2, <2>1, <2>2, <2>5 DEF Reserved, TypeOK
  <2>. QED  BY <1>2, <2>1, <2>3, <2>4, <2>5, <2>6 DEF Reserved, TypeOK
<1>7. Accounted'
  <2>1. \A t \in Subs : Working(t) => Working(t)'  BY <1>1, <1>2 DEF TypeOK, Working
  <2>2. Working(s)  BY <1>2 DEF Working
  <2>. QED  BY <1>1, <1>2, <2>1, <2>2 DEF Accounted, TypeOK, Writes
<1>8. Evidence'  BY <1>1, <1>2 DEF Evidence, TypeOK
<1>. QED  BY <1>3, <1>4, <1>5, <1>6, <1>7, <1>8

(* What a goroutine does without touching what ic holds or is told.         *)
LEMMA LocalStep ==
  ASSUME IInv, NEW s \in Subs, Turn(s) \/ LoopReturns(s) \/ Flush(s)
  PROVE  IInv'
<1>. USE DEF IInv, request, coordination, Turn, LoopReturns, Flush, Flushed
<1>1. /\ UNCHANGED <<runner, call, task, todo, sem, holder, releases, unreleased, lapsed, dropped>>
      /\ \/ UNCHANGED pc
         \/ pc[s] = "running" /\ pc' = [pc EXCEPT ![s] = "flushing"]
         \/ pc[s] = "flushing" /\ pc' = [pc EXCEPT ![s] = "releasing"]
  OBVIOUS
<1>2. TypeOK'
  <2>1. CASE Turn(s)
    <3>1. events' \in [Subs -> 0 .. MaxTurns]  BY <2>1 DEF TypeOK
    <3>. QED  BY <2>1, <3>1 DEF TypeOK
  <2>2. CASE LoopReturns(s)  BY <2>2 DEF TypeOK
  <2>3. CASE Flush(s)  BY <2>3 DEF TypeOK
  <2>. QED  BY <2>1, <2>2, <2>3
<1>3. LateReleases' /\ Slots'  BY <1>1 DEF LateReleases, Slots, TypeOK
<1>4. Reserved'  BY <1>1 DEF Reserved, TypeOK, Writes, Has
<1>5. Accounted'
  <2>1. \A t \in Subs : Working(t)' = Working(t)  BY <1>1 DEF TypeOK, Working
  <2>. QED  BY <1>1, <2>1 DEF Accounted, TypeOK, Writes
<1>6. Evidence'  BY DEF Evidence, TypeOK
<1>. QED  BY <1>2, <1>3, <1>4, <1>5, <1>6

LEMMA RefuseStep ==
  ASSUME IInv, NEW s \in Subs, Refuse(s)
  PROVE  IInv'
<1>. USE DEF IInv, request
<1>1. PICK p \in todo[s] :
        holder' \in {holder} \cup
                    (IF Granted(s, p) THEN {[holder EXCEPT ![p] = s]} ELSE {})
  BY DEF Refuse
<1>2. /\ pc[s] = "reserving" /\ p \in Patterns
      /\ releases' = releases \cup {<<call, s>>} /\ pc' = [pc EXCEPT ![s] = "leaving"]
      /\ result' = [result EXCEPT ![s] = "failed"]
      /\ UNCHANGED <<runner, call, task, todo, sem, events, parent, unreleased, lapsed, dropped>>
  BY <1>1 DEF Refuse, Undo, Releasing, TypeOK
<1>3. \A t \in Subs, q \in Patterns : holder[q] = t => holder'[q] = t
  BY <1>1, <1>2 DEF Granted, TypeOK
<1>4. \A q \in Patterns : holder'[q] \in {holder[q], s}  BY <1>1, <1>2 DEF TypeOK
<1>5. TypeOK'
  <2>1. holder' \in [Patterns -> Subs \cup {Nobody}]  BY <1>1, <1>2 DEF TypeOK
  <2>. QED  BY <1>2, <2>1 DEF TypeOK
<1>6. LateReleases'  BY <1>2 DEF LateReleases, TypeOK, Call
<1>7. Slots'  BY <1>2 DEF Slots, TypeOK
<1>8. Reserved'  BY <1>2, <1>3 DEF Reserved, TypeOK, Writes, Has
<1>9. Accounted'
  <2>1. \A t \in Subs \ {s} : Working(t)' = Working(t)  BY <1>2 DEF TypeOK, Working
  <2>2. call \in Call /\ <<call, s>> \in releases'  BY <1>2 DEF TypeOK
  <2>. QED  BY <1>2, <1>3, <1>4, <2>1, <2>2 DEF Accounted, TypeOK, Writes
<1>10. Evidence'  BY <1>2 DEF Evidence, TypeOK
<1>. QED  BY <1>5, <1>6, <1>7, <1>8, <1>9, <1>10

LEMMA LeaveStep ==
  ASSUME IInv, NEW s \in Subs, Leave(s)
  PROVE  IInv'
<1>. USE DEF IInv, request
<1>1. /\ pc[s] \in {"releasing", "leaving"} /\ pc' = [pc EXCEPT ![s] = "done"]
      /\ sem' = sem \ {s}
      /\ lapsed' = lapsed \ ({s} \X Patterns) /\ dropped' = dropped \ ({s} \X Patterns)
      /\ UNCHANGED <<runner, call, task, todo, result, events, parent, holder, unreleased>>
  BY DEF Leave, Freed
<1>2. /\ releases \subseteq releases' /\ releases' \subseteq releases \cup {<<call, s>>}
      /\ pc[s] = "releasing" /\ Writes(s) => <<call, s>> \in releases'
  BY DEF Leave, Releasing
<1>3. TypeOK'  BY <1>1, <1>2 DEF TypeOK
<1>4. LateReleases'  BY <1>1, <1>2 DEF LateReleases, TypeOK, Call
<1>5. Slots'
  <2>1. sem' = {t \in Subs : pc'[t] \notin {"queued", "done"}}  BY <1>1 DEF TypeOK, Slots
  <2>2. IsFiniteSet(sem)  BY FS_Subset DEF TypeOK
  <2>3. Cardinality(sem') <= Cardinality(sem) /\ Cardinality(sem) \in Nat /\ Cardinality(sem') \in Nat
    BY <1>1, <2>2, FS_Subset, FS_CardinalityType
  <2>4. Cardinality(sem) <= maxConcurrent /\ maxConcurrent' = maxConcurrent  BY <1>1 DEF Slots
  <2>. HIDE DEF IInv
  <2>5. Cardinality(sem') <= maxConcurrent'  BY <2>3, <2>4, WidthIsNat
  <2>. QED  BY <2>1, <2>5 DEF Slots
<1>6. Reserved'
  <2>1. \A t \in Subs \ {s} : \A q \in Patterns : Has(t, q) => Has(t, q)'  BY <1>1 DEF Has
  <2>. QED  BY <1>1, <2>1 DEF Reserved, TypeOK, Writes
<1>7. Accounted'
  <2>1. \A t \in Subs \ {s} : Working(t)' = Working(t)  BY <1>1 DEF TypeOK, Working
  <2>2. call \in Call  BY DEF TypeOK
  <2>3. pc[s] = "leaving" => ~Working(s)  BY DEF Working
  <2>. QED  BY <1>1, <1>2, <2>1, <2>2, <2>3 DEF Accounted, TypeOK, Writes
<1>8. Evidence'  BY <1>1 DEF Evidence, TypeOK
<1>. QED  BY <1>3, <1>4, <1>5, <1>6, <1>7, <1>8

LEMMA ReleaseRunsStep ==
  ASSUME IInv, ReleaseRuns
  PROVE  IInv'
<1>. USE DEF IInv, request, progress
<1>1. PICK r \in releases :
        /\ releases' = releases \ {r}
        /\ holder' = [p \in Patterns |-> IF holder[p] = r[2] THEN Nobody ELSE holder[p]]
        /\ unreleased' = unreleased \ {r[2]}
        /\ dropped' = IF r[1] # call /\ Working(r[2])
                      THEN dropped \cup ({r[2]} \X Held(r[2])) ELSE dropped
        /\ UNCHANGED <<runner, request, todo, pc, progress, lapsed>>
  BY DEF ReleaseRuns
<1>2. r[1] \in Call /\ r[2] \in Subs /\ r = <<r[1], r[2]>>  BY DEF TypeOK
<1>3. Held(r[2]) \subseteq Patterns /\ \A p \in Patterns : holder[p] = r[2] => p \in Held(r[2])
  BY DEF Held
<1>4. TypeOK'  BY <1>1, <1>2, <1>3 DEF TypeOK
<1>5. LateReleases' /\ Slots'  BY <1>1 DEF LateReleases, Slots
<1>6. Reserved'
  <2>1. \A t \in Subs, q \in Patterns : Working(t) /\ Has(t, q) => Has(t, q)'
    <3>. SUFFICES ASSUME NEW t \in Subs, NEW q \in Patterns, Working(t), Has(t, q) PROVE Has(t, q)'
      OBVIOUS
    <3>1. CASE holder[q] = t /\ t = r[2]
      <4>1. r[1] # call  BY <3>1 DEF LateReleases, Working
      <4>. QED  BY <1>1, <1>3, <3>1, <4>1 DEF Has
    <3>. QED  BY <1>1, <3>1 DEF Has
  <2>. QED  BY <1>1, <2>1 DEF Reserved, TypeOK, Writes, Working
<1>7. Accounted'
  <2>1. \A p \in Patterns : holder'[p] \in Subs => holder'[p] = holder[p] /\ holder[p] # r[2]
    BY <1>1
  <2>2. UNCHANGED <<pc, ic, task>>  BY <1>1
  <2>3. \A t \in Subs \ {r[2]} :
          /\ \A c \in Call : <<c, t>> \in releases => <<c, t>> \in releases'
          /\ t \in unreleased => t \in unreleased'
    BY <1>1, <1>2
  <2>. HIDE DEF IInv, runner, request, progress
  <2>4. ASSUME NEW p \in Patterns, holder'[p] \in Subs
        PROVE  \/ Working(holder[p])' /\ Writes(holder[p])'
               \/ \E c \in Call : <<c, holder[p]>> \in releases'
               \/ holder[p] \in unreleased'
    <3>1. \/ Working(holder[p]) /\ Writes(holder[p])
          \/ \E c \in Call : <<c, holder[p]>> \in releases
          \/ holder[p] \in unreleased
      BY <2>1, <2>4 DEF IInv, Accounted
    <3>2. CASE Working(holder[p]) /\ Writes(holder[p])
      BY <2>1, <2>2, <2>4, <3>2 DEF Working, Writes
    <3>3. CASE \E c \in Call : <<c, holder[p]>> \in releases
      BY <2>1, <2>3, <2>4, <3>3
    <3>4. CASE holder[p] \in unreleased
      BY <2>1, <2>3, <2>4, <3>4
    <3>. QED  BY <3>1, <3>2, <3>3, <3>4
  <2>. QED  BY <2>1, <2>4 DEF Accounted
<1>8. Evidence'  BY <1>1 DEF Evidence
<1>. QED  BY <1>4, <1>5, <1>6, <1>7, <1>8

LEMMA ReleaseFailsStep ==
  ASSUME IInv, ReleaseFails
  PROVE  IInv'
<1>. USE DEF IInv, request, progress
<1>1. PICK r \in releases :
        /\ releases' = releases \ {r}
        /\ unreleased' = IF Held(r[2]) = {} THEN unreleased ELSE unreleased \cup {r[2]}
        /\ UNCHANGED <<runner, request, todo, pc, progress, holder, lapsed, dropped>>
  BY DEF ReleaseFails
<1>2. r[1] \in Call /\ r[2] \in Subs /\ r = <<r[1], r[2]>>  BY DEF TypeOK
<1>3. TypeOK'  BY <1>1, <1>2 DEF TypeOK
<1>4. LateReleases' /\ Slots'  BY <1>1 DEF LateReleases, Slots
<1>5. Reserved'  BY <1>1 DEF Reserved, Writes, Has
<1>6. Accounted'
  <2>1. \A p \in Patterns : holder[p] = r[2] => r[2] \in unreleased'  BY <1>1 DEF Held
  <2>. QED  BY <1>1, <1>2, <2>1 DEF Accounted, Writes, Working
<1>7. Evidence'  BY <1>1 DEF Evidence
<1>. QED  BY <1>3, <1>4, <1>5, <1>6, <1>7

LEMMA ExpireStep ==
  ASSUME IInv, Expire
  PROVE  IInv'
<1>. USE DEF IInv, request, progress
<1>1. PICK p \in Patterns :
        /\ holder[p] # Nobody
        /\ holder' = [holder EXCEPT ![p] = Nobody]
        /\ lapsed' = lapsed \cup ({s \in Subs : Working(s) /\ holder[p] = s} \X {p})
        /\ unreleased' = {s \in unreleased : Held(s) # {p}}
        /\ UNCHANGED <<runner, request, todo, pc, progress, releases, dropped>>
  BY DEF Expire
<1>2. TypeOK'  BY <1>1 DEF TypeOK
<1>3. LateReleases' /\ Slots'  BY <1>1 DEF LateReleases, Slots
<1>4. Reserved'
  <2>1. \A t \in Subs, q \in Patterns : Working(t) /\ Has(t, q) => Has(t, q)'
    BY <1>1 DEF Has, TypeOK
  <2>. QED  BY <1>1, <2>1 DEF Reserved, TypeOK, Writes, Working
<1>5. Accounted'
  <2>1. \A q \in Patterns : holder'[q] \in Subs => q # p /\ holder'[q] = holder[q]
    BY <1>1 DEF TypeOK
  <2>2. \A q \in Patterns \ {p} : holder[q] \in unreleased => holder[q] \in unreleased'
    BY <1>1 DEF Held
  <2>. QED  BY <1>1, <2>1, <2>2 DEF Accounted, Writes, Working
<1>6. Evidence'  BY <1>1 DEF Evidence
<1>. QED  BY <1>2, <1>3, <1>4, <1>5, <1>6

LEMMA NextIInv == IInv /\ [Next]_vars => IInv'
<1>. SUFFICES ASSUME IInv, [Next]_vars PROVE IInv'  OBVIOUS
<1>1. CASE StartCall  BY <1>1, StartCallStep
<1>2. CASE \E s \in Subs : Subagent(s)
  BY <1>2, StartStep, ReserveStep, RefuseStep, LocalStep, LeaveStep DEF Subagent
<1>3. CASE ReleaseRuns  BY <1>3, ReleaseRunsStep
<1>4. CASE ReleaseFails  BY <1>4, ReleaseFailsStep
<1>5. CASE Expire  BY <1>5, ExpireStep
<1>6. CASE UNCHANGED vars
  BY <1>6 DEF IInv, TypeOK, LateReleases, Slots, Reserved, Has, Accounted, Evidence, Writes,
              Working, vars, request, progress, coordination
<1>. QED  BY <1>1, <1>2, <1>3, <1>4, <1>5, <1>6 DEF Next
-----------------------------------------------------------------------------
(* The invariant the theorems below follow from.                            *)
THEOREM Inductive == Spec => []IInv
<1>. QED  BY InitIInv, NextIInv, PTL DEF Spec

(* The runner's, the emitters' and ic's state keep their types.             *)
THEOREM TypeCorrect == Spec => []TypeOK
<1>1. IInv => TypeOK  BY DEF IInv
<1>. QED  BY <1>1, Inductive, PTL

(* reservation.go: two writers of one Run are at work on one pattern        *)
(* together only when a TTL or an earlier call's release took it from one.  *)
THEOREM WritersApartHolds == Spec => []WritersApart
<1>1. IInv => WritersApart
  BY DEF IInv, TypeOK, Reserved, Has, WritersApart
<1>. QED  BY <1>1, Inductive, PTL

(* runner.go: whatever a task reserved before a conflict, an error or its   *)
(* end is released, unless the release itself is cut short.                 *)
THEOREM ReleasedInTheEndHolds == Spec => []ReleasedInTheEnd
<1>1. IInv => ReleasedInTheEnd  BY DEF IInv, Accounted, ReleasedInTheEnd
<1>. QED  BY <1>1, Inductive, PTL

(* runner.go, the deferred Flush: the parent emitter has every event of a   *)
(* subagent that is done, failed or not, and none twice.                    *)
THEOREM EvidenceOnceHolds == Spec => []EvidenceOnce
<1>1. IInv => EvidenceOnce  BY DEF IInv, Evidence, EvidenceOnce
<1>. QED  BY <1>1, Inductive, PTL

(* runner.go, the semaphore: never more than MaxConcurrent subagents.       *)
THEOREM BoundedConcurrencyHolds == Spec => []BoundedConcurrency
<1>1. IInv => BoundedConcurrency  BY DEF IInv, Slots, BoundedConcurrency
<1>. QED  BY <1>1, Inductive, PTL
=============================================================================

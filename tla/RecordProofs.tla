---------------------------- MODULE RecordProofs ----------------------------
(***************************************************************************)
(* Proofs about what outlives a turn: the branch and the log of a campaign *)
(* (Experiment), for any changes, secrets, metrics and number of crashes,  *)
(* and the summarised session (Compaction), for any backend, any number of *)
(* calls in a turn and any bounds on messages and errors.                  *)
(***************************************************************************)
EXTENDS Experiment, Compaction, SequenceTheorems, FiniteSetTheorems, TLAPS

USE ExperimentAssumption DEF ExperimentAssumption

(* Lines without the bound on their number.                                *)
AnyLine ==
  [kind : {"segment", "exp", "bad"}, id : Nat, decision : Decision \cup {None},
   metric : Metric \cup {Baseline}, mutation : MutationId, commit : SUBSET Change]

Shape ==
  /\ log \in Seq(AnyLine)
  /\ rec \in AnyLine /\ rec.kind = "exp"
  /\ seg.count \in Nat
  /\ unterminated \in BOOLEAN
  /\ tree \subseteq Change /\ index \subseteq Change

(* Commits only add: what is committed is in the index and in the files,   *)
(* before there is a worktree nothing is.                                  *)
Nested ==
  /\ head \subseteq index /\ head \subseteq tree
  /\ ~worktree => tree = {} /\ index = {} /\ head = {}

(* A record of a keep waits to be appended only once its commit exists.    *)
Pending ==
  /\ pc = "append" /\ rec.decision = "keep" => rec.commit \in branch \ {{}}
  /\ pc = "discard" => rec.decision = "discard"

IInv ==
  /\ Shape
  /\ Nested
  /\ Pending
  /\ SecretsNeverCommitted
  /\ KeptAreCommitted
  /\ InitStartsClean

Backed(l) == l.kind = "exp" /\ l.decision = "keep" => l.commit \in branch \ {{}}

LEMMA BlankType ==
  ASSUME NEW k \in {"segment", "exp", "bad"}
  PROVE  /\ Blank(k) \in AnyLine /\ Blank(k).kind = k
         /\ Backed(Blank(k))
BY DEF Blank, AnyLine, MutationId, Decision, Backed, None

(* Whichever way a line goes into the log, every keep in the log is still  *)
(* backed by a commit.                                                     *)
LEMMA AppendedKeeps ==
  ASSUME log \in Seq(AnyLine), NEW open \in BOOLEAN, NEW l \in AnyLine, Backed(l),
         \A i \in DOMAIN log : Backed(log[i])
  PROVE  /\ Appended(log, open, l) \in Seq(AnyLine)
         /\ \A i \in DOMAIN Appended(log, open, l) : Backed(Appended(log, open, l)[i])
<1>1. Len(log) \in Nat /\ DOMAIN log = 1 .. Len(log)  BY LenProperties
<1>2. CASE ~open
  <2>. DEFINE new == Append(log, l)
  <2>1. /\ new \in Seq(AnyLine) /\ Len(new) = Len(log) + 1
        /\ \A i \in 1 .. Len(log) : new[i] = log[i]
        /\ new[Len(log) + 1] = l
    BY AppendProperties
  <2>. HIDE DEF new
  <2>2. DOMAIN new = 1 .. Len(log) + 1  BY <2>1, LenProperties
  <2>3. \A i \in 1 .. Len(log) + 1 : i \in 1 .. Len(log) \/ i = Len(log) + 1  BY <1>1
  <2>4. \A i \in DOMAIN new : Backed(new[i])  BY <1>1, <2>1, <2>2, <2>3
  <2>. QED  BY <1>2, <2>1, <2>4 DEF Appended, new
<1>3. CASE open
  <2>. DEFINE new == [log EXCEPT ![Len(log)] = Blank("bad")]
  <2>1. Blank("bad") \in AnyLine /\ Backed(Blank("bad"))  BY BlankType
  <2>2. log \in [1 .. Len(log) -> AnyLine]  BY LenProperties
  <2>3. new \in [1 .. Len(log) -> AnyLine]  BY <1>1, <2>1, <2>2
  <2>4. \A i \in 1 .. Len(log) : new[i] = log[i] \/ new[i] = Blank("bad")  BY <2>2
  <2>5. new \in Seq(AnyLine)  BY <1>1, <2>3, SeqDef
  <2>6. \A i \in DOMAIN new : Backed(new[i])  BY <1>1, <2>1, <2>3, <2>4
  <2>. QED  BY <1>3, <2>5, <2>6 DEF Appended, new
<1>. QED  BY <1>2, <1>3

LEMMA RecordBacked ==
  ASSUME IInv, pc = "append"
  PROVE  Record \in AnyLine /\ Backed(Record)
<1>1. rec \in AnyLine /\ seg.count + 1 \in Nat  BY DEF IInv, Shape
<1>2. Record = [rec EXCEPT !.id = seg.count + 1]  BY DEF Record, Numbered
<1>3. Record \in AnyLine  BY <1>1, <1>2 DEF AnyLine
<1>4. Record.decision = rec.decision /\ Record.commit = rec.commit /\ Record.kind = rec.kind
  BY <1>1, <1>2 DEF AnyLine
<1>. QED  BY <1>3, <1>4 DEF Backed, IInv, Pending

(* The log after a step that may write a line of the given set.            *)
LEMMA WrittenLog ==
  ASSUME IInv, UNCHANGED branch,
         NEW L \in SUBSET AnyLine, \A l \in L : Backed(l),
         UNCHANGED log \/ \E l \in L : log' = Appended(log, unterminated, l)
  PROVE  log' \in Seq(AnyLine) /\ KeptAreCommitted'
<1>1. \A i \in DOMAIN log : Backed(log[i])  BY DEF IInv, KeptAreCommitted, Backed
<1>2. CASE UNCHANGED log
  BY <1>2 DEF IInv, Shape, KeptAreCommitted
<1>3. ASSUME NEW l \in L, log' = Appended(log, unterminated, l)
      PROVE  log' \in Seq(AnyLine) /\ KeptAreCommitted'
  <2>1. /\ log' \in Seq(AnyLine)
        /\ \A i \in DOMAIN log' : Backed(log'[i])
    BY <1>1, <1>3, AppendedKeeps DEF IInv, Shape
  <2>. QED  BY <2>1 DEF KeptAreCommitted, Backed
<1>. QED  BY <1>2, <1>3

LEMMA LoadedCounts ==
  ASSUME log \in Seq(AnyLine)
  PROVE  Loaded(log).count \in Nat
<1>1. Len(log) \in Nat /\ DOMAIN log = 1 .. Len(log)  BY LenProperties
<1>2. IsFiniteSet(DOMAIN log)  BY <1>1, FS_Interval
<1>3. Experiments(log) \subseteq DOMAIN log  BY DEF Experiments
<1>4. IsFiniteSet(Experiments(log))  BY <1>2, <1>3, FS_Subset
<1>5. Cardinality(Experiments(log)) \in Nat  BY <1>4, FS_CardinalityType
<1>. QED  BY <1>5 DEF Loaded

-----------------------------------------------------------------------------
LEMMA InitIInv == Init => IInv
<1>. SUFFICES ASSUME Init PROVE IInv  OBVIOUS
<1>1. Blank("exp") \in AnyLine /\ Blank("exp").kind = "exp"  BY BlankType
<1>2. log \in Seq(AnyLine) /\ DOMAIN log = {}  BY EmptySeq DEF Init
<1>3. Shape  BY <1>1, <1>2 DEF Init, Shape, NoSegment
<1>4. Nested /\ Pending  BY DEF Init, Nested, Pending
<1>5. SecretsNeverCommitted /\ KeptAreCommitted /\ InitStartsClean
  BY <1>2 DEF Init, SecretsNeverCommitted, KeptAreCommitted, InitStartsClean
<1>. QED  BY <1>3, <1>4, <1>5 DEF IInv

LEMMA EditStep ==
  ASSUME IInv, NEW c \in Change, Edit(c)
  PROVE  IInv'
BY DEF IInv, Shape, Nested, Pending, SecretsNeverCommitted, KeptAreCommitted, InitStartsClean,
       Edit, git, disk, local

LEMMA RunExperimentStep ==
  ASSUME IInv, NEW left \in SUBSET Change, RunExperiment(left)
  PROVE  IInv'
BY DEF IInv, Shape, Nested, Pending, SecretsNeverCommitted, KeptAreCommitted, InitStartsClean,
       RunExperiment, git, disk, local

LEMMA OtherStep ==
  ASSUME IInv, EditCampaign \/ InitExperiment
  PROVE  IInv'
BY DEF IInv, Shape, Nested, Pending, SecretsNeverCommitted, KeptAreCommitted, InitStartsClean,
       EditCampaign, InitExperiment, git, disk, local

LEMMA InitWorktreeStep ==
  ASSUME IInv, InitWorktree
  PROVE  IInv'
<1>1. Shape' /\ SecretsNeverCommitted' /\ KeptAreCommitted'
  BY DEF IInv, Shape, SecretsNeverCommitted, KeptAreCommitted, InitWorktree, Cleaned, HalfCleaned,
         Nested, Reset, disk, local
<1>2. Nested'
  BY DEF IInv, Nested, InitWorktree, Cleaned, HalfCleaned, Reset
<1>3. Pending'
  BY DEF IInv, Pending, InitWorktree, disk, local
<1>4. InitStartsClean'
  BY DEF IInv, Nested, InitStartsClean, InitWorktree, Cleaned, Reset
<1>. QED  BY <1>1, <1>2, <1>3, <1>4 DEF IInv

LEMMA OpenSegmentStep ==
  ASSUME IInv, OpenSegment
  PROVE  IInv'
<1>. DEFINE L == {Blank("segment"), Blank("bad")}
<1>1. L \in SUBSET AnyLine /\ \A l \in L : Backed(l)  BY BlankType
<1>2. UNCHANGED log \/ \E l \in L : log' = Appended(log, unterminated, l)
  BY DEF OpenSegment, WriteFails, WriteLine, TearLine, disk
<1>3. seg'.count \in Nat
  <2>1. CASE seg' = seg  BY <2>1 DEF IInv, Shape
  <2>2. ASSUME NEW f, seg' = SetPendingMutations(Loaded(log), f)
        PROVE  seg'.count \in Nat
    <3>1. seg'.count = Loaded(log).count  BY <2>2 DEF SetPendingMutations, Loaded
    <3>. QED  BY <3>1, LoadedCounts DEF IInv, Shape
  <2>3. ASSUME NEW f, seg' = SetPendingMutations(NoSegment, f)
        PROVE  seg'.count \in Nat
    BY <2>3 DEF SetPendingMutations, NoSegment
  <2>. QED  BY <2>1, <2>2, <2>3 DEF OpenSegment
<1>. HIDE DEF L
<1>4. UNCHANGED branch  BY DEF OpenSegment, git
<1>5. log' \in Seq(AnyLine) /\ KeptAreCommitted'  BY <1>1, <1>2, <1>4, WrittenLog
<1>6. Shape'
  BY <1>5, <1>3 DEF IInv, Shape, OpenSegment, WriteFails, WriteLine, TearLine, git, disk
<1>7. Nested' /\ Pending' /\ SecretsNeverCommitted' /\ InitStartsClean'
  BY DEF IInv, Nested, Pending, SecretsNeverCommitted, InitStartsClean, OpenSegment, git
<1>. QED  BY <1>5, <1>6, <1>7 DEF IInv

LEMMA LogExperimentStep ==
  ASSUME IInv, NEW d \in Decision, NEW m \in Metric, NEW mutation \in MutationId,
         NEW values, LogExperiment(d, m, mutation, values)
  PROVE  IInv'
<1>. DEFINE e == Effective(d, values)
<1>1. e \in Decision  BY DEF Decision, Effective
<1>2. /\ rec' = [Blank("exp") EXCEPT !.decision = e, !.metric = m, !.mutation = mutation]
      /\ pc' = AfterLoad(e)
      /\ seg' = Loaded(log)
      /\ UNCHANGED <<git, disk>>
  BY DEF LogExperiment
<1>. HIDE DEF e
<1>3. rec' \in AnyLine /\ rec'.kind = "exp" /\ rec'.decision = e
  BY <1>1, <1>2 DEF AnyLine, Blank, Decision
<1>4. Shape'
  BY <1>2, <1>3, LoadedCounts DEF IInv, Shape, git, disk
<1>5. Pending'
  BY <1>1, <1>2, <1>3 DEF Pending, AfterLoad, Decision
<1>6. Nested' /\ SecretsNeverCommitted' /\ KeptAreCommitted'
  BY <1>2 DEF IInv, Nested, SecretsNeverCommitted, KeptAreCommitted, git, disk
<1>7. InitStartsClean'
  BY <1>1, <1>2 DEF InitStartsClean, AfterLoad, Decision
<1>. QED  BY <1>4, <1>5, <1>6, <1>7 DEF IInv

LEMMA KeepChangesStep ==
  ASSUME IInv, KeepChanges
  PROVE  IInv'
<1>1. /\ pc = "keep" /\ pc' \in {"append", "idle"}
      /\ index' = index \/ (index' \subseteq tree /\ tree \ Secrets \subseteq index')
      /\ UNCHANGED <<worktree, tree, log, unterminated, seg>>
  BY DEF KeepChanges, Staged, disk
<1>2. \/ UNCHANGED <<head, branch, rec>> /\ pc' = "idle"
      \/ /\ tree \cap Secrets = {} /\ tree # head
         /\ index' = tree /\ head' = tree /\ branch' = branch \cup {tree}
         /\ rec' = [rec EXCEPT !.commit = tree]
  BY DEF IInv, SecretsNeverCommitted, KeepChanges, Staged
<1>3. head \subseteq tree /\ head \cap Secrets = {}
  BY DEF IInv, Nested, SecretsNeverCommitted
<1>4. Shape'
  <2>1. rec' \in AnyLine /\ rec'.kind = "exp"  BY <1>2 DEF IInv, Shape, AnyLine
  <2>. QED  BY <1>1, <2>1 DEF IInv, Shape
<1>5. SecretsNeverCommitted'  BY <1>2, <1>3 DEF SecretsNeverCommitted
<1>6. Nested'
  <2>1. CASE UNCHANGED head  BY <1>1, <1>3, <2>1 DEF IInv, Nested
  <2>2. CASE index' = tree /\ head' = tree  BY <1>1, <2>2 DEF IInv, Nested
  <2>. QED  BY <1>2, <2>1, <2>2
<1>7. Pending'
  <2>1. CASE pc' = "idle"  BY <2>1 DEF Pending
  <2>2. CASE pc' # "idle"
    <3>1. tree # {}  BY <1>2, <1>3, <2>2
    <3>2. rec'.commit = tree /\ tree \in branch'  BY <1>2, <2>2 DEF IInv, Shape, AnyLine
    <3>. QED  BY <1>1, <2>2, <3>1, <3>2 DEF Pending
  <2>. QED  BY <2>1, <2>2
<1>8. KeptAreCommitted'
  BY <1>1, <1>2 DEF IInv, KeptAreCommitted
<1>9. InitStartsClean'  BY <1>1 DEF InitStartsClean
<1>. QED  BY <1>4, <1>5, <1>6, <1>7, <1>8, <1>9 DEF IInv

LEMMA DiscardChangesStep ==
  ASSUME IInv, DiscardChanges
  PROVE  IInv'
<1>1. Shape' /\ SecretsNeverCommitted' /\ KeptAreCommitted'
  BY DEF IInv, Shape, Nested, SecretsNeverCommitted, KeptAreCommitted, DiscardChanges, Cleaned,
         HalfCleaned, disk, local
<1>2. Nested'  BY DEF IInv, Nested, DiscardChanges, Cleaned, HalfCleaned
<1>3. Pending'  BY DEF IInv, Pending, DiscardChanges, local
<1>4. InitStartsClean'  BY DEF DiscardChanges, InitStartsClean
<1>. QED  BY <1>1, <1>2, <1>3, <1>4 DEF IInv

LEMMA AppendRecordStep ==
  ASSUME IInv, AppendRecord
  PROVE  IInv'
<1>. DEFINE L == {Record, Blank("bad")}
<1>1. L \in SUBSET AnyLine /\ \A l \in L : Backed(l)
  BY BlankType, RecordBacked DEF AppendRecord
<1>2. UNCHANGED log \/ \E l \in L : log' = Appended(log, unterminated, l)
  BY DEF AppendRecord, WriteFails, WriteLine, TearLine, disk
<1>. HIDE DEF L
<1>3. /\ UNCHANGED <<worktree, tree, index, head, branch, rec>> /\ pc' = "idle"
      /\ unterminated' \in BOOLEAN
  BY DEF IInv, Shape, AppendRecord, WriteFails, WriteLine, TearLine, disk, git
<1>4. log' \in Seq(AnyLine) /\ KeptAreCommitted'  BY <1>1, <1>2, <1>3, WrittenLog
<1>5. seg'.count \in Nat
  BY DEF IInv, Shape, AppendRecord, Logged
<1>6. Shape'  BY <1>3, <1>4, <1>5 DEF IInv, Shape
<1>7. Nested' /\ Pending' /\ SecretsNeverCommitted' /\ InitStartsClean'
  BY <1>3 DEF IInv, Nested, Pending, SecretsNeverCommitted, InitStartsClean
<1>. QED  BY <1>4, <1>6, <1>7 DEF IInv

LEMMA CrashStep ==
  ASSUME IInv, Crash
  PROVE  IInv'
<1>. DEFINE L == {Blank("segment"), Blank("bad")} \cup (IF pc = "append" THEN {Record} ELSE {})
<1>1. L \in SUBSET AnyLine /\ \A l \in L : Backed(l)
  BY BlankType, RecordBacked
<1>2. UNCHANGED log \/ \E l \in L : log' = Appended(log, unterminated, l)
  BY DEF Crash, WriteFails, WriteLine, TearLine, disk
<1>. HIDE DEF L
<1>3. /\ UNCHANGED <<worktree, tree, index, head, branch>> /\ pc' = "idle"
      /\ rec' = Blank("exp") /\ seg' = NoSegment
      /\ unterminated' \in BOOLEAN
  BY DEF IInv, Shape, Crash, WriteFails, WriteLine, TearLine, disk, git
<1>4. log' \in Seq(AnyLine) /\ KeptAreCommitted'  BY <1>1, <1>2, <1>3, WrittenLog
<1>5. rec' \in AnyLine /\ rec'.kind = "exp"  BY <1>3, BlankType
<1>6. Shape'  BY <1>3, <1>4, <1>5 DEF IInv, Shape, NoSegment
<1>7. Nested' /\ Pending' /\ SecretsNeverCommitted' /\ InitStartsClean'
  BY <1>3 DEF IInv, Nested, Pending, SecretsNeverCommitted, InitStartsClean
<1>. QED  BY <1>4, <1>6, <1>7 DEF IInv

LEMMA NextIInv == IInv /\ [Next]_vars => IInv'
<1>. SUFFICES ASSUME IInv, [Next]_vars PROVE IInv'  OBVIOUS
<1>1. CASE \E c \in Change : Edit(c)  BY <1>1, EditStep
<1>2. CASE InitWorktree  BY <1>2, InitWorktreeStep
<1>3. CASE OpenSegment  BY <1>3, OpenSegmentStep
<1>4. CASE \E d \in Decision, m \in Metric, mutation \in MutationId :
             \E values : LogExperiment(d, m, mutation, values)
  BY <1>4, LogExperimentStep
<1>5. CASE KeepChanges  BY <1>5, KeepChangesStep
<1>6. CASE DiscardChanges  BY <1>6, DiscardChangesStep
<1>7. CASE AppendRecord  BY <1>7, AppendRecordStep
<1>8. CASE Crash  BY <1>8, CrashStep
<1>9. CASE UNCHANGED vars
  BY <1>9 DEF IInv, Shape, Nested, Pending, SecretsNeverCommitted, KeptAreCommitted,
              InitStartsClean, vars, git, disk, local
<1>10. CASE \E left \in SUBSET Change : RunExperiment(left)  BY <1>10, RunExperimentStep
<1>11. CASE EditCampaign \/ InitExperiment  BY <1>11, OtherStep
<1>. QED  BY <1>1, <1>2, <1>3, <1>4, <1>5, <1>6, <1>7, <1>8, <1>9, <1>10, <1>11 DEF Next
-----------------------------------------------------------------------------
(* The invariant the theorems below follow from.                           *)
THEOREM Inductive == Spec => []IInv
<1>. QED  BY InitIInv, NextIInv, PTL DEF Spec

(* "secretPatterns are filenames that must never be committed"             *)
(* (gitops.go): KeepChanges looks at what git add -A staged, so no secret  *)
(* reaches a commit, whatever earlier refusals and crashes left staged.    *)
THEOREM SecretsNeverCommittedHolds == Spec => []SecretsNeverCommitted
<1>1. IInv => SecretsNeverCommitted  BY DEF IInv
<1>. QED  BY <1>1, Inductive, PTL

(* log_experiment commits before it appends: every keep in the log names a *)
(* commit of the branch, across failures, torn writes and crashes.         *)
THEOREM KeptAreCommittedHolds == Spec => []KeptAreCommitted
<1>1. IInv => KeptAreCommitted  BY DEF IInv
<1>. QED  BY <1>1, Inductive, PTL

(* "On reuse ... cleans to known state (crash-recovery contract)":         *)
(* CreateWorktree hands over the files and the index of the last commit,   *)
(* unless it warned that the reset failed.                                 *)
THEOREM InitStartsCleanHolds == Spec => []InitStartsClean
<1>1. IInv => InitStartsClean  BY DEF IInv
<1>. QED  BY <1>1, Inductive, PTL
-----------------------------------------------------------------------------
(* What a resumed session reads back.  LoadSegment looks for the last line *)
(* of a kind; that there is one, if there is any, is an invariant: of the  *)
(* log up to each line, since a line that runs into a torn one takes that  *)
(* one away.                                                               *)
HasLast(S) == S = {} \/ \E i \in S : \A j \in S : j <= i

UpTo(lines, k, G) == {i \in 1 .. k : lines[i] \in G}

Lasts(lines, G) == \A k \in 0 .. Len(lines) : HasLast(UpTo(lines, k, G))

SegmentLine == {l \in AnyLine : l.kind = "segment"}

KeepLine == {l \in AnyLine : l.kind = "exp" /\ l.decision = "keep"}

(* Git's part of log_experiment leaves the segment it loaded as it is.     *)
LInv ==
  /\ Lasts(log, SegmentLine) /\ Lasts(log, KeepLine)
  /\ pc \in {"keep", "discard", "append"} => HasSegment(log) /\ seg = Loaded(log)
  /\ crashes \in Nat

LEMMA AppendedLasts ==
  ASSUME log \in Seq(AnyLine), NEW G, Blank("bad") \notin G, Lasts(log, G),
         NEW open \in BOOLEAN, NEW l
  PROVE  Lasts(Appended(log, open, l), G)
<1>1. Len(log) \in Nat /\ DOMAIN log = 1 .. Len(log)  BY LenProperties
<1>. DEFINE new == Appended(log, open, l)
<1>2. CASE ~open
  <2>1. new = Append(log, l)  BY <1>2 DEF Appended
  <2>2. /\ Len(new) = Len(log) + 1
        /\ \A i \in 1 .. Len(log) : new[i] = log[i]
    BY <1>1, <2>1
  <2>. HIDE DEF new
  <2>. SUFFICES ASSUME NEW k \in 0 .. Len(log) + 1
                PROVE  HasLast(UpTo(new, k, G))
    BY <2>2 DEF Lasts, new
  <2>3. CASE k \in 0 .. Len(log)
    <3>1. UpTo(new, k, G) = UpTo(log, k, G)  BY <1>1, <2>2, <2>3 DEF UpTo
    <3>. QED  BY <2>3, <3>1 DEF Lasts
  <2>4. CASE k = Len(log) + 1 /\ new[k] \in G
    <3>1. k \in UpTo(new, k, G) /\ \A j \in UpTo(new, k, G) : j <= k
      BY <1>1, <2>4 DEF UpTo
    <3>. QED  BY <3>1 DEF HasLast
  <2>5. CASE k = Len(log) + 1 /\ new[k] \notin G
    <3>1. UpTo(new, k, G) = UpTo(log, Len(log), G)  BY <1>1, <2>2, <2>5 DEF UpTo
    <3>2. Len(log) \in 0 .. Len(log)  BY <1>1
    <3>. QED  BY <3>1, <3>2 DEF Lasts
  <2>. QED  BY <1>1, <2>3, <2>4, <2>5
<1>3. CASE open
  <2>1. new = [log EXCEPT ![Len(log)] = Blank("bad")]  BY <1>3 DEF Appended
  <2>2. \A i \in 1 .. Len(log) : new[i] = IF i = Len(log) THEN Blank("bad") ELSE log[i]
    BY <1>1, <2>1
  <2>3. Len(new) = Len(log)
    <3>1. Blank("bad") \in AnyLine  BY BlankType
    <3>2. log \in [1 .. Len(log) -> AnyLine]  BY LenProperties
    <3>3. new \in [1 .. Len(log) -> AnyLine]  BY <2>1, <3>1, <3>2
    <3>4. new \in Seq(AnyLine)  BY <1>1, <3>3, SeqDef
    <3>5. DOMAIN new = 1 .. Len(log) /\ DOMAIN new = 1 .. Len(new) /\ Len(new) \in Nat
      BY <3>3, <3>4, LenProperties
    <3>. QED  BY <1>1, <3>5
  <2>. HIDE DEF new
  <2>. SUFFICES ASSUME NEW k \in 0 .. Len(log)
                PROVE  HasLast(UpTo(new, k, G))
    BY <2>3 DEF Lasts, new
  <2>. DEFINE n == Len(log)
  <2>4. n \in Nat /\ k \in 0 .. n  BY <1>1
  <2>5. \A i \in 1 .. n : new[i] = IF i = n THEN Blank("bad") ELSE log[i]  BY <2>2
  <2>6. \A i \in 0 .. n : HasLast(UpTo(log, i, G))  BY DEF Lasts
  <2>. HIDE DEF n
  <2>7. CASE k < n
    <3>1. \A i \in 1 .. k : i \in 1 .. n /\ i # n  BY <2>4, <2>7
    <3>2. \A i \in 1 .. k : new[i] = log[i]  BY <2>5, <3>1
    <3>3. UpTo(new, k, G) = UpTo(log, k, G)  BY <3>2 DEF UpTo
    <3>. QED  BY <2>4, <2>6, <3>3
  <2>8. CASE k = n /\ k > 0
    <3>1. \A i \in 1 .. k : i = k \/ i \in 1 .. k - 1  BY <2>4
    <3>2. \A i \in 1 .. k - 1 : i \in 1 .. k /\ new[i] = log[i]  BY <2>4, <2>5, <2>8
    <3>3. new[k] \notin G  BY <2>4, <2>5, <2>8
    <3>4. UpTo(new, k, G) = UpTo(log, k - 1, G)  BY <3>1, <3>2, <3>3 DEF UpTo
    <3>5. k - 1 \in 0 .. n  BY <2>4, <2>8
    <3>. QED  BY <2>6, <3>4, <3>5
  <2>9. CASE k = 0
    <3>1. UpTo(new, k, G) = {}  BY <2>9 DEF UpTo
    <3>. QED  BY <3>1 DEF HasLast
  <2>. QED  BY <2>4, <2>7, <2>8, <2>9
<1>. QED  BY <1>2, <1>3

(* Every step writes at most one line.                                     *)
LEMMA LogSteps ==
  ASSUME IInv, [Next]_vars
  PROVE  UNCHANGED log \/ \E l : log' = Appended(log, unterminated, l)
<1>1. ASSUME NEW l, WriteFails(l) \/ WriteLine(l)
      PROVE  UNCHANGED log \/ \E k : log' = Appended(log, unterminated, k)
  BY <1>1 DEF WriteFails, WriteLine, TearLine, disk
<1>2. CASE OpenSegment
  BY <1>1, <1>2 DEF OpenSegment, disk
<1>3. CASE AppendRecord
  BY <1>1, <1>3 DEF AppendRecord
<1>4. CASE Crash
  BY <1>1, <1>4 DEF Crash, disk
<1>5. CASE UNCHANGED vars  BY <1>5 DEF vars, disk
<1>6. ASSUME ~OpenSegment, ~AppendRecord, ~Crash, ~UNCHANGED vars
      PROVE  UNCHANGED log
  BY <1>6 DEF Next, Edit, EditCampaign, RunExperiment, InitExperiment, InitWorktree, LogExperiment,
              KeepChanges, DiscardChanges, disk
<1>. QED  BY <1>2, <1>3, <1>4, <1>5, <1>6

LEMMA NextLInv ==
  ASSUME IInv, LInv, [Next]_vars
  PROVE  LInv'
<1>1. log \in Seq(AnyLine) /\ unterminated \in BOOLEAN  BY DEF IInv, Shape
<1>2. Blank("bad") \notin SegmentLine /\ Blank("bad") \notin KeepLine
  BY DEF Blank, SegmentLine, KeepLine
<1>3. Lasts(log, SegmentLine) /\ Lasts(log, KeepLine)  BY DEF LInv
<1>4. Lasts(log', SegmentLine) /\ Lasts(log', KeepLine)
  <2>1. CASE UNCHANGED log  BY <1>3, <2>1
  <2>2. ASSUME NEW l, log' = Appended(log, unterminated, l)
        PROVE  Lasts(log', SegmentLine) /\ Lasts(log', KeepLine)
    BY <1>1, <1>2, <1>3, <2>2, AppendedLasts
  <2>. QED  BY <2>1, <2>2, LogSteps
<1>5. pc' \in {"keep", "discard", "append"} => HasSegment(log') /\ seg' = Loaded(log')
  <2>1. ASSUME NEW d, NEW m, NEW mutation, NEW values, LogExperiment(d, m, mutation, values)
        PROVE  HasSegment(log') /\ seg' = Loaded(log')
    BY <2>1 DEF LogExperiment, disk
  <2>2. CASE KeepChanges \/ DiscardChanges
    BY <2>2 DEF LInv, KeepChanges, DiscardChanges, disk, local
  <2>3. CASE UNCHANGED vars  BY <2>3 DEF LInv, vars, disk, local
  <2>4. ASSUME ~KeepChanges, ~DiscardChanges, ~UNCHANGED vars,
               ~\E d, m, mutation, values : LogExperiment(d, m, mutation, values)
        PROVE  pc' \notin {"keep", "discard", "append"}
    BY <2>4 DEF Next, Edit, EditCampaign, RunExperiment, InitExperiment, InitWorktree, OpenSegment,
                AppendRecord, Crash
  <2>. QED  BY <2>1, <2>2, <2>3, <2>4
<1>6. crashes' \in Nat
  <2>1. crashes \in Nat  BY DEF LInv
  <2>2. CASE Crash  BY <2>1, <2>2 DEF Crash
  <2>3. ASSUME ~Crash
        PROVE  UNCHANGED crashes
    BY <2>3 DEF Next, Edit, EditCampaign, RunExperiment, InitExperiment, InitWorktree, OpenSegment,
                LogExperiment, KeepChanges, DiscardChanges, AppendRecord, vars
  <2>. QED  BY <2>1, <2>2, <2>3
<1>. QED  BY <1>4, <1>5, <1>6 DEF LInv

LEMMA InitLInv == Init => LInv
<1>. SUFFICES ASSUME Init PROVE LInv  OBVIOUS
<1>1. Len(log) = 0  BY EmptySeq DEF Init
<1>2. ASSUME NEW G
      PROVE  Lasts(log, G)
  BY <1>1 DEF Lasts, UpTo, HasLast
<1>. QED  BY <1>2 DEF LInv, Init

(* The last segment is one, and so is the last keep since, if there is any.*)
LEMMA LastOnes ==
  ASSUME log \in Seq(AnyLine), LInv, HasSegment(log)
  PROVE  /\ LastSegment(log) \in Starts(log)
         /\ LastKeep(log) \in 1 .. Len(log)
<1>1. Len(log) \in Nat /\ DOMAIN log = 1 .. Len(log) /\ \A i \in 1 .. Len(log) : log[i] \in AnyLine
  BY LenProperties, ElementOfSeq
<1>2. Len(log) \in 0 .. Len(log)  BY <1>1
<1>3. HasLast(UpTo(log, Len(log), SegmentLine)) /\ HasLast(UpTo(log, Len(log), KeepLine))
  BY <1>2 DEF LInv, Lasts
<1>4. UpTo(log, Len(log), SegmentLine) = Starts(log)  BY <1>1 DEF UpTo, SegmentLine, Starts
<1>5. \E i \in Starts(log) : \A j \in Starts(log) : j <= i
  BY <1>3, <1>4 DEF HasLast, HasSegment
<1>6. LastSegment(log) \in Starts(log)  BY <1>5 DEF LastSegment
<1>7. LastSegment(log) \in 1 .. Len(log)  BY <1>1, <1>6 DEF Starts
<1>8. CASE With(log, "keep") = {}
  <2>1. LastKeep(log) = LastSegment(log)  BY <1>8 DEF LastKeep
  <2>. QED  BY <1>6, <1>7, <2>1
<1>9. CASE With(log, "keep") # {}
  <2>. DEFINE K == UpTo(log, Len(log), KeepLine)
  <2>1. With(log, "keep") = {i \in K : i > LastSegment(log)}
    BY <1>1 DEF UpTo, KeepLine, With, Experiments
  <2>2. K \subseteq 1 .. Len(log)  BY DEF UpTo
  <2>3. PICK i \in K : \A j \in K : j <= i
    <3>1. K # {}  BY <1>9, <2>1
    <3>. QED  BY <1>3, <3>1 DEF HasLast
  <2>. HIDE DEF K
  <2>4. PICK w \in With(log, "keep") : TRUE  BY <1>9
  <2>5. w \in K /\ w > LastSegment(log) /\ w <= i  BY <2>1, <2>3, <2>4
  <2>6. i > LastSegment(log)  BY <1>1, <1>7, <2>2, <2>3, <2>5
  <2>7. i \in With(log, "keep") /\ \A j \in With(log, "keep") : j <= i
    BY <2>1, <2>3, <2>6
  <2>8. LastKeep(log) \in With(log, "keep")  BY <1>9, <2>7 DEF LastKeep
  <2>9. LastKeep(log) \in K  BY <2>1, <2>8
  <2>. QED  BY <1>6, <2>2, <2>9
<1>. QED  BY <1>6, <1>8, <1>9

(* Reading a record back adds to the segment what logging it added.        *)
LEMMA LoadedAppended ==
  ASSUME log \in Seq(AnyLine), LInv, HasSegment(log), NEW r \in AnyLine, r.kind = "exp"
  PROVE  Loaded(Append(log, r)) = Logged(Loaded(log), r)
<1>. DEFINE new == Append(log, r)
            n   == Len(log) + 1
<1>1. Len(log) \in Nat /\ DOMAIN log = 1 .. Len(log)  BY LenProperties
<1>2. /\ new \in Seq(AnyLine) /\ Len(new) = n
      /\ \A i \in 1 .. Len(log) : new[i] = log[i]
      /\ new[n] = r
  BY AppendProperties
<1>3. DOMAIN new = 1 .. n  BY <1>2, LenProperties
<1>4. /\ LastSegment(log) \in Starts(log)
      /\ LastKeep(log) \in 1 .. Len(log)
  BY LastOnes
<1>. HIDE DEF new
<1>5. DOMAIN new = DOMAIN log \cup {n} /\ n \notin DOMAIN log /\ n \in Nat
      /\ \A i \in DOMAIN log : i < n /\ i \in Nat
  BY <1>1, <1>3
<1>6. \A i \in DOMAIN log : new[i] = log[i]  BY <1>1, <1>2
<1>. HIDE DEF n
<1>7. Starts(new) = Starts(log)  BY <1>2, <1>5, <1>6 DEF Starts
<1>8. LastSegment(new) = LastSegment(log)  BY <1>7 DEF LastSegment
<1>9. LastSegment(log) \in DOMAIN log  BY <1>4 DEF Starts
<1>10. Experiments(new) = Experiments(log) \cup {n}
  BY <1>2, <1>5, <1>6, <1>8, <1>9 DEF Experiments
<1>11. Experiments(log) \subseteq DOMAIN log  BY DEF Experiments
<1>12. ASSUME NEW d
       PROVE  With(new, d) = IF r.decision = d THEN With(log, d) \cup {n} ELSE With(log, d)
  BY <1>2, <1>6, <1>10, <1>11 DEF With
<1>13. \A d : With(log, d) \subseteq DOMAIN log  BY <1>11 DEF With
<1>14. ASSUME NEW S, S \subseteq DOMAIN log
       PROVE  /\ IsFiniteSet(S) /\ Cardinality(S) \in Nat
              /\ Cardinality(S \cup {n}) = Cardinality(S) + 1
  <2>1. IsFiniteSet(DOMAIN log)  BY <1>1, FS_Interval
  <2>2. IsFiniteSet(S) /\ n \notin S  BY <1>5, <1>14, <2>1, FS_Subset
  <2>. QED  BY <2>2, FS_AddElement, FS_CardinalityType
<1>15. LastKeep(new) = IF r.decision = "keep" THEN n ELSE LastKeep(log)
  <2>1. CASE r.decision = "keep"
    <3>1. With(new, "keep") = With(log, "keep") \cup {n}  BY <1>12, <2>1
    <3>2. n \in With(new, "keep") /\ \A j \in With(new, "keep") : j <= n
      BY <1>5, <1>13, <3>1
    <3>3. ASSUME NEW k \in With(new, "keep"), \A j \in With(new, "keep") : j <= k
          PROVE  k = n
      <4>1. n <= k /\ k <= n /\ k \in Nat  BY <1>5, <1>13, <3>1, <3>2, <3>3
      <4>. QED  BY <1>5, <4>1
    <3>4. (CHOOSE k \in With(new, "keep") : \A j \in With(new, "keep") : j <= k) = n
      BY <3>2, <3>3
    <3>. QED  BY <2>1, <3>2, <3>4 DEF LastKeep
  <2>2. CASE r.decision # "keep"
    <3>1. With(new, "keep") = With(log, "keep")  BY <1>12, <2>2
    <3>2. (CHOOSE i \in With(new, "keep") : \A j \in With(new, "keep") : j <= i)
            = (CHOOSE i \in With(log, "keep") : \A j \in With(log, "keep") : j <= i)
      BY <3>1, Zenon
    <3>3. LastKeep(new) = LastKeep(log)
      <4>1. CASE With(log, "keep") = {}
        <5>1. LastKeep(new) = LastSegment(new)  BY <3>1, <4>1 DEF LastKeep
        <5>2. LastKeep(log) = LastSegment(log)  BY <4>1 DEF LastKeep
        <5>. QED  BY <1>8, <5>1, <5>2
      <4>2. CASE With(log, "keep") # {}
        <5>1. LastKeep(new) = CHOOSE i \in With(new, "keep") : \A j \in With(new, "keep") : j <= i
          BY <3>1, <4>2 DEF LastKeep
        <5>2. LastKeep(log) = CHOOSE i \in With(log, "keep") : \A j \in With(log, "keep") : j <= i
          BY <4>2 DEF LastKeep
        <5>. QED  BY <3>2, <5>1, <5>2
      <4>. QED  BY <4>1, <4>2
    <3>. QED  BY <2>2, <3>3
  <2>. QED  BY <2>1, <2>2
<1>16. LastKeep(log) \in DOMAIN log  BY <1>1, <1>4
<1>. DEFINE since(lines) == {i \in Experiments(lines) : i > LastKeep(lines)}
<1>17. Cardinality(since(new)) = Failures(Loaded(log), r)
  <2>0. Loaded(log).failures = Cardinality(since(log))  BY DEF Loaded
  <2>1. CASE r.decision = "keep"
    <3>1. since(new) = {}  BY <1>5, <1>10, <1>11, <1>15, <2>1
    <3>. QED  BY <2>1, <3>1, FS_EmptySet DEF Failures
  <2>2. CASE r.decision # "keep"
    <3>1. since(new) = since(log) \cup {n}
      BY <1>5, <1>10, <1>15, <1>16, <2>2
    <3>2. since(log) \subseteq DOMAIN log  BY <1>11
    <3>3. Cardinality(since(new)) = Cardinality(since(log)) + 1  BY <1>14, <3>1, <3>2
    <3>. QED  BY <2>0, <2>2, <3>3 DEF Failures
  <2>. QED  BY <2>1, <2>2
<1>18. Cardinality(Experiments(new)) = Cardinality(Experiments(log)) + 1
  BY <1>10, <1>11, <1>14
<1>19. ASSUME NEW d
       PROVE  Cardinality(With(new, d))
                = Cardinality(With(log, d)) + (IF r.decision = d THEN 1 ELSE 0)
  <2>1. Cardinality(With(log, d)) \in Nat /\ Cardinality(With(log, d) \cup {n})
          = Cardinality(With(log, d)) + 1
    BY <1>13, <1>14
  <2>2. CASE r.decision = d
    <3>1. With(new, d) = With(log, d) \cup {n}  BY <1>12, <2>2
    <3>. QED  BY <2>1, <2>2, <3>1
  <2>3. CASE r.decision # d
    <3>1. With(new, d) = With(log, d)  BY <1>12, <2>3
    <3>. QED  BY <2>1, <2>3, <3>1
  <2>. QED  BY <2>2, <2>3
<1>20. new[LastKeep(new)].metric
         = IF r.decision = "keep" THEN r.metric ELSE log[LastKeep(log)].metric
  BY <1>2, <1>6, <1>15, <1>16
<1>. DEFINE ids(lines) == {lines[i].mutation : i \in Experiments(lines)}
<1>21. UNION ids(new) = (UNION ids(log)) \cup r.mutation
  <2>1. ids(new) = ids(log) \cup {r.mutation}
    BY <1>2, <1>6, <1>10, <1>11
  <2>. HIDE DEF ids
  <2>. QED  BY <2>1
<1>22. /\ Loaded(new).count = Cardinality(Experiments(new))
       /\ Loaded(new).kept = Cardinality(With(new, "keep"))
       /\ Loaded(new).discarded = Cardinality(With(new, "discard"))
       /\ Loaded(new).failures = Cardinality(since(new))
       /\ Loaded(new).best = new[LastKeep(new)].metric
       /\ Loaded(new).done = UNION ids(new)
       /\ Loaded(new).pending = {}
  BY DEF Loaded
<1>23. /\ Loaded(log).count = Cardinality(Experiments(log))
       /\ Loaded(log).kept = Cardinality(With(log, "keep"))
       /\ Loaded(log).discarded = Cardinality(With(log, "discard"))
       /\ Loaded(log).best = log[LastKeep(log)].metric
       /\ Loaded(log).done = UNION ids(log)
       /\ Loaded(log).pending = {}
  BY DEF Loaded
<1>24. Loaded(new) =
         [count |-> Loaded(new).count, kept |-> Loaded(new).kept,
          discarded |-> Loaded(new).discarded, failures |-> Loaded(new).failures,
          best |-> Loaded(new).best, done |-> Loaded(new).done, pending |-> Loaded(new).pending]
  BY DEF Loaded
<1>. HIDE DEF since, ids
<1>. DEFINE before == Loaded(log)
            after  == Loaded(new)
<1>25. /\ after.count = before.count + 1
       /\ after.kept = before.kept + (IF r.decision = "keep" THEN 1 ELSE 0)
       /\ after.discarded = before.discarded + (IF r.decision = "discard" THEN 1 ELSE 0)
       /\ after.failures = Failures(before, r)
       /\ after.best = IF r.decision = "keep" THEN r.metric ELSE before.best
       /\ after.done = before.done \cup r.mutation
       /\ after.pending = before.pending \ r.mutation
  BY <1>17, <1>18, <1>19, <1>20, <1>21, <1>22, <1>23
<1>. HIDE DEF before, after
<1>26. after = Logged(before, r)  BY <1>24, <1>25 DEF Logged, after
<1>. QED  BY <1>26 DEF before, after, new

(* LogExperiment's incremental update and LoadSegment's reading of the     *)
(* whole file agree, however many segments, torn lines and crashes the     *)
(* file has seen: a session that resumes counts what the last one counted. *)
THEOREM ResumeAgreesHolds == Spec => ResumeAgrees
<1>1. ASSUME IInv, LInv, [Next]_vars, pc = "append", seg' # seg, crashes' = crashes, ~unterminated
      PROVE  seg' = Loaded(log')
  <2>1. ~Crash  BY <1>1 DEF LInv, Crash
  <2>2. AppendRecord
    BY <1>1, <2>1 DEF Next, Edit, EditCampaign, RunExperiment, InitExperiment, InitWorktree,
                      OpenSegment, Opening, LogExperiment, KeepChanges, DiscardChanges, vars, local
  <2>3. log' = Append(log, Record) /\ seg' = Logged(seg, rec)
    BY <1>1, <2>2 DEF AppendRecord, WriteLine, Appended
  <2>4. Record \in AnyLine /\ rec \in AnyLine /\ rec.kind = "exp"
    BY <1>1, RecordBacked DEF IInv, Shape
  <2>5. /\ Record.kind = "exp" /\ Record.decision = rec.decision
        /\ Record.metric = rec.metric /\ Record.mutation = rec.mutation
    BY <2>4 DEF Record, AnyLine
  <2>6. Logged(seg, rec) = Logged(seg, Record)  BY <2>5 DEF Logged, Failures
  <2>7. log \in Seq(AnyLine) /\ HasSegment(log) /\ seg = Loaded(log)
    BY <1>1 DEF IInv, Shape, LInv
  <2>. QED  BY <1>1, <2>3, <2>4, <2>5, <2>6, <2>7, LoadedAppended
<1>2. IInv /\ LInv /\ [Next]_vars =>
        [pc = "append" /\ seg' # seg /\ pc' = "idle" /\ crashes' = crashes /\ ~unterminated =>
           seg' = Loaded(log')]_vars
  BY <1>1
<1>. QED  BY <1>2, Inductive, InitLInv, NextLInv, PTL DEF Spec, ResumeAgrees

HIDE ExperimentAssumption DEF ExperimentAssumption
-----------------------------------------------------------------------------
(* The compacted session (Compaction).                                     *)

Files == FileName \cup {NoFile}

(* Blocks, messages, events and results that tell of errors up to n, and   *)
(* of turns up to t.                                                       *)
BlockOf(n) ==
  [type : {"text", "tool_use", "tool_result"}, tool : Tool, content : Content,
   names : SUBSET FileName, errors : SUBSET (1 .. n)]

MessageOf(n, t) == [role : {"user", "assistant"}, of : 0 .. t, blocks : Seq(BlockOf(n))]

EventOf(n) ==
  [type : {"none", "turn", "start", "complete"}, tool : Tool, params : Params,
   content : Content, error : {0} \cup 1 .. n, pct : 0 .. 100]

EndOf(n) == [content : Content, error : {0} \cup 1 .. n]

ResultOf(n) == EndOf(n) \cup {NoResult}

(* Only a call's completion carries an error.                              *)
Harmless(e) == e.type # "complete" => e.error = 0

EventsInv == Harmless(event) /\ Harmless(todo)

(* A run has a turn left.                                                  *)
HasTurn == stage # "idle" => turns < MaxTurns

(* What a turn adds to the session: an answer whose calls, if it has any,  *)
(* were not executed, or calls and their results.                          *)
Saves(ms, r) ==
  /\ \A i \in 1 .. Len(ms) : ms[i].of # 0
  /\ \/ /\ Len(ms) = 1 /\ ~Has(ms[1], "tool_result")
        /\ ms[1].of \notin r
     \/ /\ Len(ms) = 2 /\ ms[1].of = ms[2].of
        /\ Has(ms[1], "tool_use") /\ ~Has(ms[1], "tool_result")
        /\ Has(ms[2], "tool_result") /\ ~Has(ms[2], "tool_use")

(* A summary can only be the first message.                                *)
Leads(ms) == \A i \in 1 .. Len(ms) : i > 1 => ms[i].of # 0

(* PairedBehindHead of any messages and turns.                             *)
Paired(ms, r) ==
  \A i \in 1 .. Len(ms) : i > 2 =>
    /\ Has(ms[i], "tool_result") => Has(ms[i - 1], "tool_use") /\ ms[i - 1].of = ms[i].of
    /\ Has(ms[i], "tool_use") /\ ms[i].of \in r =>
         i < Len(ms) /\ Has(ms[i + 1], "tool_result") /\ ms[i + 1].of = ms[i].of

Noted == {cs.errors[i] : i \in DOMAIN cs.errors}

(* The results in the session need not tell of an error: it is accumulated *)
(* until it is summed up.                                                  *)
Accounted ==
  1 .. failed \subseteq
    SummedUp(session) \cup Noted \cup retold \cup {event.error, todo.error}

CompactionInv ==
  /\ CompactionTypeOK /\ EventsInv /\ HasTurn
  /\ Leads(session) /\ Paired(session, ran) /\ Accounted
-----------------------------------------------------------------------------
LEMMA TypeSplit ==
  CompactionTypeOK <=>
    /\ session \in Seq(MessageOf(failed, turns)) /\ Len(session) <= MaxMessages
    /\ backend \in Backend /\ stage \in {"idle", "collect", "act"}
    /\ calls \in Seq(Calls) /\ Len(calls) <= MaxCalls /\ Len(results) = Len(calls)
    /\ results \in Seq(ResultOf(failed))
    /\ gated \in 0 .. Len(calls) /\ stop \in Reason \cup {NoReason}
    /\ todo \in EventOf(failed) /\ event \in EventOf(failed)
    /\ cs \in [filesRead : SUBSET FileName, filesMutated : SUBSET FileName,
               errors : Seq(1 .. failed)]
    /\ sidebar \in Seq(Tool \X Files) /\ Len(sidebar) <= MaxShown
    /\ pct \in 0 .. 100 /\ auto \in BOOLEAN
    /\ turns \in 0 .. MaxTurns /\ ran \subseteq 1 .. turns /\ runs \in 0 .. MaxRuns
    /\ failed \in Nat /\ retold \subseteq 1 .. failed
  BY Zenon DEF CompactionTypeOK, MessageOf, BlockOf, EventOf, EndOf, ResultOf, Files

LEMMA TypeSplitNext ==
  CompactionTypeOK' <=>
    /\ session' \in Seq(MessageOf(failed', turns')) /\ Len(session') <= MaxMessages
    /\ backend' \in Backend /\ stage' \in {"idle", "collect", "act"}
    /\ calls' \in Seq(Calls) /\ Len(calls') <= MaxCalls /\ Len(results') = Len(calls')
    /\ results' \in Seq(ResultOf(failed'))
    /\ gated' \in 0 .. Len(calls') /\ stop' \in Reason \cup {NoReason}
    /\ todo' \in EventOf(failed') /\ event' \in EventOf(failed')
    /\ cs' \in [filesRead : SUBSET FileName, filesMutated : SUBSET FileName,
                errors : Seq(1 .. failed')]
    /\ sidebar' \in Seq(Tool \X Files) /\ Len(sidebar') <= MaxShown
    /\ pct' \in 0 .. 100 /\ auto' \in BOOLEAN
    /\ turns' \in 0 .. MaxTurns /\ ran' \subseteq 1 .. turns' /\ runs' \in 0 .. MaxRuns
    /\ failed' \in Nat /\ retold' \subseteq 1 .. failed'
  BY Zenon DEF CompactionTypeOK, MessageOf, BlockOf, EventOf, EndOf, ResultOf, Files

LEMMA SeqElement ==
  ASSUME NEW S, NEW s \in Seq(S), NEW i \in DOMAIN s
  PROVE  s[i] \in S
  OBVIOUS

LEMMA SeqExcept ==
  ASSUME NEW S, NEW s \in Seq(S), NEW i \in DOMAIN s, NEW x \in S
  PROVE  [s EXCEPT ![i] = x] \in Seq(S) /\ Len([s EXCEPT ![i] = x]) = Len(s)
  OBVIOUS

LEMMA TableIsSeq ==
  ASSUME NEW S, NEW k \in Nat, NEW f \in [1 .. k -> S]
  PROVE  f \in Seq(S) /\ Len(f) = k /\ DOMAIN f = 1 .. k
  OBVIOUS

LEMMA ShortSequences ==
  ASSUME NEW a, NEW b
  PROVE  <<a>> \o <<b>> = <<a, b>> /\ <<a>> \o <<>> = <<a>>
<1>. DEFINE S == {a, b}
<1>1. /\ <<a>> \o <<b>> \in Seq(S) /\ <<a, b>> \in Seq(S)
      /\ Len(<<a>> \o <<b>>) = 2 /\ Len(<<a, b>>) = 2
  OBVIOUS
<1>2. \A i \in 1 .. 2 : (<<a>> \o <<b>>)[i] = <<a, b>>[i]  OBVIOUS
<1>3. <<a>> \o <<b>> = <<a, b>>  BY <1>1, <1>2, SeqEqual
<1>4. <<a>> \in Seq(S)  OBVIOUS
<1>. QED  BY <1>3, <1>4, ConcatEmptySeq

LEMMA SeqGrows ==
  ASSUME NEW S, NEW T, S \subseteq T, NEW s \in Seq(S)
  PROVE  s \in Seq(T)
  OBVIOUS

LEMMA TypesGrow ==
  ASSUME NEW n \in Nat, NEW m \in Nat, NEW t \in Nat, NEW u \in Nat, n <= m, t <= u
  PROVE  /\ MessageOf(n, t) \subseteq MessageOf(m, u)
         /\ EventOf(n) \subseteq EventOf(m) /\ ResultOf(n) \subseteq ResultOf(m)
<1>1. 1 .. n \subseteq 1 .. m /\ 0 .. t \subseteq 0 .. u  OBVIOUS
<1>2. BlockOf(n) \subseteq BlockOf(m)  BY <1>1 DEF BlockOf
<1>3. Seq(BlockOf(n)) \subseteq Seq(BlockOf(m))  BY <1>2, SeqGrows
<1>4. EndOf(n) \subseteq EndOf(m)  BY <1>1 DEF EndOf
<1>5. ResultOf(n) \subseteq ResultOf(m)  BY <1>4, Zenon DEF ResultOf
<1>. QED  BY <1>1, <1>3, <1>5 DEF MessageOf, EventOf

LEMMA ParamsType ==
  /\ NoParams \in Params
  /\ \A params \in Params : params.file \in Files
  /\ \A tool, params : params \in Params => extractFilePath(tool, params) \in Files
<1>1. NoParams \in Params  BY Zenon DEF NoParams, Params
<1>2. ASSUME NEW params \in Params PROVE params.file \in Files
  <2>1. CASE params = [key |-> NoKey, file |-> NoFile]  BY <2>1 DEF Files
  <2>2. CASE params \in [key : {"file_path", "path", "pattern", "command", "go test"},
                         file : FileName]
    BY <2>2 DEF Files
  <2>. QED  BY <2>1, <2>2, Zenon DEF Params
<1>3. ASSUME NEW tool, NEW params \in Params PROVE extractFilePath(tool, params) \in Files
  BY <1>2, Zenon DEF extractFilePath, Files
<1>. QED  BY <1>1, <1>2, <1>3

(* What stays when older messages go and the first is kept or replaced.    *)
LEMMA HeadAndRecent ==
  ASSUME NEW S, NEW ms \in Seq(S), NEW m \in S, NEW n \in Nat, n <= Len(ms)
  PROVE  /\ <<m>> \o Recent(ms, n) \in Seq(S) /\ Len(<<m>> \o Recent(ms, n)) = n + 1
         /\ (<<m>> \o Recent(ms, n))[1] = m
         /\ \A i \in 2 .. n + 1 : (<<m>> \o Recent(ms, n))[i] = ms[i + (Len(ms) - n - 1)]
<1>. DEFINE r == Recent(ms, n)
<1>0. Len(ms) \in Nat  OBVIOUS
<1>1. r \in Seq(S) /\ Len(r) = n /\ \A i \in 1 .. n : r[i] = ms[Len(ms) - n + i]
  BY <1>0 DEF Recent
<1>. HIDE DEF r
<1>2. <<m>> \in Seq(S) /\ Len(<<m>>) = 1 /\ <<m>>[1] = m  OBVIOUS
<1>. DEFINE new == <<m>> \o r
<1>3. new \in Seq(S) /\ Len(new) = n + 1  BY <1>1, <1>2
<1>4. new[1] = m  BY <1>1, <1>2
<1>5. ASSUME NEW i \in 2 .. n + 1 PROVE new[i] = ms[i + (Len(ms) - n - 1)]
  <2>1. new[i] = r[i - 1] /\ i - 1 \in 1 .. n  BY <1>1, <1>2
  <2>. QED  BY <1>0, <1>1, <2>1
<1>. HIDE DEF new
<1>6. new = <<m>> \o Recent(ms, n)  BY DEF new, r
<1>. QED  BY <1>3, <1>4, <1>5, <1>6

LEMMA ShiftKeeps ==
  ASSUME NEW ms, NEW new, NEW d \in Nat, NEW r, Len(ms) \in Nat, Len(new) \in Nat,
         Len(new) = Len(ms) - d, \A i \in 2 .. Len(new) : new[i] = ms[i + d]
  PROVE  /\ Paired(ms, r) => Paired(new, r)
         /\ Leads(ms) => Leads(new)
<1>1. ASSUME Paired(ms, r), NEW i \in 1 .. Len(new), i > 2
      PROVE  /\ Has(new[i], "tool_result") =>
                  Has(new[i - 1], "tool_use") /\ new[i - 1].of = new[i].of
             /\ Has(new[i], "tool_use") /\ new[i].of \in r =>
                  i < Len(new) /\ Has(new[i + 1], "tool_result") /\ new[i + 1].of = new[i].of
  <2>. DEFINE j == i + d
  <2>1. j \in 1 .. Len(ms) /\ j > 2  BY <1>1
  <2>2. new[i] = ms[j] /\ new[i - 1] = ms[j - 1]
    <3>1. i - 1 \in 2 .. Len(new) /\ i \in 2 .. Len(new) /\ (i - 1) + d = j - 1  BY <1>1
    <3>. QED  BY <3>1
  <2>3. i < Len(new) <=> j < Len(ms)  BY <1>1
  <2>4. i < Len(new) => new[i + 1] = ms[j + 1]
    <3>1. i < Len(new) => i + 1 \in 2 .. Len(new) /\ (i + 1) + d = j + 1  BY <1>1
    <3>. QED  BY <3>1
  <2>. HIDE DEF j
  <2>. QED  BY <1>1, <2>1, <2>2, <2>3, <2>4 DEF Paired
<1>2. ASSUME Leads(ms), NEW i \in 1 .. Len(new), i > 1 PROVE new[i].of # 0
  <2>1. i + d \in 1 .. Len(ms) /\ i + d > 1 /\ i \in 2 .. Len(new)  BY <1>2
  <2>. QED  BY <1>2, <2>1 DEF Leads
<1>. QED  BY <1>1, <1>2 DEF Paired, Leads

(* What is summed up is told by the first message.                         *)
LEMMA SummedUpByFirst ==
  ASSUME NEW S, NEW ms \in Seq(S), NEW new \in Seq(S), Leads(ms),
         ms # <<>> => new # <<>> /\ new[1] = ms[1]
  PROVE  SummedUp(ms) \subseteq SummedUp(new)
<1>. SUFFICES ASSUME NEW e \in SummedUp(ms) PROVE e \in SummedUp(new)  OBVIOUS
<1>1. PICK i \in DOMAIN ms : ms[i].of = 0 /\ e \in Errors(ms[i])  BY DEF SummedUp
<1>2. i = 1 /\ ms # <<>>  BY <1>1 DEF Leads
<1>3. 1 \in DOMAIN new /\ new[1] = ms[1]  BY <1>2
<1>. QED  BY <1>1, <1>2, <1>3 DEF SummedUp
-----------------------------------------------------------------------------
LEMMA SummaryTypes ==
  ASSUME CompactionInv, NEW phase \in Phase
  PROVE  LET m == SummaryMessage(buildSummary, detectIntent(phase)) IN
         /\ m \in MessageOf(failed, turns) /\ m.of = 0
         /\ \A i \in DOMAIN cs.errors : i <= MaxErrors => cs.errors[i] \in Errors(m)
         /\ Sections(buildSummary, detectIntent(phase)) # {}
<1>. DEFINE m == SummaryMessage(buildSummary, detectIntent(phase))
            sections == 
              {FormatWithIntent(detectIntent(phase))[i] : i \in DOMAIN FormatWithIntent(detectIntent(phase))}
            names == Told(buildSummary, detectIntent(phase), {"read", "mutated"})
            errors == Told(buildSummary, detectIntent(phase), {"errors"})
            b == Block("text", "other", "long", names, errors)
<1>0. /\ turns \in Nat /\ failed \in Nat
      /\ cs.filesRead \subseteq FileName /\ cs.filesMutated \subseteq FileName
      /\ cs.errors \in Seq(1 .. failed)
  BY TypeSplit, CompactionAssumption DEF CompactionInv, CompactionAssumption
<1>1. "goal" \in sections /\ "errors" \in sections
  BY DEF FormatWithIntent, Format
<1>. HIDE DEF sections
<1>2. /\ buildSummary["goal"] = {"goal"}
      /\ buildSummary["read"] = cs.filesRead /\ buildSummary["mutated"] = cs.filesMutated
      /\ buildSummary["errors"] = {cs.errors[i] : i \in {j \in DOMAIN cs.errors : j <= MaxErrors}}
  BY DEF buildSummary
<1>3. Sections(buildSummary, detectIntent(phase)) = {f \in sections : buildSummary[f] # {}}
  BY DEF Sections, sections
<1>4. "goal" \in Sections(buildSummary, detectIntent(phase))  BY <1>1, <1>2, <1>3
<1>5. names \subseteq FileName  BY <1>0, <1>2 DEF Told
<1>6. errors \subseteq 1 .. failed  BY <1>0, <1>2 DEF Told
<1>7. \A i \in DOMAIN cs.errors : i <= MaxErrors => cs.errors[i] \in errors
  BY <1>1, <1>2, <1>3 DEF Told
<1>. HIDE DEF names, errors
<1>8. b \in BlockOf(failed) /\ b.errors = errors
  BY <1>5, <1>6 DEF Block, BlockOf, Tool, Content
<1>9. m = [role |-> "user", of |-> 0, blocks |-> <<b>>]
  BY DEF SummaryMessage, Message, names, errors
<1>. HIDE DEF b, m
<1>10. <<b>> \in Seq(BlockOf(failed)) /\ 1 \in DOMAIN <<b>> /\ <<b>>[1] = b  BY <1>8
<1>11. m \in MessageOf(failed, turns) /\ m.of = 0
  BY <1>0, <1>9, <1>10 DEF MessageOf
<1>12. b \in Blocks(m)  BY <1>9, <1>10 DEF Blocks
<1>13. errors \subseteq Errors(m)  BY <1>8, <1>12 DEF Errors
<1>14. m = SummaryMessage(buildSummary, detectIntent(phase))  BY DEF m
<1>. QED  BY <1>4, <1>7, <1>11, <1>13, <1>14

(* A share of at most 100 per cent is one.                                 *)
LEMMA Share ==
  ASSUME NEW p \in 0 .. 100, NEW a \in Nat, NEW b \in Nat \ {0}, a <= b
  PROVE  (p * a) \div b \in 0 .. 100
<1>1. p * a \in Nat /\ p * a <= 100 * b
  <2>1. p * a <= 100 * a  OBVIOUS
  <2>2. p * a \in Nat  OBVIOUS
  <2>. QED  BY <2>1, <2>2
<1>. DEFINE x == p * a
<1>. HIDE DEF x
<1>2. x \in Nat /\ x <= 100 * b  BY <1>1 DEF x
<1>3. x \div b \in 0 .. 100  BY <1>2
<1>. QED  BY <1>3 DEF x

LEMMA ExecCompactStep ==
  ASSUME CompactionInv, NEW p \in 0 .. 100, execCompact(p), UNCHANGED <<failed, turns, ran>>
  PROVE  /\ session' \in Seq(MessageOf(failed, turns)) /\ Len(session') <= MaxMessages
         /\ cs' \in [filesRead : SUBSET FileName, filesMutated : SUBSET FileName,
                     errors : Seq(1 .. failed)]
         /\ pct' \in 0 .. 100 /\ retold' \subseteq 1 .. failed
         /\ Leads(session)' /\ Paired(session, ran)'
         /\ SummedUp(session) \cup Noted \cup retold
              \subseteq (SummedUp(session) \cup Noted \cup retold)'
<1>. DEFINE M == MessageOf(failed, turns)
<1>0. /\ session \in Seq(M) /\ Len(session) <= MaxMessages /\ Len(session) \in Nat
      /\ cs \in [filesRead : SUBSET FileName, filesMutated : SUBSET FileName,
                 errors : Seq(1 .. failed)]
      /\ retold \subseteq 1 .. failed /\ failed \in Nat
      /\ Leads(session) /\ Paired(session, ran)
      /\ Keep \in Nat \ {0} /\ MaxErrors \in Nat /\ MaxMessages \in Nat
  BY TypeSplit, CompactionAssumption DEF CompactionInv, CompactionAssumption
<1>1. CASE Len(session) <= Keep + 1 /\ pct' = p /\ UNCHANGED <<session, cs, retold>>
  <2>1. Noted' = Noted  BY <1>1 DEF Noted
  <2>. QED  BY <1>0, <1>1, <2>1
<1>2. CASE /\ Len(session) > Keep + 1
           /\ \E phase \in Phase :
                session' = CompactStructured(session, buildSummary, detectIntent(phase))
           /\ cs' = newCompactionState
           /\ pct' = (p * Len(session')) \div Len(session)
           /\ retold' = retold \cup SummedUp(session)
                \cup {cs.errors[i] : i \in {j \in DOMAIN cs.errors : j > MaxErrors}}
  <2>0. PICK phase \in Phase :
               session' = CompactStructured(session, buildSummary, detectIntent(phase))
    BY <1>2
  <2>. DEFINE m == SummaryMessage(buildSummary, detectIntent(phase))
  <2>1. /\ m \in M /\ m.of = 0
        /\ \A i \in DOMAIN cs.errors : i <= MaxErrors => cs.errors[i] \in Errors(m)
        /\ Sections(buildSummary, detectIntent(phase)) # {}
    BY SummaryTypes
  <2>. HIDE DEF m, M
  <2>2. session' = <<m>> \o Recent(session, Keep)
    BY <1>0, <1>2, <2>0, <2>1 DEF CompactStructured, m
  <2>3. /\ session' \in Seq(M) /\ Len(session') = Keep + 1 /\ session'[1] = m
        /\ \A i \in 2 .. Keep + 1 : session'[i] = session[i + (Len(session) - Keep - 1)]
    <3>1. Keep \in Nat /\ Keep <= Len(session)  BY <1>0, <1>2
    <3>2. session \in Seq(M) /\ m \in M  BY <1>0, <2>1 DEF M
    <3>. DEFINE new == <<m>> \o Recent(session, Keep)
    <3>3. /\ new \in Seq(M) /\ Len(new) = Keep + 1 /\ new[1] = m
          /\ \A i \in 2 .. Keep + 1 : new[i] = session[i + (Len(session) - Keep - 1)]
      BY <3>1, <3>2, HeadAndRecent
    <3>. HIDE DEF new
    <3>4. session' = new  BY <2>2 DEF new
    <3>. QED  BY <3>3, <3>4
  <2>4. Leads(session') /\ Paired(session', ran)
    <3>1. Len(session) - Keep - 1 \in Nat  BY <1>0, <1>2
    <3>2. Len(session') \in Nat /\ Len(session') = Len(session) - (Len(session) - Keep - 1)
      BY <1>0, <2>3
    <3>. QED  BY <1>0, <2>3, <3>1, <3>2, ShiftKeeps
  <2>5. pct' \in 0 .. 100
    <3>1. /\ Len(session') \in Nat /\ Len(session) \in Nat \ {0}
          /\ Len(session') <= Len(session)
      BY <1>0, <1>2, <2>3
    <3>2. pct' = (p * Len(session')) \div Len(session)  BY <1>2
    <3>. QED  BY <3>1, <3>2, Share
  <2>6. retold' \subseteq 1 .. failed
    <3>1. SummedUp(session) \subseteq 1 .. failed
      <4>. SUFFICES ASSUME NEW e \in SummedUp(session) PROVE e \in 1 .. failed  OBVIOUS
      <4>1. PICK i \in DOMAIN session : e \in Errors(session[i])  BY DEF SummedUp
      <4>2. session[i] \in MessageOf(failed, turns)  BY <1>0, <4>1 DEF M
      <4>3. PICK k \in DOMAIN session[i].blocks : e \in session[i].blocks[k].errors
        BY <4>1 DEF Errors, Blocks
      <4>4. session[i].blocks \in Seq(BlockOf(failed))  BY <4>2 DEF MessageOf
      <4>5. session[i].blocks[k] \in BlockOf(failed)  BY <4>3, <4>4
      <4>. QED  BY <4>3, <4>5 DEF BlockOf
    <3>2. cs.errors \in Seq(1 .. failed)  BY <1>0
    <3>3. {cs.errors[i] : i \in {j \in DOMAIN cs.errors : j > MaxErrors}} \subseteq 1 .. failed
      <4>1. \A i \in DOMAIN cs.errors : cs.errors[i] \in 1 .. failed  BY <3>2, SeqElement
      <4>. QED  BY <4>1
    <3>. QED  BY <1>0, <1>2, <3>1, <3>3
  <2>7. cs' \in [filesRead : SUBSET FileName, filesMutated : SUBSET FileName,
                 errors : Seq(1 .. failed)]
    BY <1>2 DEF newCompactionState
  <2>8. Noted \subseteq SummedUp(session') \cup retold'
    <3>. SUFFICES ASSUME NEW e \in Noted PROVE e \in SummedUp(session') \cup retold'  OBVIOUS
    <3>1. PICK i \in DOMAIN cs.errors : e = cs.errors[i]  BY DEF Noted
    <3>2. CASE i <= MaxErrors
      <4>1. 1 \in DOMAIN session'  BY <1>0, <2>3
      <4>2. session'[1].of = 0 /\ e \in Errors(session'[1])  BY <2>1, <2>3, <3>1, <3>2
      <4>. QED  BY <4>1, <4>2 DEF SummedUp
    <3>3. CASE i > MaxErrors  BY <1>2, <3>1, <3>3
    <3>4. i \in Nat  BY <1>0, <3>1
    <3>. QED  BY <1>0, <3>2, <3>3, <3>4
  <2>. QED  BY <1>0, <1>2, <2>3, <2>4, <2>5, <2>6, <2>7, <2>8 DEF M
<1>. QED  BY <1>1, <1>2 DEF execCompact
-----------------------------------------------------------------------------
LEMMA EventTypes ==
  ASSUME NEW n \in Nat, NEW params \in Params, NEW content \in Content,
         NEW error \in {0} \cup 1 .. n, NEW p \in 0 .. 100,
         NEW type \in {"none", "turn", "start", "complete"}, NEW call, call.tool \in Tool
  PROVE  Event(type, call, params, content, error, p) \in EventOf(n)
  BY DEF Event, EventOf

LEMMA NoEventType ==
  /\ \A n \in Nat : NoEvent \in EventOf(n)
  /\ NoEvent.type = "none" /\ NoEvent.error = 0
<1>1. NoCall.tool \in Tool /\ "empty" \in Content /\ 0 \in 0 .. 100
  BY DEF NoCall, Tool, Content
<1>2. NoEvent.type = "none" /\ NoEvent.error = 0  BY DEF NoEvent, Event
<1>3. ASSUME NEW n \in Nat PROVE NoEvent \in EventOf(n)
  BY <1>1, ParamsType, EventTypes DEF NoEvent
<1>. QED  BY <1>2, <1>3

LEMMA CallType ==
  ASSUME CompactionInv, NEW i \in DOMAIN calls
  PROVE  /\ calls[i].tool \in Tool /\ calls[i].params \in Params
         /\ calls[i].content \in Content
         /\ i \in 1 .. Len(calls) /\ i \in DOMAIN results
<1>1. calls \in Seq(Calls) /\ results \in Seq(ResultOf(failed)) /\ Len(results) = Len(calls)
  BY TypeSplit DEF CompactionInv
<1>2. calls[i] \in Calls  BY <1>1, SeqElement
<1>3. Calls \subseteq [tool : Tool, params : Params, content : Content, safe : BOOLEAN]
  BY CompactionAssumption DEF CompactionAssumption
<1>. QED  BY <1>1, <1>2, <1>3

(* What more errors leave as it was.                                       *)
LEMMA OthersGrow ==
  ASSUME CompactionInv, NEW n \in Nat, failed <= n
  PROVE  /\ session \in Seq(MessageOf(n, turns)) /\ results \in Seq(ResultOf(n))
         /\ event \in EventOf(n) /\ retold \subseteq 1 .. n
         /\ cs \in [filesRead : SUBSET FileName, filesMutated : SUBSET FileName,
                    errors : Seq(1 .. n)]
<1>0. failed \in Nat /\ turns \in Nat
  <2>1. turns \in 0 .. MaxTurns /\ failed \in Nat  BY TypeSplit DEF CompactionInv
  <2>. QED  BY <2>1, CompactionAssumption DEF CompactionAssumption
<1>1. /\ MessageOf(failed, turns) \subseteq MessageOf(n, turns)
      /\ EventOf(failed) \subseteq EventOf(n) /\ ResultOf(failed) \subseteq ResultOf(n)
  BY <1>0, TypesGrow
<1>2. 1 .. failed \subseteq 1 .. n  BY <1>0
<1>3. /\ session \in Seq(MessageOf(failed, turns)) /\ results \in Seq(ResultOf(failed))
      /\ event \in EventOf(failed) /\ retold \subseteq 1 .. failed
      /\ cs \in [filesRead : SUBSET FileName, filesMutated : SUBSET FileName,
                 errors : Seq(1 .. failed)]
  BY TypeSplit DEF CompactionInv
<1>4. session \in Seq(MessageOf(n, turns)) /\ results \in Seq(ResultOf(n))
  BY <1>1, <1>3, SeqGrows
<1>5. cs.errors \in Seq(1 .. n)  BY <1>2, <1>3, SeqGrows
<1>. QED  BY <1>1, <1>2, <1>3, <1>4, <1>5

(* The run reports to Update, and at most one new error.                   *)
LEMMA ReportStep ==
  ASSUME CompactionInv, MaySend, stage # "idle",
         failed' \in {failed, failed + 1},
         failed' = failed + 1 => failed' \in {event'.error, todo'.error},
         event' \in EventOf(failed'), todo' \in EventOf(failed'),
         Harmless(event'), Harmless(todo'),
         stage' \in {"idle", "collect", "act"},
         calls' \in Seq(Calls), Len(calls') <= MaxCalls, Len(results') = Len(calls'),
         results' \in Seq(ResultOf(failed')), gated' \in 0 .. Len(calls'),
         stop' \in Reason \cup {NoReason},
         UNCHANGED <<session, backend, turns, ran, runs, screen>>
  PROVE  CompactionInv'
<1>. USE DEF screen
<1>0. failed \in Nat /\ failed' \in Nat /\ failed <= failed'
  BY TypeSplit DEF CompactionInv
<1>1. /\ session' \in Seq(MessageOf(failed', turns')) /\ retold' \subseteq 1 .. failed'
      /\ cs' \in [filesRead : SUBSET FileName, filesMutated : SUBSET FileName,
                  errors : Seq(1 .. failed')]
  BY <1>0, OthersGrow
<1>2. /\ Len(session') <= MaxMessages /\ backend' \in Backend
      /\ sidebar' \in Seq(Tool \X Files) /\ Len(sidebar') <= MaxShown
      /\ pct' \in 0 .. 100 /\ auto' \in BOOLEAN
      /\ turns' \in 0 .. MaxTurns /\ ran' \subseteq 1 .. turns' /\ runs' \in 0 .. MaxRuns
  BY TypeSplit DEF CompactionInv
<1>3. CompactionTypeOK'  BY <1>0, <1>1, <1>2, TypeSplitNext, Zenon
<1>4. EventsInv' /\ HasTurn'  BY DEF EventsInv, HasTurn, CompactionInv
<1>5. Leads(session)' /\ Paired(session, ran)'  BY DEF CompactionInv
<1>6. Accounted'
  <2>. SUFFICES ASSUME NEW e \in 1 .. failed'
                PROVE  e \in (SummedUp(session) \cup Noted \cup retold
                                \cup {event.error, todo.error})'
    BY DEF Accounted
  <2>1. Noted' = Noted /\ session' = session /\ retold' = retold  BY DEF Noted
  <2>2. event.error = 0 /\ todo.error = 0  BY NoEventType DEF MaySend
  <2>3. CASE e \in 1 .. failed
    <3>1. e \in SummedUp(session) \cup Noted \cup retold
      BY <2>2, <2>3 DEF CompactionInv, Accounted
    <3>. QED  BY <2>1, <3>1
  <2>4. CASE e \notin 1 .. failed
    <3>1. e = failed' /\ failed' = failed + 1  BY <1>0, <2>4
    <3>. QED  BY <3>1
  <2>. QED  BY <2>3, <2>4
<1>. QED  BY <1>3, <1>4, <1>5, <1>6 DEF CompactionInv

LEMMA BeginCallStep ==
  ASSUME CompactionInv, NEW call \in Calls, BeginCall(call)
  PROVE  CompactionInv'
<1>. USE DEF BeginCall
<1>. DEFINE params == IF backend = ClaudeCode THEN call.params ELSE NoParams
            start == Event("start", call, params, "empty", 0, 0)
<1>0. /\ calls \in Seq(Calls) /\ results \in Seq(ResultOf(failed)) /\ Len(results) = Len(calls)
      /\ gated \in 0 .. Len(calls) /\ failed \in Nat /\ MaxCalls \in Nat
      /\ todo \in EventOf(failed) /\ stop \in Reason \cup {NoReason}
      /\ stage \in {"idle", "collect", "act"}
  BY TypeSplit, CompactionAssumption DEF CompactionInv, CompactionAssumption
<1>1. call.tool \in Tool /\ params \in Params
  <2>1. Calls \subseteq [tool : Tool, params : Params, content : Content, safe : BOOLEAN]
    BY CompactionAssumption DEF CompactionAssumption
  <2>. QED  BY <2>1, ParamsType
<1>2. start \in EventOf(failed) /\ start.error = 0 /\ event' = start
  <2>1. "empty" \in Content /\ 0 \in 0 .. 100 /\ 0 \in {0} \cup 1 .. failed  BY DEF Content
  <2>. HIDE DEF params
  <2>2. start \in EventOf(failed)  BY <1>0, <1>1, <2>1, EventTypes
  <2>3. start.error = 0  BY DEF Event
  <2>. QED  BY <2>2, <2>3 DEF params
<1>. HIDE DEF start
<1>3. calls' \in Seq(Calls) /\ Len(calls') = Len(calls) + 1  BY <1>0
<1>4. results' \in Seq(ResultOf(failed)) /\ Len(results') = Len(results) + 1
  <2>. DEFINE S == ResultOf(failed)
  <2>1. NoResult \in S  BY DEF ResultOf
  <2>. HIDE DEF S
  <2>2. results \in Seq(S)  BY <1>0 DEF S
  <2>3. results' = Append(results, NoResult)  OBVIOUS
  <2>4. results' \in Seq(S) /\ Len(results') = Len(results) + 1  BY <2>1, <2>2, <2>3
  <2>. QED  BY <2>4 DEF S
<1>5. Len(calls') <= MaxCalls /\ Len(results') = Len(calls') /\ gated' \in 0 .. Len(calls')
  BY <1>0, <1>3, <1>4
<1>6. Harmless(event') /\ Harmless(todo')
  BY <1>2 DEF Harmless, CompactionInv, EventsInv
<1>. QED  BY <1>0, <1>2, <1>3, <1>4, <1>5, <1>6, ReportStep

LEMMA EndsStep ==
  ASSUME CompactionInv, MaySend, stage # "idle",
         NEW i \in DOMAIN calls, NEW outcome \in Outcome, Ends(i, outcome)
  PROVE  CompactionInv'
<1>. USE DEF Ends
<1>. DEFINE error == IF outcome = "fails" THEN failed + 1 ELSE 0
            content == Result(calls[i], outcome)
            end == Event("complete", calls[i], NoParams, content, error, 0)
<1>0. /\ calls \in Seq(Calls) /\ Len(calls) <= MaxCalls /\ Len(results) = Len(calls)
      /\ gated \in 0 .. Len(calls) /\ failed \in Nat
      /\ todo \in EventOf(failed) /\ stop \in Reason \cup {NoReason}
      /\ stage \in {"idle", "collect", "act"}
  BY TypeSplit DEF CompactionInv
<1>1. /\ failed' \in {failed, failed + 1} /\ failed' \in Nat /\ failed <= failed'
      /\ error \in {0} \cup 1 .. failed' /\ (failed' = failed + 1 => error = failed')
  BY <1>0
<1>2. content \in Content
  <2>1. calls[i].content \in Content  BY CallType
  <2>. QED  BY <2>1 DEF Result, Content
<1>3. end \in EventOf(failed') /\ end.error = error /\ end.type = "complete"
  <2>. HIDE DEF error, content
  <2>1. calls[i].tool \in Tool /\ 0 \in 0 .. 100 /\ NoParams \in Params  BY CallType, ParamsType
  <2>2. end \in EventOf(failed')  BY <1>1, <1>2, <2>1, EventTypes
  <2>3. end.error = error /\ end.type = "complete"  BY DEF Event
  <2>. QED  BY <2>2, <2>3
<1>4. event' = end  OBVIOUS
<1>5. results' \in Seq(ResultOf(failed')) /\ Len(results') = Len(results)
  <2>. DEFINE r == [content |-> content, error |-> error]
              S == ResultOf(failed')
  <2>1. r \in S  BY <1>1, <1>2 DEF ResultOf, EndOf
  <2>2. results \in Seq(S) /\ i \in DOMAIN results  BY <1>1, OthersGrow, CallType
  <2>3. results' = [results EXCEPT ![i] = r]  OBVIOUS
  <2>. HIDE DEF r, S
  <2>4. results' \in Seq(S) /\ Len(results') = Len(results)
    BY <2>1, <2>2, <2>3, SeqExcept
  <2>. QED  BY <2>4 DEF S
<1>. HIDE DEF end, error, content
<1>6. todo' \in EventOf(failed') /\ todo' = todo  BY <1>1, NoEventType DEF MaySend
<1>7. Harmless(event') /\ Harmless(todo')
  BY <1>3, <1>4, <1>6 DEF Harmless, CompactionInv, EventsInv
<1>8. failed' = failed + 1 => failed' \in {event'.error, todo'.error}  BY <1>1, <1>3, <1>4
<1>9. UNCHANGED <<session, backend, stage, calls, stop, gated, turns, ran, runs, screen>>
  OBVIOUS
<1>. QED  BY <1>0, <1>1, <1>3, <1>4, <1>5, <1>6, <1>7, <1>8, <1>9, ReportStep

LEMMA DenyStep == ASSUME CompactionInv, Deny PROVE CompactionInv'
<1>. USE DEF Deny, Gating
<1>. DEFINE i == gated + 1
            n == failed + 1
            start == Event("start", calls[i], calls[i].params, "empty", 0, 0)
            end == Event("complete", calls[i], NoParams, "short", n, 0)
<1>0. /\ calls \in Seq(Calls) /\ Len(calls) <= MaxCalls /\ Len(results) = Len(calls)
      /\ gated \in 0 .. Len(calls) /\ failed \in Nat /\ stop \in Reason \cup {NoReason}
  BY TypeSplit DEF CompactionInv
<1>1. /\ i \in DOMAIN calls /\ gated' = i /\ gated' \in 0 .. Len(calls)
      /\ n \in Nat /\ failed <= n /\ failed' = n
  BY <1>0
<1>2. /\ calls[i].tool \in Tool /\ calls[i].params \in Params /\ NoParams \in Params
      /\ {"empty", "short"} \subseteq Content /\ 0 \in 0 .. 100
      /\ 0 \in {0} \cup 1 .. n /\ n \in {0} \cup 1 .. n
  BY <1>0, <1>1, CallType, ParamsType DEF Content
<1>. HIDE DEF i, n
<1>3. start \in EventOf(n) /\ start.error = 0
  <2>1. start \in EventOf(n)  BY <1>1, <1>2, EventTypes
  <2>. QED  BY <2>1 DEF Event
<1>4. end \in EventOf(n) /\ end.error = n /\ end.type = "complete"
  <2>1. end \in EventOf(n)  BY <1>1, <1>2, EventTypes
  <2>. QED  BY <2>1 DEF Event
<1>5. event' = start /\ todo' = end  BY DEF i, n
<1>6. results' \in Seq(ResultOf(n)) /\ Len(results') = Len(results)
  <2>. DEFINE r == [content |-> "short", error |-> n]
              S == ResultOf(n)
  <2>1. r \in S  BY <1>1, <1>2 DEF ResultOf, EndOf
  <2>2. results \in Seq(S) /\ i \in DOMAIN results  BY <1>1, OthersGrow, CallType
  <2>3. results' = [results EXCEPT ![i] = r]  BY DEF i, n
  <2>. HIDE DEF r, S, i, n, Deny, Gating
  <2>4. results' \in Seq(S) /\ Len(results') = Len(results)
    BY <2>1, <2>2, <2>3, SeqExcept
  <2>. QED  BY <2>4 DEF S
<1>. HIDE DEF start, end
<1>7. Harmless(event') /\ Harmless(todo')  BY <1>3, <1>4, <1>5 DEF Harmless
<1>8. failed' \in {failed, failed + 1} /\ failed' \in {event'.error, todo'.error}
  BY <1>1, <1>4, <1>5 DEF n
<1>9. /\ UNCHANGED <<session, backend, stage, calls, stop, turns, ran, runs, screen>>
      /\ MaySend /\ stage \in {"idle", "collect", "act"}
  BY DEF MaySend
<1>. QED  BY <1>0, <1>1, <1>3, <1>4, <1>5, <1>6, <1>7, <1>8, <1>9, ReportStep

LEMMA DoneStep ==
  ASSUME CompactionInv, NEW reason \in Reason, NEW p \in Usages, Done(reason, p)
  PROVE  CompactionInv'
<1>. USE DEF Done
<1>. DEFINE used == IF backend = "tmux" THEN 0 ELSE p
            end == Event("turn", NoCall, NoParams, "empty", 0, used)
<1>0. /\ calls \in Seq(Calls) /\ Len(calls) <= MaxCalls /\ Len(results) = Len(calls)
      /\ results \in Seq(ResultOf(failed)) /\ gated \in 0 .. Len(calls) /\ failed \in Nat
      /\ todo \in EventOf(failed)
  BY TypeSplit DEF CompactionInv
<1>1. end \in EventOf(failed) /\ end.error = 0 /\ event' = end
  <2>1. used \in 0 .. 100  BY CompactionAssumption DEF CompactionAssumption
  <2>. HIDE DEF used
  <2>2. /\ NoCall.tool \in Tool /\ "empty" \in Content /\ NoParams \in Params
        /\ 0 \in {0} \cup 1 .. failed
    BY ParamsType DEF NoCall, Tool, Content
  <2>3. end \in EventOf(failed)  BY <1>0, <2>1, <2>2, EventTypes
  <2>4. end.error = 0  BY DEF Event
  <2>. QED  BY <2>3, <2>4 DEF used
<1>. HIDE DEF end
<1>2. Harmless(event') /\ Harmless(todo')  BY <1>1 DEF Harmless, CompactionInv, EventsInv
<1>3. /\ UNCHANGED <<session, backend, calls, gated, results, todo, turns, ran, runs, failed, screen>>
      /\ stop' \in Reason \cup {NoReason} /\ stage' \in {"idle", "collect", "act"} /\ MaySend
  OBVIOUS
<1>. QED  BY <1>0, <1>1, <1>2, <1>3, ReportStep
-----------------------------------------------------------------------------
LEMMA CompactionInvInit == CompactionInit => CompactionInv
<1>. SUFFICES ASSUME CompactionInit PROVE CompactionInv  OBVIOUS
<1>. USE DEF CompactionInit
<1>1. CompactionTypeOK
  <2>1. /\ MaxMessages \in Nat /\ MaxShown \in Nat /\ MaxTurns \in Nat /\ MaxRuns \in Nat
        /\ MaxCalls \in Nat
    BY CompactionAssumption DEF CompactionAssumption
  <2>2. newCompactionState \in [filesRead : SUBSET FileName, filesMutated : SUBSET FileName,
                                errors : Seq(1 .. failed)]
    BY DEF newCompactionState
  <2>. QED  BY <2>1, <2>2, NoEventType, TypeSplit
<1>2. EventsInv /\ HasTurn  BY NoEventType DEF EventsInv, Harmless, HasTurn
<1>3. Leads(session) /\ Paired(session, ran)  BY DEF Leads, Paired
<1>4. Accounted  BY DEF Accounted
<1>. QED  BY <1>1, <1>2, <1>3, <1>4 DEF CompactionInv

(* What the run does in silence.                                           *)
LEMMA QuietStep ==
  ASSUME CompactionInv, StartRun \/ EndOfStream \/ StreamFails \/ Grant
  PROVE  CompactionInv'
<1>. USE DEF StartRun, EndOfStream, StreamFails, Grant, Gating, Fresh, answer, screen
<1>0. /\ calls \in Seq(Calls) /\ Len(calls) <= MaxCalls /\ Len(results) = Len(calls)
      /\ results \in Seq(ResultOf(failed)) /\ gated \in 0 .. Len(calls)
      /\ stop \in Reason \cup {NoReason} /\ MaxCalls \in Nat
      /\ runs \in 0 .. MaxRuns /\ MaxRuns \in Nat
  BY TypeSplit, CompactionAssumption DEF CompactionInv, CompactionAssumption
<1>1. UNCHANGED <<session, backend, todo, event, cs, sidebar, pct, auto, turns, ran, failed, retold>>
  OBVIOUS
<1>2. CompactionTypeOK'
  <2>1. stage' \in {"idle", "collect", "act"} /\ runs' \in 0 .. MaxRuns
    <3>1. stage \in {"idle", "collect", "act"}  BY TypeSplit DEF CompactionInv
    <3>. QED  BY <1>0, <3>1
  <2>2. /\ calls' \in Seq(Calls) /\ Len(calls') <= MaxCalls /\ Len(results') = Len(calls')
        /\ results' \in Seq(ResultOf(failed')) /\ gated' \in 0 .. Len(calls')
        /\ stop' \in Reason \cup {NoReason}
    <3>1. CASE StartRun \/ EndOfStream \/ Grant  BY <1>0, <1>1, <3>1
    <3>2. CASE StreamFails
      <4>1. calls' = <<>> /\ results' = <<>> /\ gated' = 0 /\ stop' = NoReason  BY <3>2
      <4>. QED  BY <1>0, <4>1
    <3>. QED  BY <3>1, <3>2
  <2>. QED  BY <1>1, <2>1, <2>2, TypeSplit, TypeSplitNext DEF CompactionInv
<1>3. EventsInv' /\ HasTurn'  BY <1>1 DEF CompactionInv, EventsInv, Harmless, HasTurn
<1>4. (Leads(session) /\ Paired(session, ran))'  BY <1>1 DEF CompactionInv
<1>5. Accounted'
  <2>1. Noted' = Noted  BY <1>1 DEF Noted
  <2>. QED  BY <1>1, <2>1 DEF CompactionInv, Accounted
<1>. QED  BY <1>2, <1>3, <1>4, <1>5 DEF CompactionInv

LEMMA SendStep == ASSUME CompactionInv, Send PROVE CompactionInv'
<1>. USE DEF Send, answer, screen
<1>0. /\ todo \in EventOf(failed) /\ failed \in Nat /\ event' = todo /\ todo' = NoEvent
      /\ event.error = 0 /\ todo'.error = 0
      /\ UNCHANGED <<session, cs, retold, failed, ran>>
  BY TypeSplit, NoEventType DEF CompactionInv
<1>1. CompactionTypeOK'
  <2>1. todo' \in EventOf(failed)  BY <1>0, NoEventType
  <2>. QED  BY <1>0, <2>1, TypeSplit, TypeSplitNext DEF CompactionInv
<1>2. EventsInv' /\ HasTurn'  BY <1>0 DEF CompactionInv, EventsInv, Harmless, HasTurn
<1>3. (Leads(session) /\ Paired(session, ran))'  BY <1>0 DEF CompactionInv
<1>4. Accounted'
  <2>1. Noted' = Noted  BY <1>0 DEF Noted
  <2>2. 0 \notin 1 .. failed  BY <1>0
  <2>. QED  BY <1>0, <2>1, <2>2 DEF CompactionInv, Accounted
<1>. QED  BY <1>1, <1>2, <1>3, <1>4 DEF CompactionInv
-----------------------------------------------------------------------------
LEMMA AppendedPairs ==
  ASSUME NEW S, NEW ms \in Seq(S), NEW made \in Seq(S), NEW r,
         Saves(made, r), Paired(ms, r), Leads(ms)
  PROVE  /\ ms \o made \in Seq(S) /\ Paired(ms \o made, r)
         /\ Leads(ms \o made) /\ ms \o made # <<>>
         /\ ms = <<>> => SummedUp(ms) = {}
         /\ ms # <<>> => (ms \o made)[1] = ms[1]
<1>. DEFINE all == ms \o made
            n == Len(ms)
<1>0. n \in Nat /\ Len(made) \in Nat  OBVIOUS
<1>1. all \in Seq(S) /\ Len(all) = n + Len(made)  OBVIOUS
<1>2. \A i \in 1 .. n : all[i] = ms[i]  OBVIOUS
<1>3. \A i \in 1 .. Len(made) : all[n + i] = made[i]  OBVIOUS
<1>4. Len(made) \in {1, 2} /\ Len(made) <= 2  BY DEF Saves
<1>. HIDE DEF all
<1>5. ASSUME NEW i \in 1 .. Len(all), i > 2
      PROVE  /\ Has(all[i], "tool_result") =>
                  Has(all[i - 1], "tool_use") /\ all[i - 1].of = all[i].of
             /\ Has(all[i], "tool_use") /\ all[i].of \in r =>
                  i < Len(all) /\ Has(all[i + 1], "tool_result") /\ all[i + 1].of = all[i].of
  <2>1. CASE i <= n
    <3>1. i \in 1 .. n /\ i - 1 \in 1 .. n  BY <1>0, <1>5, <2>1
    <3>2. i < n => i + 1 \in 1 .. n /\ i < Len(all)  BY <1>0, <1>1, <3>1
    <3>. HIDE DEF n
    <3>3. all[i] = ms[i] /\ all[i - 1] = ms[i - 1] /\ (i < n => all[i + 1] = ms[i + 1])
      BY <1>2, <3>1, <3>2
    <3>. USE DEF n
    <3>. QED  BY <1>5, <3>1, <3>2, <3>3 DEF Paired
  <2>2. CASE i = n + 1
    <3>1. Len(made) >= 1 /\ all[i] = made[1]  BY <1>0, <1>1, <1>3, <2>2
    <3>2. ~Has(made[1], "tool_result")  BY <1>0, <3>1 DEF Saves
    <3>3. Has(made[1], "tool_use") /\ made[1].of \in r =>
            Len(made) = 2 /\ Has(made[2], "tool_result") /\ made[2].of = made[1].of
      BY <1>0, <3>1 DEF Saves
    <3>4. Len(made) = 2 => i < Len(all) /\ all[i + 1] = made[2]  BY <1>0, <1>1, <1>3, <2>2
    <3>. QED  BY <3>1, <3>2, <3>3, <3>4
  <2>3. CASE i = n + 2
    <3>1. Len(made) = 2 /\ all[i] = made[2] /\ all[i - 1] = made[1]
      BY <1>0, <1>1, <1>3, <1>4, <2>3
    <3>2. ~Has(made[2], "tool_use") /\ Has(made[1], "tool_use") /\ made[1].of = made[2].of
      <4>1. Len(made) # 1  BY <3>1
      <4>. QED  BY <4>1, Zenon DEF Saves
    <3>. QED  BY <3>1, <3>2
  <2>4. i <= n \/ i = n + 1 \/ i = n + 2
    <3>1. i \in Nat /\ i <= n + Len(made)  BY <1>0, <1>1
    <3>. HIDE DEF n
    <3>. QED  BY <1>0, <1>4, <3>1
  <2>. QED  BY <2>1, <2>2, <2>3, <2>4
<1>6. ASSUME NEW i \in 1 .. Len(all), i > 1 PROVE all[i].of # 0
  <2>1. CASE i <= n  BY <1>0, <1>2, <1>6, <2>1 DEF Leads
  <2>2. CASE i > n
    <3>1. i - n \in 1 .. Len(made) /\ n + (i - n) = i  BY <1>0, <1>1, <2>2
    <3>2. all[i] = made[i - n]  BY <1>3, <3>1
    <3>. QED  BY <3>1, <3>2 DEF Saves
  <2>. QED  BY <1>0, <2>1, <2>2
<1>7. ms = <<>> => SummedUp(ms) = {}  BY DEF SummedUp
<1>8. ms # <<>> => all[1] = ms[1]  BY <1>0, <1>2
<1>9. all = ms \o made  BY DEF all
<1>10. all # <<>>  BY <1>0, <1>1, <1>4
<1>. QED  BY <1>10, <1>1, <1>5, <1>6, <1>7, <1>8, <1>9 DEF Paired, Leads

(* What a turn adds to the session.                                        *)
LEMMA TurnSaves ==
  ASSUME CompactionInv, RunsTools => gated = Len(calls) /\ Waiting = {},
         NEW r, r = IF RunsTools THEN ran \cup {turns + 1} ELSE ran
  PROVE  TurnMessages \in Seq(MessageOf(failed, turns + 1)) /\ Saves(TurnMessages, r)
<1>. DEFINE B == BlockOf(failed)
            M == MessageOf(failed, turns + 1)
            uses == [i \in DOMAIN calls |-> Block("tool_use", calls[i].tool, "short", {}, {})]
            ends == [i \in DOMAIN calls |->
                       Block("tool_result", calls[i].tool, results[i].content,
                             {calls[i].params.file} \ {NoFile}, {results[i].error} \ {0})]
            a == Message("assistant", turns + 1, uses)
            u == Message("user", turns + 1, ends)
<1>0. /\ turns \in Nat /\ failed \in Nat /\ ran \subseteq 1 .. turns
      /\ calls \in Seq(Calls) /\ Len(calls) \in Nat /\ DOMAIN calls = 1 .. Len(calls)
      /\ results \in Seq(ResultOf(failed)) /\ Len(results) = Len(calls)
  <2>1. turns \in Nat
    <3>1. turns \in 0 .. MaxTurns  BY TypeSplit DEF CompactionInv
    <3>. QED  BY <3>1, CompactionAssumption DEF CompactionAssumption
  <2>. QED  BY <2>1, TypeSplit DEF CompactionInv
<1>1. uses \in Seq(B) /\ DOMAIN uses = DOMAIN calls /\ \A i \in DOMAIN calls : uses[i].type = "tool_use"
  <2>1. ASSUME NEW i \in DOMAIN calls
        PROVE  uses[i] \in B /\ uses[i].type = "tool_use"
    <3>1. calls[i].tool \in Tool /\ "short" \in Content  BY CallType DEF Content
    <3>. QED  BY <3>1 DEF Block, BlockOf
  <2>. HIDE DEF B
  <2>2. uses \in [1 .. Len(calls) -> B]  BY <1>0, <2>1
  <2>. HIDE DEF uses
  <2>. QED  BY <1>0, <2>1, <2>2, TableIsSeq
<1>2. ASSUME RunsTools
      PROVE  /\ ends \in Seq(B) /\ DOMAIN ends = DOMAIN calls
             /\ \A i \in DOMAIN calls : ends[i].type = "tool_result"
  <2>1. ASSUME NEW i \in DOMAIN calls
        PROVE  ends[i] \in B /\ ends[i].type = "tool_result"
    <3>1. calls[i].tool \in Tool /\ calls[i].params \in Params /\ i \in DOMAIN results
      BY CallType
    <3>2. results[i] \in EndOf(failed)
      <4>1. results[i] \in ResultOf(failed)  BY <1>0, <3>1, SeqElement
      <4>2. i \in 1 .. gated /\ i \notin Waiting  BY <1>0, <1>2
      <4>3. results[i] # NoResult  BY <4>2 DEF Waiting, Settled
      <4>. QED  BY <4>1, <4>3 DEF ResultOf
    <3>3. {calls[i].params.file} \ {NoFile} \subseteq FileName
      <4>1. calls[i].params.file \in Files  BY <3>1, ParamsType
      <4>. QED  BY <4>1 DEF Files
    <3>4. results[i].content \in Content /\ {results[i].error} \ {0} \subseteq 1 .. failed
      BY <3>2 DEF EndOf
    <3>. QED  BY <3>1, <3>3, <3>4 DEF Block, BlockOf
  <2>. HIDE DEF B
  <2>2. ends \in [1 .. Len(calls) -> B]  BY <1>0, <2>1
  <2>. HIDE DEF ends
  <2>. QED  BY <1>0, <2>1, <2>2, TableIsSeq
<1>3. /\ TurnMessages = <<a>> \o (IF RunsTools THEN <<u>> ELSE <<>>)
  BY Zenon DEF TurnMessages
<1>. HIDE DEF uses, ends
<1>4. /\ a \in M /\ a.of = turns + 1 /\ ~Has(a, "tool_result")
      /\ calls # <<>> => Has(a, "tool_use")
  <2>1. a \in M /\ a.of = turns + 1 /\ a.blocks = uses
    BY <1>0, <1>1 DEF Message, MessageOf
  <2>2. Blocks(a) = {uses[i] : i \in DOMAIN calls}  BY <1>1, <2>1 DEF Blocks
  <2>3. calls # <<>> => 1 \in DOMAIN calls  BY <1>0
  <2>. QED  BY <1>1, <2>1, <2>2, <2>3 DEF Has
<1>5. ASSUME RunsTools
      PROVE  u \in M /\ u.of = turns + 1 /\ Has(u, "tool_result") /\ ~Has(u, "tool_use")
  <2>1. u \in M /\ u.of = turns + 1 /\ u.blocks = ends
    BY <1>0, <1>2, <1>5 DEF Message, MessageOf
  <2>2. Blocks(u) = {ends[i] : i \in DOMAIN calls}  BY <1>2, <1>5, <2>1 DEF Blocks
  <2>3. 1 \in DOMAIN calls
    <3>1. calls # <<>>  BY <1>5 DEF RunsTools
    <3>. QED  BY <1>0, <3>1
  <2>. QED  BY <1>2, <1>5, <2>1, <2>2, <2>3 DEF Has
<1>6. turns + 1 # 0 /\ turns + 1 \notin ran  BY <1>0
<1>. HIDE DEF a, u, M
<1>7. CASE RunsTools
  <2>1. TurnMessages = <<a, u>>  BY <1>3, <1>7, ShortSequences
  <2>2. calls # <<>>  BY <1>7 DEF RunsTools
  <2>3. /\ TurnMessages \in Seq(M) /\ Len(TurnMessages) = 2
        /\ TurnMessages[1] = a /\ TurnMessages[2] = u
    BY <1>4, <1>5, <1>7, <2>1
  <2>. QED  BY <1>4, <1>5, <1>6, <1>7, <2>2, <2>3 DEF Saves, M
<1>8. CASE ~RunsTools
  <2>1. TurnMessages = <<a>>  BY <1>3, <1>8, ShortSequences
  <2>2. TurnMessages \in Seq(M) /\ Len(TurnMessages) = 1 /\ TurnMessages[1] = a
    BY <1>4, <2>1
  <2>. QED  BY <1>4, <1>6, <1>8, <2>2 DEF Saves, M
<1>. QED  BY <1>7, <1>8

LEMMA SaveStep == ASSUME CompactionInv, Save PROVE CompactionInv'
<1>. USE DEF Save, Fresh, screen
<1>. DEFINE M == MessageOf(failed, turns')
            made == TurnMessages
            all == session \o made
<1>0. /\ MaxMessages \in Nat /\ MaxMessages > 1 /\ failed \in Nat
      /\ turns \in Nat /\ turns' = turns + 1 /\ ran \subseteq 1 .. turns
      /\ ran' = IF RunsTools THEN ran \cup {turns + 1} ELSE ran
      /\ Paired(session, ran) /\ Leads(session)
  <2>1. MaxMessages \in Nat /\ MaxMessages > 1
    BY CompactionAssumption DEF CompactionAssumption
  <2>2. turns \in Nat
    <3>1. turns \in 0 .. MaxTurns  BY TypeSplit DEF CompactionInv
    <3>. QED  BY <3>1, CompactionAssumption DEF CompactionAssumption
  <2>. QED  BY <2>1, <2>2, TypeSplit DEF CompactionInv
<1>1. made \in Seq(M) /\ Saves(made, ran')  BY <1>0, TurnSaves
<1>2. session \in Seq(M) /\ Paired(session, ran')
  <2>1. session \in Seq(MessageOf(failed, turns))  BY TypeSplit DEF CompactionInv
  <2>2. session \in Seq(M)  BY <1>0, <2>1, TypesGrow, SeqGrows
  <2>3. \A i \in 1 .. Len(session) : session[i].of \in ran' => session[i].of \in ran
    <3>. SUFFICES ASSUME NEW i \in 1 .. Len(session), session[i].of \in ran'
                  PROVE  session[i].of \in ran
      OBVIOUS
    <3>1. session[i] \in MessageOf(failed, turns)  BY <2>1
    <3>2. session[i].of \in 0 .. turns  BY <3>1 DEF MessageOf
    <3>. QED  BY <1>0, <3>2
  <2>. QED  BY <1>0, <2>2, <2>3 DEF Paired
<1>. HIDE DEF made, M
<1>3. /\ all \in Seq(M) /\ Paired(all, ran') /\ Leads(all) /\ all # <<>>
      /\ session # <<>> => all[1] = session[1]
      /\ session = <<>> => SummedUp(session) = {}
  BY <1>0, <1>1, <1>2, AppendedPairs
<1>4. session' = Truncate(all)  BY DEF made
<1>. HIDE DEF all
<1>5. /\ session' \in Seq(M) /\ Len(session') <= MaxMessages
      /\ Paired(session', ran') /\ Leads(session')
      /\ session' # <<>> /\ session'[1] = all[1]
  <2>1. CASE Len(all) <= MaxMessages  BY <1>3, <1>4, <2>1 DEF Truncate
  <2>2. CASE Len(all) > MaxMessages
    <3>. DEFINE n == MaxMessages - 1
    <3>1. n \in Nat /\ n <= Len(all) /\ Len(all) \in Nat  BY <1>0, <1>3, <2>2
    <3>2. session' = <<all[1]>> \o Recent(all, n)
      <4>1. ~(Len(all) <= MaxMessages)  BY <1>0, <1>3, <2>2
      <4>. QED  BY <1>4, <4>1, Zenon DEF Truncate
    <3>3. all[1] \in M  BY <1>0, <1>3, <2>2
    <3>. HIDE DEF n
    <3>4. /\ session' \in Seq(M) /\ Len(session') = n + 1 /\ session'[1] = all[1]
          /\ \A i \in 2 .. n + 1 : session'[i] = all[i + (Len(all) - n - 1)]
      <4>1. all \in Seq(M)  BY <1>3
      <4>. DEFINE new == <<all[1]>> \o Recent(all, n)
      <4>2. /\ new \in Seq(M) /\ Len(new) = n + 1 /\ new[1] = all[1]
            /\ \A i \in 2 .. n + 1 : new[i] = all[i + (Len(all) - n - 1)]
        BY <3>1, <3>3, <4>1, HeadAndRecent
      <4>. HIDE DEF new
      <4>3. session' = new  BY <3>2 DEF new
      <4>. QED  BY <4>2, <4>3
    <3>5. n + 1 = MaxMessages  BY <1>0 DEF n
    <3>6. Paired(session', ran') /\ Leads(session')
      <4>. DEFINE d == Len(all) - n - 1
                  new == session'
                  r == ran'
      <4>1. d \in Nat  BY <1>0, <2>2, <3>1, <3>5
      <4>2. Len(new) \in Nat /\ Len(new) = Len(all) - d  BY <3>1, <3>4
      <4>3. \A i \in 2 .. Len(new) : new[i] = all[i + d]  BY <3>1, <3>4
      <4>4. Paired(all, r) /\ Leads(all) /\ Len(all) \in Nat  BY <1>3, <3>1
      <4>. HIDE DEF d, new, r
      <4>5. Paired(new, r) /\ Leads(new)  BY <4>1, <4>2, <4>3, <4>4, ShiftKeeps
      <4>. QED  BY <4>5 DEF new, r
    <3>7. session' # <<>>  BY <3>1, <3>4
    <3>. QED  BY <1>0, <3>4, <3>5, <3>6, <3>7
  <2>3. Len(all) \in Nat  BY <1>3
  <2>. QED  BY <1>0, <2>1, <2>2, <2>3
<1>6. SummedUp(session) \subseteq SummedUp(session')
  <2>1. CASE session = <<>>  BY <1>3, <2>1
  <2>2. CASE session # <<>>
    <3>1. session' # <<>> /\ session'[1] = session[1]  BY <1>3, <1>5, <2>2
    <3>. QED  BY <1>0, <1>2, <1>5, <3>1, SummedUpByFirst
  <2>. QED  BY <2>1, <2>2
<1>7. CompactionTypeOK'
  <2>1. calls' = <<>> /\ results' = <<>> /\ gated' = 0 /\ stop' = NoReason  OBVIOUS
  <2>2. UNCHANGED <<backend, todo, event, cs, sidebar, pct, auto, runs, failed, retold>>
    OBVIOUS
  <2>3. /\ calls' \in Seq(Calls) /\ Len(calls') <= MaxCalls /\ Len(results') = Len(calls')
        /\ results' \in Seq(ResultOf(failed')) /\ gated' \in 0 .. Len(calls')
        /\ stop' \in Reason \cup {NoReason}
    <3>1. MaxCalls \in Nat  BY CompactionAssumption DEF CompactionAssumption
    <3>. QED  BY <2>1, <3>1
  <2>4. turns' \in 0 .. MaxTurns /\ ran' \subseteq 1 .. turns'
    <3>1. turns < MaxTurns  BY DEF CompactionInv, HasTurn
    <3>2. MaxTurns \in Nat  BY CompactionAssumption DEF CompactionAssumption
    <3>. QED  BY <1>0, <3>1, <3>2
  <2>5. stage' \in {"idle", "collect", "act"}  OBVIOUS
  <2>. QED  BY <1>5, <2>2, <2>3, <2>4, <2>5, TypeSplit, TypeSplitNext DEF CompactionInv, M
<1>8. EventsInv' /\ HasTurn'
  <2>1. EventsInv'  BY DEF CompactionInv, EventsInv, Harmless
  <2>2. HasTurn'
    <3>1. stage' # "idle" => turns' < MaxTurns  OBVIOUS
    <3>. QED  BY <3>1 DEF HasTurn
  <2>. QED  BY <2>1, <2>2
<1>9. Accounted'
  <2>1. Noted' = Noted /\ retold' = retold /\ event' = event /\ todo' = todo /\ failed' = failed
    BY DEF Noted
  <2>. QED  BY <1>6, <2>1 DEF CompactionInv, Accounted
<1>. QED  BY <1>5, <1>7, <1>8, <1>9 DEF CompactionInv
-----------------------------------------------------------------------------
LEMMA ToolStartStep == ASSUME CompactionInv, ToolStart PROVE CompactionInv'
<1>. USE DEF ToolStart, Handled, loop, answer
<1>. DEFINE shown == Append(sidebar, <<event.tool, extractFilePath(event.tool, event.params)>>)
            S == Tool \X Files
<1>0. sidebar \in Seq(S) /\ Len(sidebar) <= MaxShown /\ event \in EventOf(failed) /\ MaxShown \in Nat
  BY TypeSplit, CompactionAssumption DEF CompactionInv, CompactionAssumption
<1>1. sidebar' \in Seq(S) /\ Len(sidebar') <= MaxShown
  <2>1. event.tool \in Tool /\ event.params \in Params  BY <1>0 DEF EventOf
  <2>2. <<event.tool, extractFilePath(event.tool, event.params)>> \in S
    BY <2>1, ParamsType
  <2>. HIDE DEF S
  <2>3. shown \in Seq(S) /\ Len(shown) \in Nat  BY <1>0, <2>2
  <2>. HIDE DEF shown
  <2>4. sidebar' = IF Len(shown) > MaxShown THEN Recent(shown, MaxShown) ELSE shown
    BY DEF shown
  <2>5. CASE Len(shown) > MaxShown
    <3>1. /\ Recent(shown, MaxShown) \in Seq(S) /\ Len(Recent(shown, MaxShown)) = MaxShown
      BY <1>0, <2>3, <2>5 DEF Recent
    <3>. DEFINE last == Recent(shown, MaxShown)
    <3>. HIDE DEF last
    <3>2. sidebar' = last  BY <2>4, <2>5 DEF last
    <3>3. last \in Seq(S) /\ Len(last) = MaxShown  BY <3>1 DEF last
    <3>. QED  BY <1>0, <3>2, <3>3
  <2>6. CASE ~(Len(shown) > MaxShown)
    <3>1. sidebar' = shown  BY <2>4, <2>6
    <3>. QED  BY <1>0, <2>3, <2>6, <3>1
  <2>. QED  BY <2>5, <2>6
<1>2. event' = NoEvent /\ event.error = 0
  BY DEF CompactionInv, EventsInv, Harmless
<1>3. CompactionTypeOK'
  <2>1. failed \in Nat  BY TypeSplit DEF CompactionInv
  <2>2. event' \in EventOf(failed)  BY <1>2, <2>1, NoEventType
  <2>. QED  BY <1>1, <2>2, TypeSplit, TypeSplitNext DEF CompactionInv
<1>4. EventsInv' /\ HasTurn'
  BY <1>2, NoEventType DEF CompactionInv, EventsInv, Harmless, HasTurn
<1>5. (Leads(session) /\ Paired(session, ran))'  BY DEF CompactionInv
<1>6. Accounted'
  <2>1. /\ Noted' = Noted /\ retold' = retold /\ session' = session /\ todo' = todo
        /\ failed' = failed /\ event'.error = 0
    BY <1>2, NoEventType DEF Noted
  <2>. QED  BY <1>2, <2>1 DEF CompactionInv, Accounted
<1>. QED  BY <1>3, <1>4, <1>5, <1>6 DEF CompactionInv

LEMMA ToolCompleteStep == ASSUME CompactionInv, ToolComplete PROVE CompactionInv'
<1>. USE DEF ToolComplete, Handled, loop, answer
<1>0. /\ event \in EventOf(failed) /\ event' = NoEvent /\ failed \in Nat
      /\ cs \in [filesRead : SUBSET FileName, filesMutated : SUBSET FileName,
                 errors : Seq(1 .. failed)]
  BY TypeSplit DEF CompactionInv
<1>1. /\ cs'.errors = (IF event.error # 0 THEN Append(cs.errors, event.error) ELSE cs.errors)
      /\ cs'.errors \in Seq(1 .. failed)
  <2>1. cs.errors \in Seq(1 .. failed) /\ event.error \in {0} \cup 1 .. failed
    BY <1>0 DEF EventOf
  <2>2. cs'.errors = (IF event.error # 0 THEN Append(cs.errors, event.error) ELSE cs.errors)
    BY DEF Observed
  <2>. DEFINE s == cs.errors
              S == 1 .. failed
  <2>3. s \in Seq(S) /\ (event.error # 0 => event.error \in S)  BY <2>1
  <2>. HIDE DEF s, S
  <2>4. event.error # 0 => Append(s, event.error) \in Seq(S)  BY <2>3
  <2>5. (IF event.error # 0 THEN Append(s, event.error) ELSE s) \in Seq(S)  BY <2>3, <2>4
  <2>. QED  BY <2>2, <2>5 DEF s, S
<1>2. cs' \in [filesRead : SUBSET FileName, filesMutated : SUBSET FileName,
               errors : Seq(1 .. failed)]
  <2>. DEFINE path == extractFilePath(event.tool, event.params)
  <2>1. path \in Files /\ (path # NoFile => path \in FileName)
    BY <1>0, ParamsType DEF EventOf, Files
  <2>. HIDE DEF path
  <2>2. \A files, tools : files \subseteq FileName =>
          AddFile(files, event.tool, tools, path) \subseteq FileName
    BY <2>1 DEF AddFile
  <2>3. /\ AddFile(cs.filesRead, event.tool, {"read", "glob", "grep"}, path) \subseteq FileName
        /\ AddFile(cs.filesMutated, event.tool, {"write", "edit"}, path) \subseteq FileName
    BY <1>0, <2>2
  <2>4. cs' = [filesRead |-> AddFile(cs.filesRead, event.tool, {"read", "glob", "grep"}, path),
               filesMutated |-> AddFile(cs.filesMutated, event.tool, {"write", "edit"}, path),
               errors |-> cs'.errors]
    BY DEF Observed, path
  <2>. DEFINE a == AddFile(cs.filesRead, event.tool, {"read", "glob", "grep"}, path)
              b == AddFile(cs.filesMutated, event.tool, {"write", "edit"}, path)
              e == cs'.errors
  <2>5. a \in SUBSET FileName /\ b \in SUBSET FileName /\ e \in Seq(1 .. failed)
    BY <1>1, <2>3
  <2>6. cs' = [filesRead |-> a, filesMutated |-> b, errors |-> e]  BY <2>4
  <2>. HIDE DEF a, b, e
  <2>. QED  BY <2>5, <2>6
<1>3. CompactionTypeOK'
  <2>1. event' \in EventOf(failed)  BY <1>0, NoEventType
  <2>. QED  BY <1>2, <2>1, TypeSplit, TypeSplitNext DEF CompactionInv
<1>4. EventsInv' /\ HasTurn'
  BY <1>0, NoEventType DEF CompactionInv, EventsInv, Harmless, HasTurn
<1>5. (Leads(session) /\ Paired(session, ran))'  BY DEF CompactionInv
<1>6. Noted \subseteq Noted' /\ (event.error # 0 => event.error \in Noted')
  <2>. DEFINE s == cs.errors
              t == cs'.errors
  <2>1. s \in Seq(1 .. failed) /\ t = (IF event.error # 0 THEN Append(s, event.error) ELSE s)
    BY <1>0, <1>1
  <2>. HIDE DEF s, t
  <2>2. /\ \A i \in DOMAIN s : i \in DOMAIN t /\ t[i] = s[i]
        /\ event.error # 0 => Len(s) + 1 \in DOMAIN t /\ t[Len(s) + 1] = event.error
    <3>1. CASE event.error # 0
      <4>1. t = Append(s, event.error) /\ Len(s) \in Nat  BY <2>1, <3>1
      <4>. QED  BY <2>1, <4>1
    <3>. QED  BY <2>1, <3>1
  <2>3. Noted = {s[i] : i \in DOMAIN s} /\ Noted' = {t[i] : i \in DOMAIN t}
    BY Zenon DEF Noted, s, t
  <2>. QED  BY <2>2, <2>3
<1>7. Accounted'
  <2>1. /\ retold' = retold /\ session' = session /\ todo' = todo /\ failed' = failed
        /\ event'.error = 0
    BY <1>0, NoEventType
  <2>2. 1 .. failed \subseteq SummedUp(session) \cup Noted \cup retold \cup {event.error, todo.error}
    BY DEF CompactionInv, Accounted
  <2>3. 0 \notin 1 .. failed  BY <1>0
  <2>. QED  BY <1>6, <2>1, <2>2, <2>3 DEF Accounted
<1>. QED  BY <1>3, <1>4, <1>5, <1>7 DEF CompactionInv

(* A compaction, or none, once the event is handled.                       *)
LEMMA CompactedStep ==
  ASSUME CompactionInv, UNCHANGED <<loop, sidebar, auto>>,
         event' = NoEvent, event.error = 0,
         \/ \E p \in 0 .. 100 : execCompact(p)
         \/ pct' \in 0 .. 100 /\ UNCHANGED <<session, cs, retold>>
  PROVE  CompactionInv'
<1>. USE DEF loop, answer
<1>0. failed \in Nat  BY TypeSplit DEF CompactionInv
<1>1. /\ session' \in Seq(MessageOf(failed, turns)) /\ Len(session') <= MaxMessages
      /\ cs' \in [filesRead : SUBSET FileName, filesMutated : SUBSET FileName,
                  errors : Seq(1 .. failed)]
      /\ pct' \in 0 .. 100 /\ retold' \subseteq 1 .. failed
      /\ Leads(session)' /\ Paired(session, ran)'
      /\ SummedUp(session) \cup Noted \cup retold
           \subseteq (SummedUp(session) \cup Noted \cup retold)'
  <2>1. CASE \E p \in 0 .. 100 : execCompact(p)  BY <2>1, ExecCompactStep
  <2>2. CASE pct' \in 0 .. 100 /\ UNCHANGED <<session, cs, retold>>
    <3>1. Noted' = Noted  BY <2>2 DEF Noted
    <3>. QED  BY <2>2, <3>1, TypeSplit DEF CompactionInv
  <2>. QED  BY <2>1, <2>2
<1>2. CompactionTypeOK'
  <2>1. event' \in EventOf(failed)  BY <1>0, NoEventType
  <2>. QED  BY <1>1, <2>1, TypeSplit, TypeSplitNext DEF CompactionInv
<1>3. EventsInv' /\ HasTurn'  BY NoEventType DEF CompactionInv, EventsInv, Harmless, HasTurn
<1>5. Accounted'
  <2>1. todo' = todo /\ failed' = failed /\ event'.error = 0  BY NoEventType
  <2>. QED  BY <1>1, <2>1 DEF CompactionInv, Accounted
<1>. QED  BY <1>1, <1>2, <1>3, <1>5 DEF CompactionInv

LEMMA TurnCompleteStep == ASSUME CompactionInv, TurnComplete PROVE CompactionInv'
<1>1. Context \in 0 .. 100
  <2>1. pct \in 0 .. 100 /\ event \in EventOf(failed)  BY TypeSplit DEF CompactionInv
  <2>2. event.pct \in 0 .. 100  BY <2>1 DEF EventOf
  <2>. QED  BY <2>1, <2>2 DEF Context
<1>2. event' = NoEvent /\ event.error = 0 /\ UNCHANGED <<loop, sidebar, auto>>
  BY DEF TurnComplete, Handled, CompactionInv, EventsInv, Harmless
<1>3. \/ \E p \in 0 .. 100 : execCompact(p)
      \/ pct' \in 0 .. 100 /\ UNCHANGED <<session, cs, retold>>
  BY <1>1 DEF TurnComplete
<1>. QED  BY <1>2, <1>3, CompactedStep

LEMMA CompactStep == ASSUME CompactionInv, Compact PROVE CompactionInv'
<1>1. pct \in 0 .. 100  BY TypeSplit DEF CompactionInv
<1>2. event' = NoEvent /\ event.error = 0 /\ UNCHANGED <<loop, sidebar, auto>>
  BY NoEventType DEF Compact, Resting
<1>3. \E p \in 0 .. 100 : execCompact(p)  BY <1>1 DEF Compact
<1>. QED  BY <1>2, <1>3, CompactedStep

LEMMA CompactionInvStep == CompactionInv /\ [CompactionNext]_compactionVars => CompactionInv'
<1>. SUFFICES ASSUME CompactionInv, [CompactionNext]_compactionVars PROVE CompactionInv'
  OBVIOUS
<1>1. CASE StartRun \/ EndOfStream \/ StreamFails \/ Grant  BY <1>1, QuietStep
<1>2. CASE Send  BY <1>2, SendStep
<1>3. CASE Save  BY <1>3, SaveStep
<1>4. ASSUME NEW call \in Calls, BeginCall(call) PROVE CompactionInv'
  BY <1>4, BeginCallStep
<1>10. ASSUME NEW i \in DOMAIN calls, NEW outcome \in Outcome,
              Reported(i, outcome) \/ Complete(i, outcome)
       PROVE  CompactionInv'
  BY <1>10, EndsStep DEF Reported, Complete
<1>11. ASSUME NEW reason \in Reason, NEW p \in Usages, Done(reason, p) PROVE CompactionInv'
  BY <1>11, DoneStep
<1>12. CASE Deny  BY <1>12, DenyStep
<1>5. CASE ToolStart  BY <1>5, ToolStartStep
<1>6. CASE ToolComplete  BY <1>6, ToolCompleteStep
<1>7. CASE TurnComplete  BY <1>7, TurnCompleteStep
<1>8. CASE Compact  BY <1>8, CompactStep
<1>9. CASE UNCHANGED compactionVars
  <2>. USE <1>9 DEF compactionVars, loop, answer, screen
  <2>1. CompactionTypeOK'  BY TypeSplit, TypeSplitNext DEF CompactionInv
  <2>2. EventsInv' /\ HasTurn'  BY DEF CompactionInv, EventsInv, Harmless, HasTurn
  <2>3. (Leads(session) /\ Paired(session, ran))'  BY DEF CompactionInv
  <2>4. Accounted'  BY DEF CompactionInv, Accounted, Noted
  <2>. QED  BY <2>1, <2>2, <2>3, <2>4 DEF CompactionInv
<1>. QED  BY <1>1, <1>2, <1>3, <1>4, <1>5, <1>6, <1>7, <1>8, <1>9,
        <1>10, <1>11, <1>12
     DEF CompactionNext

(* What the run has yet to report and to save, what Update has noted and   *)
(* what the session's summary tells add up to every error so far: the      *)
(* theorems below follow from it.                                          *)
THEOREM CompactionInvHolds == CompactionSpec => []CompactionInv
  BY CompactionInvInit, CompactionInvStep, PTL DEF CompactionSpec

(* Every variable of the compaction keeps its type: the session stays      *)
(* within its bound, and the estimated context within 100 per cent.        *)
THEOREM CompactionTypeCorrect == CompactionSpec => []CompactionTypeOK
<1>1. CompactionInv => CompactionTypeOK  BY DEF CompactionInv
<1>. QED  BY <1>1, CompactionInvHolds, PTL

(* Cutting a session by number of messages separates the results from the  *)
(* calls the loop executed at the head only, for any number of calls in a  *)
(* turn, any number of messages kept and however often both cuts come.     *)
THEOREM PairedBehindHeadHolds == CompactionSpec => []PairedBehindHead
<1>1. CompactionInv => PairedBehindHead
  <2>. SUFFICES ASSUME CompactionInv PROVE PairedBehindHead  OBVIOUS
  <2>1. DOMAIN session = 1 .. Len(session)  BY TypeSplit DEF CompactionInv
  <2>. QED  BY <2>1, Zenon DEF CompactionInv, Paired, PairedBehindHead
<1>. QED  BY <1>1, CompactionInvHolds, PTL

(* No error of a tool is lost on its way from the run to the summaries, for*)
(* any backend, any number of calls in a turn, any room in a summary and   *)
(* wherever a compaction comes between a turn's report and its saving.     *)
THEOREM ErrorsToldHolds == CompactionSpec => []ErrorsTold
<1>1. CompactionInv => ErrorsTold
  <2>. SUFFICES ASSUME CompactionInv PROVE ErrorsTold  OBVIOUS
  <2>1. SummedUp(session) \subseteq ErrorsIn(session)  BY DEF SummedUp, ErrorsIn
  <2>. QED  BY <2>1 DEF CompactionInv, Accounted, Noted, ErrorsTold
<1>. QED  BY <1>1, CompactionInvHolds, PTL
=============================================================================

----------------------------- MODULE Experiment -----------------------------
(***************************************************************************)
(* One autoresearch campaign: the tools init_experiment, run_experiment    *)
(* and log_experiment of internal/tool over the campaign's YAML file, the  *)
(* JSONL log of internal/experiment's Store and the campaign's git         *)
(* worktree of GitOps.  The agent edits the worktree and the project's     *)
(* campaign file between the calls.  A call is several steps (load the     *)
(* segment, git, append the record); git and the write may fail, and the   *)
(* process may crash between any two steps or in the middle of the write.  *)
(***************************************************************************)
EXTENDS Integers, FiniteSets, Sequences

CONSTANTS
  Change,      (* the changes the agent can make, each to a file of its own  *)
  Secrets,     (* those in a file whose name matches secretPatterns          *)
  Metric,      (* the values of the primary metric                           *)
  Baseline,    (* campaign.Metric.Baseline, the same in every file           *)
  Value,       (* the values of secondary metrics                            *)
  Mutation,    (* the mutation IDs experiments are logged under              *)
  File,        (* the campaign files the project may have                    *)
  HomeFile,    (* the campaign files in the user's home: one or none         *)
  MaxLines,    (* bound: lines of the log                                    *)
  MaxCrashes   (* bound: crashes of the process                              *)

None == "none"

ASSUME ExperimentAssumption ==
  /\ Secrets \subseteq Change /\ IsFiniteSet(Change)
  /\ Metric \subseteq Int /\ Baseline \in Int
  /\ MaxLines \in Nat /\ MaxCrashes \in Nat

Decision == {"keep", "discard", "investigate"}

(* A mutation_id is given or not.                                          *)
MutationId == {{}} \cup {{id} : id \in Mutation}

(* A line of the log: a segment's start, an experiment, or a line that is  *)
(* not JSON.  "commit" is the GitSHA: the tree of the commit it names.     *)
Line == [kind : {"segment", "exp", "bad"}, id : 0 .. MaxLines, decision : Decision \cup {None},
         metric : Metric \cup {Baseline}, mutation : MutationId, commit : SUBSET Change]

Blank(k) == [kind |-> k, id |-> 0, decision |-> None, metric |-> Baseline, mutation |-> {},
             commit |-> {}]

VARIABLES
  project,       (* the campaign file in the project: one or none            *)
  pc,            (* where the tool call is; "idle" between calls             *)
  worktree,      (* the campaign's worktree exists                           *)
  tree,          (* the changes in the worktree's files                      *)
  index,         (* those in its index                                       *)
  head,          (* those in its branch's last commit                        *)
  branch,        (* every commit of the branch                               *)
  log,           (* the lines of the campaign's file                         *)
  unterminated,  (* the last of them has no newline                          *)
  seg,           (* the Segment the call has loaded                          *)
  rec,           (* the record it will append                                *)
  crashes        (* crashes so far                                           *)

git   == <<worktree, tree, index, head, branch>>
disk  == <<log, unterminated>>
local == <<seg, rec>>
vars == <<project, pc, git, disk, local, crashes>>
-----------------------------------------------------------------------------
(* A campaign file and the mutations in it: structured changes, each of    *)
(* which stands for several experiments.  A number is in ten-thousandths,  *)
(* to which a sweep rounds.  Its ID has four significant digits of it      *)
(* (%.4g), and no ID has the file: different experiments may share one.    *)
Places == {10^k : k \in 0 .. 5}

Printed(v) ==
  LET place == CHOOSE p \in Places : /\ v < 10000 * p
                                     /\ \A q \in Places : v < 10000 * q => p <= q
  IN  ((v + place \div 2) \div place) * place

ParameterSweep(m) ==
  {<<m.type, m.param, Printed(m.low + k * m.step)>> : k \in 0 .. (m.high - m.low) \div m.step}

Swap(m) == {<<m.type, m.target, m.replacement>>}

Toggle(m) == {<<m.type, m.flag>>}

Scale(m) == {<<m.type, m.param, Printed(f)>> : f \in m.factors}

Remove(m) == {<<m.type, m.target>>}

EnumSweep(m) == {<<m.type, m.param, v>> : v \in m.values}

(* The orders of the items, sorted, up to the limit, but for the given     *)
(* one.  An item is its place in the alphabet.                             *)
Orders(items) ==
  {p \in [DOMAIN items -> {items[i] : i \in DOMAIN items}] :
     \A i, j \in DOMAIN items : p[i] = p[j] => i = j}

Before(p, q) == \E i \in DOMAIN p : p[i] < q[i] /\ \A j \in 1 .. i - 1 : p[j] = q[j]

Reorder(m) ==
  {<<m.type, p>> : p \in {p \in Orders(m.items) \ {m.items} :
     Cardinality({q \in Orders(m.items) : Before(q, p)}) < m.max}}

ExpandOne(m) ==
  CASE m.type = "parameter_sweep" -> ParameterSweep(m)
    [] m.type = "swap"            -> Swap(m)
    [] m.type = "toggle"          -> Toggle(m)
    [] m.type = "scale"           -> Scale(m)
    [] m.type = "remove"          -> Remove(m)
    [] m.type = "reorder"         -> Reorder(m)
    [] m.type = "enum_sweep"      -> EnumSweep(m)

Expandable(m) ==
  CASE m.type = "parameter_sweep" -> m.step > 0 /\ m.low < m.high
    [] m.type = "scale"           -> m.factors # {}
    [] m.type = "reorder"         -> Len(m.items) >= 2
    [] m.type = "enum_sweep"      -> m.values # {}
    [] OTHER                      -> m.type \in {"swap", "toggle", "remove"}

ExpandMutations(f) == UNION {ExpandOne(m) : m \in f.mutations}

(* validate; "complete": its names, command and pattern are there.         *)
Valid(f) ==
  /\ f.complete /\ Baseline > 0
  /\ f.direction \in {"minimize", "maximize"}
  /\ Cardinality(f.secondary) <= 3
  /\ \A s \in f.secondary : s.direction \in {"minimize", "maximize"}
  /\ \A m \in f.mutations : Expandable(m)

(* FindCampaign: a file in the project hides the user's, valid or not.     *)
FoundFile == IF project # {} THEN project ELSE HomeFile

FindCampaign == {f \in FoundFile : Valid(f)}

(* checkRegression: a secondary metric is beyond its threshold.            *)
Regressed(s, v) ==
  IF s.direction = "maximize" THEN s.baseline - v > s.threshold ELSE v - s.baseline > s.threshold
-----------------------------------------------------------------------------
(* LoadSegment: what the lines since the last segment record add up to.    *)
(* Lines that do not parse are skipped; nothing is truncated, since the    *)
(* line it looks at is the last one that did parse.                        *)
Starts(lines) == {i \in DOMAIN lines : lines[i].kind = "segment"}

HasSegment(lines) == Starts(lines) # {}

LastSegment(lines) == CHOOSE i \in Starts(lines) : \A j \in Starts(lines) : j <= i

Experiments(lines) == {i \in DOMAIN lines : lines[i].kind = "exp" /\ i > LastSegment(lines)}

With(lines, d) == {i \in Experiments(lines) : lines[i].decision = d}

LastKeep(lines) ==
  IF With(lines, "keep") = {} THEN LastSegment(lines)
  ELSE CHOOSE i \in With(lines, "keep") : \A j \in With(lines, "keep") : j <= i

Loaded(lines) ==
  [count     |-> Cardinality(Experiments(lines)),
   kept      |-> Cardinality(With(lines, "keep")),
   discarded |-> Cardinality(With(lines, "discard")),
   failures  |-> Cardinality({i \in Experiments(lines) : i > LastKeep(lines)}),
   best      |-> lines[LastKeep(lines)].metric,
   done      |-> UNION {lines[i].mutation : i \in Experiments(lines)},
   pending   |-> {}]

NoSegment == [count |-> 0, kept |-> 0, discarded |-> 0, failures |-> 0, best |-> Baseline,
              done |-> {}, pending |-> {}]

SetPendingMutations(s, f) == [s EXCEPT !.pending = ExpandMutations(f) \ s.done]

FailuresUntilNonFailure(s, r) == IF r.decision = "discard" THEN s.failures + 1 ELSE 0

Failures(s, r) == IF r.decision = "keep" THEN 0 ELSE s.failures + 1

(* LogExperiment's update of the segment in memory.                        *)
Logged(s, r) ==
  [count     |-> s.count + 1,
   kept      |-> s.kept + (IF r.decision = "keep" THEN 1 ELSE 0),
   discarded |-> s.discarded + (IF r.decision = "discard" THEN 1 ELSE 0),
   failures  |-> Failures(s, r),
   best      |-> IF r.decision = "keep" THEN r.metric ELSE s.best,
   done      |-> s.done \cup r.mutation,
   pending   |-> s.pending \ r.mutation]

(* exp-%03d.                                                               *)
Numbered(s) == s.count + 1

(* appendRecord: a line written after an unterminated one runs into it,    *)
(* and the two no longer parse.                                            *)
Appended(lines, open, l) ==
  IF open THEN [lines EXCEPT ![Len(lines)] = Blank("bad")] ELSE Append(lines, l)

WriteLine(l) ==
  /\ Len(log) < MaxLines
  /\ log' = Appended(log, unterminated, l)
  /\ unterminated' = FALSE

(* The write is cut short, just before the newline or earlier.             *)
TearLine(l) ==
  /\ Len(log) < MaxLines
  /\ \E torn \in {l, Blank("bad")} : log' = Appended(log, unterminated, torn)
  /\ unterminated' = TRUE

(* An error: nothing was written, or a part, or all of it and the fsync    *)
(* failed.                                                                 *)
WriteFails(l) == UNCHANGED disk \/ TearLine(l) \/ WriteLine(l)
-----------------------------------------------------------------------------
Init ==
  /\ project \in {{}} \cup {{f} : f \in File}
  /\ pc = "idle"
  /\ worktree = FALSE /\ tree = {} /\ index = {} /\ head = {} /\ branch = {{}}
  /\ log = <<>> /\ unterminated = FALSE
  /\ seg = NoSegment /\ rec = Blank("exp")
  /\ crashes = 0

(* The agent's write and edit tools in the worktree.                       *)
Edit(c) ==
  /\ pc = "idle" /\ worktree /\ c \notin tree
  /\ tree' = tree \cup {c}
  /\ UNCHANGED <<project, pc, worktree, index, head, branch, disk, local, crashes>>

(* The agent or the user writes or removes the project's campaign file.    *)
EditCampaign ==
  /\ pc = "idle"
  /\ project' \in {{}} \cup {{f} : f \in File}
  /\ UNCHANGED <<pc, git, disk, local, crashes>>

(* run_experiment: the benchmark runs in the worktree and may leave files  *)
(* there, also when it fails or is killed at its time limit.  The metrics  *)
(* go to the agent, who reports them to log_experiment.                    *)
RunExperiment(left) ==
  /\ pc = "idle" /\ FindCampaign # {} /\ worktree
  /\ tree' = tree \cup left
  /\ UNCHANGED <<project, pc, worktree, index, head, branch, disk, local, crashes>>

(* git reset HEAD.                                                         *)
Reset == head

(* git clean -fd; git checkout -- . : the files become the index's; if one *)
(* of them fails, some of the changes not in the index may be gone.        *)
Cleaned == tree' = index'

HalfCleaned == tree' \in {t \in SUBSET tree : tree \cap index' \subseteq t}

(* init_experiment: find the campaign; a worktree if it wants one.         *)
InitExperiment ==
  /\ pc = "idle"
  /\ \E f \in FindCampaign : pc' = IF f.useWorktree THEN "worktree" ELSE "plain"
  /\ UNCHANGED <<project, git, disk, local, crashes>>

(* CreateWorktree: create it, or bring it to a known state.  A reset that  *)
(* fails only prints a warning; another error ends the call.               *)
InitWorktree ==
  /\ pc = "worktree"
  /\ \/ ~worktree /\ pc' = "open" /\ UNCHANGED <<tree, index>>
     \/ worktree /\ index' = Reset /\ Cleaned /\ pc' = "open"
     \/ worktree /\ UNCHANGED index /\ Cleaned /\ pc' = "warned"
     \/ worktree /\ index' \in {Reset, index} /\ HalfCleaned /\ pc' = "idle"
  /\ worktree' = TRUE
  /\ UNCHANGED <<project, head, branch, disk, local, crashes>>

(* OpenSegment: resume the last segment, or start one; the write may fail. *)
(* The mutations not yet tried are those the answer counts.                *)
Opening == pc \in {"open", "warned", "plain"}

OpenSegment ==
  /\ Opening
  /\ \E f \in FindCampaign :
       \/ /\ HasSegment(log) /\ UNCHANGED disk
          /\ seg' = SetPendingMutations(Loaded(log), f)
       \/ /\ ~HasSegment(log) /\ WriteLine(Blank("segment"))
          /\ seg' = SetPendingMutations(NoSegment, f)
       \/ ~HasSegment(log) /\ WriteFails(Blank("segment")) /\ UNCHANGED seg
  /\ pc' = "idle"
  /\ UNCHANGED <<project, git, rec, crashes>>

LogFirst(d) == "append"

(* The log is appended to once git has done its part.                      *)
AfterLoad(d) == IF d = "investigate" THEN "append" ELSE d

(* log_experiment: load the segment and decide.  A secondary metric that   *)
(* regressed beyond its threshold turns a keep into a discard; one the     *)
(* agent does not report is not looked at.                                 *)
Effective(d, values) ==
  IF d = "keep" /\ \E s \in DOMAIN values : Regressed(s, values[s]) THEN "discard" ELSE d

LogExperiment(d, m, mutation, values) ==
  /\ pc = "idle" /\ FindCampaign # {} /\ HasSegment(log)
  /\ LET effective == Effective(d, values)
     IN  /\ rec' = [Blank("exp") EXCEPT !.decision = effective, !.metric = m,
                                        !.mutation = mutation]
         /\ pc' = AfterLoad(effective)
  /\ seg' = Loaded(log)
  /\ UNCHANGED <<project, git, disk, crashes>>

StagedBeforeAdd == index \ head

(* git diff --cached, after git add -A.                                    *)
Staged == tree \ head

(* KeepChanges: git add -A, refuse a staged secret, and commit.  A refusal *)
(* unstages that secret only; git add, git diff or git commit (a hook, or  *)
(* nothing to commit) may fail, and what was added stays in the index.     *)
KeepChanges ==
  /\ pc = "keep"
  /\ \/ \E s \in Staged \cap Secrets :
          /\ index' = tree \ {s} /\ pc' = "idle"
          /\ UNCHANGED <<head, branch, rec>>
     \/ /\ index' \in {index, tree} /\ pc' = "idle"
        /\ UNCHANGED <<head, branch, rec>>
     \/ /\ Staged \cap Secrets = {} /\ tree # head
        /\ index' = tree /\ head' = tree /\ branch' = branch \cup {tree}
        /\ rec' = [rec EXCEPT !.commit = tree]
        /\ pc' \in {"append", "idle"}   (* "idle": rev-parse fails *)
  /\ UNCHANGED <<project, worktree, tree, disk, seg, crashes>>

(* DiscardChanges: git clean -fd; git checkout -- . in the worktree, an    *)
(* error if there is none.                                                 *)
DiscardChanges ==
  /\ pc = "discard"
  /\ UNCHANGED index
  /\ \/ worktree /\ Cleaned /\ pc' = "append"
     \/ HalfCleaned /\ pc' = "idle"
  /\ UNCHANGED <<project, worktree, head, branch, disk, local, crashes>>

(* Segment.LogExperiment: append, then count; or an error.                 *)
Record == [rec EXCEPT !.id = Numbered(seg)]

AppendRecord ==
  /\ pc = "append"
  /\ \/ WriteLine(Record) /\ seg' = Logged(seg, rec)
     \/ WriteFails(Record) /\ UNCHANGED seg
  /\ pc' = "idle"
  /\ UNCHANGED <<project, git, rec, crashes>>

(* The process dies; of what it was writing, all, a part or nothing is in  *)
(* the file.                                                               *)
Crash ==
  /\ crashes < MaxCrashes
  /\ crashes' = crashes + 1
  /\ pc' = "idle" /\ seg' = NoSegment /\ rec' = Blank("exp")
  /\ \/ UNCHANGED disk
     \/ pc = "append" /\ WriteFails(Record)
     \/ Opening /\ ~HasSegment(log) /\ WriteFails(Blank("segment"))
  /\ UNCHANGED <<project, git>>

Next ==
  \/ \E c \in Change : Edit(c)
  \/ EditCampaign
  \/ \E left \in SUBSET Change : RunExperiment(left)
  \/ InitExperiment \/ InitWorktree \/ OpenSegment
  \/ \E d \in Decision, m \in Metric, mutation \in MutationId, f \in FindCampaign :
       \E reported \in SUBSET f.secondary : \E values \in [reported -> Value] :
         LogExperiment(d, m, mutation, values)
  \/ KeepChanges \/ DiscardChanges \/ AppendRecord
  \/ Crash

Spec == Init /\ [][Next]_vars
-----------------------------------------------------------------------------
Segment == [count : 0 .. MaxLines, kept : 0 .. MaxLines, discarded : 0 .. MaxLines,
            failures : 0 .. MaxLines, best : Metric \cup {Baseline}, done : SUBSET Mutation,
            pending : SUBSET UNION {ExpandMutations(f) : f \in File \cup HomeFile}]

TypeOK ==
  /\ project \subseteq File
  /\ pc \in {"idle", "worktree", "open", "warned", "plain", "keep", "discard", "append"}
  /\ worktree \in BOOLEAN /\ unterminated \in BOOLEAN
  /\ tree \subseteq Change /\ index \subseteq Change /\ head \subseteq Change
  /\ branch \subseteq SUBSET Change
  /\ log \in Seq(Line) /\ Len(log) <= MaxLines
  /\ seg \in Segment /\ rec \in Line
  /\ crashes \in 0 .. MaxCrashes

(* What a resumed session reads back is what the last one had counted: the *)
(* incremental update of LogExperiment and LoadSegment's reading of the    *)
(* whole file agree, unless the record ran into a torn line.               *)
ResumeAgrees ==
  [][pc = "append" /\ seg' # seg /\ pc' = "idle" /\ crashes' = crashes /\ ~unterminated =>
       seg' = Loaded(log')]_vars

(* "secretPatterns are filenames that must never be committed", whatever   *)
(* earlier refusals, discards and crashes left staged.                     *)
SecretsNeverCommitted == head \cap Secrets = {}

(* A recorded keep names a commit that is on the branch: the log never     *)
(* runs ahead of git, at a failure or a crash either.                      *)
KeptAreCommitted ==
  \A i \in DOMAIN log :
    log[i].kind = "exp" /\ log[i].decision = "keep" => log[i].commit \in branch \ {{}}

(* init_experiment hands over a worktree in a known state ("On reuse ...   *)
(* cleans to known state (crash-recovery contract)"), whatever calls       *)
(* failed or crashed before it: that of the last commit, or, when it warns *)
(* that the reset failed, that of the index.                               *)
InitStartsClean ==
  /\ pc = "open" => tree = head /\ index = head
  /\ pc = "warned" => tree = index

(* "DiscardChanges reverts all tracked changes AND removes untracked       *)
(* files": a discarded experiment leaves nothing in the worktree.          *)
DiscardReverts ==
  [][pc = "discard" /\ pc' = "append" => tree' = head]_vars
=============================================================================

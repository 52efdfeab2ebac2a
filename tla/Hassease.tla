------------------------------ MODULE Hassease ------------------------------
(***************************************************************************)
(* The hassease daemon (cmd/hassease) on one session ID: a process loads   *)
(* the session file, runs the turns of a task with the cost router, asks   *)
(* the builder over Signal before a mutating tool, appends every turn to   *)
(* the file, and ends; or it is killed and started again with --session.   *)
(* signal-cli receive hands over all that is waiting in the account.       *)
(***************************************************************************)
EXTENDS CostRouter, Sequences

CONSTANTS MaxTurns,    (* --max-turns                                      *)
          MaxPolls,    (* polls that fit in the reply timeout              *)
          MaxReplies,  (* bound: messages the builder sends                *)
          MaxSaved     (* bound: records in the session file               *)

Says == {"yes", "no", "show", "unrecognized"}
ToolCall == {"auto", "gated", "unlisted"}  (* auto: also edits of test files   *)
NoTool == "none"                           (* the turn is an answer            *)

ASSUME HasseaseAssumption == {MaxTurns, MaxPolls, MaxReplies, MaxSaved} \subseteq Nat

VARIABLES
  pc,        (* where the process is                                       *)
  turn,      (* turns begun                                                *)
  stop,      (* SIGINT or SIGTERM has ended the context                    *)
  tool,      (* the tool call of the turn                                  *)
  failure,   (* how the turn is classified                                 *)
  whole,     (* records of the session file before the first torn one      *)
  torn,      (* there is a torn one                                        *)
  restored,  (* records Load has decoded                                   *)
  skipped,   (* parity of the decode errors Load has skipped               *)
  polls,     (* polls of the current wait                                  *)
  asked,     (* the builder has been sent an approval request              *)
  mailbox,   (* replies waiting in the Signal account                      *)
  replies,   (* replies sent so far                                        *)
  approvals, (* history: approving replies taken from the mailbox          *)
  ran        (* history: gated tool calls executed                         *)

file == <<whole, torn>>
loading == <<restored, skipped>>
chat == <<asked, mailbox, replies>>
history == <<approvals, ran>>
botVars == <<router, pc, turn, stop, tool, failure, file, loading, polls, chat, history>>
-----------------------------------------------------------------------------
Running == pc # "off"

BotInit ==
  /\ RouterInit
  /\ pc = "off" /\ turn = 0 /\ stop = FALSE /\ tool = NoTool /\ failure = "none"
  /\ whole = 0 /\ torn = FALSE /\ restored = 0 /\ skipped = FALSE
  /\ polls = 0 /\ asked = FALSE /\ mailbox = <<>> /\ replies = 0 /\ approvals = 0 /\ ran = 0

(* A process begins: fresh router, empty session, then Load.               *)
Launch ==
  /\ ~Running
  /\ FreshRouter
  /\ pc' = "loading" /\ turn' = 0 /\ stop' = FALSE /\ tool' = NoTool /\ failure' = "none"
  /\ restored' = 0 /\ polls' = 0
  /\ UNCHANGED <<skipped, file, chat, history>>

(* dec.Decode of a whole record, or a decode error: the decoder keeps its  *)
(* error and the bytes, so More is true again and Decode fails again.      *)
LoadRecord ==
  /\ pc = "loading"
  /\ \/ restored < whole /\ restored' = restored + 1 /\ UNCHANGED skipped
     \/ restored = whole /\ torn /\ skipped' = ~skipped /\ UNCHANGED restored
  /\ UNCHANGED <<router, pc, turn, stop, tool, failure, file, polls, chat, history>>

(* dec.More is false: all is read.                                         *)
Loaded ==
  /\ pc = "loading" /\ restored = whole /\ ~torn
  /\ pc' = "ready"
  /\ UNCHANGED <<router, turn, stop, tool, failure, file, loading, polls, chat, history>>

(* A turn begins, unless it would exceed --max-turns.                      *)
BeginTurn ==
  /\ pc = "ready"
  /\ \/ turn < MaxTurns /\ SelectModel /\ turn' = turn + 1 /\ pc' = "streaming"
     \/ turn = MaxTurns /\ pc' = "off" /\ UNCHANGED <<router, turn>>
  /\ UNCHANGED <<stop, tool, failure, file, loading, polls, chat, history>>

(* DispatchProvider.Stream and Collect: an error ends the process, an      *)
(* answer has nothing to execute, a tool call goes to the approver.*)
Stream ==
  /\ pc = "streaming"
  /\ \/ pc' = "off" /\ UNCHANGED <<tool, failure>>
     \/ pc' = "emitting" /\ tool' = NoTool /\ failure' = "none"
     \/ pc' = "approving" /\ tool' \in ToolCall /\ failure' = "none"
  /\ UNCHANGED <<router, turn, stop, file, loading, polls, chat, history>>

Deny == pc' = "emitting" /\ failure' = "tool_error"

(* signalApprover: tools not allowed are denied, the automatic ones run,   *)
(* the rest sends a request; a send that fails denies, though the builder  *)
(* may have got it.                                                        *)
Approve ==
  /\ pc = "approving"
  /\ \/ tool = "unlisted" /\ Deny /\ UNCHANGED <<polls, asked>>
     \/ tool = "auto" /\ pc' = "executing" /\ UNCHANGED <<failure, polls, asked>>
     \/ /\ tool = "gated" /\ ~stop
        /\ pc' = "waiting" /\ polls' = 0 /\ asked' = TRUE /\ UNCHANGED failure
     \/ /\ tool = "gated" /\ Deny
        /\ asked' \in (IF stop THEN {asked} ELSE {asked, TRUE}) /\ UNCHANGED polls
  /\ UNCHANGED <<router, turn, stop, tool, file, loading, mailbox, replies, history>>

YesOrMore(says) == {"yes", "show"}

(* The replies that let the tool run.                                      *)
Approving(says) == {"yes"}

(* receive takes all there is and keeps the first message; y and n decide, *)
(* show and anything unrecognized are answered and waited on again.        *)
PollReply ==
  /\ pc = "waiting" /\ ~stop /\ polls < MaxPolls /\ mailbox # <<>>
  /\ mailbox' = <<>>
  /\ LET says == Head(mailbox)
     IN  /\ approvals' = IF says = "yes" THEN approvals + 1 ELSE approvals
         /\ \/ /\ says \in Approving(says)
               /\ pc' = "executing" /\ UNCHANGED <<failure, polls>>
            \/ says = "no" /\ Deny /\ UNCHANGED polls
            \/ /\ says \in {"show", "unrecognized"} \ Approving(says)
               /\ polls' = 0 /\ UNCHANGED <<pc, failure>>
  /\ UNCHANGED <<router, turn, stop, tool, file, loading, asked, replies, ran>>

ForgetsDeadline == polls

(* An empty window, or a signal-cli that fails silently: the time is gone. *)
NextPoll == polls + 1

PollEmpty ==
  /\ pc = "waiting" /\ ~stop /\ polls < MaxPolls
  /\ polls' = NextPoll
  /\ UNCHANGED <<router, pc, turn, stop, tool, failure, file, loading, chat, history>>

(* The deadline or the end of the context: denied.                         *)
GiveUp ==
  /\ pc = "waiting" /\ (stop \/ polls = MaxPolls)
  /\ Deny
  /\ UNCHANGED <<router, turn, stop, tool, file, loading, polls, chat, history>>

(* signal-cli fails with something on its output: denied, the batch lost.  *)
ReceiveFails ==
  /\ pc = "waiting" /\ ~stop /\ polls < MaxPolls
  /\ Deny /\ mailbox' = <<>>
  /\ UNCHANGED <<router, turn, stop, tool, file, loading, polls, asked, replies, history>>

RunTool ==
  /\ pc = "executing"
  /\ pc' = "emitting" /\ failure' \in Failure
  /\ ran' = IF tool = "gated" THEN ran + 1 ELSE ran
  /\ UNCHANGED <<router, turn, stop, tool, file, loading, polls, chat, approvals>>

(* The evidence reaches the router; a turn names the files of its calls,   *)
(* denied ones included.                                                   *)
Emit ==
  /\ pc = "emitting"
  /\ \E touched \in {t \in SUBSET Files : Cardinality(t) <= 1 /\ (tool = NoTool => t = {})} :
       EmitTurn(failure, touched)
  /\ pc' = "saving"
  /\ UNCHANGED <<turn, stop, tool, failure, file, loading, polls, chat, history>>

(* Save appends the record; a write cut short leaves it torn and its error *)
(* is dropped.  What follows a torn record is glued to it.  The task ends  *)
(* with an answer (unless it was cut at max_tokens) or with the context;   *)
(* else the next turn begins.                                              *)
Save ==
  /\ pc = "saving"
  /\ \/ torn /\ UNCHANGED file
     \/ ~torn /\ whole < MaxSaved /\ whole' = whole + 1 /\ UNCHANGED torn
     \/ torn' = TRUE /\ UNCHANGED whole
  /\ \/ (stop \/ tool = NoTool) /\ pc' = "off"
     \/ ~stop /\ pc' = "ready"
  /\ UNCHANGED <<router, turn, stop, tool, failure, loading, polls, chat, history>>

(* The process is killed; a record it was writing may stay torn.           *)
Kill ==
  /\ Running
  /\ pc' = "off"
  /\ torn' \in (IF pc = "saving" THEN {torn, TRUE} ELSE {torn})
  /\ UNCHANGED <<router, turn, stop, tool, failure, whole, loading, polls, chat, history>>

Interrupt ==
  /\ Running /\ ~stop /\ stop' = TRUE
  /\ UNCHANGED <<router, pc, turn, tool, failure, file, loading, polls, chat, history>>

(* The builder answers the last request or an earlier one, once, twice or  *)
(* late: a reply does not name what it answers.                            *)
Reply ==
  /\ asked /\ replies < MaxReplies
  /\ replies' = replies + 1
  /\ \E s \in Says : mailbox' = Append(mailbox, s)
  /\ UNCHANGED <<router, pc, turn, stop, tool, failure, file, loading, polls, asked, history>>

Step ==
  \/ LoadRecord \/ Loaded \/ BeginTurn \/ Stream \/ Approve \/ PollReply \/ PollEmpty
  \/ GiveUp \/ RunTool \/ Emit \/ Save

BotNext == Launch \/ Step \/ ReceiveFails \/ Kill \/ Interrupt \/ Reply

BotSpec == BotInit /\ [][BotNext]_botVars

(* The process takes its next step: the providers and tools answer or run  *)
(* into timeouts of their own.  Nobody owes a launch, a reply or a kill.   *)
FairSpec == BotSpec /\ WF_botVars(Step)
-----------------------------------------------------------------------------
BotTypeOK ==
  /\ RouterTypeOK
  /\ pc \in {"off", "loading", "ready", "streaming", "approving", "waiting", "executing",
             "emitting", "saving"}
  /\ turn \in 0 .. MaxTurns /\ stop \in BOOLEAN /\ tool \in ToolCall \cup {NoTool}
  /\ failure \in Failure /\ whole \in 0 .. MaxSaved /\ torn \in BOOLEAN
  /\ restored \in 0 .. MaxSaved /\ skipped \in BOOLEAN /\ polls \in 0 .. MaxPolls
  /\ asked \in BOOLEAN /\ mailbox \in Seq(Says) /\ replies \in 0 .. MaxReplies
  /\ approvals \in Nat /\ ran \in Nat

(* A mutating tool runs at most once for every y of the builder, whatever  *)
(* is late, repeated or lost, and through every restart (approver.go); a   *)
(* reply names no request, so which one a y was for is not asked.          *)
GatedNeedsYes ==
  ran + (IF pc = "executing" /\ tool = "gated" THEN 1 ELSE 0) <= approvals

(* requestSignalApproval comes to an end: by y or n, or by the deadline of *)
(* WaitForReply once the builder stops asking to be shown more.            *)
ApprovalEnds == pc = "waiting" ~> pc # "waiting"

(* What session.go says of Load: malformed lines are skipped, so a session *)
(* with one is resumed.  The decoder returns its first error for ever.     *)
ResumeStarts == pc = "loading" ~> pc # "loading"
=============================================================================

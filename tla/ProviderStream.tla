--------------------------- MODULE ProviderStream ---------------------------
(***************************************************************************)
(* internal/provider: one streamed answer.  A goroutine of the backend     *)
(* reads what the far side (an HTTP server, a claude process, a tmux       *)
(* session) writes and sends it as events on a bounded channel, which it   *)
(* closes on return; the agent loop collects them until the channel is     *)
(* closed or an error arrives.                                             *)
(***************************************************************************)
EXTENDS Naturals, Sequences, FiniteSetsExt

CONSTANTS Capacity,    (* of the events channel: 16 in every backend       *)
          MaxEvents    (* bound: events one answer may consist of          *)

ASSUME StreamAssumption == Capacity \in Nat \ {0} /\ MaxEvents \in Nat

Http == {"anthropic", "openai", "local"}
Tmux == {"screen", "cass"}
Backend == Http \cup Tmux \cup {"claude-code"}
NoReason == ""
StopReason == {NoReason, "end_turn", "tool_use", "max_tokens"}

VARIABLES
  backend,   (* who answers                                                *)
  reader,    (* the goroutine: reading, done (anthropic, claude-code: it    *)
             (* sent Done and reads on), jammed, closed, or crashed        *)
  nested,    (* observeViaScreen was called by observeViaCass              *)
  reason,    (* processStream's stopReason (anthropic)                     *)
  produced,  (* ghost: the answer as the far side sent it                  *)
  channel,   (* the events under way                                       *)
  collector, (* collecting, collected, failed                              *)
  collected, (* CollectedResponse                                          *)
  interleaved (* ghost: a fragment came for a call that was not the latest *)

stream == <<backend, reader, nested, reason, produced, channel, collector,
            collected, interleaved>>

NoUsage == [billed |-> 0, cached |-> 0]

(* text: number of deltas; calls: the fragments of each call's input.      *)
NoAnswer == [text |-> 0, calls |-> <<>>, stop |-> NoReason, usage |-> NoUsage]

Text == [type |-> "text"]
Start == [type |-> "start"]
Result == [type |-> "result"]
Error == [type |-> "error"]
Delta(fragment) == [type |-> "delta", fragment |-> fragment]
Done(stop, usage) == [type |-> "done", stop |-> stop, usage |-> usage]
-----------------------------------------------------------------------------
Reading == reader \in {"reading", "done"}

Size(a) == a.text + Len(a.calls) + FoldSet(LAMBDA c, n : n + Len(a.calls[c]), 0, DOMAIN a.calls)

(* Sending on the channel blocks while it is full.                         *)
Emit(event, next) ==
  /\ Reading /\ Len(channel) < Capacity
  /\ channel' = Append(channel, event)
  /\ reader' = next
  /\ UNCHANGED <<backend, nested, collector, collected>>

More(event, answer) ==
  /\ Size(answer) <= MaxEvents
  /\ reader = "reading" /\ reason = NoReason
  /\ produced' = answer
  /\ Emit(event, reader)
  /\ UNCHANGED reason

SendText ==
  /\ More(Text, [produced EXCEPT !.text = @ + 1])
  /\ UNCHANGED interleaved

SendCall ==
  /\ More(Start, [produced EXCEPT !.calls = Append(@, <<>>)])
  /\ UNCHANGED interleaved

SendFragment(c) ==
  LET fragment == <<c, Len(produced.calls[c]) + 1>> IN
  /\ More(Delta(fragment), [produced EXCEPT !.calls[c] = Append(@, fragment)])
  /\ interleaved' = (interleaved \/ c # Len(produced.calls))

(* The claude process and the tmux agent run their tools themselves.       *)
SendResult ==
  /\ produced.calls # <<>>
  /\ More(Result, produced)
  /\ UNCHANGED interleaved

(* Done is sent and the goroutine goes on as next.                         *)
SendDone(stop, usage, next) ==
  /\ reader = "reading"
  /\ Emit(Done(stop, usage), next)
  /\ produced' = [produced EXCEPT !.stop = stop]
  /\ UNCHANGED <<reason, interleaved>>

CloseQuietly ==
  /\ Reading
  /\ reader' = "closed"
  /\ UNCHANGED <<backend, nested, reason, produced, channel, collector, collected, interleaved>>

ReadsOnAfterError == reader

AfterError == "closed"

(* An error and the return of the goroutine.  A cancelled request ends this *)
(* way too, except that the tmux observers say nothing.                    *)
Fail ==
  /\ Emit(Error, AfterError)
  /\ UNCHANGED <<reason, produced, interleaved>>

LeftOpen == "left"

(* A goroutine that returns closes the channel.                            *)
Returned == "closed"
-----------------------------------------------------------------------------
(* anthropic: one content block after another; message_delta tells the     *)
(* reason of the stop.                                                     *)
AnthropicSends ==
  /\ backend = "anthropic"
  /\ \/ SendText \/ SendCall
     \/ produced.calls # <<>> /\ SendFragment(Len(produced.calls))
     \/ /\ reader = "reading" /\ reason = NoReason
        /\ reason' \in StopReason \ {NoReason}
        /\ UNCHANGED <<backend, reader, nested, produced, channel, collector, collected,
                       interleaved>>

(* message_stop, after which the goroutine reads on to the end of the body. *)
AnthropicEnds(usage) ==
  /\ backend = "anthropic"
  /\ \/ reason # NoReason /\ SendDone(reason, usage, "done")
     \/ CloseQuietly \/ Fail

(* openai: a chunk's tool call deltas carry the index of their call, the   *)
(* events they become do not.                                              *)
OpenaiSends ==
  /\ backend = "openai"
  /\ SendText \/ SendCall \/ \E c \in DOMAIN produced.calls : SendFragment(c)

(* finish_reason; [DONE] and the end of the body count as end_turn.        *)
OpenaiEnds(usage) ==
  /\ backend = "openai"
  /\ Fail \/ \E stop \in StopReason \ {NoReason} : SendDone(stop, usage, Returned)

(* local: text only, and every end is end_turn.                            *)
LocalSends == backend = "local" /\ SendText

LocalEnds(usage) ==
  /\ backend = "local"
  /\ Fail \/ SendDone("end_turn", usage, Returned)

(* claude-code: what the calls of an assistant message are given is for    *)
(* display only.  A line over 1 MB, or a full stderr pipe, jams: the       *)
(* process waits to write what nobody reads.                               *)
ClaudeSends ==
  /\ backend = "claude-code"
  /\ \/ SendText \/ SendCall \/ SendResult
     \/ /\ Reading /\ reader' = "jammed"
        /\ UNCHANGED <<backend, nested, reason, produced, channel, collector, collected,
                       interleaved>>

(* A result line, then the exit of the process, which may be a failure.    *)
ClaudeEnds(usage) ==
  /\ backend = "claude-code"
  /\ SendDone("end_turn", usage, "done") \/ CloseQuietly \/ Fail

(* cass: a tail that ends or breaks closes quietly.                        *)
CassSends == backend = "cass" /\ (SendText \/ SendCall \/ SendResult)

CassEnds ==
  /\ backend = "cass"
  /\ SendDone("end_turn", NoUsage, Returned) \/ CloseQuietly

(* screen: what is new on the screen; 5 s without news are the end, 5      *)
(* minutes an error.                                                       *)
ScreenSends == backend = "screen" /\ SendText

ScreenEnds ==
  /\ backend = "screen"
  /\ Fail \/ SendDone("end_turn", NoUsage, Returned)

(* No session to tail: observeViaCass calls observeViaScreen, which closes *)
(* the channel when it returns,                                            *)
FallBackToScreen ==
  /\ backend = "cass" /\ reader = "reading" /\ produced = NoAnswer /\ channel = <<>>
  /\ backend' = "screen" /\ nested' = TRUE
  /\ UNCHANGED <<reader, reason, produced, channel, collector, collected, interleaved>>

(* and then the caller's own deferred close panics.                        *)
CloseAgain ==
  /\ nested /\ reader = "closed"
  /\ reader' = "crashed"
  /\ UNCHANGED <<backend, nested, reason, produced, channel, collector, collected, interleaved>>

(* The user cancels the run's context: a jammed process is killed, a       *)
(* screen is no longer watched.                                            *)
CancelStream ==
  \/ /\ reader = "jammed" /\ Len(channel) < Capacity
     /\ channel' = Append(channel, Error) /\ reader' = "closed"
     /\ UNCHANGED <<backend, nested, reason, produced, collector, collected, interleaved>>
  \/ backend = "screen" /\ CloseQuietly
-----------------------------------------------------------------------------
ToTheFirst(calls, fragment) == [calls EXCEPT ![1] = Append(@, fragment)]

AddFragment(calls, fragment) == [calls EXCEPT ![Len(calls)] = Append(@, fragment)]

(* collectWithCallbacks: a fragment belongs to the call started last.      *)
Collected(a, e) ==
  CASE e.type = "text" -> [a EXCEPT !.text = @ + 1]
    [] e.type = "start" -> [a EXCEPT !.calls = Append(@, <<>>)]
    [] e.type = "delta" -> [a EXCEPT !.calls = AddFragment(@, e.fragment)]
    [] e.type = "done" -> [a EXCEPT !.stop = e.stop, !.usage = e.usage]
    [] OTHER -> a

CollectEvent ==
  /\ collector = "collecting" /\ reader # "crashed"
  /\ UNCHANGED <<backend, reader, nested, reason, produced, interleaved>>
  /\ \/ /\ channel # <<>>
        /\ channel' = Tail(channel)
        /\ collected' = Collected(collected, Head(channel))
        /\ collector' = IF Head(channel) = Error THEN "failed" ELSE "collecting"
     \/ /\ channel = <<>> /\ reader = "closed"
        /\ collector' = "collected"
        /\ UNCHANGED <<channel, collected>>
-----------------------------------------------------------------------------
(* Stream of a backend: the goroutine is started with an empty channel.    *)
Open(b) ==
  /\ backend' = b /\ reader' = "reading" /\ nested' = FALSE /\ reason' = NoReason
  /\ produced' = NoAnswer /\ channel' = <<>> /\ collector' = "collecting"
  /\ collected' = NoAnswer /\ interleaved' = FALSE

FarSide ==
  \/ AnthropicSends \/ OpenaiSends \/ LocalSends
  \/ ClaudeSends \/ CassSends \/ ScreenSends \/ FallBackToScreen

(* The answer ends, one way or another.                                    *)
FarEnd(usage) ==
  \/ AnthropicEnds(usage) \/ OpenaiEnds(usage) \/ LocalEnds(usage)
  \/ ClaudeEnds(usage) \/ CassEnds \/ ScreenEnds \/ CloseAgain
=============================================================================

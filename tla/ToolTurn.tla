------------------------------ MODULE ToolTurn ------------------------------
(***************************************************************************)
(* What one model turn's tool calls are promised by the agent loop,        *)
(* whatever batches, goroutines and callbacks it uses: every call is       *)
(* either refused or run once, and a call that is not concurrency-safe is  *)
(* a barrier.  Nothing after it begins, or is even put to the user, until  *)
(* it is answered, and it begins only when everything before it is.        *)
(* ToolExec implements this specification.                                 *)
(***************************************************************************)
EXTENDS Naturals

CONSTANT N        (* how many calls the assistant message carries *)

VARIABLES safe,   (* safe[i]: call i declared itself concurrency-safe *)
          status  (* status[i]: where call i is *)

vars == <<safe, status>>

Ids == 1 .. N

(* The two calls may not overlap: one of them, or a call between them, is  *)
(* unsafe.                                                                 *)
Ordered(j, i) == j < i /\ \E k \in j .. i : ~safe[k]

Settled(i) == status[i] \in {"answered", "refused"}

MayBegin(i) == \A j \in Ids : Ordered(j, i) => Settled(j)

Init ==
  /\ safe \in [Ids -> BOOLEAN]
  /\ status = [i \in Ids |-> "pending"]

Begin(i) ==
  /\ status[i] = "pending"
  /\ MayBegin(i)
  /\ status' = [status EXCEPT ![i] = "running"]
  /\ UNCHANGED safe

Refuse(i) ==
  /\ status[i] = "pending"
  /\ MayBegin(i)
  /\ status' = [status EXCEPT ![i] = "refused"]
  /\ UNCHANGED safe

Answer(i) ==
  /\ status[i] = "running"
  /\ status' = [status EXCEPT ![i] = "answered"]
  /\ UNCHANGED safe

Next == \E i \in Ids : Begin(i) \/ Refuse(i) \/ Answer(i)

Spec == Init /\ [][Next]_vars
=============================================================================

--------------------------- MODULE McpRemoteProofs ---------------------------
(* McpRemote for any number of callers and reconnects: a retry goes to a    *)
(* later session, no client is forgotten, and the wipe of the credentials   *)
(* is the last thing a remote does.                                         *)
EXTENDS McpRemote, TLAPS

USE McpRemoteAssumption DEF McpRemoteAssumption, Nil, Nobody, Session, Closer

(* remoteHandle.rmu.                                                        *)
Lock == \A p \in Callers : pc[p] \in {"locked", "dial", "dialed", "discard"} <=> rmu = p

HasDialed(p) == pc[p] = "dialed" /\ fresh[p] # Nil

(* The budget bounds the sessions: one of ConnectRemote's, one for every    *)
(* reconnect counted, and one that is about to be.                          *)
Budget ==
  /\ gen <= reconnects
  /\ opened <= reconnects + 2
  /\ opened = reconnects + 2 => \E p \in Callers : HasDialed(p)
  /\ \A p \in Callers : pc[p] \in {"dial", "dialed"} => reconnects < MaxRespawns

(* From a caller's snapshot to its return.                                  *)
Active(p) == pc[p] \notin {"idle", "enter", "snapshot"}

(* Generations and sessions grow together: the handle's client is the one   *)
(* of a caller's snapshot, or a later one.                                  *)
Sessions ==
  /\ client <= opened /\ \A p \in Callers : fresh[p] <= opened
  /\ \A p \in Callers : used[p] <= opened /\ seen[p] <= gen
  /\ \A p \in Callers : Active(p) /\ client # Nil =>
       IF seen[p] = gen THEN client = used[p] ELSE client > used[p]
  /\ \A p \in Callers : Active(p) /\ client = Nil => hclosed
  /\ \A p \in Callers : pc[p] \in {"dial", "dialed"} => seen[p] = gen
  /\ \A p \in Callers : HasDialed(p) => fresh[p] > client /\ \A q \in Callers : fresh[p] > used[q]
  /\ \A p \in Callers : fresh[p] # Nil => pc[p] \in {"dialed", "discard", "retrying"}
  /\ \A p \in Callers : pc[p] = "discard" => fresh[p] # Nil
  /\ \A p \in Callers : pc[p] = "retrying" => fresh[p] > used[p]

(* What ConnectRemote has not done yet.                                     *)
Connecting ==
  /\ conn \in {"off", "begin", "consent", "install", "dial"} => opened = 0 /\ connClient = Nil
  /\ connClient <= opened
  /\ conn \in {"opened", "list", "register"} => connClient # Nil
  /\ registered => conn \in {"returning", "done"}
  /\ conn \in {"returning", "done"} => connClient = Nil
  /\ ~registered =>
       /\ client = Nil /\ gen = 0 /\ reconnects = 0 /\ ~hclosed /\ bg = {}
       /\ arg["handle"] = Nil /\ closer["handle"] \in {"off", "returned"}
       /\ \A p \in Callers : pc[p] = "idle"
  /\ conn # "done" => \A p \in Callers : pc[p] = "idle"
  /\ pending => conn \notin {"off", "done"}

(* The three ways into shutOnce, and what each implies.                     *)
Ending ==
  /\ sd # "off" => down
  /\ (closing <=> once # Nobody) /\ (stage = "off" <=> once = Nobody)
  /\ closer["fail"] # "off" => conn \in {"closing", "returning", "done"} /\ ~registered
  /\ closer["fail"] = "off" => arg["fail"] = Nil /\ once # "fail"
  /\ closer["fail"] = "returned" => once # Nobody
  /\ conn = "closing" => closer["fail"] # "off" /\ arg["fail"] = connClient
  /\ conn \in {"returning", "done"} /\ closer["fail"] # "off" => once # Nobody
  /\ arg["pending"] = Nil
  /\ closeCall = "called" => once # Nobody /\ arg[once] # Nil
  /\ sd \in {"off", "handles"} => closer["handle"] = "off"
  /\ closer["handle"] \in {"off", "take"} => arg["handle"] = Nil /\ once # "handle"
  /\ closer["handle"] = "once" \/ once = "handle" => hclosed
  /\ closer["pending"] = "once" \/ once = "pending" =>
       down /\ \A p \in Callers : pc[p] \in {"idle", "enter"}

IInv ==
  /\ Flags /\ Places /\ Lock /\ Budget /\ Sessions /\ Connecting /\ Ending
  /\ WipeIsLast /\ NoClientForgotten
-----------------------------------------------------------------------------
LEMMA InitIInv == Init => IInv
<1>. SUFFICES ASSUME Init PROVE IInv  OBVIOUS
<1>1. Flags  BY Zenon DEF Init, Flags
<1>2. Places  BY DEF Init, Places
<1>3. Lock /\ Budget /\ Sessions  BY DEF Init, Lock, Budget, HasDialed, Sessions, Active
<1>4. Connecting  BY DEF Init, Connecting
<1>5. Ending  BY DEF Init, Ending
<1>6. WipeIsLast /\ NoClientForgotten  BY DEF Init, WipeIsLast, NoClientForgotten
<1>. QED  BY <1>1, <1>2, <1>3, <1>4, <1>5, <1>6 DEF IInv

(* What the callers, the handle and the sessions have to do with each other. *)
LEMMA CallsFrame ==
  ASSUME IInv, UNCHANGED <<pc, used, seen, fresh, rmu, handle, opened>>
  PROVE  Lock' /\ Budget' /\ Sessions'
<1>. USE DEF IInv, handle
<1>1. Lock'  BY DEF Lock
<1>2. Budget'  BY DEF Budget, HasDialed
<1>3. Sessions'  BY DEF Sessions, Active, HasDialed
<1>. QED  BY <1>1, <1>2, <1>3

(* Client.Close is called on sessions.                                      *)
LEMMA CloseType ==
  ASSUME Places, NEW S \in SUBSET Session, Close(S)
  PROVE  /\ shut' = shut \cup S /\ shut' \in SUBSET Session /\ deleted' \in SUBSET Session
BY DEF Close, Places

LEMMA ConnectBeginsStep ==
  ASSUME IInv, ConnectBegins
  PROVE  IInv'
<1>. USE DEF IInv, ConnectBegins, ending, handle, sessions, calls
<1>1. Flags'  BY Zenon DEF Flags
<1>2. Places'  BY DEF Places
<1>3. Lock' /\ Budget' /\ Sessions'  BY CallsFrame
<1>4. Connecting'  BY DEF Connecting, Ending, Places
<1>5. Ending'  BY DEF Ending, Connecting, Places
<1>6. WipeIsLast'  BY DEF WipeIsLast
<1>7. NoClientForgotten'  BY DEF NoClientForgotten, Held, Local, Connecting, Ending, Places
<1>. QED  BY <1>1, <1>2, <1>3, <1>4, <1>5, <1>6, <1>7

LEMMA BeginSetupStep ==
  ASSUME IInv, BeginSetup
  PROVE  IInv'
<1>. USE DEF IInv, BeginSetup, manager, ending, handle, sessions, calls
<1>1. Flags'  BY Zenon DEF Flags
<1>2. Places'  BY DEF Places
<1>3. Lock' /\ Budget' /\ Sessions'  BY CallsFrame
<1>4. Connecting'  BY DEF Connecting, Ending, Places
<1>5. Ending'  BY DEF Ending, Connecting, Places
<1>6. WipeIsLast'  BY DEF WipeIsLast, Ending, Places, Connecting
<1>7. NoClientForgotten'  BY DEF NoClientForgotten, Held, Local, Connecting, Ending, Places
<1>. QED  BY <1>1, <1>2, <1>3, <1>4, <1>5, <1>6, <1>7

LEMMA ConsentReturnsStep ==
  ASSUME IInv, ConsentReturns
  PROVE  IInv'
<1>. USE DEF IInv, ConsentReturns, manager, ending, handle, sessions, calls
<1>1. Flags'  BY Zenon DEF Flags
<1>2. Places'  BY DEF Places
<1>3. Lock' /\ Budget' /\ Sessions'  BY CallsFrame
<1>4. Connecting'  BY DEF Connecting, Ending, Places
<1>5. Ending'  BY DEF Ending, Connecting, Places
<1>6. WipeIsLast'  BY DEF WipeIsLast, Ending, Places, Connecting
<1>7. NoClientForgotten'  BY DEF NoClientForgotten, Held, Local, Connecting, Ending, Places
<1>. QED  BY <1>1, <1>2, <1>3, <1>4, <1>5, <1>6, <1>7

LEMMA InstallTokensStep ==
  ASSUME IInv, InstallTokens
  PROVE  IInv'
<1>. USE DEF IInv, InstallTokens, MayInstall, manager, ending, handle, sessions, calls
<1>1. Flags'  BY Zenon DEF Flags
<1>2. Places'  BY DEF Places
<1>3. Lock' /\ Budget' /\ Sessions'  BY CallsFrame
<1>4. Connecting'  BY DEF Connecting, Ending, Places
<1>5. Ending'  BY DEF Ending, Connecting, Places
<1>6. WipeIsLast'
  <2>1. closing \/ stage = "off"  BY DEF Ending
  <2>2. closing => UNCHANGED tok /\ (setup' => setup)  BY Zenon DEF MayInstall
  <2>. QED  BY <2>1, <2>2 DEF WipeIsLast
<1>7. NoClientForgotten'  BY DEF NoClientForgotten, Held, Local, Connecting, Ending, Places
<1>. QED  BY <1>1, <1>2, <1>3, <1>4, <1>5, <1>6, <1>7

LEMMA ConnectReturnsStep ==
  ASSUME IInv, ConnectReturns
  PROVE  IInv'
<1>. USE DEF IInv, manager, ending, handle, calls
<1>1. \/ Close({connClient}) /\ conn' = "failing" /\ connClient' = Nil
      \/ conn' = "list" /\ UNCHANGED <<connClient, shut, deleted>>
  BY Zenon DEF ConnectReturns
<1>2. /\ conn = "opened" /\ ~setup'
      /\ UNCHANGED <<manager, tok, failed, ending, handle, bg, opened, calls>>
  BY Zenon DEF ConnectReturns
<1>3. connClient \in Session  BY <1>2 DEF Connecting, Places
<1>4. \/ shut' = shut \cup {connClient} /\ conn' = "failing" /\ connClient' = Nil
      \/ shut' = shut /\ conn' = "list" /\ connClient' = connClient
  BY <1>1 DEF Close
<1>5. deleted' \in SUBSET Session  BY <1>1, <1>3, CloseType DEF Places
<1>6. Flags'  BY <1>2, Zenon DEF Flags, ConnectReturns
<1>7. Places'
  <2>1. conn' \in {"failing", "list"} /\ connClient' \in {Nil, connClient}  BY <1>4
  <2>2. shut' \in SUBSET Session  BY <1>3, <1>4 DEF Places
  <2>. QED  BY <1>2, <1>3, <1>5, <2>1, <2>2 DEF Places
<1>8. Lock' /\ Budget' /\ Sessions'  BY <1>2, CallsFrame
<1>9. Connecting'  BY <1>2, <1>4 DEF Connecting, Places
<1>10. Ending'  BY <1>2, <1>4 DEF Ending
<1>11. WipeIsLast'  BY <1>2 DEF WipeIsLast
<1>12. NoClientForgotten'  BY <1>2, <1>4 DEF NoClientForgotten, Held, Local, Connecting, Places
<1>. QED  BY <1>6, <1>7, <1>8, <1>9, <1>10, <1>11, <1>12

LEMMA ToolsListedStep ==
  ASSUME IInv, ToolsListed
  PROVE  IInv'
<1>. USE DEF IInv, ToolsListed, MayTurnTerminal, manager, ending, handle, sessions,
            calls
<1>1. Flags'  BY Zenon DEF Flags
<1>2. Places'
  <2>1. conn' \in {"register", "failing"}  OBVIOUS
  <2>2. UNCHANGED <<sd, connClient, tok, ending, handle, bg, sessions, calls>>  OBVIOUS
  <2>. QED  BY ONLY <2>1, <2>2, Places DEF Places, ending, handle, sessions, calls
<1>3. Lock' /\ Budget' /\ Sessions'  BY CallsFrame
<1>4. Connecting'  BY DEF Connecting, Ending, Places
<1>5. Ending'  BY DEF Ending, Connecting, Places
<1>6. WipeIsLast'  BY DEF WipeIsLast
<1>7. NoClientForgotten'  BY DEF NoClientForgotten, Held, Local, Connecting, Ending, Places
<1>. QED  BY <1>1, <1>2, <1>3, <1>4, <1>5, <1>6, <1>7

LEMMA FailShutsDownStep ==
  ASSUME IInv, FailShutsDown
  PROVE  IInv'
<1>. USE DEF IInv, FailShutsDown, manager, handle, sessions, calls
<1>1. Flags'  BY Zenon DEF Flags
<1>2. Places'  BY DEF Places
<1>3. Lock' /\ Budget' /\ Sessions'  BY CallsFrame
<1>4. Connecting'  BY DEF Connecting, Ending, Places
<1>5. Ending'  BY DEF Ending, Connecting, Places
<1>6. WipeIsLast'  BY DEF WipeIsLast
<1>7. NoClientForgotten'  BY DEF NoClientForgotten, Held, Local, Connecting, Ending, Places
<1>. QED  BY <1>1, <1>2, <1>3, <1>4, <1>5, <1>6, <1>7

LEMMA FailClosesStep ==
  ASSUME IInv, FailCloses
  PROVE  IInv'
<1>. USE DEF IInv, FailCloses, manager, ending, handle, calls
<1>1. Local(connClient) \in SUBSET Session  BY DEF Places, Local
<1>2. shut' = shut \cup Local(connClient) /\ shut' \in SUBSET Session /\ deleted' \in SUBSET Session
  BY <1>1, CloseType
<1>3. Flags'  BY Zenon DEF Flags
<1>4. Places'  BY <1>2 DEF Places
<1>5. Lock' /\ Budget' /\ Sessions'  BY CallsFrame
<1>6. Connecting'  BY DEF Connecting, Ending, Places
<1>7. Ending'  BY DEF Ending, Connecting, Places
<1>8. WipeIsLast'  BY DEF WipeIsLast
<1>9. NoClientForgotten'  BY <1>2 DEF NoClientForgotten, Held, Local, Connecting, Ending, Places
<1>. QED  BY <1>3, <1>4, <1>5, <1>6, <1>7, <1>8, <1>9

LEMMA ConnectRemoteReturnsStep ==
  ASSUME IInv, ConnectRemoteReturns
  PROVE  IInv'
<1>. USE DEF IInv, ConnectRemoteReturns, ending, handle, sessions, calls
<1>1. Flags'  BY Zenon DEF Flags
<1>2. Places'  BY DEF Places
<1>3. Lock' /\ Budget' /\ Sessions'  BY CallsFrame
<1>4. Connecting'  BY DEF Connecting, Ending, Places
<1>5. Ending'  BY DEF Ending, Connecting, Places
<1>6. WipeIsLast'  BY DEF WipeIsLast
<1>7. NoClientForgotten'  BY DEF NoClientForgotten, Held, Local, Connecting, Ending, Places
<1>. QED  BY <1>1, <1>2, <1>3, <1>4, <1>5, <1>6, <1>7

LEMMA ShutdownMarksStep ==
  ASSUME IInv, ShutdownMarks
  PROVE  IInv'
<1>. USE DEF IInv, ShutdownMarks, connecting, ending, handle, sessions, calls
<1>1. Flags'  BY Zenon DEF Flags
<1>2. Places'  BY DEF Places
<1>3. Lock' /\ Budget' /\ Sessions'  BY CallsFrame
<1>4. Connecting'  BY DEF Connecting, Ending, Places
<1>5. Ending'  BY DEF Ending, Connecting, Places
<1>6. WipeIsLast'  BY DEF WipeIsLast
<1>7. NoClientForgotten'  BY DEF NoClientForgotten, Held, Local, Connecting, Ending, Places
<1>. QED  BY <1>1, <1>2, <1>3, <1>4, <1>5, <1>6, <1>7

LEMMA ReadHandlesStep ==
  ASSUME IInv, ReadHandles
  PROVE  IInv'
<1>. USE DEF IInv, ReadHandles, connecting, handle, sessions, calls
<1>1. Flags'  BY Zenon DEF Flags
<1>2. Places'  BY DEF Places
<1>3. Lock' /\ Budget' /\ Sessions'  BY CallsFrame
<1>4. Connecting'  BY DEF Connecting, Ending, Places
<1>5. Ending'  BY DEF Ending, Connecting, Places
<1>6. WipeIsLast'  BY DEF WipeIsLast
<1>7. NoClientForgotten'  BY DEF NoClientForgotten, Held, Local, Connecting, Ending, Places
<1>. QED  BY <1>1, <1>2, <1>3, <1>4, <1>5, <1>6, <1>7

LEMMA ReadPendingStep ==
  ASSUME IInv, ReadPending
  PROVE  IInv'
<1>. USE DEF IInv, ReadPending, connecting, handle, sessions, calls
<1>1. Flags'  BY Zenon DEF Flags
<1>2. Places'  BY DEF Places
<1>3. Lock' /\ Budget' /\ Sessions'  BY CallsFrame
<1>4. Connecting'  BY DEF Connecting, Ending, Places
<1>5. Ending'  BY DEF Ending, Connecting, Places
<1>6. WipeIsLast'  BY DEF WipeIsLast
<1>7. NoClientForgotten'  BY DEF NoClientForgotten, Held, Local, Connecting, Ending, Places
<1>. QED  BY <1>1, <1>2, <1>3, <1>4, <1>5, <1>6, <1>7

LEMMA ShutdownReturnedStep ==
  ASSUME IInv, ShutdownReturned
  PROVE  IInv'
<1>. USE DEF IInv, ShutdownReturned, connecting, ending, handle, sessions, calls
<1>1. Flags'  BY Zenon DEF Flags
<1>2. Places'  BY DEF Places
<1>3. Lock' /\ Budget' /\ Sessions'  BY CallsFrame
<1>4. Connecting'  BY DEF Connecting, Ending, Places
<1>5. Ending'  BY DEF Ending, Connecting, Places
<1>6. WipeIsLast'  BY DEF WipeIsLast
<1>7. NoClientForgotten'  BY DEF NoClientForgotten, Held, Local, Connecting, Ending, Places
<1>. QED  BY <1>1, <1>2, <1>3, <1>4, <1>5, <1>6, <1>7

LEMMA CloseSendsStep ==
  ASSUME IInv, CloseSends
  PROVE  IInv'
<1>. USE DEF IInv, CloseSends, Close, manager, connecting, handle, calls
<1>1. Flags'  BY Zenon DEF Flags
<1>2. Places'
  <2>1. {arg[once]} \in SUBSET Session  BY DEF Places, Ending
  <2>2. shut' \in SUBSET Session /\ deleted' \in SUBSET Session  BY <2>1, CloseType
  <2>. QED  BY <2>2 DEF Places
<1>3. Lock' /\ Budget' /\ Sessions'  BY CallsFrame
<1>4. Connecting'  BY DEF Connecting, Ending, Places
<1>5. Ending'  BY DEF Ending, Connecting, Places
<1>6. WipeIsLast'  BY DEF WipeIsLast, Ending, Places, Connecting
<1>7. NoClientForgotten'  BY DEF NoClientForgotten, Held, Local, Connecting, Ending, Places
<1>. QED  BY <1>1, <1>2, <1>3, <1>4, <1>5, <1>6, <1>7

LEMMA CloseReturnsStep ==
  ASSUME IInv, CloseReturns
  PROVE  IInv'
<1>. USE DEF IInv, CloseReturns, manager, connecting, handle, sessions, calls
<1>1. Flags'  BY Zenon DEF Flags
<1>2. Places'  BY DEF Places
<1>3. Lock' /\ Budget' /\ Sessions'  BY CallsFrame
<1>4. Connecting'  BY DEF Connecting, Ending, Places
<1>5. Ending'  BY DEF Ending, Connecting, Places
<1>6. WipeIsLast'  BY DEF WipeIsLast, Ending, Places, Connecting
<1>7. NoClientForgotten'  BY DEF NoClientForgotten, Held, Local, Connecting, Ending, Places
<1>. QED  BY <1>1, <1>2, <1>3, <1>4, <1>5, <1>6, <1>7

LEMMA GraceEndsStep ==
  ASSUME IInv, GraceEnds
  PROVE  IInv'
<1>. USE DEF IInv, GraceEnds, manager, connecting, handle, sessions, calls
<1>1. Flags'  BY Zenon DEF Flags
<1>2. Places'  BY DEF Places
<1>3. Lock' /\ Budget' /\ Sessions'  BY CallsFrame
<1>4. Connecting'  BY DEF Connecting, Ending, Places
<1>5. Ending'  BY DEF Ending, Connecting, Places
<1>6. WipeIsLast'  BY DEF WipeIsLast, Ending, Places, Connecting
<1>7. NoClientForgotten'  BY DEF NoClientForgotten, Held, Local, Connecting, Ending, Places
<1>. QED  BY <1>1, <1>2, <1>3, <1>4, <1>5, <1>6, <1>7

LEMMA WipeStep ==
  ASSUME IInv, Wipe
  PROVE  IInv'
<1>. USE DEF IInv, Wipe, manager, connecting, handle, sessions, calls
<1>1. Flags'  BY Zenon DEF Flags
<1>2. Places'  BY DEF Places
<1>3. Lock' /\ Budget' /\ Sessions'  BY CallsFrame
<1>4. Connecting'  BY DEF Connecting, Ending, Places
<1>5. Ending'  BY DEF Ending, Connecting, Places
<1>6. WipeIsLast'
  <2>1. ~setup /\ bg = {} /\ closeCall = "returned"  BY DEF Joined
  <2>. QED  BY <2>1 DEF WipeIsLast, Places
<1>7. NoClientForgotten'  BY DEF NoClientForgotten, Held, Local, Connecting, Ending, Places
<1>. QED  BY <1>1, <1>2, <1>3, <1>4, <1>5, <1>6, <1>7

LEMMA EnterOnceStep ==
  ASSUME IInv, NEW x \in Closer, EnterOnce(x)
  PROVE  IInv'
<1>. USE DEF IInv, EnterOnce, manager, connecting, handle, sessions, calls
<1>1. Flags'  BY Zenon DEF Flags
<1>2. Places'  BY DEF Places
<1>3. Lock' /\ Budget' /\ Sessions'  BY CallsFrame
<1>4. Connecting'  BY DEF Connecting, Ending, Places
<1>5. Ending'  BY DEF Ending, Connecting, Places
<1>6. WipeIsLast'  BY DEF WipeIsLast, Ending, Places, Connecting
<1>7. NoClientForgotten'  BY DEF NoClientForgotten, Held, Local, Connecting, Ending, Places
<1>. QED  BY <1>1, <1>2, <1>3, <1>4, <1>5, <1>6, <1>7

LEMMA LeaveOnceStep ==
  ASSUME IInv, NEW x \in Closer, LeaveOnce(x)
  PROVE  IInv'
<1>. USE DEF IInv, LeaveOnce, manager, connecting, handle, sessions, calls
<1>1. Flags'  BY Zenon DEF Flags
<1>2. Places'  BY DEF Places
<1>3. Lock' /\ Budget' /\ Sessions'  BY CallsFrame
<1>4. Connecting'  BY DEF Connecting, Ending, Places
<1>5. Ending'  BY DEF Ending, Connecting, Places
<1>6. WipeIsLast'  BY DEF WipeIsLast, Ending, Places, Connecting
<1>7. NoClientForgotten'  BY DEF NoClientForgotten, Held, Local, Connecting, Ending, Places
<1>. QED  BY <1>1, <1>2, <1>3, <1>4, <1>5, <1>6, <1>7

LEMMA CloseReplacedStep ==
  ASSUME IInv, NEW c \in Session, CloseReplaced(c)
  PROVE  IInv'
<1>. USE DEF IInv, CloseReplaced, Close, manager, connecting, ending, handle, calls
<1>1. Flags'  BY Zenon DEF Flags
<1>2. Places'  BY DEF Places
<1>3. Lock' /\ Budget' /\ Sessions'  BY CallsFrame
<1>4. Connecting'  BY DEF Connecting, Ending, Places
<1>5. Ending'  BY DEF Ending, Connecting, Places
<1>6. WipeIsLast'  BY DEF WipeIsLast, Ending, Places, Connecting
<1>7. NoClientForgotten'  BY DEF NoClientForgotten, Held, Local, Connecting, Ending, Places
<1>. QED  BY <1>1, <1>2, <1>3, <1>4, <1>5, <1>6, <1>7

LEMMA ConnectDialsStep ==
  ASSUME IInv, ConnectDials
  PROVE  IInv'
<1>. USE DEF IInv, manager, ending, handle, calls
<1>1. \/ opened' = opened + 1 /\ connClient' = opened + 1 /\ conn' = "opened"
      \/ opened' = opened /\ connClient' = connClient /\ conn' = "failing"
  BY Zenon DEF ConnectDials
<1>2. conn = "dial" /\ UNCHANGED <<manager, tok, ending, handle, bg, shut, deleted, calls>>
  BY Zenon DEF ConnectDials
<1>3. opened = 0 /\ connClient = Nil /\ ~registered  BY <1>2 DEF Connecting
<1>4. setup' \in {setup, FALSE}  BY Zenon DEF ConnectDials
<1>5. Flags'  BY Zenon DEF Flags, ConnectDials, MayTurnTerminal
<1>6. Places'  BY <1>1, <1>2, <1>3 DEF Places
<1>7. Lock'  BY <1>2 DEF Lock
<1>8. Budget'  BY <1>1, <1>2, <1>3 DEF Budget, Connecting
<1>9. Sessions'  BY <1>1, <1>2, <1>3 DEF Sessions, Connecting, Active, HasDialed, Places
<1>10. Connecting'  BY <1>1, <1>2, <1>3 DEF Connecting
<1>11. Ending'  BY <1>1, <1>2 DEF Ending
<1>12. WipeIsLast'  BY <1>4, <1>2 DEF WipeIsLast, Flags
<1>13. NoClientForgotten'  BY <1>1, <1>2, <1>3 DEF NoClientForgotten, Held, Local
<1>. QED  BY <1>5, <1>6, <1>7, <1>8, <1>9, <1>10, <1>11, <1>12, <1>13

LEMMA RegisterStep ==
  ASSUME IInv, Register
  PROVE  IInv'
<1>. USE DEF IInv, Register, ending, sessions, calls
<1>1. Flags'  BY Zenon DEF Flags
<1>2. Places'  BY DEF Places
<1>3. Lock'  BY DEF Lock, Places
<1>4. Budget'  BY DEF Budget, HasDialed, Places, Lock, Connecting
<1>5. Sessions'  BY DEF Sessions, Active, HasDialed, Places, Lock, Connecting
<1>6. Connecting'  BY DEF Connecting, Ending, Places
<1>7. Ending'  BY DEF Ending, Connecting, Places
<1>8. WipeIsLast'  BY DEF WipeIsLast, Ending, Places, Connecting
<1>9. NoClientForgotten'  BY DEF NoClientForgotten, Held, Local, Connecting, Ending, Places
<1>. QED  BY <1>1, <1>2, <1>3, <1>4, <1>5, <1>6, <1>7, <1>8, <1>9

LEMMA TakeClientStep ==
  ASSUME IInv, TakeClient
  PROVE  IInv'
<1>. USE DEF IInv, TakeClient, manager, connecting, handle, sessions, calls
<1>1. Flags'  BY Zenon DEF Flags
<1>2. Places'  BY DEF Places
<1>3. Lock'  BY DEF Lock, Places
<1>4. Budget'  BY DEF Budget, HasDialed, Places, Lock, Connecting
<1>5. Sessions'  BY DEF Sessions, Active, HasDialed, Places, Lock, Connecting
<1>6. Connecting'  BY DEF Connecting, Ending, Places
<1>7. Ending'  BY DEF Ending, Connecting, Places
<1>8. WipeIsLast'  BY DEF WipeIsLast, Ending, Places, Connecting
<1>9. NoClientForgotten'  BY DEF NoClientForgotten, Held, Local, Connecting, Ending, Places
<1>. QED  BY <1>1, <1>2, <1>3, <1>4, <1>5, <1>6, <1>7, <1>8, <1>9

LEMMA ExpireStep ==
  ASSUME IInv, NEW p \in Callers, Expire(p)
  PROVE  IInv'
<1>. USE DEF IInv, Expire, manager, connecting, ending, handle, sessions
<1>1. Flags'  BY Zenon DEF Flags
<1>2. Places'  BY DEF Places
<1>3. Lock' /\ Budget' /\ Sessions'  BY CallsFrame
<1>4. Connecting'  BY DEF Connecting, Ending, Places
<1>5. Ending'  BY DEF Ending, Connecting, Places
<1>6. WipeIsLast'  BY DEF WipeIsLast, Ending, Places, Connecting
<1>7. NoClientForgotten'  BY DEF NoClientForgotten, Held, Local, Connecting, Ending, Places
<1>. QED  BY <1>1, <1>2, <1>3, <1>4, <1>5, <1>6, <1>7

LEMMA CallStep ==
  ASSUME IInv, NEW p \in Callers, Call(p)
  PROVE  IInv'
<1>. USE DEF IInv, Call, manager, connecting, ending, handle, sessions
<1>1. Flags'  BY Zenon DEF Flags
<1>2. Places'  BY DEF Places
<1>3. Lock'  BY DEF Lock, Places
<1>4. Budget'  BY DEF Budget, HasDialed, Places, Lock, Connecting
<1>5. Sessions'  BY DEF Sessions, Active, HasDialed, Places, Lock, Connecting
<1>6. Connecting'  BY DEF Connecting, Ending, Places
<1>7. Ending'  BY DEF Ending, Connecting, Places
<1>8. WipeIsLast'  BY DEF WipeIsLast, Ending, Places, Connecting
<1>9. NoClientForgotten'  BY DEF NoClientForgotten, Held, Local, Connecting, Ending, Places
<1>. QED  BY <1>1, <1>2, <1>3, <1>4, <1>5, <1>6, <1>7, <1>8, <1>9

LEMMA EnterStep ==
  ASSUME IInv, NEW p \in Callers, Enter(p)
  PROVE  IInv'
<1>. USE DEF IInv, Enter, Return, Goto, Unavailable, manager, connecting, ending,
            handle, sessions
<1>1. Flags'  BY Zenon DEF Flags
<1>2. Places'  BY DEF Places
<1>3. Lock'  BY DEF Lock, Places
<1>4. Budget'  BY DEF Budget, HasDialed, Places, Lock, Connecting
<1>5. Sessions'  BY DEF Sessions, Active, HasDialed, Places, Lock, Connecting
<1>6. Connecting'  BY DEF Connecting, Ending, Places
<1>7. Ending'  BY DEF Ending, Connecting, Places
<1>8. WipeIsLast'  BY DEF WipeIsLast, Ending, Places, Connecting
<1>9. NoClientForgotten'  BY DEF NoClientForgotten, Held, Local, Connecting, Ending, Places
<1>. QED  BY <1>1, <1>2, <1>3, <1>4, <1>5, <1>6, <1>7, <1>8, <1>9

LEMMA SnapshotStep ==
  ASSUME IInv, NEW p \in Callers, Snapshot(p)
  PROVE  IInv'
<1>. USE DEF IInv, Snapshot, Return, manager, connecting, ending, handle, sessions
<1>1. Flags'  BY Zenon DEF Flags
<1>2. Places'  BY DEF Places
<1>3. Lock'  BY DEF Lock, Places
<1>4. Budget'  BY DEF Budget, HasDialed, Places, Lock, Connecting
<1>5. Sessions'  BY DEF Sessions, Active, HasDialed, Places, Lock, Connecting
<1>6. Connecting'  BY DEF Connecting, Ending, Places
<1>7. Ending'  BY DEF Ending, Connecting, Places
<1>8. WipeIsLast'  BY DEF WipeIsLast, Ending, Places, Connecting
<1>9. NoClientForgotten'  BY DEF NoClientForgotten, Held, Local, Connecting, Ending, Places
<1>. QED  BY <1>1, <1>2, <1>3, <1>4, <1>5, <1>6, <1>7, <1>8, <1>9

LEMMA CallReturnsStep ==
  ASSUME IInv, NEW p \in Callers, CallReturns(p)
  PROVE  IInv'
<1>. USE DEF IInv, CallReturns, MayTurnTerminal, Return, Goto, Unavailable, manager,
            connecting, ending, handle, sessions
<1>1. Flags'  BY Zenon DEF Flags
<1>2. Places'  BY DEF Places
<1>3. Lock'  BY DEF Lock, Places
<1>4. Budget'  BY DEF Budget, HasDialed, Places, Lock, Connecting
<1>5. Sessions'  BY DEF Sessions, Active, HasDialed, Places, Lock, Connecting
<1>6. Connecting'  BY DEF Connecting, Ending, Places
<1>7. Ending'  BY DEF Ending, Connecting, Places
<1>8. WipeIsLast'  BY DEF WipeIsLast, Ending, Places, Connecting
<1>9. NoClientForgotten'  BY DEF NoClientForgotten, Held, Local, Connecting, Ending, Places
<1>. QED  BY <1>1, <1>2, <1>3, <1>4, <1>5, <1>6, <1>7, <1>8, <1>9

LEMMA LockReconnectStep ==
  ASSUME IInv, NEW p \in Callers, LockReconnect(p)
  PROVE  IInv'
<1>. USE DEF IInv, LockReconnect, Goto, manager, connecting, ending, handle, sessions
<1>1. Flags'  BY Zenon DEF Flags
<1>2. Places'  BY DEF Places
<1>3. Lock'  BY DEF Lock, Places
<1>4. Budget'  BY DEF Budget, HasDialed, Places, Lock, Connecting
<1>5. Sessions'  BY DEF Sessions, Active, HasDialed, Places, Lock, Connecting
<1>6. Connecting'  BY DEF Connecting, Ending, Places
<1>7. Ending'  BY DEF Ending, Connecting, Places
<1>8. WipeIsLast'  BY DEF WipeIsLast, Ending, Places, Connecting
<1>9. NoClientForgotten'  BY DEF NoClientForgotten, Held, Local, Connecting, Ending, Places
<1>. QED  BY <1>1, <1>2, <1>3, <1>4, <1>5, <1>6, <1>7, <1>8, <1>9

LEMMA GiveUpStep ==
  ASSUME IInv, NEW p \in Callers, GiveUp(p)
  PROVE  IInv'
<1>. USE DEF IInv, GiveUp, Return, MayGiveUp, manager, connecting, ending, handle,
            sessions
<1>1. Flags'  BY Zenon DEF Flags
<1>2. Places'  BY DEF Places
<1>3. Lock'  BY DEF Lock, Places
<1>4. Budget'  BY DEF Budget, HasDialed, Places, Lock, Connecting
<1>5. Sessions'  BY DEF Sessions, Active, HasDialed, Places, Lock, Connecting
<1>6. Connecting'  BY DEF Connecting, Ending, Places
<1>7. Ending'  BY DEF Ending, Connecting, Places
<1>8. WipeIsLast'  BY DEF WipeIsLast, Ending, Places, Connecting
<1>9. NoClientForgotten'  BY DEF NoClientForgotten, Held, Local, Connecting, Ending, Places
<1>. QED  BY <1>1, <1>2, <1>3, <1>4, <1>5, <1>6, <1>7, <1>8, <1>9

LEMMA ReconsiderStep ==
  ASSUME IInv, NEW p \in Callers, Reconsider(p)
  PROVE  IInv'
<1>. USE DEF IInv, Reconsider, Return, Goto, Unavailable, SameSession, Exhausted,
            manager, connecting, ending, handle, sessions
<1>1. Flags'  BY Zenon DEF Flags
<1>2. Places'  BY DEF Places
<1>3. Lock'  BY DEF Lock, Places
<1>4. Budget'  BY DEF Budget, HasDialed, Places, Lock, Connecting
<1>5. Sessions'  BY DEF Sessions, Active, HasDialed, Places, Lock, Connecting
<1>6. Connecting'  BY DEF Connecting, Ending, Places
<1>7. Ending'  BY DEF Ending, Connecting, Places
<1>8. WipeIsLast'  BY DEF WipeIsLast, Ending, Places, Connecting
<1>9. NoClientForgotten'  BY DEF NoClientForgotten, Held, Local, Connecting, Ending, Places
<1>. QED  BY <1>1, <1>2, <1>3, <1>4, <1>5, <1>6, <1>7, <1>8, <1>9

LEMMA DialStep ==
  ASSUME IInv, NEW p \in Callers, Dial(p)
  PROVE  IInv'
<1>. USE DEF IInv, manager, connecting, ending, handle
<1>1. \/ opened' = opened + 1 /\ fresh' = [fresh EXCEPT ![p] = opened + 1]
      \/ UNCHANGED <<opened, fresh>>
  BY Zenon DEF Dial
<1>2. /\ pc[p] = "dial" /\ pc' = [pc EXCEPT ![p] = "dialed"]
      /\ UNCHANGED <<manager, connecting, tok, ending, handle, bg, shut, deleted, rmu, late, used, seen>>
  BY Zenon DEF Dial
<1>3. /\ registered /\ conn = "done" /\ reconnects < MaxRespawns
      /\ \A q \in Callers : ~HasDialed(q)
  BY <1>2 DEF Connecting, Budget, Lock, HasDialed
<1>4. opened <= reconnects + 1  BY <1>3 DEF Budget, Places
<1>5. Flags'  BY Zenon DEF Flags, Dial, MayTurnTerminal
<1>6. Places'  BY <1>1, <1>2, <1>3, <1>4 DEF Places
<1>7. Lock'  BY <1>2 DEF Lock, Places
<1>8. Budget'  BY <1>1, <1>2, <1>3, <1>4 DEF Budget, HasDialed, Places
<1>9. Sessions'
  <2>1. HasDialed(p)' => fresh'[p] > client /\ \A q \in Callers : fresh'[p] > used[q]
    BY <1>1, <1>2 DEF Sessions, HasDialed, Places
  <2>2. \A q \in Callers \ {p} : pc'[q] = pc[q] /\ fresh'[q] = fresh[q]  BY <1>1, <1>2 DEF Places
  <2>3. pc'[p] = "dialed"  BY <1>2 DEF Places
  <2>. QED  BY <1>1, <1>2, <1>3, <2>1, <2>2, <2>3 DEF Sessions, Active, HasDialed, Places
<1>10. Connecting'  BY <1>1, <1>2, <1>3 DEF Connecting, Places
<1>11. Ending'  BY <1>2 DEF Ending, Places
<1>12. WipeIsLast'  BY <1>2 DEF WipeIsLast
<1>13. NoClientForgotten'  BY <1>1, <1>2 DEF NoClientForgotten, Held, Local, Places
<1>. QED  BY <1>5, <1>6, <1>7, <1>8, <1>9, <1>10, <1>11, <1>12, <1>13

LEMMA ReplaceStep ==
  ASSUME IInv, NEW p \in Callers, Replace(p)
  PROVE  IInv'
<1>. USE DEF IInv, manager, connecting, ending, sessions
<1>1. /\ pc[p] = "dialed" /\ reconnects' = reconnects + 1
      /\ UNCHANGED <<manager, connecting, tok, failed, ending, hclosed, sessions>>
  BY DEF Replace
<1>2. /\ registered /\ conn = "done" /\ rmu = p /\ reconnects < MaxRespawns /\ seen[p] = gen
      /\ \A q \in Callers \ {p} : pc[q] \notin {"locked", "dial", "dialed", "discard"}
  BY <1>1 DEF Connecting, Budget, Lock, Sessions
<1>3. Flags'  BY <1>1, Zenon DEF Flags
<1>4. WipeIsLast' <=> (stage = "done" => tok # "live" /\ ~setup /\ bg' = {} /\ closeCall = "returned")
  BY <1>1 DEF WipeIsLast
<1>5. Connecting' /\ Ending' /\ opened <= reconnects' + 1
  <2>1. \A q \in Callers : pc[q] = "idle" => pc'[q] = "idle"
    BY <1>1 DEF Replace, Return, Goto, Places
  <2>2. \A q \in Callers : pc[q] \in {"idle", "enter"} => pc'[q] \in {"idle", "enter"}
    BY <1>1 DEF Replace, Return, Goto, Places
  <2>3. Connecting'  BY <1>1, <1>2, <2>1 DEF Connecting
  <2>4. Ending'  BY <1>1, <2>2 DEF Ending
  <2>. QED  BY <1>1, <2>3, <2>4 DEF Budget, Places
<1>6. CASE fresh[p] = Nil
  <2>1. /\ pc' = [pc EXCEPT ![p] = "idle"] /\ late' = late \ {p} /\ fresh' = [fresh EXCEPT ![p] = Nil]
        /\ used' = [used EXCEPT ![p] = Nil] /\ seen' = [seen EXCEPT ![p] = 0]
        /\ rmu' = Nobody /\ UNCHANGED <<client, gen, bg>>
    BY <1>6 DEF Replace, Return
  <2>2. Places'  BY <1>1, <1>2, <2>1 DEF Places
  <2>3. Lock'  BY <1>2, <2>1 DEF Lock, Places
  <2>4. Budget'  BY <1>1, <1>2, <1>5, <2>1 DEF Budget, HasDialed, Places
  <2>5. Sessions'  BY <1>1, <1>2, <2>1 DEF Sessions, Active, HasDialed, Places
  <2>6. NoClientForgotten'  BY <1>1, <1>6, <2>1 DEF NoClientForgotten, Held, Local, Places
  <2>. QED  BY <1>3, <1>4, <1>5, <2>1, <2>2, <2>3, <2>4, <2>5, <2>6 DEF WipeIsLast
<1>7. CASE fresh[p] # Nil /\ ~MayReplace
  <2>1. pc' = [pc EXCEPT ![p] = "discard"] /\ UNCHANGED <<late, used, seen, fresh, client, gen, bg, rmu>>
    BY <1>7 DEF Replace, Goto
  <2>2. Places'  BY <1>1, <1>2, <2>1 DEF Places
  <2>3. Lock'  BY <1>2, <2>1 DEF Lock, Places
  <2>4. Budget'  BY <1>1, <1>2, <1>5, <2>1 DEF Budget, HasDialed, Places
  <2>5. Sessions'  BY <1>1, <1>2, <1>7, <2>1 DEF Sessions, Active, HasDialed, Places
  <2>6. NoClientForgotten'  BY <1>1, <1>7, <2>1 DEF NoClientForgotten, Held, Local, Places
  <2>. QED  BY <1>3, <1>4, <1>5, <2>1, <2>2, <2>3, <2>4, <2>5, <2>6 DEF WipeIsLast
<1>8. CASE fresh[p] # Nil /\ MayReplace
  <2>1. /\ pc' = [pc EXCEPT ![p] = "retrying"] /\ UNCHANGED <<late, used, seen, fresh>>
        /\ client' = fresh[p] /\ gen' = gen + 1 /\ bg' = bg \cup Local(client) /\ rmu' = Nobody
    BY <1>8 DEF Replace, Goto
  <2>2. fresh[p] > client /\ \A q \in Callers : fresh[p] > used[q]
    BY <1>1, <1>8 DEF Sessions, HasDialed
  <2>3. Places'
    <3>1. gen' \in 0 .. MaxRespawns  BY <1>1, <1>2, <2>1 DEF Budget, Places
    <3>2. bg' \in SUBSET Session  BY <2>1 DEF Places, Local
    <3>. QED  BY <1>1, <1>2, <2>1, <3>1, <3>2 DEF Places
  <2>4. Lock'  BY <1>2, <2>1 DEF Lock, Places
  <2>5. Budget'  BY <1>1, <1>2, <1>5, <2>1 DEF Budget, HasDialed, Places
  <2>6. Sessions'
    <3>1. client' <= opened  BY <2>1 DEF Sessions, HasDialed
    <3>2. \A q \in Callers : seen[q] < gen'  BY <2>1 DEF Sessions, Places
    <3>3. \A q \in Callers : ~HasDialed(q)'  BY <1>2, <2>1 DEF HasDialed, Places
    <3>4. \A q \in Callers : pc'[q] \notin {"dial", "dialed", "discard"}  BY <1>2, <2>1 DEF Places
    <3>. QED
      BY <1>1, <2>1, <2>2, <3>1, <3>2, <3>3, <3>4, <1>8 DEF Sessions, Active, Places
  <2>7. once = Nobody
    <3>1. once # "handle"  BY <1>8 DEF Ending, MayReplace
    <3>2. once # "fail"  BY <1>2 DEF Ending
    <3>3. once # "pending"  BY <1>1 DEF Ending
    <3>. QED  BY <3>1, <3>2, <3>3 DEF Places
  <2>8. WipeIsLast'  BY <1>1, <2>7 DEF WipeIsLast, Ending
  <2>9. NoClientForgotten'
    BY <1>1, <1>8, <2>1 DEF NoClientForgotten, Held, Local, MayReplace, Places
  <2>. QED  BY <1>3, <1>5, <2>3, <2>4, <2>5, <2>6, <2>8, <2>9
<1>. QED  BY <1>6, <1>7, <1>8

LEMMA DiscardStep ==
  ASSUME IInv, NEW p \in Callers, Discard(p)
  PROVE  IInv'
<1>. USE DEF IInv, Discard, Return, manager, connecting, ending, handle
<1>1. {fresh[p]} \in SUBSET Session  BY DEF Sessions, Places
<1>2. shut' = shut \cup {fresh[p]} /\ shut' \in SUBSET Session /\ deleted' \in SUBSET Session
  BY <1>1, CloseType
<1>3. Flags'  BY Zenon DEF Flags
<1>4. Places'  BY <1>2 DEF Places
<1>5. Lock'  BY DEF Lock, Places
<1>6. Budget'  BY DEF Budget, HasDialed, Places, Lock
<1>7. Sessions'  BY DEF Sessions, Active, HasDialed, Places, Lock
<1>8. Connecting'  BY DEF Connecting, Places
<1>9. Ending'  BY DEF Ending, Places
<1>10. WipeIsLast'  BY DEF WipeIsLast
<1>11. NoClientForgotten'  BY <1>2 DEF NoClientForgotten, Held, Local, Places
<1>. QED  BY <1>3, <1>4, <1>5, <1>6, <1>7, <1>8, <1>9, <1>10, <1>11

LEMMA RetryReturnsStep ==
  ASSUME IInv, NEW p \in Callers, RetryReturns(p)
  PROVE  IInv'
<1>. USE DEF IInv, RetryReturns, MayTurnTerminal, Return, manager, connecting, ending,
            handle, sessions
<1>1. Flags'  BY Zenon DEF Flags
<1>2. Places'  BY DEF Places
<1>3. Lock'  BY DEF Lock, Places
<1>4. Budget'  BY DEF Budget, HasDialed, Places, Lock, Connecting
<1>5. Sessions'  BY DEF Sessions, Active, HasDialed, Places, Lock, Connecting
<1>6. Connecting'  BY DEF Connecting, Ending, Places
<1>7. Ending'  BY DEF Ending, Connecting, Places
<1>8. WipeIsLast'  BY DEF WipeIsLast, Ending, Places, Connecting
<1>9. NoClientForgotten'  BY DEF NoClientForgotten, Held, Local, Connecting, Ending, Places
<1>. QED  BY <1>1, <1>2, <1>3, <1>4, <1>5, <1>6, <1>7, <1>8, <1>9

LEMMA NextIInv == IInv /\ [Next]_vars => IInv'
<1>. SUFFICES ASSUME IInv, [Next]_vars PROVE IInv'  OBVIOUS
<1>1. CASE ConnectBegins \/ ConnectStep
  BY <1>1, ConnectBeginsStep, BeginSetupStep, ConsentReturnsStep, InstallTokensStep,
     ConnectDialsStep, ConnectReturnsStep, ToolsListedStep, RegisterStep, FailShutsDownStep,
     FailClosesStep, ConnectRemoteReturnsStep
  DEF ConnectStep
<1>2. CASE \E p \in Callers : Call(p) \/ Expire(p) \/ CallerStep(p) \/ LockReconnect(p)
  BY <1>2, CallStep, ExpireStep, EnterStep, SnapshotStep, CallReturnsStep, LockReconnectStep,
     GiveUpStep, ReconsiderStep, DialStep, ReplaceStep, DiscardStep, RetryReturnsStep
  DEF CallerStep
<1>3. CASE \E c \in Session : CloseReplaced(c)  BY <1>3, CloseReplacedStep
<1>4. CASE ShutdownMarks \/ ShutdownStep
  BY <1>4, ShutdownMarksStep, ReadHandlesStep, ReadPendingStep, TakeClientStep,
     ShutdownReturnedStep, EnterOnceStep, LeaveOnceStep, CloseSendsStep, CloseReturnsStep,
     GraceEndsStep, WipeStep
  DEF ShutdownStep
<1>5. CASE UNCHANGED vars
  <2>. USE <1>5 DEF IInv, vars, manager, connecting, ending, handle, sessions, calls
  <2>1. Flags' /\ Places'  BY DEF Flags, Places
  <2>2. Lock' /\ Budget' /\ Sessions'  BY CallsFrame
  <2>3. Connecting' /\ Ending'  BY DEF Connecting, Ending
  <2>4. WipeIsLast' /\ NoClientForgotten'  BY DEF WipeIsLast, NoClientForgotten, Held, Local
  <2>. QED  BY <2>1, <2>2, <2>3, <2>4
<1>. QED  BY <1>1, <1>2, <1>3, <1>4, <1>5 DEF Next
-----------------------------------------------------------------------------
(* The invariant the theorems below follow from.                            *)
THEOREM Inductive == Spec => []IInv
<1>. QED  BY InitIInv, NextIInv, PTL DEF Spec

(* The remote's, the callers' and Shutdown's state keep their types; in     *)
(* particular never more than MaxRespawns sessions replace the first.       *)
THEOREM TypeCorrect == Spec => []TypeOK
<1>1. IInv => TypeOK  BY DEF IInv, TypeOK
<1>. QED  BY <1>1, Inductive, PTL

(* remoteHandle.gen, compared under rmu: a caller dials only in place of    *)
(* the session that failed it and retries only on a later one.              *)
THEOREM RetriesMoveForwardHolds == Spec => []RetriesMoveForward
<1>1. IInv => RetriesMoveForward
  BY DEF IInv, Sessions, Active, RetriesMoveForward, Places
<1>. QED  BY <1>1, Inductive, PTL

(* doShutdown: credentials are wiped when nothing that needs or brings one  *)
(* is under way, and none is live again.                                    *)
THEOREM WipeIsLastHolds == Spec => []WipeIsLast
<1>1. IInv => WipeIsLast  BY DEF IInv
<1>. QED  BY <1>1, Inductive, PTL

(* Whoever connects, reconnects, fails or shuts down: every session dialed  *)
(* is in use, held by one who will close it, or closed, but for the one     *)
(* that doShutdown(nil) overlooks.                                          *)
THEOREM NoClientForgottenHolds == Spec => []NoClientForgotten
<1>1. IInv => NoClientForgotten  BY DEF IInv
<1>. QED  BY <1>1, Inductive, PTL
=============================================================================

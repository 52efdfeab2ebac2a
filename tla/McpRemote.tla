------------------------------ MODULE McpRemote ------------------------------
(***************************************************************************)
(* One remote MCP server under internal/mcp's Manager: ConnectRemote with  *)
(* its consent, any number of goroutines in remoteCaller.CallTool and      *)
(* reconnect, and Manager.Shutdown.  Three paths lead to remote.shutdown   *)
(* (ConnectRemote's own failure, the connected handle, the pending entry)  *)
(* and a sync.Once lets the first through.  A request is abstracted to its *)
(* outcome; RemoteAuth models the token behind it.                         *)
(***************************************************************************)
EXTENDS Naturals, FiniteSets

CONSTANTS Callers,     (* goroutines that call this server's tools *)
          MaxRespawns  (* maxRespawns: reconnects of one remote    *)


Session == 1 .. MaxRespawns + 1  (* the k-th session dialed, with its Client  *)
Nil == 0                         (* a nil *Client                             *)
Nobody == "nobody"               (* no holder of a lock                       *)
Closer == {"fail", "handle", "pending"}  (* the callers of remote.shutdown    *)

ASSUME McpRemoteAssumption == MaxRespawns \in Nat /\ Nobody \notin Callers

VARIABLES
  down,        (* Manager.shutdown                                           *)
  registered,  (* the handle is in Manager.remotes                           *)
  pending,     (* the remote is in Manager.pending                           *)
  sd,          (* where Manager.Shutdown is                                  *)
  conn,        (* where ConnectRemote is                                     *)
  connClient,  (* its local client                                           *)
  setup,       (* remote.setup counts its connect                            *)
  tok,         (* remote.tok                                                 *)
  failed,      (* remote.failure is set                                      *)
  closing,     (* remote.closing                                             *)
  cancelled,   (* transportCtx and authCtx are cancelled                     *)
  once,        (* who runs, or ran, doShutdown; Nobody before                *)
  stage,       (* where doShutdown is                                        *)
  closeCall,   (* its goroutine in Client.Close                              *)
  closer,      (* where each caller of remote.shutdown is                    *)
  arg,         (* the client it passes                                       *)
  client, gen, reconnects, hclosed,  (* the fields of remoteHandle           *)
  rmu,         (* the caller holding remoteHandle.rmu                        *)
  bg,          (* replaced clients being closed in the background            *)
  opened,      (* sessions dialed so far                                     *)
  shut,        (* clients on which Close was called                          *)
  deleted,     (* sessions whose DELETE left with live credentials           *)
  pc,          (* where each caller is in CallTool                           *)
  used, seen,  (* the client and the generation of its snapshot              *)
  fresh,       (* the client it dialed or retries on                         *)
  late         (* callers whose one deadline has passed                      *)

manager == <<down, registered, pending, sd>>
connecting == <<conn, connClient, setup>>
handle == <<client, gen, reconnects, hclosed>>
ending == <<closing, cancelled, once, stage, closeCall, closer, arg>>
sessions == <<opened, shut, deleted>>
calls == <<pc, used, seen, fresh, late, rmu>>
vars == <<manager, connecting, tok, failed, ending, handle, bg, sessions, calls>>
-----------------------------------------------------------------------------
(* A DELETE needs a token: accessToken refuses one that was wiped, the     *)
(* transport a remote in a terminal state or aborted.                      *)
CanSend == tok = "live" /\ ~failed /\ ~cancelled

(* Client.Close on each of S: the SDK sends the session's DELETE if it can  *)
(* (an aborted transport that still lets one slip through is ignored).     *)
Close(S) ==
  /\ shut' = shut \cup S
  /\ deleted' = IF CanSend THEN deleted \cup S ELSE deleted

(* A request may leave the remote in a terminal state: the first one stays. *)
MayTurnTerminal == failed' \in {failed, TRUE}

(* The remote refuses calls (remoteCaller.unavailable).                    *)
Unavailable == failed \/ down \/ closing

(* dial's own checks, and requests that fail once the transport is aborted. *)
DialCanSucceed == tok = "live" /\ ~failed /\ ~cancelled

Local(c) == IF c = Nil THEN {} ELSE {c}
-----------------------------------------------------------------------------
Init ==
  /\ down = FALSE /\ registered = FALSE /\ pending = FALSE /\ sd = "off"
  /\ conn = "off" /\ connClient = Nil /\ setup = FALSE
  /\ tok = "none" /\ failed = FALSE
  /\ closing = FALSE /\ cancelled = FALSE /\ once = Nobody /\ stage = "off"
  /\ closeCall = "none"
  /\ closer = [x \in Closer |-> "off"] /\ arg = [x \in Closer |-> Nil]
  /\ client = Nil /\ gen = 0 /\ reconnects = 0 /\ hclosed = FALSE /\ rmu = Nobody
  /\ bg = {} /\ opened = 0 /\ shut = {} /\ deleted = {}
  /\ pc = [p \in Callers |-> "idle"] /\ late = {}
  /\ used = [p \in Callers |-> Nil] /\ seen = [p \in Callers |-> 0]
  /\ fresh = [p \in Callers |-> Nil]

(* ConnectRemote refuses a manager shut down, else enters Manager.pending. *)
ConnectBegins ==
  /\ conn = "off"
  /\ IF down THEN conn' = "done" /\ UNCHANGED pending
             ELSE conn' = "begin" /\ pending' = TRUE
  /\ UNCHANGED <<down, registered, sd, connClient, setup, tok, failed, ending, handle, bg,
                 sessions, calls>>

(* remote.beginSetup, under setupMu.                                       *)
BeginSetup ==
  /\ conn = "begin"
  /\ IF closing THEN conn' = "failing" /\ UNCHANGED setup
                ELSE conn' = "consent" /\ setup' = TRUE
  /\ UNCHANGED <<manager, connClient, tok, failed, ending, handle, bg, sessions, calls>>

(* runConsent hands over tokens, or fails or is cancelled.                 *)
ConsentReturns ==
  /\ conn = "consent"
  /\ \/ conn' = "install" /\ UNCHANGED setup
     \/ conn' = "failing" /\ setup' = FALSE
  /\ UNCHANGED <<manager, connClient, tok, failed, ending, handle, bg, sessions, calls>>

(* "credentials that arrive once shutdown has begun are wiped".            *)
MayInstall == ~closing

InstallTokens ==
  /\ conn = "install"
  /\ IF MayInstall THEN conn' = "dial" /\ tok' = "live" /\ UNCHANGED setup
                   ELSE conn' = "failing" /\ setup' = FALSE /\ UNCHANGED tok
  /\ UNCHANGED <<manager, connClient, failed, ending, handle, bg, sessions, calls>>

(* connect's dial; a request let through before closing may still succeed. *)
ConnectDials ==
  /\ conn = "dial"
  /\ \/ /\ DialCanSucceed
        /\ opened' = opened + 1 /\ connClient' = opened + 1 /\ conn' = "opened"
        /\ UNCHANGED <<setup, failed>>
     \/ /\ conn' = "failing" /\ setup' = FALSE
        /\ MayTurnTerminal /\ UNCHANGED <<opened, connClient>>
  /\ UNCHANGED <<manager, tok, ending, handle, bg, shut, deleted, calls>>

(* connect's last check, "while the credentials are still live".           *)
ConnectReturns ==
  /\ conn = "opened"
  /\ setup' = FALSE
  /\ IF closing THEN Close({connClient}) /\ conn' = "failing" /\ connClient' = Nil
                ELSE conn' = "list" /\ UNCHANGED <<connClient, shut, deleted>>
  /\ UNCHANGED <<manager, tok, failed, ending, handle, bg, opened, calls>>

(* ListTools and the allowlist: tools to offer, or a failure.              *)
ToolsListed ==
  /\ conn = "list"
  /\ \/ conn' = "register" /\ ~failed /\ UNCHANGED failed
     \/ conn' = "failing" /\ MayTurnTerminal
  /\ UNCHANGED <<manager, connClient, setup, tok, ending, handle, bg, sessions, calls>>

(* The handle enters Manager.remotes, under Manager.mu.                    *)
Register ==
  /\ conn = "register"
  /\ IF down THEN conn' = "failing" /\ UNCHANGED <<registered, client, connClient>>
     ELSE /\ conn' = "returning" /\ registered' = TRUE
          /\ client' = connClient /\ connClient' = Nil
  /\ UNCHANGED <<down, pending, sd, setup, tok, failed, ending, gen, reconnects, hclosed, bg,
                 sessions, calls>>

(* fail: remote.shutdown first ...                                         *)
FailShutsDown ==
  /\ conn = "failing"
  /\ closer' = [closer EXCEPT !["fail"] = "once"]
  /\ arg' = [arg EXCEPT !["fail"] = connClient]
  /\ conn' = "closing"
  /\ UNCHANGED <<manager, connClient, setup, tok, failed, closing, cancelled, once, stage,
                 closeCall, handle, bg, sessions, calls>>

(* ... then the client once more, should that have been a no-op.           *)
FailCloses ==
  /\ conn = "closing" /\ closer["fail"] = "returned"
  /\ Close(Local(connClient)) /\ connClient' = Nil
  /\ conn' = "returning"
  /\ UNCHANGED <<manager, setup, tok, failed, ending, handle, bg, opened, calls>>

(* The deferred function leaves Manager.pending.                           *)
ConnectRemoteReturns ==
  /\ conn = "returning"
  /\ conn' = "done" /\ pending' = FALSE
  /\ UNCHANGED <<down, registered, sd, connClient, setup, tok, failed, ending, handle, bg,
                 sessions, calls>>

ConnectStep ==
  \/ BeginSetup \/ ConsentReturns \/ InstallTokens \/ ConnectDials \/ ConnectReturns
  \/ ToolsListed \/ Register \/ FailShutsDown \/ FailCloses \/ ConnectRemoteReturns
-----------------------------------------------------------------------------
(* CallTool; the tools are callable once ConnectRemote has returned.       *)
Call(p) ==
  /\ pc[p] = "idle" /\ conn = "done" /\ registered
  /\ pc' = [pc EXCEPT ![p] = "enter"]
  /\ UNCHANGED <<manager, connecting, tok, failed, ending, handle, bg, sessions, used, seen,
                 fresh, late, rmu>>

(* One deadline covers the call, any reconnect and the retry.              *)
Expire(p) ==
  /\ pc[p] # "idle"
  /\ late' = late \cup {p}
  /\ UNCHANGED <<manager, connecting, tok, failed, ending, handle, bg, sessions, pc, used,
                 seen, fresh, rmu>>

Return(p) ==
  /\ pc' = [pc EXCEPT ![p] = "idle"] /\ late' = late \ {p}
  /\ fresh' = [fresh EXCEPT ![p] = Nil]
  /\ used' = [used EXCEPT ![p] = Nil] /\ seen' = [seen EXCEPT ![p] = 0]

Goto(p, where) == pc' = [pc EXCEPT ![p] = where] /\ UNCHANGED <<late, used, seen, fresh>>

(* unavailable, then the snapshot of client and generation.                *)
Enter(p) ==
  /\ pc[p] = "enter"
  /\ IF Unavailable THEN Return(p) ELSE Goto(p, "snapshot")
  /\ UNCHANGED <<manager, connecting, tok, failed, ending, handle, bg, sessions, rmu>>

Snapshot(p) ==
  /\ pc[p] = "snapshot"
  /\ IF client = Nil THEN Return(p)
     ELSE /\ pc' = [pc EXCEPT ![p] = "calling"]
          /\ used' = [used EXCEPT ![p] = client] /\ seen' = [seen EXCEPT ![p] = gen]
          /\ UNCHANGED <<late, fresh>>
  /\ UNCHANGED <<manager, connecting, tok, failed, ending, handle, bg, sessions, rmu>>

(* An answer, a JSON-RPC error, a deadline or a terminal state ends the    *)
(* call; another failure on a remote in order is reconnectable.            *)
CallReturns(p) ==
  /\ pc[p] = "calling"
  /\ MayTurnTerminal
  /\ Return(p) \/ (~failed' /\ ~Unavailable /\ p \notin late /\ Goto(p, "queue"))
  /\ UNCHANGED <<manager, connecting, tok, ending, handle, bg, sessions, rmu>>

(* rmu.LockCtx: the lock, or the caller's deadline.                        *)
LockReconnect(p) ==
  /\ pc[p] = "queue" /\ rmu = Nobody
  /\ Goto(p, "locked") /\ rmu' = p
  /\ UNCHANGED <<manager, connecting, tok, failed, ending, handle, bg, sessions>>

WaitsWithoutBound(p) == FALSE

MayGiveUp(p) == p \in late

GiveUp(p) ==
  /\ pc[p] = "queue" /\ MayGiveUp(p)
  /\ Return(p)
  /\ UNCHANGED <<manager, connecting, tok, failed, ending, handle, bg, sessions, rmu>>

(* Nobody has replaced the session that failed.                            *)
SameSession(p) == gen = seen[p]

Exhausted == reconnects >= MaxRespawns

(* Under the lock: give up, use the session another caller dialed, or dial. *)
Reconsider(p) ==
  /\ pc[p] = "locked"
  /\ \/ /\ \/ p \in late \/ hclosed
           \/ SameSession(p) /\ (Unavailable \/ Exhausted)
        /\ Return(p) /\ rmu' = Nobody
     \/ /\ p \notin late /\ ~hclosed /\ ~SameSession(p)
        /\ rmu' = Nobody
        /\ pc' = [pc EXCEPT ![p] = "retrying"]
        /\ fresh' = [fresh EXCEPT ![p] = client] /\ UNCHANGED <<late, used, seen>>
     \/ /\ p \notin late /\ ~hclosed /\ SameSession(p) /\ ~Unavailable /\ ~Exhausted
        /\ Goto(p, "dial") /\ UNCHANGED rmu
  /\ UNCHANGED <<manager, connecting, tok, failed, ending, handle, bg, sessions>>

Dial(p) ==
  /\ pc[p] = "dial"
  /\ pc' = [pc EXCEPT ![p] = "dialed"] /\ UNCHANGED <<late, used, seen>>
  /\ \/ /\ DialCanSucceed /\ p \notin late
        /\ opened' = opened + 1 /\ fresh' = [fresh EXCEPT ![p] = opened + 1]
        /\ UNCHANGED failed
     \/ MayTurnTerminal /\ UNCHANGED <<opened, fresh>>
  /\ UNCHANGED <<manager, connecting, tok, ending, handle, bg, shut, deleted, rmu>>

Unclosed == TRUE

MayReplace == ~hclosed

(* Under remoteHandle.mu: count it, and install it unless closed.          *)
Replace(p) ==
  /\ pc[p] = "dialed"
  /\ reconnects' = reconnects + 1
  /\ \/ /\ fresh[p] = Nil
        /\ Return(p) /\ rmu' = Nobody /\ UNCHANGED <<client, gen, bg>>
     \/ /\ fresh[p] # Nil /\ ~MayReplace
        /\ Goto(p, "discard") /\ UNCHANGED <<client, gen, bg, rmu>>
     \/ /\ fresh[p] # Nil /\ MayReplace
        /\ client' = fresh[p] /\ gen' = gen + 1
        /\ bg' = bg \cup Local(client)
        /\ Goto(p, "retrying") /\ rmu' = Nobody
  /\ UNCHANGED <<manager, connecting, tok, failed, ending, hclosed, sessions>>

(* The remote closed meanwhile: the new session is closed at once.         *)
Discard(p) ==
  /\ pc[p] = "discard"
  /\ Close({fresh[p]}) /\ Return(p) /\ rmu' = Nobody
  /\ UNCHANGED <<manager, connecting, tok, failed, ending, handle, bg, opened>>

RetryReturns(p) ==
  /\ pc[p] = "retrying"
  /\ MayTurnTerminal /\ Return(p)
  /\ UNCHANGED <<manager, connecting, tok, ending, handle, bg, sessions, rmu>>

(* The goroutine that closes a replaced client, counted by remote.bg.      *)
CloseReplaced(c) ==
  /\ c \in bg
  /\ Close({c}) /\ bg' = bg \ {c}
  /\ UNCHANGED <<manager, connecting, tok, failed, ending, handle, opened, calls>>

CallerStep(p) ==
  \/ Enter(p) \/ Snapshot(p) \/ CallReturns(p) \/ GiveUp(p) \/ Reconsider(p) \/ Dial(p)
  \/ Replace(p) \/ Discard(p) \/ RetryReturns(p)
-----------------------------------------------------------------------------
(* Manager.Shutdown, once the stdio servers are closed.                    *)
ShutdownMarks ==
  /\ sd = "off"
  /\ down' = TRUE /\ sd' = "handles"
  /\ UNCHANGED <<registered, pending, connecting, tok, failed, ending, handle, bg, sessions,
                 calls>>

(* shutdownRemotes reads Manager.remotes, then Manager.pending.            *)
ReadHandles ==
  /\ sd = "handles"
  /\ closer' = [closer EXCEPT !["handle"] = IF registered THEN "take" ELSE "returned"]
  /\ sd' = "pending"
  /\ UNCHANGED <<down, registered, pending, connecting, tok, failed, closing, cancelled, once,
                 stage, closeCall, arg, handle, bg, sessions, calls>>

ReadPending ==
  /\ sd = "pending"
  /\ closer' = [closer EXCEPT !["pending"] = IF pending THEN "once" ELSE "returned"]
  /\ sd' = "join"
  /\ UNCHANGED <<down, registered, pending, connecting, tok, failed, closing, cancelled, once,
                 stage, closeCall, arg, handle, bg, sessions, calls>>

(* remoteHandle.shutdown stops reconnects and takes the client.            *)
TakeClient ==
  /\ closer["handle"] = "take" /\ sd = "join"
  /\ hclosed' = TRUE /\ client' = Nil
  /\ closer' = [closer EXCEPT !["handle"] = "once"]
  /\ arg' = [arg EXCEPT !["handle"] = client]
  /\ UNCHANGED <<manager, connecting, tok, failed, closing, cancelled, once, stage, closeCall,
                 gen, reconnects, bg, sessions, calls>>

ShutdownReturned ==
  /\ sd = "join" /\ closer["handle"] = "returned" /\ closer["pending"] = "returned"
  /\ sd' = "done"
  /\ UNCHANGED <<down, registered, pending, connecting, tok, failed, ending, handle, bg,
                 sessions, calls>>

(* shutOnce: the first caller runs doShutdown; closing is set under setupMu. *)
EnterOnce(x) ==
  /\ closer[x] = "once" /\ once = Nobody
  /\ once' = x /\ closing' = TRUE
  /\ stage' = "grace"
  /\ closeCall' = IF arg[x] = Nil THEN "returned" ELSE "called"
  /\ UNCHANGED <<manager, connecting, tok, failed, cancelled, closer, arg, handle, bg,
                 sessions, calls>>

(* The others wait for the first.                                          *)
LeaveOnce(x) ==
  /\ closer[x] = "once" /\ stage = "done"
  /\ closer' = [closer EXCEPT ![x] = "returned"]
  /\ UNCHANGED <<manager, connecting, tok, failed, closing, cancelled, once, stage, closeCall,
                 arg, handle, bg, sessions, calls>>

(* doShutdown's goroutine sends the DELETE; it may wait for an answer until *)
(* the transport is aborted.                                               *)
CloseSends ==
  /\ closeCall = "called"
  /\ Close({arg[once]})
  /\ closeCall' = "sent"
  /\ UNCHANGED <<manager, connecting, tok, failed, closing, cancelled, once, stage, closer, arg,
                 handle, bg, opened, calls>>

CloseReturns ==
  /\ closeCall = "sent"
  /\ closeCall' = "returned"
  /\ UNCHANGED <<manager, connecting, tok, failed, closing, cancelled, once, stage, closer, arg,
                 handle, bg, sessions, calls>>

(* Close has returned or the timer fires.                                  *)
EndsGrace == closeCall \in {"called", "sent", "returned"}

(* The grace is over: abort transport and refreshes together.              *)
GraceEnds ==
  /\ stage = "grace" /\ EndsGrace
  /\ cancelled' = TRUE /\ stage' = "join"
  /\ UNCHANGED <<manager, connecting, tok, failed, closing, once, closeCall, closer, arg, handle,
                 bg, sessions, calls>>

JoinedWithoutSetup == closeCall = "returned" /\ bg = {}

(* Close has returned, no connect is in flight, no background close runs.  *)
Joined == closeCall = "returned" /\ ~setup /\ bg = {}

Wipe ==
  /\ stage = "join" /\ Joined
  /\ tok' = IF tok = "live" THEN "wiped" ELSE tok
  /\ stage' = "done"
  /\ UNCHANGED <<manager, connecting, failed, closing, cancelled, once, closeCall, closer, arg,
                 handle, bg, sessions, calls>>

ShutdownStep ==
  \/ ReadHandles \/ ReadPending \/ TakeClient \/ ShutdownReturned
  \/ \E x \in Closer : EnterOnce(x) \/ LeaveOnce(x)
  \/ CloseSends \/ CloseReturns \/ GraceEnds \/ Wipe

Next ==
  \/ ConnectBegins \/ ConnectStep
  \/ \E p \in Callers : Call(p) \/ Expire(p) \/ CallerStep(p) \/ LockReconnect(p)
  \/ \E c \in Session : CloseReplaced(c)
  \/ ShutdownMarks \/ ShutdownStep

Spec == Init /\ [][Next]_vars

(* Goroutines run and deadlines pass; requests end by their context, the   *)
(* DELETE of Shutdown only once the transport is aborted.                  *)
(* Nothing makes anyone connect, call or shut down, and the reconnect lock *)
(* may go to another caller for ever: that caller gives up when late.      *)
FairSpec ==
  /\ Spec
  /\ WF_vars(ConnectStep)
  /\ \A p \in Callers : WF_vars(Expire(p)) /\ WF_vars(CallerStep(p))
  /\ \A c \in Session : WF_vars(CloseReplaced(c))
  /\ WF_vars(ReadHandles) /\ WF_vars(ReadPending) /\ WF_vars(TakeClient)
  /\ WF_vars(ShutdownReturned)
  /\ \A x \in Closer : WF_vars(EnterOnce(x)) /\ WF_vars(LeaveOnce(x))
  /\ WF_vars(CloseSends) /\ WF_vars(cancelled /\ CloseReturns)
  /\ WF_vars(GraceEnds) /\ WF_vars(Wipe)
-----------------------------------------------------------------------------
Flags ==
  /\ down \in BOOLEAN /\ registered \in BOOLEAN /\ pending \in BOOLEAN /\ setup \in BOOLEAN
  /\ failed \in BOOLEAN /\ closing \in BOOLEAN /\ cancelled \in BOOLEAN /\ hclosed \in BOOLEAN

Places ==
  /\ sd \in {"off", "handles", "pending", "join", "done"}
  /\ conn \in {"off", "begin", "consent", "install", "dial", "opened", "list", "register",
               "failing", "closing", "returning", "done"}
  /\ connClient \in Session \cup {Nil} /\ client \in Session \cup {Nil}
  /\ tok \in {"none", "live", "wiped"}
  /\ once \in Closer \cup {Nobody} /\ stage \in {"off", "grace", "join", "done"}
  /\ closeCall \in {"none", "called", "sent", "returned"}
  /\ closer \in [Closer -> {"off", "take", "once", "returned"}]
  /\ arg \in [Closer -> Session \cup {Nil}]
  /\ gen \in 0 .. MaxRespawns /\ reconnects \in 0 .. MaxRespawns
  /\ rmu \in Callers \cup {Nobody} /\ opened \in 0 .. MaxRespawns + 1
  /\ bg \in SUBSET Session /\ shut \in SUBSET Session /\ deleted \in SUBSET Session
  /\ late \in SUBSET Callers
  /\ pc \in [Callers -> {"idle", "enter", "snapshot", "calling", "queue", "locked", "dial",
                         "dialed", "discard", "retrying"}]
  /\ used \in [Callers -> Session \cup {Nil}] /\ fresh \in [Callers -> Session \cup {Nil}]
  /\ seen \in [Callers -> 0 .. MaxRespawns]

TypeOK == Flags /\ Places

(* "only then zero": once the credentials are wiped none is live again, and *)
(* nothing that needs or brings one is under way - no connect, no Close of  *)
(* doShutdown's own client, no replaced client being closed.                *)
WipeIsLast ==
  stage = "done" =>
    /\ tok # "live" /\ ~setup /\ bg = {}
    /\ closeCall = "returned"

(* A caller dials only in place of the very session that failed it, and    *)
(* retries only on one dialed later: callers that fail together cause one  *)
(* reconnect (the generation compared under rmu).                          *)
RetriesMoveForward ==
  \A p \in Callers :
    /\ pc[p] \in {"dial", "dialed"} => gen = seen[p] /\ client \in {used[p], Nil}
    /\ pc[p] = "retrying" => fresh[p] > used[p]

(* Who still has to close a client.                                        *)
Held ==
  (IF hclosed THEN {} ELSE Local(client)) \cup Local(connClient) \cup bg
    \cup {fresh[p] : p \in {q \in Callers : pc[q] \in {"dialed", "discard"}}}
    \cup {arg[x] : x \in {y \in Closer : once \in {y, Nobody}}}

(* No client is forgotten: it is in use, about to be closed, or closed.    *)
(* Except when the pending entry of a remote that has just been registered *)
(* wins shutOnce: doShutdown(nil) then closes nothing (SessionCannotLinger). *)
NoClientForgotten ==
  ~(once = "pending" /\ registered) => 1 .. opened \subseteq Held \cup shut

(* Every call returns, whatever fails, reconnects or shuts down meanwhile. *)
RemoteCallsReturn == \A p \in Callers : pc[p] = "enter" ~> pc[p] = "idle"

(* Manager.Shutdown returns, with a consent pending, a call stalled or a   *)
(* DELETE unanswered.                                                      *)
RemoteShutdownReturns == down ~> sd = "done"

(* Neither side waits for the other for ever.                              *)
EveryoneReturns == RemoteCallsReturn /\ RemoteShutdownReturns

(* "If Manager.Shutdown closed this remote first, shutdown above was a     *)
(* no-op; close the session here so it cannot linger": when ConnectRemote  *)
(* and Shutdown have returned and the remote never failed, the DELETE of   *)
(* the session ConnectRemote opened has left, though the doShutdown that   *)
(* ran was given no client to close.                                       *)
SessionCannotLinger ==
  sd = "done" /\ conn = "done" /\ ~failed /\ opened = 1 /\ once = "pending" => 1 \in deleted
=============================================================================

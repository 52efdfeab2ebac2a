----------------------------- MODULE McpManager -----------------------------
(***************************************************************************)
(* One MCP stdio server under internal/mcp's Manager: the calls of any     *)
(* number of goroutines through handleCaller.CallTool, the respawn a       *)
(* failed call attempts (tryRespawn), Shutdown, and the subprocess dying   *)
(* at any moment.  Servers share nothing but Manager.mu, whose sections    *)
(* are short and modelled as one step; the handle's RWMutex is modelled    *)
(* with its readers and its waiting writers.                               *)
(***************************************************************************)
EXTENDS Naturals, FiniteSets

CONSTANTS Callers,      (* goroutines that call this server's tools *)
          MaxRespawns   (* maxRespawns                              *)

ASSUME McpManagerAssumption == Callers # {} /\ MaxRespawns \in Nat \ {0}

Client == 1 .. MaxRespawns   (* the k-th subprocess spawned is client k *)
None == 0                    (* a nil *Client *)

VARIABLES
  shutdown,    (* Manager.shutdown                                          *)
  sd,          (* where the goroutine in Shutdown is                        *)
  client,      (* serverHandle.client                                       *)
  spawns,      (* serverHandle.spawns                                       *)
  respawning,  (* serverHandle.respawning                                   *)
  process,     (* each subprocess                                           *)
  pc,          (* where each caller is in CallTool and tryRespawn           *)
  held,        (* the client in each caller's local variable                *)
  waiting      (* callers blocked in serverHandle.mu.Lock                   *)

vars == <<shutdown, sd, client, spawns, respawning, process, pc, held, waiting>>

handle == <<client, spawns, respawning>>
manager == <<shutdown, sd>>
-----------------------------------------------------------------------------
(* The calls the client is serving, the first time or retried.             *)
InFlight == {p \in Callers : pc[p] \in {"calling", "retrying"}}

ReadersUntilReturn == InFlight \cup {p \in Callers : pc[p] = "failed"}

(* Who holds serverHandle.mu for reading: CallTool unlocks it when its     *)
(* client answers, before tryRespawn locks it for writing.                 *)
Readers == InFlight

(* A waiting writer keeps new readers of a sync.RWMutex out.               *)
MayRead == waiting = {} /\ sd # "lock"

WriteIgnoringReaders == TRUE

MayWrite == Readers = {}

Busy == respawning

Exhausted == spawns >= MaxRespawns

SpawnsAfter(c) == IF c = None THEN spawns ELSE spawns + 1

NotClosed(c) == process

(* Client.Close ends the session and kills the subprocess.                 *)
Closed(c) == IF c = None THEN process ELSE [process EXCEPT ![c] = "closed"]

Goto(p, where, c) ==
  /\ pc' = [pc EXCEPT ![p] = where]
  /\ held' = [held EXCEPT ![p] = c]
-----------------------------------------------------------------------------
Init ==
  /\ shutdown = FALSE /\ sd = "off"
  /\ client = None /\ spawns = 0 /\ respawning = FALSE
  /\ process = [c \in Client |-> "none"]
  /\ pc = [p \in Callers |-> "unregistered"]
  /\ held = [p \in Callers |-> None]
  /\ waiting = {}

(* LoadAll: the server is connected, its tools are listed and registered.  *)
LoadSucceeds ==
  /\ pc = [p \in Callers |-> "unregistered"] /\ process[1] = "none"
  /\ client' = 1 /\ spawns' = 1
  /\ process' = [process EXCEPT ![1] = "running"]
  /\ pc' = [p \in Callers |-> "idle"]
  /\ UNCHANGED <<manager, respawning, held, waiting>>

(* tools/list fails: the client is closed and the server skipped.          *)
LoadFails ==
  /\ pc = [p \in Callers |-> "unregistered"] /\ process[1] = "none"
  /\ process' = [process EXCEPT ![1] = "closed"]
  /\ UNCHANGED <<manager, handle, pc, held, waiting>>

(* CallTool reads the shutdown flag under Manager.mu.                      *)
Call(p) ==
  /\ pc[p] = "idle" /\ ~shutdown
  /\ Goto(p, "enter", None)
  /\ UNCHANGED <<manager, handle, process, waiting>>

(* CallTool takes the handle's read lock and keeps it during the call.     *)
Enter(p) ==
  /\ pc[p] = "enter" /\ MayRead
  /\ IF client = None THEN Goto(p, "idle", None) ELSE Goto(p, "calling", client)
  /\ UNCHANGED <<manager, handle, process, waiting>>

Succeed(p) ==
  /\ p \in InFlight /\ process[held[p]] = "running"
  /\ Goto(p, "idle", None)
  /\ UNCHANGED <<manager, handle, process, waiting>>

(* The call errs: the subprocess is gone, the caller's context ended, or   *)
(* the server answered with a JSON-RPC error.  The retry does not respawn. *)
Fail(p) ==
  /\ p \in InFlight
  /\ Goto(p, IF pc[p] = "calling" THEN "failed" ELSE "idle", None)
  /\ UNCHANGED <<manager, handle, process, waiting>>

(* The caller blocks in serverHandle.mu.Lock.                              *)
Block(p) ==
  /\ pc[p] \in {"failed", "spawned"} /\ p \notin waiting
  /\ waiting' = waiting \cup {p}
  /\ UNCHANGED <<manager, handle, process, pc, held>>

(* tryRespawn's first critical section.                                    *)
TryRespawn(p) ==
  /\ pc[p] = "failed" /\ p \in waiting /\ MayWrite
  /\ waiting' = waiting \ {p}
  /\ \/ /\ Busy
        /\ Goto(p, "idle", None) /\ UNCHANGED handle
     \/ /\ ~Busy /\ Exhausted
        /\ client' = None
        /\ Goto(p, "idle", None) /\ UNCHANGED <<spawns, respawning>>
     \/ /\ ~Busy /\ ~Exhausted
        /\ respawning' = TRUE
        /\ Goto(p, "closing", None) /\ UNCHANGED <<client, spawns>>
  /\ UNCHANGED <<manager, process>>

ReadOld(p) ==
  /\ pc[p] = "closing" /\ MayRead
  /\ Goto(p, "closeOld", client)
  /\ UNCHANGED <<manager, handle, process, waiting>>

(* Close runs outside the lock.                                            *)
CloseOld(p) ==
  /\ pc[p] = "closeOld"
  /\ process' = Closed(held[p])
  /\ Goto(p, "spawning", None)
  /\ UNCHANGED <<manager, handle, waiting>>

(* NewClient, on a background context, succeeds or fails.                  *)
Spawn(p) ==
  /\ pc[p] = "spawning"
  /\ \/ /\ Goto(p, "spawned", spawns + 1)
        /\ process' = [process EXCEPT ![spawns + 1] = "running"]
     \/ /\ Goto(p, "spawned", None)
        /\ UNCHANGED process
  /\ UNCHANGED <<manager, handle, waiting>>

(* tryRespawn's last critical section: it does not look at shutdown.       *)
Install(p) ==
  /\ pc[p] = "spawned" /\ p \in waiting /\ MayWrite
  /\ waiting' = waiting \ {p}
  /\ client' = held[p]
  /\ spawns' = SpawnsAfter(held[p])
  /\ respawning' = FALSE
  /\ Goto(p, IF held[p] = None THEN "idle" ELSE "retry", None)
  /\ UNCHANGED <<manager, process>>

(* CallTool retries once on whatever client the handle has by then.        *)
Retry(p) ==
  /\ pc[p] = "retry" /\ MayRead
  /\ IF client = None THEN Goto(p, "idle", None) ELSE Goto(p, "retrying", client)
  /\ UNCHANGED <<manager, handle, process, waiting>>

(* The environment: the subprocess exits on its own.                       *)
Crash(c) ==
  /\ process[c] = "running"
  /\ process' = [process EXCEPT ![c] = "crashed"]
  /\ UNCHANGED <<manager, handle, pc, held, waiting>>

(* main runs LoadAll to its end before it can defer Shutdown.              *)
ShutdownMarks ==
  /\ sd = "off" /\ process[1] # "none"
  /\ shutdown' = TRUE /\ sd' = "marked"
  /\ UNCHANGED <<handle, process, pc, held, waiting>>

ShutdownBlocks ==
  /\ sd = "marked"
  /\ sd' = "lock"
  /\ UNCHANGED <<shutdown, handle, process, pc, held, waiting>>

ShutdownCloses ==
  /\ sd = "lock" /\ MayWrite
  /\ process' = Closed(client)
  /\ client' = None
  /\ sd' = "done"
  /\ UNCHANGED <<shutdown, spawns, respawning, pc, held, waiting>>

CallerStep(p) ==
  \/ Enter(p) \/ Block(p) \/ TryRespawn(p) \/ ReadOld(p) \/ CloseOld(p) \/ Spawn(p)
  \/ Install(p) \/ Retry(p)

Return(p) == Succeed(p) \/ Fail(p)

ShutdownStep == ShutdownBlocks \/ ShutdownCloses

Next ==
  \/ LoadSucceeds \/ LoadFails
  \/ \E p \in Callers : Call(p) \/ CallerStep(p) \/ Return(p)
  \/ \E c \in Client : Crash(c)
  \/ ShutdownMarks \/ ShutdownStep

Spec == Init /\ [][Next]_vars

(* Goroutines run, and a call answers or its context ends.  A sync.RWMutex *)
(* admits the readers that waited when a writer unlocks, so a caller that  *)
(* could take the lock again and again does: strong fairness.  Nothing     *)
(* makes a caller call, the subprocess crash or main shut down.            *)
FairSpec ==
  /\ Spec
  /\ \A p \in Callers : SF_vars(CallerStep(p)) /\ WF_vars(Return(p))
  /\ WF_vars(ShutdownStep)
-----------------------------------------------------------------------------
(* The callers between tryRespawn's two critical sections.                 *)
Respawning == {p \in Callers : pc[p] \in {"closing", "closeOld", "spawning", "spawned"}}

TypeOK ==
  /\ shutdown \in BOOLEAN /\ sd \in {"off", "marked", "lock", "done"}
  /\ client \in Client \cup {None} /\ spawns \in 0 .. MaxRespawns /\ respawning \in BOOLEAN
  /\ process \in [Client -> {"none", "running", "crashed", "closed"}]
  /\ pc \in [Callers -> {"unregistered", "idle", "enter", "calling", "failed", "closing",
                         "closeOld", "spawning", "spawned", "retry", "retrying"}]
  /\ held \in [Callers -> Client \cup {None}]
  /\ waiting \in SUBSET Callers

(* "At most one goroutine may respawn a given server at a time", and the   *)
(* flag says so exactly (serverHandle.respawning).                         *)
RespawnExclusive ==
  /\ respawning <=> Respawning # {}
  /\ \A p, q \in Respawning : p = q

(* A call in flight runs on the handle's current client: neither Shutdown  *)
(* nor a respawn replaces it underneath (the read lock held for the call). *)
CallsOnCurrentClient ==
  \A p \in InFlight : client # None /\ held[p] = client

(* "The spawns counter must accurately reflect the number of live          *)
(* processes ever started": it counts them all, bar one being installed.   *)
SpawnsAccurate ==
  \/ Cardinality({c \in Client : process[c] # "none"}) = spawns
  \/ \E p \in Callers :
       /\ pc[p] = "spawned" /\ held[p] = spawns + 1
       /\ Cardinality({c \in Client : process[c] # "none"}) = spawns + 1
  \/ pc = [p \in Callers |-> "unregistered"]

(* However calls, crashes, respawns and Shutdown interleave, two           *)
(* subprocesses of one server never run side by side.                      *)
OneProcess ==
  \A c, d \in Client : process[c] = "running" /\ process[d] = "running" => c = d

(* Every call returns, and so does Shutdown: the writers of serverHandle.mu *)
(* and the calls that hold it for reading never wait on each other forever. *)
CallsReturn == \A p \in Callers : pc[p] = "enter" ~> pc[p] = "idle"

ShutdownReturns == shutdown ~> sd = "done"

(* Neither side waits for the other for ever.                              *)
EveryoneReturns == CallsReturn /\ ShutdownReturns

(* Once Shutdown has returned and every call with it, no subprocess runs:  *)
(* "Shutdown closes all MCP server connections and kills subprocesses".    *)
ShutdownKillsAll ==
  sd = "done" /\ (\A p \in Callers : pc[p] = "idle") =>
    \A c \in Client : process[c] # "running"
=============================================================================

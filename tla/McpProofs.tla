----------------------------- MODULE McpProofs ------------------------------
(***************************************************************************)
(* Proofs about the MCP servers: McpManager, whose servers are             *)
(* subprocesses, for any set of callers and any spawn limit, and           *)
(* RemoteAuth, the OAuth session of a remote one, for any set of requests. *)
(***************************************************************************)
EXTENDS McpManager, RemoteAuth, FiniteSetTheorems, TLAPS

Registered == \A p \in Callers : pc[p] # "unregistered"

(* Until LoadAll has registered the server nothing has happened to it.     *)
LoadPhase ==
  ~Registered =>
    /\ pc = [p \in Callers |-> "unregistered"]
    /\ client = None /\ spawns = 0 /\ waiting = {}
    /\ process[1] \in {"none", "closed"}
    /\ \A c \in Client : c # 1 => process[c] = "none"

(* Only callers about to enter a critical section queue for the lock.      *)
WaitersBlocked ==
  \A p \in Callers : p \in waiting => pc[p] \in {"failed", "spawned"}

(* The respawner has room for one more process, and at each step knows     *)
(* which client it closes or has spawned.                                  *)
RespawnerKnows ==
  \A p \in Respawning :
    /\ spawns \in 1 .. MaxRespawns - 1
    /\ client = None => process[spawns] # "running"
    /\ pc[p] = "closeOld" =>
         \/ held[p] = spawns
         \/ held[p] = None /\ process[spawns] # "running"
    /\ pc[p] \in {"spawning", "spawned"} => process[spawns] # "running"
    /\ pc[p] = "spawned" => held[p] \in {None, spawns + 1}

(* The client the respawner has spawned and not installed yet.             *)
Pending(c) == \E p \in Callers : pc[p] = "spawned" /\ held[p] = c

(* Processes are numbered in the order they were spawned, the handle       *)
(* points at the last one or at none, and only the last can be alive.      *)
Processes ==
  /\ client \in {None, spawns}
  /\ client = None => spawns \in {0, MaxRespawns} \/ process[spawns] # "running"
  /\ Registered => spawns # 0
  /\ Registered => \A c \in Client : process[c] # "none" <=> c <= spawns \/ Pending(c)
  /\ \A c \in Client : process[c] = "running" => c = spawns \/ Pending(c)

IInv ==
  /\ TypeOK /\ LoadPhase /\ WaitersBlocked
  /\ RespawnExclusive /\ RespawnerKnows
  /\ CallsOnCurrentClient
  /\ Processes

-----------------------------------------------------------------------------
LEMMA LoadSucceedsIInv == ASSUME IInv, LoadSucceeds PROVE IInv'
  <1> USE McpManagerAssumption DEF McpManagerAssumption, IInv, Client, None, LoadSucceeds,
      manager, handle
  <1>1. TypeOK'
    BY DEF TypeOK
  <1>2. LoadPhase' /\ WaitersBlocked'
    BY DEF LoadPhase, WaitersBlocked, Registered
  <1>3. RespawnExclusive'
    BY DEF RespawnExclusive, Respawning
  <1>4. RespawnerKnows'
    BY DEF RespawnerKnows, Respawning
  <1>5. CallsOnCurrentClient'
    BY DEF CallsOnCurrentClient, InFlight, Readers
  <1>6. Processes'
    BY DEF TypeOK, LoadPhase, Processes, Pending
  <1> QED BY <1>1, <1>2, <1>3, <1>4, <1>5, <1>6

LEMMA LoadFailsIInv == ASSUME IInv, LoadFails PROVE IInv'
  <1> USE McpManagerAssumption DEF McpManagerAssumption, IInv, LoadFails, manager, handle
  <1>1. TypeOK'
    BY DEF TypeOK
  <1>2. LoadPhase' /\ WaitersBlocked'
    BY DEF LoadPhase, WaitersBlocked, Registered
  <1>3. RespawnExclusive'
    BY DEF RespawnExclusive, Respawning
  <1>4. RespawnerKnows'
    BY DEF RespawnerKnows, Respawning
  <1>5. CallsOnCurrentClient'
    BY DEF CallsOnCurrentClient, InFlight, Readers
  <1>6. Processes'
    BY DEF Registered, Processes, Pending
  <1> QED BY <1>1, <1>2, <1>3, <1>4, <1>5, <1>6

LEMMA CallIInv == ASSUME IInv, NEW p \in Callers, Call(p) PROVE IInv'
  <1> USE McpManagerAssumption DEF McpManagerAssumption, IInv, Call, Goto, manager, handle,
      InFlight, Readers
  <1>1. TypeOK'
    BY DEF TypeOK
  <1>2. LoadPhase' /\ WaitersBlocked'
    BY DEF LoadPhase, WaitersBlocked, Registered
  <1>3. RespawnExclusive'
    BY DEF RespawnExclusive, Respawning
  <1>4. RespawnerKnows'
    BY DEF RespawnerKnows, Respawning
  <1>5. CallsOnCurrentClient'
    BY DEF CallsOnCurrentClient
  <1>6. Processes'
    BY DEF Registered, Processes, Pending
  <1> QED BY <1>1, <1>2, <1>3, <1>4, <1>5, <1>6

LEMMA EnterIInv == ASSUME IInv, NEW p \in Callers, Enter(p) PROVE IInv'
  <1> USE McpManagerAssumption DEF McpManagerAssumption, IInv, Enter, Goto, manager, handle,
      InFlight, Readers
  <1>1. TypeOK'
    BY DEF TypeOK
  <1>2. LoadPhase' /\ WaitersBlocked'
    BY DEF TypeOK, LoadPhase, WaitersBlocked, Registered
  <1>3. RespawnExclusive'
    BY DEF TypeOK, RespawnExclusive, Respawning
  <1>4. RespawnerKnows'
    BY DEF TypeOK, RespawnerKnows, Respawning
  <1>5. CallsOnCurrentClient'
    BY DEF TypeOK, CallsOnCurrentClient
  <1>6. Processes'
    BY DEF TypeOK, Registered, RespawnerKnows, Processes, Pending
  <1> QED BY <1>1, <1>2, <1>3, <1>4, <1>5, <1>6

LEMMA SucceedIInv == ASSUME IInv, NEW p \in Callers, Succeed(p) PROVE IInv'
  <1> USE McpManagerAssumption DEF McpManagerAssumption, IInv, Succeed, Goto, manager, handle,
      InFlight, Readers
  <1>1. TypeOK'
    BY DEF TypeOK
  <1>2. LoadPhase' /\ WaitersBlocked'
    BY DEF LoadPhase, WaitersBlocked, Registered
  <1>3. RespawnExclusive'
    BY DEF RespawnExclusive, Respawning
  <1>4. RespawnerKnows'
    BY DEF RespawnerKnows, Respawning
  <1>5. CallsOnCurrentClient'
    BY DEF TypeOK, CallsOnCurrentClient
  <1>6. Processes'
    BY DEF Registered, Processes, Pending
  <1> QED BY <1>1, <1>2, <1>3, <1>4, <1>5, <1>6

LEMMA FailIInv == ASSUME IInv, NEW p \in Callers, Fail(p) PROVE IInv'
  <1> USE McpManagerAssumption DEF McpManagerAssumption, IInv, Fail, Goto, manager, handle,
      InFlight, Readers
  <1>1. TypeOK'
    BY DEF TypeOK
  <1>2. LoadPhase' /\ WaitersBlocked'
    BY DEF LoadPhase, WaitersBlocked, Registered
  <1>3. RespawnExclusive'
    BY DEF RespawnExclusive, Respawning
  <1>4. RespawnerKnows'
    BY DEF RespawnerKnows, Respawning
  <1>5. CallsOnCurrentClient'
    BY DEF TypeOK, CallsOnCurrentClient
  <1>6. Processes'
    BY DEF Registered, Processes, Pending
  <1> QED BY <1>1, <1>2, <1>3, <1>4, <1>5, <1>6

LEMMA BlockIInv == ASSUME IInv, NEW p \in Callers, Block(p) PROVE IInv'
  <1> USE McpManagerAssumption DEF McpManagerAssumption, IInv, Block, manager, handle, InFlight,
      Readers
  <1>1. TypeOK'
    BY DEF TypeOK
  <1>2. LoadPhase' /\ WaitersBlocked'
    BY DEF LoadPhase, WaitersBlocked, Registered
  <1>3. RespawnExclusive'
    BY DEF RespawnExclusive, Respawning
  <1>4. RespawnerKnows'
    BY DEF RespawnerKnows, Respawning
  <1>5. CallsOnCurrentClient'
    BY DEF CallsOnCurrentClient
  <1>6. Processes'
    BY DEF Registered, Processes, Pending
  <1> QED BY <1>1, <1>2, <1>3, <1>4, <1>5, <1>6

LEMMA TryRespawnIInv == ASSUME IInv, NEW p \in Callers, TryRespawn(p) PROVE IInv'
  <1> USE McpManagerAssumption DEF McpManagerAssumption, IInv, TryRespawn, Goto, manager, handle,
      InFlight, Readers, MayWrite, Busy, Exhausted
  <1>1. TypeOK'
    BY DEF TypeOK
  <1>2. LoadPhase' /\ WaitersBlocked'
    BY DEF TypeOK, LoadPhase, WaitersBlocked, Registered
  <1>3. RespawnExclusive'
    BY DEF TypeOK, RespawnExclusive, Respawning
  <1>4. RespawnerKnows'
    BY DEF TypeOK, LoadPhase, RespawnerKnows, Respawning, Processes
  <1>5. CallsOnCurrentClient'
    BY DEF TypeOK, CallsOnCurrentClient
  <1>6. Processes'
    BY DEF TypeOK, Registered, RespawnerKnows, Processes, Pending
  <1> QED BY <1>1, <1>2, <1>3, <1>4, <1>5, <1>6

LEMMA ReadOldIInv == ASSUME IInv, NEW p \in Callers, ReadOld(p) PROVE IInv'
  <1> USE McpManagerAssumption DEF McpManagerAssumption, IInv, ReadOld, Goto, manager, handle,
      InFlight, Readers
  <1>1. TypeOK'
    BY DEF TypeOK
  <1>2. LoadPhase' /\ WaitersBlocked'
    BY DEF LoadPhase, WaitersBlocked, Registered
  <1>3. RespawnExclusive'
    BY DEF RespawnExclusive, Respawning
  <1>4. RespawnerKnows'
    BY DEF TypeOK, RespawnerKnows, Respawning, Processes
  <1>5. CallsOnCurrentClient'
    BY DEF CallsOnCurrentClient
  <1>6. Processes'
    BY DEF Registered, Processes, Pending
  <1> QED BY <1>1, <1>2, <1>3, <1>4, <1>5, <1>6

LEMMA CloseOldIInv == ASSUME IInv, NEW p \in Callers, CloseOld(p) PROVE IInv'
  <1> USE McpManagerAssumption DEF McpManagerAssumption, IInv, None, CloseOld, Goto, manager,
      handle, InFlight, Readers
  <1>1. TypeOK'
    BY DEF TypeOK, Closed
  <1>2. LoadPhase' /\ WaitersBlocked'
    BY DEF LoadPhase, WaitersBlocked, Registered
  <1>3. RespawnExclusive'
    BY DEF RespawnExclusive, Respawning
  <1>4. RespawnerKnows'
    BY DEF TypeOK, RespawnerKnows, Respawning, Closed
  <1>5. CallsOnCurrentClient'
    BY DEF CallsOnCurrentClient
  <1>6. Processes'
    BY DEF Registered, RespawnerKnows, Respawning, Processes, Pending, Closed
  <1> QED BY <1>1, <1>2, <1>3, <1>4, <1>5, <1>6

LEMMA SpawnIInv == ASSUME IInv, NEW p \in Callers, Spawn(p) PROVE IInv'
  <1> USE McpManagerAssumption DEF McpManagerAssumption, IInv, Client, None, Spawn, Goto,
      manager, handle, InFlight, Readers
  <1>1. TypeOK'
    BY DEF TypeOK, LoadPhase, RespawnerKnows, Respawning
  <1>2. LoadPhase' /\ WaitersBlocked'
    BY DEF TypeOK, LoadPhase, WaitersBlocked, Registered
  <1>3. RespawnExclusive'
    BY DEF TypeOK, RespawnExclusive, Respawning
  <1>4. RespawnerKnows'
    BY DEF TypeOK, RespawnerKnows, Respawning
  <1>5. CallsOnCurrentClient'
    BY DEF TypeOK, CallsOnCurrentClient
  <1>6. Processes'
    BY DEF TypeOK, LoadPhase, RespawnerKnows, Processes, Pending
  <1> QED BY <1>1, <1>2, <1>3, <1>4, <1>5, <1>6

LEMMA InstallIInv == ASSUME IInv, NEW p \in Callers, Install(p) PROVE IInv'
  <1> USE McpManagerAssumption DEF McpManagerAssumption, IInv, Client, None, Install, Goto,
      manager, InFlight, Readers, MayWrite
  <1>1. TypeOK'
    <2>1. p \in Respawning /\ spawns \in 1 .. MaxRespawns - 1 /\ held[p] \in {None, spawns + 1}
      BY DEF RespawnerKnows, Respawning
    <2>2. client' \in Client \cup {None} /\ spawns' \in 0 .. MaxRespawns
      BY <2>1 DEF SpawnsAfter
    <2> QED BY <2>2 DEF TypeOK
  <1>2. LoadPhase' /\ WaitersBlocked'
    BY DEF LoadPhase, WaitersBlocked, Registered
  <1>3. RespawnExclusive'
    BY DEF TypeOK, RespawnExclusive, Respawning
  <1>4. RespawnerKnows'
    BY DEF TypeOK, RespawnExclusive, RespawnerKnows, Respawning
  <1>5. CallsOnCurrentClient'
    BY DEF CallsOnCurrentClient
  <1>6. Processes'
    BY DEF Registered, RespawnerKnows, Respawning, Processes, Pending, SpawnsAfter
  <1> QED BY <1>1, <1>2, <1>3, <1>4, <1>5, <1>6

LEMMA RetryIInv == ASSUME IInv, NEW p \in Callers, Retry(p) PROVE IInv'
  <1> USE McpManagerAssumption DEF McpManagerAssumption, IInv, Retry, Goto, manager, handle,
      InFlight, Readers
  <1>1. TypeOK'
    BY DEF TypeOK
  <1>2. LoadPhase' /\ WaitersBlocked'
    BY DEF TypeOK, LoadPhase, WaitersBlocked, Registered
  <1>3. RespawnExclusive'
    BY DEF TypeOK, RespawnExclusive, Respawning
  <1>4. RespawnerKnows'
    BY DEF TypeOK, RespawnerKnows, Respawning
  <1>5. CallsOnCurrentClient'
    BY DEF TypeOK, CallsOnCurrentClient
  <1>6. Processes'
    BY DEF TypeOK, Registered, RespawnerKnows, Processes, Pending
  <1> QED BY <1>1, <1>2, <1>3, <1>4, <1>5, <1>6

LEMMA CrashIInv == ASSUME IInv, NEW k \in Client, Crash(k) PROVE IInv'
  <1> USE McpManagerAssumption DEF McpManagerAssumption, IInv, Crash, manager, handle
  <1>1. TypeOK'
    BY DEF TypeOK
  <1>2. LoadPhase' /\ WaitersBlocked'
    BY DEF LoadPhase, WaitersBlocked, Registered
  <1>3. RespawnExclusive'
    BY DEF RespawnExclusive, Respawning
  <1>4. RespawnerKnows'
    BY DEF RespawnerKnows, Respawning
  <1>5. CallsOnCurrentClient'
    BY DEF CallsOnCurrentClient, InFlight, Readers
  <1>6. Processes'
    BY DEF Registered, Processes, Pending
  <1> QED BY <1>1, <1>2, <1>3, <1>4, <1>5, <1>6

LEMMA ShutdownMarksIInv == ASSUME IInv, ShutdownMarks PROVE IInv'
  <1> USE McpManagerAssumption DEF McpManagerAssumption, IInv, ShutdownMarks, handle
  <1>1. TypeOK'
    BY DEF TypeOK
  <1>2. LoadPhase' /\ WaitersBlocked'
    BY DEF LoadPhase, WaitersBlocked, Registered
  <1>3. RespawnExclusive'
    BY DEF RespawnExclusive, Respawning
  <1>4. RespawnerKnows'
    BY DEF RespawnerKnows, Respawning
  <1>5. CallsOnCurrentClient'
    BY DEF CallsOnCurrentClient, InFlight, Readers
  <1>6. Processes'
    BY DEF Registered, Processes, Pending
  <1> QED BY <1>1, <1>2, <1>3, <1>4, <1>5, <1>6

LEMMA ShutdownBlocksIInv == ASSUME IInv, ShutdownBlocks PROVE IInv'
  <1> USE McpManagerAssumption DEF McpManagerAssumption, IInv, ShutdownBlocks, handle
  <1>1. TypeOK'
    BY DEF TypeOK
  <1>2. LoadPhase' /\ WaitersBlocked'
    BY DEF LoadPhase, WaitersBlocked, Registered
  <1>3. RespawnExclusive'
    BY DEF RespawnExclusive, Respawning
  <1>4. RespawnerKnows'
    BY DEF RespawnerKnows, Respawning
  <1>5. CallsOnCurrentClient'
    BY DEF CallsOnCurrentClient, InFlight, Readers
  <1>6. Processes'
    BY DEF Registered, Processes, Pending
  <1> QED BY <1>1, <1>2, <1>3, <1>4, <1>5, <1>6

LEMMA ShutdownClosesIInv == ASSUME IInv, ShutdownCloses PROVE IInv'
  <1> USE McpManagerAssumption DEF McpManagerAssumption, IInv, None, ShutdownCloses, MayWrite
  <1>1. TypeOK'
    <2>1. process' \in [Client -> {"none", "running", "crashed", "closed"}]
      BY DEF TypeOK, Closed
    <2> QED BY <2>1 DEF TypeOK
  <1>2. LoadPhase' /\ WaitersBlocked'
    BY DEF LoadPhase, WaitersBlocked, Registered, Closed
  <1>3. RespawnExclusive'
    BY DEF RespawnExclusive, Respawning
  <1>4. RespawnerKnows'
    BY DEF TypeOK, RespawnerKnows, Respawning, Processes, Closed
  <1>5. CallsOnCurrentClient'
    BY DEF CallsOnCurrentClient, InFlight, Readers
  <1>6. Processes'
    <2>1. CASE client = None
      BY <2>1 DEF Processes, Registered, Pending, Closed
    <2>2. CASE client # None
      <3>1. client = spawns /\ spawns \in Client
        BY <2>2 DEF TypeOK, Processes
      <3>2. /\ process' = [process EXCEPT ![spawns] = "closed"]
            /\ Registered => process[spawns] # "none"
        BY <2>2, <3>1 DEF Processes, Closed
      <3>3. process'[spawns] = "closed" /\ \A c \in Client : c # spawns => process'[c] = process[c]
        BY <3>1, <3>2 DEF TypeOK
      <3> QED BY <3>1, <3>2, <3>3 DEF Processes, Registered, Pending
    <2> QED BY <2>1, <2>2
  <1> QED BY <1>1, <1>2, <1>3, <1>4, <1>5, <1>6

LEMMA InitIInv == Init => IInv
  <1> SUFFICES ASSUME Init PROVE IInv
    OBVIOUS
  <1> USE McpManagerAssumption DEF McpManagerAssumption, Init, Client
  <1>1. TypeOK
    <2>1. process \in [Client -> {"none", "running", "crashed", "closed"}]
      OBVIOUS
    <2>2. held \in [Callers -> Client \cup {None}]
      OBVIOUS
    <2>3. client \in Client \cup {None} /\ spawns \in 0 .. MaxRespawns
      OBVIOUS
    <2> HIDE DEF Client
    <2> QED BY <2>1, <2>2, <2>3 DEF TypeOK
  <1>2. LoadPhase /\ WaitersBlocked
    BY DEF LoadPhase, WaitersBlocked
  <1>3. RespawnExclusive /\ RespawnerKnows /\ CallsOnCurrentClient
    BY DEF RespawnExclusive, RespawnerKnows, Respawning, CallsOnCurrentClient, InFlight, Readers
  <1>4. Processes
    BY DEF Processes, Registered
  <1> QED BY <1>1, <1>2, <1>3, <1>4 DEF IInv

LEMMA IInvInductive == Spec => []IInv
  <1>1. IInv /\ [Next]_vars => IInv'
    <2> SUFFICES ASSUME IInv, [Next]_vars PROVE IInv'
      OBVIOUS
    <2>1. CASE LoadSucceeds \/ LoadFails
      BY <2>1, LoadSucceedsIInv, LoadFailsIInv
    <2>2. ASSUME NEW p \in Callers, Call(p) \/ CallerStep(p) \/ Return(p)
          PROVE IInv'
      BY <2>2, CallIInv, EnterIInv, BlockIInv, TryRespawnIInv, ReadOldIInv, CloseOldIInv,
         SpawnIInv, InstallIInv, RetryIInv, SucceedIInv, FailIInv DEF CallerStep, Return
    <2>3. ASSUME NEW c \in Client, Crash(c) PROVE IInv'
      BY <2>3, CrashIInv
    <2>4. CASE ShutdownMarks \/ ShutdownStep
      BY <2>4, ShutdownMarksIInv, ShutdownBlocksIInv, ShutdownClosesIInv DEF ShutdownStep
    <2>5. CASE UNCHANGED vars
      BY <2>5 DEF vars, IInv, TypeOK, LoadPhase, Registered, WaitersBlocked, RespawnExclusive,
                  RespawnerKnows, Respawning, CallsOnCurrentClient, InFlight, Readers, Processes, Pending
    <2> QED BY <2>1, <2>2, <2>3, <2>4, <2>5 DEF Next
  <1> QED BY <1>1, InitIInv, PTL DEF Spec
-----------------------------------------------------------------------------
(* Every variable keeps its type: in particular the spawns counter never   *)
(* passes maxRespawns, whatever the callers (manager.go tryRespawn).       *)
THEOREM TypeCorrect == Spec => []TypeOK
  <1>1. IInv => TypeOK
    BY DEF IInv
  <1> QED BY <1>1, IInvInductive, PTL

(* At most one caller is inside a respawn, and respawning says when.       *)
THEOREM RespawnExclusiveHolds == Spec => []RespawnExclusive
  <1>1. IInv => RespawnExclusive
    BY DEF IInv
  <1> QED BY <1>1, IInvInductive, PTL

(* No call in flight has the handle's client replaced underneath it.       *)
THEOREM CallsOnCurrentClientHolds == Spec => []CallsOnCurrentClient
  <1>1. IInv => CallsOnCurrentClient
    BY DEF IInv
  <1> QED BY <1>1, IInvInductive, PTL

(* Two subprocesses of one server never run at the same time.              *)
THEOREM OneProcessHolds == Spec => []OneProcess
  <1>1. IInv => OneProcess
    <2> SUFFICES ASSUME IInv, NEW c \in Client, NEW d \in Client,
                        process[c] = "running", process[d] = "running"
                 PROVE  c = d
      BY DEF OneProcess
    <2>1. CASE Respawning = {}
      BY <2>1 DEF IInv, Processes, Pending, Respawning
    <2>2. ASSUME NEW p \in Respawning PROVE c = d
      <3>1. \A q \in Respawning : q = p
        BY DEF IInv, RespawnExclusive
      <3>2. \A k \in Client : Pending(k) => pc[p] = "spawned" /\ held[p] = k
        BY <3>1 DEF Pending, Respawning
      <3>3. pc[p] = "spawned" => process[spawns] # "running"
        BY DEF IInv, RespawnerKnows
      <3> QED BY <3>2, <3>3 DEF IInv, Processes
    <2> QED BY <2>1, <2>2
  <1> QED BY <1>1, IInvInductive, PTL

(* The spawns counter counts the subprocesses ever started and registered, *)
(* bar the one being installed (docs/sprints transcript, invariant I5).    *)
THEOREM SpawnsAccurateHolds == Spec => []SpawnsAccurate
  <1>1. IInv => SpawnsAccurate
    <2> SUFFICES ASSUME IInv, Registered PROVE SpawnsAccurate
      BY DEF IInv, LoadPhase, SpawnsAccurate
    <2> DEFINE Started == {c \in Client : process[c] # "none"}
    <2> USE McpManagerAssumption DEF McpManagerAssumption, Client, None
    <2>1. spawns \in 0 .. MaxRespawns
      BY DEF IInv, TypeOK
    <2>2. CASE ~\E c \in Client : Pending(c)
      <3>1. Started = 1 .. spawns
        BY <2>1, <2>2 DEF IInv, Processes
      <3>2. Cardinality(1 .. spawns) = spawns
        BY <2>1, FS_Interval, 1 \in Int, spawns \in Int
      <3> QED BY <3>1, <3>2 DEF SpawnsAccurate
    <2>3. ASSUME NEW k \in Client, Pending(k) PROVE SpawnsAccurate
      <3>1. PICK p \in Callers : pc[p] = "spawned" /\ held[p] = k
        BY <2>3 DEF Pending
      <3>2. p \in Respawning /\ k = spawns + 1
        BY <3>1 DEF IInv, RespawnerKnows, Respawning
      <3>3. \A c \in Client : Pending(c) <=> c = k
        BY <3>1, <3>2 DEF Pending, IInv, RespawnExclusive, Respawning
      <3>4. Started = 1 .. spawns + 1
        BY <2>1, <3>2, <3>3 DEF IInv, Processes
      <3>5. Cardinality(1 .. spawns + 1) = spawns + 1
        BY <2>1, FS_Interval, 1 \in Int, spawns + 1 \in Int
      <3> QED BY <3>1, <3>2, <3>4, <3>5 DEF SpawnsAccurate
    <2> QED BY <2>2, <2>3
  <1> QED BY <1>1, IInvInductive, PTL
-----------------------------------------------------------------------------
(* The OAuth session of a remote server (RemoteAuth).                      *)

USE RemoteAuthAssumption DEF RemoteAuthAssumption, Nobody
-----------------------------------------------------------------------------
(* Before connect stores the first tokens there is nothing to use, and no  *)
(* request is let in.                                                      *)
BeforeReady ==
  /\ su \notin {"install", "ready", "failed"} => issued = 0
  /\ su = "install" => issued = 1
  /\ su # "ready" =>
       tok = NoTok /\ spent = {} /\ (\A k \in Issue : tries[k] = 0)
       /\ \A p \in Requests : at[p] = "idle"

(* Numbers are given out in order.                                         *)
Numbered ==
  /\ tok.access <= issued /\ tok.refresh <= issued
  /\ \A k \in spent : k # 0 /\ k <= issued
  /\ \A k \in Issue : k > issued => tries[k] = 0

(* tokMu: who refreshes, and what with.                                    *)
OneRefreshing ==
  /\ \A p \in Requests : at[p] \in {"refresh", "refresh401"} <=> refreshing = p
  /\ refreshing # Nobody => tok.refresh # 0 /\ stage # "wiped"
  /\ \A p \in Requests : at[p] \in {"send", "rejected"} => sent[p] # 0

(* A refresh token the server may have rotated away is not in use unless   *)
(* the remote has failed, which ends all refreshes; and the current access *)
(* token has not been refreshed unless somebody is at it.                  *)
Unspent ==
  /\ tok.refresh \in spent => failed
  /\ refreshing = Nobody /\ ~failed /\ tok.access # 0 => tries[tok.access] = 0

(* Who holds each secret not yet zeroed.                                   *)
Held ==
  {<<"client", 1>>, <<"code", 1>>} \cup SecretsOf(tok) \cup retired
    \cup (IF su \in {"await", "exchange"} THEN {<<"verifier", 1>>} ELSE {})
    \cup (IF su = "install" THEN {<<"access", 1>>, <<"refresh", 1>>} ELSE {})

NoneAstray ==
  /\ live \subseteq Held
  /\ Zeroed => ~InSetup

AuthInv ==
  /\ AuthTypeOK /\ BeforeReady /\ Numbered /\ OneRefreshing /\ Unspent /\ NoneAstray
  /\ NoReplay /\ OneRefreshPerToken /\ NothingKept
-----------------------------------------------------------------------------
USE DEF Issue

LEMMA AuthInitInv == AuthInit => AuthInv
<1>. SUFFICES ASSUME AuthInit PROVE AuthInv  OBVIOUS
<1>. USE DEF AuthInit, NoTok
<1>0. 0 \in Issue /\ MaxIssues \in Nat  OBVIOUS
<1>1. AuthTypeOK
  <2>1. tok \in [access : Issue, refresh : Issue] /\ issued \in Issue /\ fresh \in Issue
    BY <1>0
  <2>2. sent \in [Requests -> Issue] /\ tries \in [Issue -> Nat]  BY <1>0
  <2>. QED  BY <2>1, <2>2 DEF AuthTypeOK
<1>2. BeforeReady /\ Numbered /\ OneRefreshing /\ Unspent
  BY DEF BeforeReady, Numbered, OneRefreshing, Unspent
<1>3. NoneAstray  BY DEF NoneAstray, Zeroed
<1>4. NoReplay /\ OneRefreshPerToken /\ NothingKept
  BY DEF NoReplay, OneRefreshPerToken, NothingKept
<1>. QED  BY <1>1, <1>2, <1>3, <1>4 DEF AuthInv

LEMMA StaysTrue ==
  ASSUME NEW b \in BOOLEAN, NEW c \in {b, TRUE}
  PROVE  c \in BOOLEAN /\ (b => c)
<1>1. c = b \/ c = TRUE  OBVIOUS
<1>. QED  BY <1>1, Zenon

Place == {"idle", "token", "refresh", "send", "rejected", "refresh401", "resend"}

LEMMA MoveToType ==
  ASSUME AuthTypeOK, NEW p \in Requests, NEW where \in Place, NEW token \in Issue,
         MoveTo(p, where, token)
  PROVE  /\ at' \in [Requests -> Place] /\ delete' \in SUBSET Requests
         /\ sent' \in [Requests -> Issue]
  BY DEF AuthTypeOK, MoveTo, Place

(* No step of the consent touches what requests and refreshes rest on.     *)
LEMMA ConsentStep ==
  ASSUME AuthInv, SetupStep \/ EndStep
  PROVE  AuthInv'
<1>. USE DEF AuthInv, setupVars, tokens, requests, history
<1>. USE DEF BeginSetup, Discover, Register, Prompt, Callback, AwaitReturns, Exchange,
             StoreTokens, BeginShutdown, CancelTransport, MarkZeroed, Wipe
<1>0. CASE BeginSetup \/ Discover \/ BeginShutdown \/ CancelTransport
  <2>. USE <1>0
  <2>1. AuthTypeOK'  BY DEF AuthTypeOK
  <2>2. BeforeReady' /\ Numbered' /\ OneRefreshing' /\ Unspent'
    BY DEF BeforeReady, Numbered, OneRefreshing, Unspent
  <2>3. NoneAstray'  BY DEF NoneAstray, Held, SecretsOf, Zeroed, InSetup, Closing
  <2>4. NoReplay' /\ OneRefreshPerToken' /\ NothingKept'
    BY DEF NoReplay, OneRefreshPerToken, NothingKept, InSetup, Closing
  <2>. QED  BY <2>1, <2>2, <2>3, <2>4 DEF AuthInv
<1>1. CASE Register \/ Prompt \/ Callback \/ AwaitReturns
  <2>. USE <1>1
  <2>0. \A k \in Kind : <<k, 1>> \in Secret  BY DEF Secret
  <2>a. live' \in SUBSET Secret  BY <2>0 DEF AuthTypeOK, Kind
  <2>1. AuthTypeOK'  BY <2>a DEF AuthTypeOK
  <2>2. BeforeReady' /\ Numbered' /\ OneRefreshing' /\ Unspent'
    BY DEF BeforeReady, Numbered, OneRefreshing, Unspent
  <2>3. NoneAstray'  BY DEF NoneAstray, Held, SecretsOf, Zeroed, InSetup
  <2>4. NoReplay' /\ OneRefreshPerToken' /\ NothingKept'
    BY DEF NoReplay, OneRefreshPerToken, NothingKept, NoneAstray, Zeroed, InSetup
  <2>. QED  BY <2>1, <2>2, <2>3, <2>4 DEF AuthInv
<1>2. CASE Exchange
  <2>. USE <1>2
  <2>0. issued = 0 /\ tok = NoTok  BY DEF BeforeReady
  <2>a. live' \in SUBSET Secret
    <3>1. live \subseteq Secret  BY DEF AuthTypeOK
    <3>2. \A k \in Kind : <<k, 1>> \in Secret /\ <<k, 0>> \in Secret  BY DEF Secret
    <3>3. \A t \in [access : {1}, refresh : {0, 1}] : SecretsOf(t) \subseteq Secret
      BY <3>2 DEF SecretsOf, Kind
    <3>. QED  BY <3>1, <3>3
  <2>b. issued' \in Issue /\ su' \in {"install", "failed"}  BY <2>0 DEF AuthTypeOK
  <2>1. AuthTypeOK'  BY <2>a, <2>b DEF AuthTypeOK
  <2>2. BeforeReady' /\ Numbered' /\ OneRefreshing' /\ Unspent'
    BY <2>0 DEF BeforeReady, Numbered, OneRefreshing, Unspent, NoTok
  <2>3. NoneAstray'  BY <2>0 DEF NoneAstray, Held, SecretsOf, Zeroed, InSetup
  <2>4. NoReplay' /\ OneRefreshPerToken' /\ NothingKept'
    BY DEF NoReplay, OneRefreshPerToken, NothingKept, NoneAstray, Zeroed, InSetup
  <2>. QED  BY <2>1, <2>2, <2>3, <2>4 DEF AuthInv
<1>3. CASE StoreTokens
  <2>. USE <1>3
  <2>0. issued = 1 /\ tok = NoTok /\ spent = {} /\ (\A k \in Issue : tries[k] = 0)
    BY DEF BeforeReady
  <2>1. AuthTypeOK'  BY <2>0 DEF AuthTypeOK
  <2>2. BeforeReady' /\ Numbered' /\ OneRefreshing' /\ Unspent'
    BY <2>0 DEF BeforeReady, Numbered, OneRefreshing, Unspent, NoTok
  <2>3. NoneAstray'  BY <2>0 DEF NoneAstray, Held, SecretsOf, Zeroed, InSetup, NoTok
  <2>4. NoReplay' /\ OneRefreshPerToken' /\ NothingKept'
    BY <2>0 DEF NoReplay, OneRefreshPerToken, NothingKept, NoneAstray, Zeroed, InSetup
  <2>. QED  BY <2>1, <2>2, <2>3, <2>4 DEF AuthInv
<1>4. CASE MarkZeroed
  <2>. USE <1>4
  <2>1. AuthTypeOK'  BY DEF AuthTypeOK
  <2>2. BeforeReady' /\ Numbered' /\ OneRefreshing' /\ Unspent'
    BY DEF BeforeReady, Numbered, OneRefreshing, Unspent
  <2>3. NoneAstray'  BY DEF NoneAstray, Held, SecretsOf, Zeroed, InSetup, Joined
  <2>4. NoReplay' /\ OneRefreshPerToken' /\ NothingKept'
    BY DEF NoReplay, OneRefreshPerToken, NothingKept
  <2>. QED  BY <2>1, <2>2, <2>3, <2>4 DEF AuthInv
<1>5. CASE Wipe
  <2>. USE <1>5
  <2>1. AuthTypeOK'  BY DEF AuthTypeOK, NoTok
  <2>2. BeforeReady' /\ Numbered' /\ OneRefreshing' /\ Unspent'
    BY DEF BeforeReady, Numbered, OneRefreshing, Unspent, NoTok, AuthTypeOK
  <2>3. ~InSetup /\ su # "install" /\ su \notin {"await", "exchange"}
    BY DEF NoneAstray, Zeroed, InSetup
  <2>4. live' \subseteq {<<"code", 1>>}  BY <2>3 DEF NoneAstray, Held
  <2>5. NoneAstray' /\ NothingKept'
    BY <2>3, <2>4 DEF NoneAstray, Held, SecretsOf, Zeroed, InSetup, NothingKept
  <2>6. NoReplay' /\ OneRefreshPerToken'  BY DEF NoReplay, OneRefreshPerToken
  <2>. QED  BY <2>1, <2>2, <2>5, <2>6 DEF AuthInv
<1>. QED  BY <1>0, <1>1, <1>2, <1>3, <1>4, <1>5 DEF SetupStep, EndStep

(* Steps of a request that leave the tokens as they are.                   *)
LEMMA RequestPasses ==
  ASSUME AuthInv, NEW p \in Requests,
         \/ \E isDelete \in BOOLEAN : EnterRoundTrip(p, isDelete)
         \/ GiveUp(p) \/ Answer(p) \/ AnswerReplay(p)
  PROVE  AuthInv'
<1>. USE DEF AuthInv, setupVars, tokens, requests, history
<1>. USE DEF EnterRoundTrip, GiveUp, Answer, AnswerReplay, Leave, MoveTo, SetFailure,
             Accepted, Screened
<1>0. /\ failed \in BOOLEAN /\ fresh \in Issue /\ 0 \in Issue /\ sent \in [Requests -> Issue]
      /\ delete \in SUBSET Requests /\ at \in [Requests -> Place]
  BY DEF AuthTypeOK, Place
<1>a. /\ UNCHANGED <<setupVars, tok, retired, live, issued, stage, refreshing, history>>
      /\ failed' \in {failed, TRUE} /\ fresh' \in {fresh, 0}
  BY DEF AuthTypeOK
<1>c. failed' \in BOOLEAN /\ (failed => failed')  BY <1>0, <1>a, StaysTrue, Zenon
<1>d. \/ at' = [at EXCEPT ![p] = "token"] /\ sent' = sent /\ delete' \in {delete, delete \cup {p}}
      \/ \E where \in Place, token \in Issue : MoveTo(p, where, token)
  BY <1>0 DEF Place
<1>b. at' \in [Requests -> Place] /\ delete' \in SUBSET Requests /\ sent' \in [Requests -> Issue]
  <2>1. CASE \E where \in Place, token \in Issue : MoveTo(p, where, token)
    BY <2>1, MoveToType
  <2>2. CASE at' = [at EXCEPT ![p] = "token"] /\ sent' = sent /\ delete' \in {delete, delete \cup {p}}
    BY <2>2, <1>0 DEF Place
  <2>. QED  BY <1>d, <2>1, <2>2
<1>1. AuthTypeOK'  BY <1>0, <1>a, <1>b, <1>c DEF AuthTypeOK, Place
<1>2. BeforeReady'  BY DEF BeforeReady, AuthTypeOK
<1>3. Numbered' /\ Unspent'  BY <1>a, <1>c DEF Numbered, Unspent
<1>4. OneRefreshing'  BY DEF OneRefreshing, AuthTypeOK
<1>5. NoneAstray' /\ NothingKept'  BY DEF NoneAstray, Held, SecretsOf, Zeroed, InSetup, NothingKept
<1>6. NoReplay' /\ OneRefreshPerToken'  BY DEF NoReplay, OneRefreshPerToken
<1>. QED  BY <1>1, <1>2, <1>3, <1>4, <1>5, <1>6

(* tokMu is free: the token is used, or one request starts a refresh of it.*)
LEMMA TokenTaken ==
  ASSUME AuthInv, NEW p \in Requests, AccessToken(p) \/ RefreshAfter401(p)
  PROVE  AuthInv'
<1>. USE DEF AuthInv, setupVars, tokens, requests, history
<1>. USE DEF AccessToken, RefreshAfter401, StillCurrent, Leave, MoveTo, SetFailure
<1>a. su = "ready" /\ refreshing = Nobody  BY DEF BeforeReady
<1>b. \/ UNCHANGED <<refreshing, tries>> /\ at'[p] \in {"idle", "send", "resend"}
         /\ (at'[p] = "send" => sent'[p] # 0)
      \/ /\ ~failed /\ ~Zeroed /\ tok.access # 0 /\ tok.refresh # 0 /\ failed' = failed
         /\ at'[p] \in {"refresh", "refresh401"} /\ refreshing' = p
         /\ tries' = [tries EXCEPT ![tok.access] = @ + 1]
  BY DEF StartRefresh, AuthTypeOK, OneRefreshing
<1>c. /\ UNCHANGED <<su, answer, tok, retired, live, issued, fresh, stage, spent>>
      /\ failed' \in {failed, TRUE}
      /\ \E where \in {"idle", "send", "resend", "refresh", "refresh401"}, token \in Issue :
           MoveTo(p, where, token)
  <2>1. 0 \in Issue /\ sent[p] \in Issue /\ tok.access \in Issue  BY DEF AuthTypeOK
  <2>. QED  BY <2>1 DEF StartRefresh, AuthTypeOK
<1>d. at' = [at EXCEPT ![p] = at'[p]]  BY <1>c DEF AuthTypeOK
<1>. HIDE DEF AccessToken, RefreshAfter401
<1>e. /\ at' \in [Requests -> Place] /\ delete' \in SUBSET Requests
      /\ sent' \in [Requests -> Issue]
  BY <1>c, MoveToType DEF Place
<1>f. tries' \in [Issue -> Nat] /\ refreshing' \in Requests \cup {Nobody}
  <2>1. tries \in [Issue -> Nat] /\ tok.access \in Issue  BY DEF AuthTypeOK
  <2>2. tries' = tries \/ tries' = [tries EXCEPT ![tok.access] = @ + 1]  BY <1>b
  <2>3. refreshing' = refreshing \/ refreshing' = p  BY <1>b
  <2>. QED  BY <1>a, <2>1, <2>2, <2>3
<1>g. failed' \in BOOLEAN /\ (failed => failed')
  <2>1. failed \in BOOLEAN  BY DEF AuthTypeOK
  <2>. QED  BY <1>c, <2>1, StaysTrue, Zenon
<1>1. AuthTypeOK'  BY <1>c, <1>e, <1>f, <1>g DEF AuthTypeOK, Place
<1>2. BeforeReady'  BY <1>a, <1>c DEF BeforeReady
<1>3. Numbered'
  <2>1. tok.access \in Issue /\ tok.access <= issued  BY DEF AuthTypeOK, Numbered
  <2>2. \A k \in Issue : k > issued => tries'[k] = tries[k]
    BY <1>b, <2>1 DEF AuthTypeOK
  <2>. QED  BY <1>c, <2>2 DEF Numbered
<1>h. Unspent'
  BY <1>a, <1>b, <1>c, <1>g DEF Unspent
<1>4. OneRefreshing'  BY <1>a, <1>b, <1>c, <1>d DEF OneRefreshing, AuthTypeOK, Zeroed
<1>5. NoneAstray' /\ NothingKept'
  BY <1>b, <1>c DEF NoneAstray, Held, SecretsOf, Zeroed, InSetup, NothingKept
<1>6. NoReplay'  BY <1>a, <1>b, <1>c DEF NoReplay, Unspent
<1>7. OneRefreshPerToken'
  <2>1. tries \in [Issue -> Nat] /\ tok.access \in Issue  BY DEF AuthTypeOK
  <2>2. ~failed /\ tok.access # 0 => tries[tok.access] = 0  BY <1>a DEF Unspent
  <2>3. \/ tries' = tries
        \/ tries[tok.access] = 0 /\ tries' = [tries EXCEPT ![tok.access] = @ + 1]
    BY <1>b, <2>2
  <2>4. ASSUME NEW k \in Issue PROVE tries'[k] <= 1
    <3>1. tries[k] <= 1 /\ tries[k] \in Nat  BY <2>1 DEF OneRefreshPerToken
    <3>2. CASE tries' = tries  BY <3>1, <3>2
    <3>3. CASE tries[tok.access] = 0 /\ tries' = [tries EXCEPT ![tok.access] = @ + 1]
      BY <2>1, <3>1, <3>3
    <3>. QED  BY <2>3, <3>2, <3>3
  <2>. QED  BY <2>4 DEF OneRefreshPerToken
<1>. QED  BY <1>1, <1>2, <1>3, <1>4, <1>5, <1>6, <1>7, <1>h

LEMMA RefreshEnds ==
  ASSUME AuthInv, NEW p \in Requests, RefreshSucceeds(p) \/ RefreshFails(p)
  PROVE  AuthInv'
<1>. USE DEF AuthInv, setupVars, tokens, requests, history, Leave, MoveTo
<1>a. /\ su = "ready" /\ refreshing = p /\ tok.refresh # 0 /\ tok.refresh \notin spent
      /\ stage # "wiped" /\ refreshing # Nobody
  BY DEF RefreshSucceeds, RefreshFails, BeforeReady, OneRefreshing, NoReplay
<1>1. CASE RefreshSucceeds(p)
  <2>. USE <1>1 DEF RefreshSucceeds, Retire
  <2>0. issued + 1 \in Issue /\ tok.refresh \in Issue /\ tok.access \in Issue
    BY DEF AuthTypeOK
  <2>a. \A k \in Kind, n \in Issue : <<k, n>> \in Secret  BY DEF Secret
  <2>b. live' \in SUBSET Secret /\ retired' \in SUBSET Secret
    BY <2>0, <2>a DEF AuthTypeOK, Kind
  <2>c. /\ at' \in [Requests -> Place] /\ delete' \in SUBSET Requests
        /\ sent' \in [Requests -> Issue]
    BY <2>0, MoveToType DEF Place
  <2>d. tok' \in [access : Issue, refresh : Issue]  BY <2>0
  <2>e. spent' \in SUBSET Issue  BY <2>0 DEF AuthTypeOK
  <2>1. AuthTypeOK'  BY <2>0, <2>b, <2>c, <2>d, <2>e DEF AuthTypeOK, Place
  <2>2. BeforeReady'  BY <1>a DEF BeforeReady
  <2>3. Numbered'  BY <1>a DEF Numbered, AuthTypeOK
  <2>4. OneRefreshing'  BY <1>a DEF OneRefreshing, AuthTypeOK
  <2>5. Unspent'  BY <1>a DEF Unspent, Numbered, AuthTypeOK
  <2>6. NoneAstray'  BY <1>a DEF NoneAstray, Held, SecretsOf, Zeroed, InSetup, AuthTypeOK
  <2>7. NoReplay' /\ OneRefreshPerToken' /\ NothingKept'
    BY <1>a DEF NoReplay, OneRefreshPerToken, NothingKept
  <2>. QED  BY <2>1, <2>2, <2>3, <2>4, <2>5, <2>6, <2>7
<1>2. CASE RefreshFails(p)
  <2>. USE <1>2 DEF RefreshFails, FailRefresh, SetFailure, NoTok
  <2>1. AuthTypeOK'  BY DEF AuthTypeOK
  <2>2. BeforeReady'  BY <1>a DEF BeforeReady
  <2>3. Numbered'  BY <1>a DEF Numbered, AuthTypeOK
  <2>4. OneRefreshing'  BY <1>a DEF OneRefreshing, AuthTypeOK
  <2>5. Unspent'  BY DEF Unspent
  <2>6. NoneAstray'  BY <1>a DEF NoneAstray, Held, SecretsOf, Zeroed, InSetup
  <2>7. NoReplay' /\ OneRefreshPerToken' /\ NothingKept'
    BY <1>a DEF NoReplay, OneRefreshPerToken, NothingKept
  <2>. QED  BY <2>1, <2>2, <2>3, <2>4, <2>5, <2>6, <2>7
<1>. QED  BY <1>1, <1>2

(* What a request, a refresh and the shutdown hold at each of their places:*)
(* every theorem below on the OAuth session follows from it.               *)
THEOREM AuthInvHolds == AuthSpec => []AuthInv
<1>1. AuthInv /\ [AuthNext]_authVars => AuthInv'
  <2>. SUFFICES ASSUME AuthInv, [AuthNext]_authVars PROVE AuthInv'  OBVIOUS
  <2>1. CASE UNCHANGED authVars
    <3>. USE <2>1 DEF AuthInv, authVars, setupVars, tokens, requests, history
    <3>1. AuthTypeOK' /\ BeforeReady'  BY DEF AuthTypeOK, BeforeReady
    <3>2. Numbered' /\ OneRefreshing' /\ Unspent'  BY DEF Numbered, OneRefreshing, Unspent
    <3>3. NoneAstray'  BY DEF NoneAstray, Held, SecretsOf, Zeroed, InSetup
    <3>4. NoReplay' /\ OneRefreshPerToken' /\ NothingKept'
      BY DEF NoReplay, OneRefreshPerToken, NothingKept, InSetup
    <3>. QED  BY <3>1, <3>2, <3>3, <3>4
  <2>2. CASE SetupStep \/ EndStep  BY <2>2, ConsentStep
  <2>3. ASSUME NEW p \in Requests, RequestStep(p) PROVE AuthInv'
    BY <2>3, RequestPasses, TokenTaken, RefreshEnds DEF RequestStep
  <2>. QED  BY <2>1, <2>2, <2>3 DEF AuthNext
<1>. QED  BY <1>1, AuthInitInv, PTL DEF AuthSpec

(* A refresh token is never sent twice: refreshLocked checks, waits and    *)
(* stores under one lock, whatever requests, refusals and lost replies come*)
(* in between.                                                             *)
THEOREM NoReplayHolds == AuthSpec => []NoReplay
<1>1. AuthInv => NoReplay  BY DEF AuthInv
<1>. QED  BY <1>1, AuthInvHolds, PTL

(* However many requests find one access token expired or rejected, one of *)
(* them refreshes it and the others go on with what it stored.             *)
THEOREM OneRefreshPerTokenHolds == AuthSpec => []OneRefreshPerToken
<1>1. AuthInv => OneRefreshPerToken  BY DEF AuthInv
<1>. QED  BY <1>1, AuthInvHolds, PTL

(* After the wipe of the shutdown the process holds no token and no client *)
(* secret, and no request or refresh under way brings one back.            *)
THEOREM NothingKeptHolds == AuthSpec => []NothingKept
<1>1. AuthInv => NothingKept  BY DEF AuthInv
<1>. QED  BY <1>1, AuthInvHolds, PTL

(* Every variable of the OAuth session keeps its type, for any requests,   *)
(* issues and lifetimes.                                                   *)
THEOREM AuthTypeCorrect == AuthSpec => []AuthTypeOK
<1>1. AuthInv => AuthTypeOK  BY DEF AuthInv
<1>. QED  BY <1>1, AuthInvHolds, PTL
=============================================================================

----------------------------- MODULE GpuServers -----------------------------
(***************************************************************************)
(* The life of a server that needs exclusive GPU devices: its row in       *)
(* servers, its rows in gpu_allocations, and the container that has the    *)
(* devices baked in.  The three are changed by separate commits and        *)
(* runtime calls, with awaits in between and no lock on the server row, so *)
(* a handler works with the server as it was when it was loaded.           *)
(*                                                                         *)
(* The allocator is enabled (settings.gpu_devices is not empty).  A        *)
(* container is named after its owner and server, so there is at most one  *)
(* per server; a spawn replaces it under a new id.                         *)
(***************************************************************************)
EXTENDS Integers, FiniteSets

CONSTANTS Servers,       \* server ids
          PoolSize,      \* devices in settings.gpu_devices, in pool order
          Plans,         \* gpu_limit of the plans on offer
          Sessions,      \* concurrent requests and tasks
          None,
          Ops,           \* which operations occur in this instance
          Serial,        \* no two operations on one server at a time
          Faults,        \* which calls of the container runtime may fail
          CrashPossible,
          MaxOps         \* bound: operations started

AllOps == {"create", "start", "restart", "respawn", "stop", "expire",
           "bulk_stop", "delete", "update", "view", "quota"}

ASSUME GpuAssumption ==
    /\ PoolSize \in Nat /\ MaxOps \in Nat
    /\ Plans \subseteq Nat
    /\ Ops \subseteq AllOps
    /\ None \notin Servers \cup Sessions \cup AllOps \cup Nat
    /\ Faults \subseteq {"lookup", "delete", "spawn", "cleanup"}
    /\ Serial \in BOOLEAN /\ CrashPossible \in BOOLEAN

Devices == 1 .. PoolSize

VARIABLES
    status, \* servers.status; "none" when there is no row
    cid,    \* servers.container_id
    gpu,    \* servers.allocated_gpu, the gpu_limit of the server's plan
    rows,   \* gpu_allocations: pairs <<device, server>>
    aged,   \* the rows older than _RECONCILE_GRACE
    box,    \* id of the server's container in the runtime, or None
    up,     \* servers whose container is running
    baked,  \* devices the container was created with
    lastId, \* container ids given out
    pc, op, on,   \* where a session stands, what it does, to which server
    myCid, mySt,  \* container_id and status of the server object it loaded
    want,   \* devices it needs
    devs,   \* devices it was given, or is about to reserve
    mine,   \* it has inserted those rows itself
    stale,  \* rows it found stale
    ops

db == <<status, cid, gpu, rows, aged>>
runtime == <<box, up, baked, lastId>>
task == <<op, on, myCid, mySt, want>>
vars == <<db, runtime, pc, task, devs, mine, stale, ops>>

Init ==
    /\ status = [v \in Servers |-> "none"]
    /\ cid = [v \in Servers |-> None]
    /\ gpu = [v \in Servers |-> 0]
    /\ rows = {} /\ aged = {}
    /\ box = [v \in Servers |-> None]
    /\ up = {}
    /\ baked = [v \in Servers |-> {}]
    /\ lastId = 0
    /\ pc = [s \in Sessions |-> "idle"]
    /\ op = [s \in Sessions |-> None]
    /\ on = [s \in Sessions |-> None]
    /\ myCid = [s \in Sessions |-> None]
    /\ mySt = [s \in Sessions |-> "none"]
    /\ want = [s \in Sessions |-> 0]
    /\ devs = [s \in Sessions |-> {}]
    /\ mine = [s \in Sessions |-> FALSE]
    /\ stale = [s \in Sessions |-> {}]
    /\ ops = 0

-----------------------------------------------------------------------------
Held(v) == {d \in Devices : <<d, v>> \in rows}
Free == {d \in Devices : \A v \in Servers : <<d, v>> \notin rows}

Goto(s, l) == pc' = [pc EXCEPT ![s] = l] /\ UNCHANGED task

End(s) ==
    /\ pc' = [pc EXCEPT ![s] = "idle"]
    /\ op' = [op EXCEPT ![s] = None]
    /\ on' = [on EXCEPT ![s] = None]
    /\ myCid' = [myCid EXCEPT ![s] = None]
    /\ mySt' = [mySt EXCEPT ![s] = "none"]
    /\ want' = [want EXCEPT ![s] = 0]
    /\ devs' = [devs EXCEPT ![s] = {}]
    /\ mine' = [mine EXCEPT ![s] = FALSE]
    /\ stale' = [stale EXCEPT ![s] = {}]

Keep == UNCHANGED <<devs, mine, stale>>

-----------------------------------------------------------------------------
(* The handler loads the server row and branches on container_id.          *)

FirstStep(o, c) ==
    CASE o \in {"create", "update", "quota"} -> "scan"
      [] o = "start"     -> IF c = None THEN "devices" ELSE "probe"
      [] o = "stop"      -> IF c = None THEN "mark" ELSE "probe"
      [] o = "delete"    -> IF c = None THEN "mark" ELSE "remove"
      [] o \in {"restart", "view"} -> "probe"
      [] o = "respawn"   -> "devices"
      [] o = "expire"    -> "remove"
      [] o = "bulk_stop" -> "halt"

Alone(v) == Serial => \A t \in Sessions : on[t] # v

Begin(s, o, v, n) ==
    /\ pc[s] = "idle" /\ ops < MaxOps /\ o \in Ops \ {"quota"}
    /\ Alone(v)
    /\ IF o = "create"
       THEN status[v] = "none" /\ box[v] = None /\ \A t \in Sessions : on[t] # v
       ELSE status[v] # "none" /\ (o # "update" => n = gpu[v])
    /\ o \in {"restart", "respawn", "expire", "bulk_stop", "view"} => cid[v] # None
    /\ o \in {"restart", "respawn"} => gpu[v] > 0
    /\ o = "expire" => status[v] = "running"
    /\ ops' = ops + 1
    /\ pc' = [pc EXCEPT ![s] = FirstStep(o, cid[v])]
    /\ op' = [op EXCEPT ![s] = o]
    /\ on' = [on EXCEPT ![s] = v]
    /\ myCid' = [myCid EXCEPT ![s] = cid[v]]
    /\ mySt' = [mySt EXCEPT ![s] = status[v]]
    /\ want' = [want EXCEPT ![s] = n]
    /\ UNCHANGED <<db, runtime>> /\ Keep

(* A plain quota read: it too reconciles the allocations.                  *)
BeginQuota(s) ==
    /\ pc[s] = "idle" /\ ops < MaxOps /\ "quota" \in Ops
    /\ ops' = ops + 1
    /\ pc' = [pc EXCEPT ![s] = "scan"]
    /\ op' = [op EXCEPT ![s] = "quota"]
    /\ UNCHANGED <<db, runtime, on, myCid, mySt, want>> /\ Keep

-----------------------------------------------------------------------------
(* recalculate_usage, and with it GpuAllocatorService.reconcile, runs at   *)
(* the start of every create and plan change.                              *)

Orphaned(v) == status[v] # "running" \/ gpu[v] = 0

Scan(s) ==
    /\ pc[s] = "scan"
    /\ stale' = [stale EXCEPT ![s] = {r \in aged : Orphaned(r[2])}]
    /\ Goto(s, "reap")
    /\ UNCHANGED <<db, runtime, devs, mine, ops>>

(* Mutant of Reap: no grace for rows whose server does not run yet.        *)
ReapFresh(s) ==
    LET gone == {r \in rows : Orphaned(r[2])}
    IN  /\ pc[s] = "reap"
        /\ rows' = rows \ gone
        /\ aged' = aged \ gone
        /\ \/ op[s] = "quota" /\ End(s)
           \/ op[s] # "quota" /\ Goto(s, "admit") /\ Keep
        /\ UNCHANGED <<status, cid, gpu, runtime, ops>>

(* Rows are deleted by id: a row inserted since the scan is not among them.*)
Reap(s) ==
    LET gone == stale[s] \cap aged
    IN  /\ pc[s] = "reap"
        /\ rows' = rows \ gone
        /\ aged' = aged \ gone
        /\ \/ op[s] = "quota" /\ End(s)
           \/ op[s] # "quota" /\ Goto(s, "admit") /\ Keep
        /\ UNCHANGED <<status, cid, gpu, runtime, ops>>

(* check_spawn_allowed: are there enough devices?  Those of the server     *)
(* whose plan is being changed count.                                      *)
Enough(s) ==
    want[s] <= Cardinality(Free \cup (IF op[s] = "update" THEN Held(on[s]) ELSE {}))

Admit(s) ==
    /\ pc[s] = "admit"
    /\ \/ ~ Enough(s) /\ End(s)
       \/ Enough(s) /\ op[s] = "create" /\ Goto(s, "devices") /\ Keep
       \/ Enough(s) /\ op[s] = "update" /\ Goto(s, "exchange") /\ Keep
    /\ UNCHANGED <<db, runtime, ops>>

(* update_server, plan change: the old devices go back first, in a commit  *)
(* of their own, while the container still runs on them.                   *)
Replace(s) ==
    IF myCid[s] = None THEN "replan" ELSE "remove"

Exchange(s) ==
    LET v == on[s]
        changed == want[s] # gpu[v]
    IN  /\ pc[s] = "exchange"
        /\ rows' = IF changed THEN {r \in rows : r[2] # v} ELSE rows
        /\ aged' = IF changed THEN {r \in aged : r[2] # v} ELSE aged
        /\ Goto(s, IF changed /\ want[s] > 0 /\ mySt[s] = "running"
                   THEN "regrant" ELSE Replace(s))
        /\ UNCHANGED <<status, cid, gpu, runtime, ops>> /\ Keep

-----------------------------------------------------------------------------
(* spawner.get_status: a container the runtime does not know under this id *)
(* and a lookup that fails both read "unknown".                            *)
Reported(s) ==
    LET v == on[s]
        truth == IF box[v] # myCid[s] THEN "unknown"
                 ELSE IF v \in up THEN "running" ELSE "stopped"
    IN  {truth} \cup (IF "lookup" \in Faults THEN {"unknown"} ELSE {})

(* Mutant of AfterProbe: a stop takes "unknown" for "stopped".             *)
AfterProbeHopeful(o, seen) ==
    CASE o \in {"start", "restart"} -> (IF seen = "unknown" THEN "devices" ELSE "clear")
      [] o = "stop" -> (IF seen = "running" THEN "remove" ELSE "clear")
      [] o = "view" -> "done"

(* "remove" must succeed; "clear" carries on when the runtime call fails.  *)
AfterProbe(o, seen) ==
    CASE o = "start"   -> (CASE seen = "running" -> "done"
                             [] seen = "stopped" -> "clear"
                             [] seen = "unknown" -> "devices")
      [] o = "restart" -> (IF seen = "unknown" THEN "devices" ELSE "clear")
      [] o = "stop"    -> (CASE seen = "running" -> "remove"
                             [] seen = "stopped" -> "clear"
                             [] seen = "unknown" -> "done")
      [] o = "view"    -> (CASE seen = "running" -> "raise"
                             [] seen = "stopped" -> "lower"
                             [] seen = "unknown" -> "done")

Probe(s) ==
    /\ pc[s] = "probe"
    /\ \E seen \in Reported(s) :
          \/ AfterProbe(op[s], seen) = "done" /\ End(s)
          \/ AfterProbe(op[s], seen) # "done" /\ Goto(s, AfterProbe(op[s], seen)) /\ Keep
    /\ UNCHANGED <<db, runtime, ops>>

AfterRemove(s) ==
    CASE op[s] \in {"start", "restart"} -> "devices"
      [] op[s] = "respawn" -> "spawn"
      [] op[s] = "update"  -> "replan"
      [] op[s] = "delete"  -> "mark"
      [] op[s] = "expire"  -> "settle"
      [] op[s] = "stop"    -> IF pc[s] = "remove" THEN "settle" ELSE "mark"

(* spawner.delete.  404 counts as success, and then there is nothing there.*)
Remove(s) ==
    LET v == on[s]
    IN  /\ pc[s] \in {"remove", "clear"}
        /\ box' = [box EXCEPT ![v] = IF @ = myCid[s] THEN None ELSE @]
        /\ up' = IF box[v] = myCid[s] THEN up \ {v} ELSE up
        /\ Goto(s, AfterRemove(s))
        /\ UNCHANGED <<db, baked, lastId, ops>> /\ Keep

(* Mutant of RemoveFails: the error is ignored everywhere.                 *)
RemoveFailsIgnored(s) ==
    /\ "delete" \in Faults /\ pc[s] \in {"remove", "clear"}
    /\ Goto(s, AfterRemove(s)) /\ Keep
    /\ UNCHANGED <<db, runtime, ops>>

(* An update has asked the container to stop before; that may have worked. *)
RemoveFails(s) ==
    /\ "delete" \in Faults /\ pc[s] \in {"remove", "clear"}
    /\ \/ pc[s] = "clear" /\ Goto(s, AfterRemove(s)) /\ Keep /\ UNCHANGED up
       \/ pc[s] = "remove" /\ End(s) /\ UNCHANGED up
       \/ pc[s] = "remove" /\ op[s] = "update" /\ box[on[s]] = myCid[s]
             /\ End(s) /\ up' = up \ {on[s]}
    /\ UNCHANGED <<db, box, baked, lastId, ops>>

(* Bulk stop only stops the container; it stays, with its devices baked in.*)
Halt(s) ==
    /\ pc[s] = "halt"
    /\ \/ /\ up' = IF box[on[s]] = myCid[s] THEN up \ {on[s]} ELSE up
          /\ Goto(s, "mark") /\ Keep
       \/ "delete" \in Faults /\ End(s) /\ UNCHANGED up
    /\ UNCHANGED <<db, box, baked, lastId, ops>>

-----------------------------------------------------------------------------
(* A flush writes the attributes that differ from what was loaded.         *)
WrittenCid(s) == IF myCid[s] = None \/ op[s] = "bulk_stop" THEN cid[on[s]] ELSE None
WrittenStatus(s) ==
    IF op[s] = "delete" THEN "none"
    ELSE IF mySt[s] = "stopped" THEN status[on[s]] ELSE "stopped"

WriteDown(s) ==
    /\ status' = [status EXCEPT ![on[s]] = WrittenStatus(s)]
    /\ cid' = [cid EXCEPT ![on[s]] = WrittenCid(s)]

(* The row an UPDATE is meant for is gone: StaleDataError, and a 500.      *)
Vanished(s) ==
    /\ pc[s] \in {"mark", "settle", "replan", "record", "raise", "lower"} /\ op[s] \notin {"delete", "create"}
    /\ status[on[s]] = "none"
    /\ End(s)
    /\ UNCHANGED <<db, runtime, ops>>

(* Every look at a server (the list, the page, the path) corrects a status *)
(* that disagrees with the container.  The reservations stay.              *)
Synced(s) ==
    CASE pc[s] = "raise" /\ mySt[s] # "running" -> "running"
      [] pc[s] = "lower" /\ mySt[s] = "running" -> "stopped"
      [] OTHER -> status[on[s]]

Sync(s) ==
    /\ pc[s] \in {"raise", "lower"} /\ status[on[s]] # "none"
    /\ status' = [status EXCEPT ![on[s]] = Synced(s)]
    /\ End(s)
    /\ UNCHANGED <<cid, gpu, rows, aged, runtime, ops>>

(* Stop with no running container, bulk stop, delete and a failed update   *)
(* commit the server row first and release the devices in a second commit. *)
Mark(s) ==
    /\ pc[s] = "mark"
    /\ op[s] = "delete" \/ status[on[s]] # "none"
    /\ WriteDown(s)
    /\ Goto(s, "release")
    /\ UNCHANGED <<gpu, rows, aged, runtime, ops>> /\ Keep

Release(s) ==
    /\ pc[s] = "release"
    /\ rows' = {r \in rows : r[2] # on[s]}
    /\ aged' = {r \in aged : r[2] # on[s]}
    /\ End(s)
    /\ UNCHANGED <<status, cid, gpu, runtime, ops>>

(* Stop of a running server: the release commits the server row as well.   *)
Settle(s) ==
    /\ pc[s] = "settle" /\ status[on[s]] # "none"
    /\ WriteDown(s)
    /\ rows' = {r \in rows : r[2] # on[s]}
    /\ aged' = {r \in aged : r[2] # on[s]}
    /\ End(s)
    /\ UNCHANGED <<gpu, runtime, ops>>

(* update_server commits the new plan, and the stop if there was one, and  *)
(* reloads the row; a server that has no container then is respawned.      *)
Replan(s) ==
    LET v == on[s]
        st == IF myCid[s] = None THEN status[v] ELSE WrittenStatus(s)
        c == WrittenCid(s)
    IN  /\ pc[s] = "replan" /\ status[v] # "none"
        /\ gpu' = [gpu EXCEPT ![v] = want[s]]
        /\ status' = [status EXCEPT ![v] = st]
        /\ cid' = [cid EXCEPT ![v] = c]
        /\ \/ /\ c = None
              /\ pc' = [pc EXCEPT ![s] = "devices"]
              /\ mySt' = [mySt EXCEPT ![s] = st]
              /\ myCid' = [myCid EXCEPT ![s] = None]
              /\ UNCHANGED <<op, on, want>> /\ Keep
           \/ c # None /\ End(s)
        /\ UNCHANGED <<rows, aged, runtime, ops>>

-----------------------------------------------------------------------------
(* allocate: the first n free devices in pool order.                       *)
FirstFree(n, D) ==
    /\ D \subseteq Free /\ Cardinality(D) = n
    /\ \A d \in D, e \in Free \ D : d < e

AfterDevices(s) == IF op[s] = "respawn" THEN "clear" ELSE "spawn"

(* _ensure_gpu_devices: rows the server holds already are taken as they    *)
(* are, whatever their number.                                             *)
Reuse(s) ==
    /\ pc[s] = "devices" /\ (want[s] = 0 \/ Held(on[s]) # {})
    /\ devs' = [devs EXCEPT ![s] = IF want[s] = 0 THEN {} ELSE Held(on[s])]
    /\ Goto(s, AfterDevices(s))
    /\ UNCHANGED <<db, runtime, mine, stale, ops>>

(* How many devices each allocate() asks for: a failed plan change tries   *)
(* to get the old number back.                                             *)
Asked(s) == IF pc[s] = "restore" THEN gpu[on[s]] ELSE want[s]

Pick(s) ==
    /\ \/ pc[s] = "devices" /\ want[s] > 0 /\ Held(on[s]) = {}
       \/ pc[s] \in {"regrant", "restore"}
    /\ \E D \in SUBSET Devices :
          /\ FirstFree(Asked(s), D)
          /\ devs' = [devs EXCEPT ![s] = D]
    /\ Goto(s, CASE pc[s] = "devices" -> "reserve"
                  [] pc[s] = "regrant" -> "reserve_new"
                  [] pc[s] = "restore" -> "reserve_old")
    /\ UNCHANGED <<db, runtime, mine, stale, ops>>

Refused(s) ==
    IF pc[s] \in {"regrant", "reserve_new"} /\ gpu[on[s]] > 0
    THEN Goto(s, "restore") /\ Keep
    ELSE End(s)

Exhausted(s) ==
    /\ \/ pc[s] = "devices" /\ want[s] > 0 /\ Held(on[s]) = {}
       \/ pc[s] \in {"regrant", "restore"}
    /\ Cardinality(Free) < Asked(s)
    /\ Refused(s)
    /\ UNCHANGED <<db, runtime, ops>>

(* Mutant of Reserve: no UNIQUE constraint on device.                      *)
ReserveTwice(s) ==
    /\ pc[s] \in {"reserve", "reserve_new", "reserve_old"}
    /\ rows' = rows \cup {<<d, on[s]>> : d \in devs[s]}
    /\ \/ /\ pc[s] = "reserve_old" /\ End(s)
       \/ /\ pc[s] # "reserve_old"
          /\ mine' = [mine EXCEPT ![s] = TRUE]
          /\ Goto(s, IF pc[s] = "reserve" THEN AfterDevices(s) ELSE Replace(s))
          /\ UNCHANGED <<devs, stale>>
    /\ UNCHANGED <<status, cid, gpu, aged, runtime, ops>>

(* The commit of the new rows, under UNIQUE(device): all of them or none.  *)
Reserve(s) ==
    /\ pc[s] \in {"reserve", "reserve_new", "reserve_old"}
    /\ devs[s] \subseteq Free
    /\ rows' = rows \cup {<<d, on[s]>> : d \in devs[s]}
    /\ \/ /\ pc[s] = "reserve_old" /\ End(s)
       \/ /\ pc[s] # "reserve_old"
          /\ mine' = [mine EXCEPT ![s] = TRUE]
          /\ Goto(s, IF pc[s] = "reserve" THEN AfterDevices(s) ELSE Replace(s))
          /\ UNCHANGED <<devs, stale>>
    /\ UNCHANGED <<status, cid, gpu, aged, runtime, ops>>

RaceLost(s) ==
    /\ pc[s] \in {"reserve", "reserve_new", "reserve_old"}
    /\ ~ (devs[s] \subseteq Free)
    /\ Refused(s)
    /\ UNCHANGED <<db, runtime, ops>>

-----------------------------------------------------------------------------
(* spawner.spawn removes a container of the same name, then creates one.   *)
Spawn(s) ==
    LET v == on[s]
    IN  /\ pc[s] = "spawn"
        /\ lastId' = lastId + 1
        /\ box' = [box EXCEPT ![v] = lastId + 1]
        /\ up' = up \cup {v}
        /\ baked' = [baked EXCEPT ![v] = devs[s]]
        /\ myCid' = [myCid EXCEPT ![s] = lastId + 1]
        /\ pc' = [pc EXCEPT ![s] = "record"]
        /\ UNCHANGED <<db, op, on, mySt, want, ops>> /\ Keep

(* A spawn that fails tries to clean up by name, which may fail as well.   *)
(* Create and update give the devices back, update once it has committed   *)
(* "stopped"; start, restart and respawn leave their rows reserved.        *)
SpawnFails(s) ==
    LET v == on[s]
    IN  /\ "spawn" \in Faults /\ pc[s] = "spawn"
        /\ \/ /\ box' = [box EXCEPT ![v] = None] /\ up' = up \ {v}
              /\ UNCHANGED <<baked, lastId>>
           \/ "cleanup" \in Faults /\ UNCHANGED <<box, up, baked, lastId>>
           \/ /\ "cleanup" \in Faults
              /\ lastId' = lastId + 1
              /\ box' = [box EXCEPT ![v] = lastId + 1]
              /\ up' = up \cup {v}
              /\ baked' = [baked EXCEPT ![v] = devs[s]]
        /\ \/ op[s] = "create" /\ Goto(s, "release") /\ Keep
           \/ op[s] = "update" /\ Goto(s, "mark") /\ Keep
           \/ op[s] \notin {"create", "update"} /\ End(s)
        /\ UNCHANGED <<db, ops>>

(* The handler stores the new container id and the status.                 *)
Record(s) ==
    LET v == on[s]
    IN  /\ pc[s] = "record"
        /\ op[s] = "create" \/ status[v] # "none"
        /\ status' = [status EXCEPT ![v] = IF mySt[s] = "running" THEN @ ELSE "running"]
        /\ cid' = [cid EXCEPT ![v] = myCid[s]]
        /\ gpu' = [gpu EXCEPT ![v] = IF op[s] = "create" THEN want[s] ELSE @]
        /\ End(s)
        /\ UNCHANGED <<rows, aged, runtime, ops>>

-----------------------------------------------------------------------------
(* The program in the container ends.  There is no restart policy.         *)
Exits(v) ==
    /\ v \in up
    /\ up' = up \ {v}
    /\ UNCHANGED <<db, box, baked, lastId, pc, task, devs, mine, stale, ops>>

(* A row gets older than _RECONCILE_GRACE.  A handler ends long before the *)
(* rows it inserted are that old, and so does a reconcile.                 *)
Age(r) ==
    /\ r \in rows \ aged
    /\ \A s \in Sessions : ~ (mine[s] /\ on[s] = r[2]) /\ pc[s] # "reap"
    /\ aged' = aged \cup {r}
    /\ UNCHANGED <<status, cid, gpu, rows, runtime, pc, task, devs, mine, stale, ops>>

Crash(s) ==
    /\ CrashPossible /\ pc[s] # "idle"
    /\ End(s)
    /\ UNCHANGED <<db, runtime, ops>>

Step(s) == \/ Scan(s) \/ Reap(s) \/ Admit(s) \/ Exchange(s)
           \/ Probe(s) \/ Remove(s) \/ RemoveFails(s) \/ Halt(s)
           \/ Vanished(s) \/ Sync(s) \/ Mark(s) \/ Release(s) \/ Settle(s) \/ Replan(s)
           \/ Reuse(s) \/ Pick(s) \/ Exhausted(s) \/ Reserve(s) \/ RaceLost(s)
           \/ Spawn(s) \/ SpawnFails(s) \/ Record(s)

Next ==
    \/ \E s \in Sessions, o \in Ops, v \in Servers, n \in Plans : Begin(s, o, v, n)
    \/ \E s \in Sessions : BeginQuota(s)
    \/ \E s \in Sessions : Step(s)
    \/ \E s \in Sessions : Crash(s)
    \/ \E v \in Servers : Exits(v)
    \/ \E r \in rows : Age(r)

Spec == Init /\ [][Next]_vars

-----------------------------------------------------------------------------
PCs == {"idle", "scan", "reap", "admit", "exchange", "probe", "remove", "clear",
        "halt", "raise", "lower", "mark", "release", "settle", "replan", "devices", "regrant",
        "restore", "reserve", "reserve_new", "reserve_old", "spawn", "record"}

(* Types; a session past its first step works on a real server.            *)
TypeOK ==
    /\ status \in [Servers -> {"none", "running", "stopped"}]
    /\ cid \in [Servers -> Nat \cup {None}]
    /\ gpu \in [Servers -> Nat]
    /\ rows \in SUBSET (Devices \X Servers) /\ aged \in SUBSET rows
    /\ box \in [Servers -> Nat \cup {None}]
    /\ up \in SUBSET Servers
    /\ baked \in [Servers -> SUBSET Devices]
    /\ lastId \in Nat /\ ops \in Nat
    /\ pc \in [Sessions -> PCs]
    /\ op \in [Sessions -> AllOps \cup {None}]
    /\ on \in [Sessions -> Servers \cup {None}]
    /\ myCid \in [Sessions -> Nat \cup {None}]
    /\ mySt \in [Sessions -> {"none", "running", "stopped"}]
    /\ want \in [Sessions -> Nat]
    /\ devs \in [Sessions -> SUBSET Devices]
    /\ mine \in [Sessions -> BOOLEAN]
    /\ stale \in [Sessions -> SUBSET (Devices \X Servers)]
    /\ \A s \in Sessions : pc[s] \notin {"idle", "scan", "reap"} => on[s] \in Servers

(* No device is reserved for two servers, however many handlers picked it  *)
(* from the same list of free devices (GpuAllocation: "concurrent spawns   *)
(* cannot reserve the same device twice").                                 *)
ReservedOnce ==
    \A d \in Devices, v, w \in Servers :
        <<d, v>> \in rows /\ <<d, w>> \in rows => v = w

(* A running container owns the devices it was created with: the rows are  *)
(* there as long as it runs (_perform_server_start: "Recreating guarantees *)
(* the container runs with devices it owns").                              *)
RunsOnOwnDevices ==
    \A v \in up : \A d \in baked[v] : <<d, v>> \in rows

(* No two running containers share a GPU (gpu_allocator: "each unit of a   *)
(* plan's gpu_limit exclusively reserves one physical device").            *)
Exclusive ==
    \A v, w \in up : v # w => baked[v] \cap baked[w] = {}

Pool == INSTANCE GpuPool
            WITH used <- [v \in Servers |-> IF v \in up THEN baked[v] ELSE {}]

(* Handlers, reconciles and containers together behave like a pool that    *)
(* hands out free devices, lets a container use only what its server has,  *)
(* and takes back only what is not in use.                                 *)
ImplementsPool == Pool!Spec

(* A server is not marked stopped while its container runs, although the   *)
(* runtime may fail to answer or to delete (_perform_server_stop: "Refuse  *)
(* to mark the server stopped: the container may still be running").       *)
StopIsReal ==
    [][\A v \in Servers :
         status[v] = "running" /\ status'[v] = "stopped" => v \notin up']_vars

(* A device is not taken from a container that runs on it: its reservation *)
(* ends only once the container is down (_RECONCILE_GRACE: "reconcile must *)
(* not treat fresh rows as orphans and double-book the device").           *)
NotReapedWhileUp ==
    [][\A r \in rows : r \notin rows' => ~ (r[2] \in up /\ r[1] \in baked[r[2]])]_vars
=============================================================================

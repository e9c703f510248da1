-------------------------- MODULE GpuServersProofs --------------------------
(* What TLAPS proves about GpuServers for every number of servers,         *)
(* devices, plans and concurrent sessions.                                 *)
EXTENDS GpuServers, TLAPS

(* Which operation can stand at which label.                               *)
OpsAt(l) ==
    CASE l = "idle" -> {None}
      [] l \in {"scan", "reap"} -> {"create", "update", "quota"}
      [] l = "admit" -> {"create", "update"}
      [] l \in {"exchange", "replan", "regrant", "restore",
                "reserve_new", "reserve_old"} -> {"update"}
      [] l = "probe" -> {"start", "restart", "stop", "view"}
      [] l \in {"raise", "lower"} -> {"view"}
      [] l = "remove" -> {"stop", "delete", "expire", "update"}
      [] l = "clear" -> {"start", "restart", "respawn", "stop"}
      [] l = "halt" -> {"bulk_stop"}
      [] l = "mark" -> {"stop", "bulk_stop", "delete", "update"}
      [] l = "settle" -> {"stop", "expire"}
      [] l = "release" -> {"stop", "bulk_stop", "delete", "create", "update"}
      [] l \in {"devices", "reserve", "spawn", "record"} ->
             {"create", "start", "restart", "respawn", "update"}

OpFits == \A s \in Sessions : op[s] \in OpsAt(pc[s])

OnServer == \A s \in Sessions :
    on[s] = None <=> op[s] \in {None, "quota"}

TypeInv == TypeOK /\ OpFits /\ OnServer

(* The successor labels chosen by the case tables are labels at which the  *)
(* operation may stand.                                                    *)
LEMMA FirstStepFits ==
    ASSUME NEW o \in AllOps \ {"quota"}, NEW c,
           o \in {"restart", "respawn", "expire", "bulk_stop", "view"} => c # None
    PROVE  FirstStep(o, c) \in PCs /\ o \in OpsAt(FirstStep(o, c))
BY DEF FirstStep, OpsAt, PCs, AllOps

(* ... and so are those chosen after a probe.                              *)
LEMMA AfterProbeFits ==
    ASSUME NEW o \in {"start", "restart", "stop", "view"},
           NEW seen \in {"running", "stopped", "unknown"},
           AfterProbe(o, seen) # "done"
    PROVE  /\ AfterProbe(o, seen) \in {"clear", "remove", "devices", "raise", "lower"}
           /\ o # "view" => AfterProbe(o, seen) \in {"clear", "remove", "devices"}
           /\ o \in OpsAt(AfterProbe(o, seen))
BY DEF AfterProbe, OpsAt

(* The types hold initially.                                               *)
LEMMA TypeInvInit == Init => TypeInv
BY GpuAssumption DEF Init, TypeInv, TypeOK, OpFits, OnServer, OpsAt, PCs, Devices

(* Steps that end the session keep the session variables in their types.   *)
LEMMA EndTypes ==
    ASSUME TypeInv, NEW s \in Sessions, End(s)
    PROVE  /\ pc' \in [Sessions -> PCs]
           /\ op' \in [Sessions -> AllOps \cup {None}]
           /\ on' \in [Sessions -> Servers \cup {None}]
           /\ myCid' \in [Sessions -> Nat \cup {None}]
           /\ mySt' \in [Sessions -> {"none", "running", "stopped"}]
           /\ want' \in [Sessions -> Nat]
           /\ devs' \in [Sessions -> SUBSET Devices]
           /\ mine' \in [Sessions -> BOOLEAN]
           /\ stale' \in [Sessions -> SUBSET (Devices \X Servers)]
           /\ \A t \in Sessions : pc'[t] \notin {"idle", "scan", "reap"} => on'[t] \in Servers
           /\ OpFits' /\ OnServer'
BY DEF TypeInv, TypeOK, End, OpFits, OnServer, OpsAt, PCs

(* ... and so do steps that move it on to a label its operation allows.    *)
LEMMA GotoTypes ==
    ASSUME TypeInv, NEW s \in Sessions, NEW l \in PCs, Goto(s, l),
           op[s] \in OpsAt(l), pc[s] # "idle", op[s] # "quota" \/ l = "reap"
    PROVE  /\ pc' \in [Sessions -> PCs]
           /\ op' \in [Sessions -> AllOps \cup {None}]
           /\ on' \in [Sessions -> Servers \cup {None}]
           /\ myCid' \in [Sessions -> Nat \cup {None}]
           /\ mySt' \in [Sessions -> {"none", "running", "stopped"}]
           /\ want' \in [Sessions -> Nat]
           /\ \A t \in Sessions : pc'[t] \notin {"idle", "scan", "reap"} => on'[t] \in Servers
           /\ OpFits' /\ OnServer'
<1>1. op[s] # None
  BY GpuAssumption DEF TypeInv, TypeOK, OpFits, OpsAt, PCs, AllOps
<1>. QED
  BY <1>1 DEF TypeInv, TypeOK, Goto, task, OpFits, OnServer

(* The table of labels after a container was removed, row by row.          *)
LEMMA AfterRemoveFits ==
    ASSUME TypeInv, NEW s \in Sessions, pc[s] \in {"remove", "clear"}
    PROVE  AfterRemove(s) \in PCs /\ op[s] \in OpsAt(AfterRemove(s))
<1>1. op[s] \in {"start", "restart", "respawn", "stop", "delete", "expire", "update"}
  BY DEF TypeInv, OpFits, OpsAt
<1>. QED
  BY <1>1 DEF AfterRemove, OpsAt, PCs

(* Every step keeps the types and the fit of operation and label.          *)
LEMMA TypeInvNext == TypeInv /\ [Next]_vars => TypeInv'
<1>. SUFFICES ASSUME TypeInv, [Next]_vars PROVE TypeInv'
  OBVIOUS
<1>. USE GpuAssumption
<1>1. ASSUME NEW s \in Sessions, NEW o \in Ops, NEW v \in Servers, NEW n \in Plans,
             Begin(s, o, v, n)
      PROVE  TypeInv'
  <2>1. FirstStep(o, cid[v]) \in PCs /\ o \in OpsAt(FirstStep(o, cid[v]))
    BY <1>1, FirstStepFits DEF Begin
  <2>. QED
    BY <1>1, <2>1 DEF Begin, TypeInv, TypeOK, OpFits, OnServer, Keep, db, runtime, AllOps
<1>2. ASSUME NEW s \in Sessions, BeginQuota(s) PROVE TypeInv'
  BY <1>2 DEF BeginQuota, TypeInv, TypeOK, OpFits, OnServer, OpsAt, PCs, Keep, db, runtime, AllOps
<1>3. ASSUME NEW s \in Sessions, Scan(s) PROVE TypeInv'
  <2>1. op[s] \in OpsAt("reap") /\ "reap" \in PCs /\ pc[s] # "idle" /\ Goto(s, "reap")
    BY <1>3 DEF Scan, TypeInv, OpFits, OpsAt, PCs
  <2>. QED
    BY <1>3, <2>1, GotoTypes DEF Scan, TypeInv, TypeOK, db, runtime
<1>4. ASSUME NEW s \in Sessions, Reap(s) PROVE TypeInv'
  <2>1. CASE op[s] = "quota" /\ End(s)
    BY <1>4, <2>1, EndTypes DEF Reap, TypeInv, TypeOK, runtime
  <2>2. CASE op[s] # "quota" /\ Goto(s, "admit") /\ Keep
    <3>1. op[s] \in OpsAt("admit") /\ "admit" \in PCs /\ pc[s] # "idle"
      BY <1>4, <2>2 DEF Reap, TypeInv, OpFits, OpsAt, PCs
    <3>. QED
      BY <1>4, <2>2, <3>1, GotoTypes DEF Reap, TypeInv, TypeOK, runtime, Keep
  <2>. QED
    BY <1>4, <2>1, <2>2 DEF Reap
<1>5. ASSUME NEW s \in Sessions, Admit(s) PROVE TypeInv'
  <2>1. CASE End(s)
    BY <1>5, <2>1, EndTypes DEF Admit, TypeInv, TypeOK, runtime, db
  <2>2. CASE op[s] = "create" /\ Goto(s, "devices") /\ Keep
    BY <1>5, <2>2, GotoTypes DEF Admit, TypeInv, TypeOK, runtime, db, Keep, OpsAt, PCs
  <2>3. CASE op[s] = "update" /\ Goto(s, "exchange") /\ Keep
    BY <1>5, <2>3, GotoTypes DEF Admit, TypeInv, TypeOK, runtime, db, Keep, OpsAt, PCs
  <2>. QED
    BY <1>5, <2>1, <2>2, <2>3 DEF Admit
<1>6. ASSUME NEW s \in Sessions, Exchange(s) PROVE TypeInv'
  <2>1. op[s] = "update" /\ pc[s] # "idle" /\ on[s] \in Servers
    BY <1>6 DEF Exchange, TypeInv, TypeOK, OpFits, OpsAt
  <2>2. \E l \in {"regrant", "replan", "remove"} : Goto(s, l)
    BY <1>6 DEF Exchange, Replace
  <2>3. PICK l \in {"regrant", "replan", "remove"} : Goto(s, l)
    BY <2>2
  <2>4. l \in PCs /\ op[s] \in OpsAt(l) /\ op[s] # "quota"
    BY <2>1 DEF PCs, OpsAt
  <2>. QED
    BY <1>6, <2>1, <2>3, <2>4, GotoTypes DEF Exchange, TypeInv, TypeOK, runtime, Keep
<1>7. ASSUME NEW s \in Sessions, Probe(s) PROVE TypeInv'
  <2>1. PICK seen \in Reported(s) :
          \/ AfterProbe(op[s], seen) = "done" /\ End(s)
          \/ AfterProbe(op[s], seen) # "done" /\ Goto(s, AfterProbe(op[s], seen)) /\ Keep
    BY <1>7 DEF Probe
  <2>2. op[s] \in {"start", "restart", "stop", "view"} /\ pc[s] # "idle"
    BY <1>7 DEF Probe, TypeInv, OpFits, OpsAt
  <2>3. seen \in {"running", "stopped", "unknown"}
    BY <2>1 DEF Reported
  <2>4. CASE AfterProbe(op[s], seen) = "done"
    BY <1>7, <2>1, <2>4, EndTypes DEF Probe, TypeInv, TypeOK, runtime, db
  <2>5. CASE AfterProbe(op[s], seen) # "done"
    <3>1. /\ AfterProbe(op[s], seen) \in PCs
          /\ op[s] \in OpsAt(AfterProbe(op[s], seen)) /\ op[s] # "quota"
      BY <2>2, <2>3, <2>5, AfterProbeFits DEF PCs
    <3>. QED
      BY <1>7, <2>1, <2>2, <2>5, <3>1, GotoTypes DEF Probe, TypeInv, TypeOK, runtime, db, Keep
  <2>. QED
    BY <2>4, <2>5
<1>8. ASSUME NEW s \in Sessions, Remove(s) PROVE TypeInv'
  <2>1. AfterRemove(s) \in PCs /\ op[s] \in OpsAt(AfterRemove(s)) /\ pc[s] # "idle"
    BY <1>8, AfterRemoveFits DEF Remove
  <2>2. op[s] # "quota" /\ on[s] \in Servers
    BY <1>8 DEF Remove, TypeInv, TypeOK, OpFits, OpsAt
  <2>. QED
    BY <1>8, <2>1, <2>2, GotoTypes DEF Remove, TypeInv, TypeOK, db, Keep
<1>9. ASSUME NEW s \in Sessions, RemoveFails(s) PROVE TypeInv'
  <2>1. AfterRemove(s) \in PCs /\ op[s] \in OpsAt(AfterRemove(s)) /\ pc[s] # "idle"
    BY <1>9, AfterRemoveFits DEF RemoveFails
  <2>2. op[s] # "quota"
    BY <1>9 DEF RemoveFails, TypeInv, TypeOK, OpFits, OpsAt
  <2>3. CASE End(s)
    BY <1>9, <2>3, EndTypes DEF RemoveFails, TypeInv, TypeOK, db
  <2>4. CASE Goto(s, AfterRemove(s)) /\ Keep /\ UNCHANGED up
    BY <1>9, <2>1, <2>2, <2>4, GotoTypes DEF RemoveFails, TypeInv, TypeOK, db, Keep
  <2>. QED
    BY <1>9, <2>3, <2>4 DEF RemoveFails
<1>10. ASSUME NEW s \in Sessions, Halt(s) PROVE TypeInv'
  <2>1. op[s] = "bulk_stop" /\ pc[s] # "idle"
    BY <1>10 DEF Halt, TypeInv, OpFits, OpsAt
  <2>2. CASE End(s)
    BY <1>10, <2>2, EndTypes DEF Halt, TypeInv, TypeOK, db
  <2>3. CASE Goto(s, "mark") /\ Keep
    BY <1>10, <2>1, <2>3, GotoTypes DEF Halt, TypeInv, TypeOK, db, Keep, OpsAt, PCs
  <2>. QED
    BY <1>10, <2>2, <2>3 DEF Halt
<1>11. ASSUME NEW s \in Sessions, Vanished(s) \/ Crash(s) PROVE TypeInv'
  BY <1>11, EndTypes DEF Vanished, Crash, TypeInv, TypeOK, db, runtime
<1>12. ASSUME NEW s \in Sessions, Mark(s) PROVE TypeInv'
  <2>1. op[s] \in {"stop", "bulk_stop", "delete", "update"} /\ pc[s] # "idle" /\ on[s] \in Servers
    BY <1>12 DEF Mark, TypeInv, TypeOK, OpFits, OpsAt
  <2>2. "release" \in PCs /\ op[s] \in OpsAt("release") /\ op[s] # "quota"
    BY <2>1 DEF PCs, OpsAt
  <2>. QED
    BY <1>12, <2>1, <2>2, GotoTypes
    DEF Mark, WriteDown, WrittenStatus, WrittenCid, TypeInv, TypeOK, runtime, Keep
<1>13. ASSUME NEW s \in Sessions, Release(s) PROVE TypeInv'
  BY <1>13, EndTypes DEF Release, TypeInv, TypeOK, runtime
<1>14. ASSUME NEW s \in Sessions, Settle(s) PROVE TypeInv'
  <2>1. on[s] \in Servers
    BY <1>14 DEF Settle, TypeInv, TypeOK
  <2>. QED
    BY <1>14, <2>1, EndTypes
    DEF Settle, WriteDown, WrittenStatus, WrittenCid, TypeInv, TypeOK, runtime
<1>15. ASSUME NEW s \in Sessions, Replan(s) PROVE TypeInv'
  <2>1. op[s] = "update" /\ on[s] \in Servers
    BY <1>15 DEF Replan, TypeInv, TypeOK, OpFits, OpsAt
  <2>2. CASE End(s)
    BY <1>15, <2>1, <2>2, EndTypes
    DEF Replan, WrittenStatus, WrittenCid, TypeInv, TypeOK, runtime
  <2>3. CASE ~ End(s)
    <3>1. /\ pc' = [pc EXCEPT ![s] = "devices"]
          /\ mySt' = [mySt EXCEPT ![s] = IF myCid[s] = None THEN status[on[s]] ELSE WrittenStatus(s)]
          /\ myCid' = [myCid EXCEPT ![s] = None]
          /\ UNCHANGED <<op, on, want, devs, mine, stale>>
      BY <1>15, <2>3 DEF Replan, Keep
    <3>2. WrittenStatus(s) \in {"none", "running", "stopped"}
      BY <2>1 DEF WrittenStatus, TypeInv, TypeOK
    <3>3. WrittenCid(s) \in Nat \cup {None}
      BY <2>1 DEF WrittenCid, TypeInv, TypeOK
    <3>4. /\ gpu' \in [Servers -> Nat] /\ status' \in [Servers -> {"none", "running", "stopped"}]
          /\ cid' \in [Servers -> Nat \cup {None}]
      BY <1>15, <2>1, <3>2, <3>3 DEF Replan, TypeInv, TypeOK
    <3>5. mySt' \in [Sessions -> {"none", "running", "stopped"}]
      BY <2>1, <3>1, <3>2 DEF TypeInv, TypeOK
    <3>6. OpFits' /\ OnServer'
      <4>1. "update" \in OpsAt("devices")
        BY DEF OpsAt
      <4>. QED
        BY <2>1, <3>1, <4>1 DEF TypeInv, TypeOK, OpFits, OnServer
    <3>. QED
      BY <1>15, <2>1, <3>1, <3>4, <3>5, <3>6 DEF Replan, TypeInv, TypeOK, PCs, runtime
  <2>. QED
    BY <2>2, <2>3
<1>16. ASSUME NEW s \in Sessions, Reuse(s) PROVE TypeInv'
  <2>1. op[s] \in OpsAt("devices") /\ pc[s] # "idle"
    BY <1>16 DEF Reuse, TypeInv, OpFits
  <2>2. /\ AfterDevices(s) \in PCs /\ op[s] \in OpsAt(AfterDevices(s))
        /\ op[s] # "quota"
    BY <2>1 DEF AfterDevices, PCs, OpsAt
  <2>. QED
    BY <1>16, <2>1, <2>2, GotoTypes DEF Reuse, TypeInv, TypeOK, db, runtime, Held
<1>17. ASSUME NEW s \in Sessions, Pick(s) PROVE TypeInv'
  <2>1. pc[s] \in {"devices", "regrant", "restore"}
    BY <1>17 DEF Pick
  <2>2. PICK l \in {"reserve", "reserve_new", "reserve_old"} :
          Goto(s, l) /\ l = (CASE pc[s] = "devices" -> "reserve"
                               [] pc[s] = "regrant" -> "reserve_new"
                               [] pc[s] = "restore" -> "reserve_old")
    BY <1>17, <2>1 DEF Pick
  <2>3. l \in PCs /\ op[s] \in OpsAt(l) /\ op[s] # "quota" /\ pc[s] # "idle"
    BY <2>1, <2>2 DEF TypeInv, OpFits, PCs, OpsAt
  <2>. QED
    BY <1>17, <2>2, <2>3, GotoTypes DEF Pick, TypeInv, TypeOK, db, runtime
<1>18. ASSUME NEW s \in Sessions, Exhausted(s) \/ RaceLost(s) PROVE TypeInv'
  <2>1. CASE End(s)
    BY <1>18, <2>1, EndTypes DEF Exhausted, RaceLost, TypeInv, TypeOK, db, runtime
  <2>2. CASE pc[s] \in {"regrant", "reserve_new"} /\ Goto(s, "restore") /\ Keep
    <3>1. "restore" \in PCs /\ op[s] \in OpsAt("restore") /\ op[s] # "quota" /\ pc[s] # "idle"
      BY <2>2 DEF TypeInv, OpFits, PCs, OpsAt
    <3>. QED
      BY <1>18, <2>2, <3>1, GotoTypes DEF Exhausted, RaceLost, TypeInv, TypeOK, db, runtime, Keep
  <2>. QED
    BY <1>18, <2>1, <2>2 DEF Exhausted, RaceLost, Refused
<1>19. ASSUME NEW s \in Sessions, Reserve(s) PROVE TypeInv'
  <2>1. on[s] \in Servers /\ pc[s] # "idle"
    BY <1>19 DEF Reserve, TypeInv, TypeOK
  <2>2. CASE End(s)
    BY <1>19, <2>1, <2>2, EndTypes DEF Reserve, TypeInv, TypeOK, runtime
  <2>3. CASE ~ End(s)
    <3>1. PICK l \in {AfterDevices(s), Replace(s)} :
            Goto(s, l) /\ l = (IF pc[s] = "reserve" THEN AfterDevices(s) ELSE Replace(s))
      BY <1>19, <2>3 DEF Reserve
    <3>2. l \in PCs /\ op[s] \in OpsAt(l) /\ op[s] # "quota"
      BY <1>19, <2>3, <3>1 DEF Reserve, TypeInv, OpFits, PCs, OpsAt, AfterDevices, Replace
    <3>3. mine' \in [Sessions -> BOOLEAN] /\ UNCHANGED <<devs, stale>>
      BY <1>19, <2>3 DEF Reserve, TypeInv, TypeOK
    <3>4. rows' \in SUBSET (Devices \X Servers) /\ rows \subseteq rows'
      BY <1>19, <2>1 DEF Reserve, TypeInv, TypeOK
    <3>. QED
      BY <1>19, <2>1, <3>1, <3>2, <3>3, <3>4, GotoTypes DEF Reserve, TypeInv, TypeOK, runtime
  <2>. QED
    BY <2>2, <2>3
<1>20. ASSUME NEW s \in Sessions, Spawn(s) PROVE TypeInv'
  <2>1. on[s] \in Servers /\ op[s] \in OpsAt("record") /\ op[s] \in AllOps
    BY <1>20 DEF Spawn, TypeInv, TypeOK, OpFits, OpsAt, AllOps
  <2>. QED
    BY <1>20, <2>1 DEF Spawn, TypeInv, TypeOK, OpFits, OnServer, PCs, db, Keep
<1>21. ASSUME NEW s \in Sessions, SpawnFails(s) PROVE TypeInv'
  <2>1. on[s] \in Servers /\ pc[s] # "idle"
    BY <1>21 DEF SpawnFails, TypeInv, TypeOK
  <2>2. /\ box' \in [Servers -> Nat \cup {None}] /\ up' \in SUBSET Servers
        /\ baked' \in [Servers -> SUBSET Devices] /\ lastId' \in Nat
    BY <1>21, <2>1 DEF SpawnFails, TypeInv, TypeOK
  <2>3. CASE End(s)
    BY <1>21, <2>2, <2>3, EndTypes DEF SpawnFails, TypeInv, TypeOK, db
  <2>4. CASE op[s] = "create" /\ Goto(s, "release") /\ Keep
    BY <1>21, <2>1, <2>2, <2>4, GotoTypes DEF SpawnFails, TypeInv, TypeOK, db, Keep, PCs, OpsAt
  <2>5. CASE op[s] = "update" /\ Goto(s, "mark") /\ Keep
    BY <1>21, <2>1, <2>2, <2>5, GotoTypes DEF SpawnFails, TypeInv, TypeOK, db, Keep, PCs, OpsAt
  <2>. QED
    BY <1>21, <2>3, <2>4, <2>5 DEF SpawnFails
<1>22. ASSUME NEW s \in Sessions, Record(s) PROVE TypeInv'
  <2>1. on[s] \in Servers
    BY <1>22 DEF Record, TypeInv, TypeOK
  <2>. QED
    BY <1>22, <2>1, EndTypes DEF Record, TypeInv, TypeOK, runtime
<1>23. ASSUME NEW v \in Servers, Exits(v) PROVE TypeInv'
  BY <1>23 DEF Exits, TypeInv, TypeOK, OpFits, OnServer, db, task
<1>24. ASSUME NEW r \in rows, Age(r) PROVE TypeInv'
  BY <1>24 DEF Age, TypeInv, TypeOK, OpFits, OnServer, runtime, task
<1>25. ASSUME NEW s \in Sessions, Sync(s) PROVE TypeInv'
  <2>1. on[s] \in Servers /\ Synced(s) \in {"none", "running", "stopped"}
    BY <1>25 DEF Sync, Synced, TypeInv, TypeOK
  <2>. QED
    BY <1>25, <2>1, EndTypes DEF Sync, TypeInv, TypeOK, runtime
<1>26. CASE UNCHANGED vars
  BY <1>26 DEF vars, db, runtime, task, TypeInv, TypeOK, OpFits, OnServer
<1>. QED
  BY <1>1, <1>2, <1>3, <1>4, <1>5, <1>6, <1>7, <1>8, <1>9, <1>10, <1>11, <1>12, <1>13,
     <1>14, <1>15, <1>16, <1>17, <1>18, <1>19, <1>20, <1>21, <1>22, <1>23, <1>24, <1>25, <1>26
  DEF Next, Step

(* GpuServers: every variable keeps its type, under any faults, crashes    *)
(* and overlaps of handlers.                                               *)
THEOREM GpuTypeCorrect == Spec => []TypeOK
<1>1. TypeInv => TypeOK
  BY DEF TypeInv
<1>. QED
  BY TypeInvInit, TypeInvNext, <1>1, PTL DEF Spec

-----------------------------------------------------------------------------
(* UNIQUE(device) needs no strengthening: only Reserve adds rows, and what *)
(* it adds was free at that instant.                                       *)
LEMMA ReservedOnceNext == TypeInv /\ ReservedOnce /\ [Next]_vars => ReservedOnce'
<1>. SUFFICES ASSUME TypeInv, ReservedOnce, [Next]_vars PROVE ReservedOnce'
  OBVIOUS
<1>1. ASSUME NEW s \in Sessions, Reserve(s) PROVE ReservedOnce'
  BY <1>1 DEF Reserve, ReservedOnce, Free, TypeInv, TypeOK
<1>2. CASE rows' \subseteq rows
  BY <1>2 DEF ReservedOnce
<1>3. (\E s \in Sessions : Reserve(s)) \/ rows' \subseteq rows
  BY DEF Next, Step, Begin, BeginQuota, Scan, Reap, Admit, Exchange, Probe, Remove,
         RemoveFails, Halt, Vanished, Sync, Mark, Release, Settle, Replan, Reuse, Pick,
         Exhausted, RaceLost, Spawn, SpawnFails, Record, Crash, Exits, Age, vars, db
<1>. QED
  BY <1>1, <1>2, <1>3

(* GpuServers: no device is ever reserved for two servers, whatever        *)
(* handlers overlap, fail or die.                                          *)
THEOREM DeviceReservedOnce == Spec => []ReservedOnce
<1>1. Init => ReservedOnce
  BY DEF Init, ReservedOnce
<1>. QED
  BY TypeInvInit, TypeInvNext, <1>1, ReservedOnceNext, PTL DEF Spec

-----------------------------------------------------------------------------
(* The conditions under which devices are exclusive in use as well as on   *)
(* paper: one handler at a time per server, no plan changes, no status     *)
(* written by a mere look at the server, and no handler cut short between  *)
(* its commits.  Lookups and deletes may fail.                             *)
Calm ==
    /\ Serial /\ ~ CrashPossible /\ "spawn" \notin Faults
    /\ "update" \notin Ops /\ "view" \notin Ops

OneAtATime == \A s, t \in Sessions : s # t /\ on[s] # None => on[s] # on[t]

NoUpdate == \A s \in Sessions : op[s] # "update" /\ op[s] # "view"

(* What a handler loaded is still what the row says.                       *)
Loaded == \A s \in Sessions : on[s] # None /\ pc[s] \notin {"record", "release"} =>
    myCid[s] = cid[on[s]]

StillThere == \A s \in Sessions : on[s] # None /\ pc[s] # "release" =>
    /\ mySt[s] = status[on[s]]
    /\ op[s] = "create" <=> status[on[s]] = "none"

WantIsPlan == \A s \in Sessions : op[s] \notin {None, "quota", "create"} => want[s] = gpu[on[s]]

(* A handler has rows of its own only between reserving and recording.     *)
MineFresh == \A s \in Sessions :
    /\ mine[s] => /\ pc[s] \in {"clear", "spawn", "record"} /\ want[s] > 0
                  /\ pc[s] = "clear" => op[s] = "respawn"
    /\ pc[s] = "reserve" => want[s] > 0

(* About to spawn means holding the devices.                               *)
Equipped == \A s \in Sessions :
    pc[s] = "spawn" \/ (pc[s] = "clear" /\ op[s] = "respawn") => devs[s] \subseteq Held(on[s])

(* About to write a stop means the container is down.                      *)
Down == \A s \in Sessions :
    pc[s] \in {"mark", "settle", "release"} \/ (pc[s] = "clear" /\ op[s] = "stop")
        => on[s] \notin up

(* A running container is the one the row names, or is about to be.        *)
KnownBox == \A v \in up :
    /\ box[v] # None
    /\ \/ cid[v] = box[v]
       \/ \E s \in Sessions : on[s] = v /\ pc[s] = "record"
    /\ \A s \in Sessions : on[s] = v /\ pc[s] = "record" => myCid[s] = box[v]

(* A row belongs to a running server, or to one whose handler is about to  *)
(* release it or has just inserted it.                                     *)
Guarded == \A d \in Devices, v \in Servers : <<d, v>> \in rows =>
    \/ status[v] = "running" /\ gpu[v] # 0
    \/ \E s \in Sessions : on[s] = v /\ pc[s] = "release"
    \/ \E s \in Sessions : on[s] = v /\ mine[s] /\ <<d, v>> \notin aged

(* What a reconcile is going to delete, some handler is releasing anyway.  *)
Doomed == \A s \in Sessions, d \in Devices, v \in Servers :
    pc[s] = "reap" /\ <<d, v>> \in stale[s] \cap aged =>
        \E t \in Sessions : on[t] = v /\ pc[t] = "release"

CalmInv ==
    /\ TypeInv
    /\ OneAtATime /\ NoUpdate /\ Loaded /\ StillThere /\ WantIsPlan /\ MineFresh
    /\ Equipped /\ Down /\ KnownBox /\ Guarded /\ Doomed /\ RunsOnOwnDevices

(* CalmInv holds initially.                                                *)
LEMMA CalmInit == Init => CalmInv
<1>. SUFFICES ASSUME Init PROVE CalmInv
  OBVIOUS
<1>. USE GpuAssumption DEF Init
<1>1. TypeInv
  BY TypeInvInit
<1>2. OneAtATime /\ NoUpdate /\ Loaded /\ StillThere /\ WantIsPlan /\ MineFresh
  BY DEF OneAtATime, NoUpdate, Loaded, StillThere, WantIsPlan, MineFresh, AllOps
<1>3. Equipped /\ Down /\ KnownBox /\ RunsOnOwnDevices
  BY DEF Equipped, Down, KnownBox, RunsOnOwnDevices
<1>4. Guarded /\ Doomed
  BY DEF Guarded, Doomed
<1>. QED
  BY <1>1, <1>2, <1>3, <1>4 DEF CalmInv

(* Rows stay guarded when no guard goes away.                              *)
LEMMA GuardedKept ==
    ASSUME Guarded, rows' \subseteq rows, aged' \cap rows' \subseteq aged,
           \A v \in Servers : status[v] = "running" /\ gpu[v] # 0
                                  => status'[v] = "running" /\ gpu'[v] # 0,
           \A t \in Sessions : pc[t] = "release" => on'[t] = on[t] /\ pc'[t] = "release",
           \A t \in Sessions : mine[t] => on'[t] = on[t] /\ mine'[t]
    PROVE  Guarded'
<1>. SUFFICES ASSUME NEW d \in Devices, NEW v \in Servers, <<d, v>> \in rows'
              PROVE  \/ status'[v] = "running" /\ gpu'[v] # 0
                     \/ \E s \in Sessions : on'[s] = v /\ pc'[s] = "release"
                     \/ \E s \in Sessions : on'[s] = v /\ mine'[s] /\ <<d, v>> \notin aged'
  BY DEF Guarded
<1>. QED
  BY DEF Guarded

(* A reconcile stays harmless while the releases it relies on stay.        *)
LEMMA DoomedKept ==
    ASSUME Doomed, aged' \subseteq aged,
           \A t \in Sessions : pc[t] = "release" => on'[t] = on[t] /\ pc'[t] = "release",
           \A t \in Sessions : pc'[t] = "reap" => pc[t] = "reap" /\ stale'[t] \subseteq stale[t]
    PROVE  Doomed'
<1>. SUFFICES ASSUME NEW s \in Sessions, NEW d \in Devices, NEW v \in Servers,
                     pc'[s] = "reap", <<d, v>> \in stale'[s] \cap aged'
              PROVE  \E t \in Sessions : on'[t] = v /\ pc'[t] = "release"
  BY DEF Doomed
<1>. QED
  BY DEF Doomed

(* A handler that gives up with no fresh rows of its own disturbs nothing. *)
LEMMA CalmEnd ==
    ASSUME CalmInv, TypeInv', NEW s \in Sessions, End(s),
           UNCHANGED <<db, box, baked>>, up' \subseteq up,
           ~ mine[s], pc[s] \notin {"release", "record"}
    PROVE  CalmInv'
<1>. USE GpuAssumption
<1>1. /\ pc' = [pc EXCEPT ![s] = "idle"] /\ op' = [op EXCEPT ![s] = None]
      /\ on' = [on EXCEPT ![s] = None] /\ mine' = [mine EXCEPT ![s] = FALSE]
      /\ myCid' = [myCid EXCEPT ![s] = None] /\ want' = [want EXCEPT ![s] = 0]
      /\ mySt' = [mySt EXCEPT ![s] = "none"]
      /\ devs' = [devs EXCEPT ![s] = {}] /\ stale' = [stale EXCEPT ![s] = {}]
      /\ UNCHANGED <<status, cid, gpu, rows, aged>>
  BY DEF End, db
<1>2. OneAtATime' /\ NoUpdate'
  BY <1>1 DEF CalmInv, TypeInv, TypeOK, OneAtATime, NoUpdate, AllOps
<1>3. Loaded' /\ StillThere' /\ WantIsPlan'
  BY <1>1 DEF CalmInv, TypeInv, TypeOK, Loaded, StillThere, WantIsPlan
<1>4. MineFresh' /\ Equipped' /\ Down'
  BY <1>1 DEF CalmInv, TypeInv, TypeOK, MineFresh, Equipped, Down, Held
<1>5. KnownBox'
  BY <1>1 DEF CalmInv, TypeInv, TypeOK, KnownBox
<1>6. Guarded'
  BY <1>1, GuardedKept DEF CalmInv, TypeInv, TypeOK
<1>7. Doomed'
  BY <1>1, DoomedKept DEF CalmInv, TypeInv, TypeOK
<1>8. RunsOnOwnDevices'
  BY <1>1 DEF CalmInv, RunsOnOwnDevices
<1>. QED
  BY <1>2, <1>3, <1>4, <1>5, <1>6, <1>7, <1>8 DEF CalmInv

(* Nor does one that moves on, if it has what its next label promises.     *)
LEMMA CalmGoto ==
    ASSUME CalmInv, TypeInv', NEW s \in Sessions, NEW l, Goto(s, l),
           UNCHANGED <<mine, stale>>, \A t \in Sessions \ {s} : devs'[t] = devs[t],
           UNCHANGED <<db, baked>>, up' \subseteq up, \A v \in up' : box'[v] = box[v],
           pc[s] \notin {"idle", "release", "record"}, l \notin {"idle", "reap", "record"},
           l \in {"mark", "settle", "release"} \/ (l = "clear" /\ op[s] = "stop")
               => on[s] \notin up',
           mine[s] => l = "spawn", l = "reserve" => want[s] > 0,
           l = "spawn" \/ (l = "clear" /\ op[s] = "respawn") => devs'[s] \subseteq Held(on[s])
    PROVE  CalmInv'
<1>. USE GpuAssumption
<1>1. /\ pc' = [pc EXCEPT ![s] = l]
      /\ UNCHANGED <<op, on, myCid, mySt, want, mine, stale, status, cid, gpu, rows, aged>>
  BY DEF Goto, task, db
<1>2. OneAtATime' /\ NoUpdate'
  BY <1>1 DEF CalmInv, OneAtATime, NoUpdate
<1>3. Loaded' /\ StillThere' /\ WantIsPlan'
  BY <1>1 DEF CalmInv, TypeInv, TypeOK, Loaded, StillThere, WantIsPlan
<1>4. MineFresh' /\ Equipped' /\ Down'
  BY <1>1 DEF CalmInv, TypeInv, TypeOK, MineFresh, Equipped, Down, Held
<1>5. KnownBox'
  BY <1>1 DEF CalmInv, TypeInv, TypeOK, KnownBox
<1>6. Guarded'
  BY <1>1, GuardedKept DEF CalmInv, TypeInv, TypeOK
<1>7. Doomed'
  BY <1>1, DoomedKept DEF CalmInv, TypeInv, TypeOK
<1>8. RunsOnOwnDevices'
  BY <1>1 DEF CalmInv, RunsOnOwnDevices
<1>. QED
  BY <1>2, <1>3, <1>4, <1>5, <1>6, <1>7, <1>8 DEF CalmInv

(* Removing or stopping the container a handler has loaded leaves the      *)
(* server without a running one: any other would be known under that id.   *)
LEMMA LoadedIsTheOne ==
    ASSUME CalmInv, NEW s \in Sessions, on[s] \in Servers,
           pc[s] \notin {"record", "release"}, on[s] \in up
    PROVE  box[on[s]] = myCid[s]
BY GpuAssumption DEF CalmInv, Loaded, KnownBox, OneAtATime, TypeInv, TypeOK

(* A handler starts alone on its server, with what the row says.           *)
LEMMA CalmBegin ==
    ASSUME CalmInv, TypeInv', Calm, NEW s \in Sessions, NEW o \in Ops, NEW v \in Servers,
           NEW n \in Plans, Begin(s, o, v, n)
    PROVE  CalmInv'
<1>. USE GpuAssumption
<1>1. /\ pc' = [pc EXCEPT ![s] = FirstStep(o, cid[v])] /\ op' = [op EXCEPT ![s] = o]
      /\ on' = [on EXCEPT ![s] = v] /\ myCid' = [myCid EXCEPT ![s] = cid[v]]
      /\ want' = [want EXCEPT ![s] = n] /\ mySt' = [mySt EXCEPT ![s] = status[v]]
      /\ UNCHANGED <<mine, devs, stale, status, cid, gpu, rows, aged, box, up, baked>>
      /\ pc[s] = "idle" /\ \A t \in Sessions : on[t] # v
      /\ o = "create" <=> status[v] = "none"
      /\ o \notin {"create", "update"} => n = gpu[v]
      /\ o \in {"restart", "respawn", "expire", "bulk_stop"} => cid[v] # None
  BY DEF Begin, Alone, Calm, Keep, db, runtime
<1>2. o # "update" /\ o # "view" /\ o # "quota" /\ o \in AllOps /\ o # None
  BY DEF Calm, Begin, AllOps
<1>3. ~ mine[s] /\ on[s] = None
  BY <1>1, <1>2 DEF CalmInv, MineFresh, TypeInv, OpFits, OnServer, OpsAt
<1>4. /\ FirstStep(o, cid[v]) \in {"scan", "devices", "probe", "mark", "remove", "halt"}
      /\ FirstStep(o, cid[v]) = "mark" => cid[v] = None
  BY <1>1, <1>2 DEF FirstStep, AllOps
<1>5. OneAtATime' /\ NoUpdate'
  BY <1>1, <1>2 DEF CalmInv, TypeInv, TypeOK, OneAtATime, NoUpdate
<1>6. Loaded' /\ StillThere' /\ WantIsPlan'
  BY <1>1, <1>2, <1>4 DEF CalmInv, TypeInv, TypeOK, Loaded, StillThere, WantIsPlan
<1>7. MineFresh' /\ Equipped'
  BY <1>1, <1>3, <1>4 DEF CalmInv, TypeInv, TypeOK, MineFresh, Equipped, Held
<1>8. cid[v] = None => v \notin up
  BY <1>1 DEF CalmInv, KnownBox
<1>9. Down'
  BY <1>1, <1>4, <1>8 DEF CalmInv, TypeInv, TypeOK, Down
<1>10. KnownBox'
  BY <1>1 DEF CalmInv, TypeInv, TypeOK, KnownBox
<1>11. Guarded'
  BY <1>1, <1>3, GuardedKept DEF CalmInv, TypeInv, TypeOK
<1>12. Doomed'
  BY <1>1, <1>4, DoomedKept DEF CalmInv, TypeInv, TypeOK
<1>13. RunsOnOwnDevices'
  BY <1>1 DEF CalmInv, RunsOnOwnDevices
<1>. QED
  BY <1>5, <1>6, <1>7, <1>9, <1>10, <1>11, <1>12, <1>13 DEF CalmInv

(* A quota read has no server at all.                                      *)
LEMMA CalmBeginQuota ==
    ASSUME CalmInv, TypeInv', NEW s \in Sessions, BeginQuota(s)
    PROVE  CalmInv'
<1>. USE GpuAssumption
<1>1. /\ pc' = [pc EXCEPT ![s] = "scan"] /\ op' = [op EXCEPT ![s] = "quota"]
      /\ UNCHANGED <<on, myCid, mySt, want, mine, devs, stale, status, cid, gpu, rows, aged, box, up, baked>>
      /\ pc[s] = "idle"
  BY DEF BeginQuota, Keep, db, runtime
<1>2. on[s] = None
  BY <1>1 DEF CalmInv, TypeInv, TypeOK, OpFits, OnServer, OpsAt
<1>3. OneAtATime' /\ NoUpdate' /\ Loaded' /\ StillThere' /\ WantIsPlan'
  BY <1>1, <1>2
  DEF CalmInv, TypeInv, TypeOK, OneAtATime, NoUpdate, Loaded, StillThere, WantIsPlan
<1>4. MineFresh' /\ Equipped' /\ Down' /\ KnownBox'
  BY <1>1 DEF CalmInv, TypeInv, TypeOK, MineFresh, Equipped, Down, KnownBox, Held
<1>5. Guarded' /\ Doomed'
  BY <1>1, GuardedKept, DoomedKept DEF CalmInv, TypeInv, TypeOK
<1>6. RunsOnOwnDevices'
  BY <1>1 DEF CalmInv, RunsOnOwnDevices
<1>. QED
  BY <1>3, <1>4, <1>5, <1>6 DEF CalmInv

(* What a reconcile finds stale is already being released: the grace keeps *)
(* fresh rows out, and a running server guards its old ones.               *)
LEMMA CalmScan ==
    ASSUME CalmInv, TypeInv', NEW s \in Sessions, Scan(s)
    PROVE  CalmInv'
<1>. USE GpuAssumption
<1>1. /\ pc' = [pc EXCEPT ![s] = "reap"]
      /\ stale' = [stale EXCEPT ![s] = {r \in aged : Orphaned(r[2])}]
      /\ UNCHANGED <<op, on, myCid, mySt, want, mine, devs, status, cid, gpu, rows, aged, box, up, baked>>
      /\ pc[s] = "scan"
  BY DEF Scan, Goto, task, db, runtime
<1>2. OneAtATime' /\ NoUpdate' /\ Loaded' /\ StillThere' /\ WantIsPlan'
  BY <1>1
  DEF CalmInv, TypeInv, TypeOK, OneAtATime, NoUpdate, Loaded, StillThere, WantIsPlan
<1>3. MineFresh' /\ Equipped' /\ Down' /\ KnownBox'
  BY <1>1 DEF CalmInv, TypeInv, TypeOK, MineFresh, Equipped, Down, KnownBox, Held
<1>4. Guarded'
  BY <1>1, GuardedKept DEF CalmInv, TypeInv, TypeOK
<1>5. Doomed'
  <2>. SUFFICES ASSUME NEW q \in Sessions, NEW d \in Devices, NEW v \in Servers,
                       pc'[q] = "reap", <<d, v>> \in stale'[q] \cap aged'
                PROVE  \E t \in Sessions : on'[t] = v /\ pc'[t] = "release"
    BY DEF Doomed
  <2>1. CASE q = s
    <3>1. <<d, v>> \in aged /\ <<d, v>> \in rows /\ Orphaned(v)
      BY <1>1, <2>1 DEF CalmInv, TypeInv, TypeOK
    <3>2. \E t \in Sessions : on[t] = v /\ pc[t] = "release"
      BY <3>1 DEF CalmInv, Guarded, Orphaned
    <3>. QED
      BY <1>1, <3>2 DEF CalmInv, TypeInv, TypeOK
  <2>2. CASE q # s
    BY <1>1, <2>2 DEF CalmInv, TypeInv, TypeOK, Doomed
  <2>. QED
    BY <2>1, <2>2
<1>6. RunsOnOwnDevices'
  BY <1>1 DEF CalmInv, RunsOnOwnDevices
<1>. QED
  BY <1>2, <1>3, <1>4, <1>5, <1>6 DEF CalmInv

(* The rows a reconcile deletes belong to servers whose container is down  *)
(* and whose handler is not about to spawn.                                *)
LEMMA CalmReap ==
    ASSUME CalmInv, TypeInv', NEW s \in Sessions, Reap(s)
    PROVE  CalmInv'
<1>. USE GpuAssumption
<1>1. /\ pc[s] = "reap" /\ rows' = rows \ (stale[s] \cap aged)
      /\ aged' = aged \ (stale[s] \cap aged)
      /\ UNCHANGED <<status, cid, gpu, box, up, baked>>
  BY DEF Reap, runtime
<1>2. /\ \A t \in Sessions \ {s} : /\ pc'[t] = pc[t] /\ op'[t] = op[t] /\ on'[t] = on[t]
                                   /\ myCid'[t] = myCid[t] /\ want'[t] = want[t]
                                   /\ mySt'[t] = mySt[t]
                                   /\ mine'[t] = mine[t] /\ devs'[t] = devs[t]
                                   /\ stale'[t] = stale[t]
      /\ \/ /\ pc'[s] = "idle" /\ op'[s] = None /\ on'[s] = None /\ mine'[s] = FALSE
            /\ stale'[s] = {}
         \/ /\ pc'[s] = "admit" /\ op'[s] = op[s] /\ on'[s] = on[s] /\ want'[s] = want[s]
            /\ mySt'[s] = mySt[s] /\ myCid'[s] = myCid[s] /\ mine'[s] = mine[s] /\ devs'[s] = devs[s]
            /\ stale'[s] = stale[s]
  BY DEF Reap, Goto, task, Keep, End, CalmInv, TypeInv, TypeOK
<1>3. ~ mine[s]
  BY <1>1 DEF CalmInv, MineFresh
<1>4. ASSUME NEW d \in Devices, NEW v \in Servers, <<d, v>> \in rows, <<d, v>> \notin rows'
      PROVE  v \notin up /\ \E t \in Sessions : on[t] = v /\ pc[t] = "release"
  <2>1. \E t \in Sessions : on[t] = v /\ pc[t] = "release"
    BY <1>1, <1>4 DEF CalmInv, Doomed
  <2>. QED
    BY <2>1 DEF CalmInv, Down
<1>5. OneAtATime' /\ NoUpdate' /\ Loaded' /\ StillThere' /\ WantIsPlan'
  <2>1. OneAtATime'
    BY <1>2 DEF CalmInv, OneAtATime
  <2>2. NoUpdate' /\ WantIsPlan'
    BY <1>1, <1>2 DEF CalmInv, NoUpdate, WantIsPlan, AllOps
  <2>3. Loaded' /\ StillThere'
    BY <1>1, <1>2 DEF CalmInv, Loaded, StillThere
  <2>. QED
    BY <2>1, <2>2, <2>3
<1>6. MineFresh' /\ Down' /\ KnownBox'
  <2>1. MineFresh'
    BY <1>1, <1>2, <1>3 DEF CalmInv, MineFresh
  <2>2. Down'
    BY <1>1, <1>2 DEF CalmInv, Down
  <2>3. KnownBox'
    BY <1>1, <1>2 DEF CalmInv, KnownBox
  <2>. QED
    BY <2>1, <2>2, <2>3
<1>7. Equipped'
  <2>. SUFFICES ASSUME NEW t \in Sessions, NEW d \in devs'[t],
                       pc'[t] = "spawn" \/ (pc'[t] = "clear" /\ op'[t] = "respawn")
                PROVE  d \in Held(on[t])'
    BY <1>2 DEF Equipped, Held
  <2>1. t # s /\ d \in Held(on[t]) /\ on[t] \in Servers
    BY <1>2 DEF CalmInv, TypeInv, TypeOK, Equipped
  <2>2. d \in Devices /\ <<d, on[t]>> \in rows /\ pc[t] # "release" /\ on[t] # None
    BY <1>2, <2>1 DEF Held, CalmInv, TypeInv, TypeOK
  <2>3. <<d, on[t]>> \in rows'
    BY <1>4, <2>1, <2>2 DEF CalmInv, OneAtATime
  <2>. QED
    BY <1>2, <2>1, <2>2, <2>3 DEF Held
<1>8. Guarded'
  BY <1>1, <1>2, <1>3, GuardedKept DEF CalmInv, TypeInv, TypeOK
<1>9. Doomed'
  BY <1>1, <1>2, DoomedKept DEF CalmInv, TypeInv, TypeOK
<1>10. RunsOnOwnDevices'
  BY <1>1, <1>4 DEF CalmInv, RunsOnOwnDevices, TypeInv, TypeOK
<1>. QED
  BY <1>5, <1>6, <1>7, <1>8, <1>9, <1>10 DEF CalmInv

(* A handler that commits a stop or a delete is about to release the rows. *)
LEMMA CalmMark ==
    ASSUME CalmInv, TypeInv', NEW s \in Sessions, Mark(s)
    PROVE  CalmInv'
<1>. USE GpuAssumption
<1>1. /\ pc[s] = "mark" /\ pc' = [pc EXCEPT ![s] = "release"]
      /\ UNCHANGED <<op, on, myCid, mySt, want, mine, devs, stale, gpu, rows, aged, box, up, baked>>
      /\ status' = [status EXCEPT ![on[s]] = WrittenStatus(s)]
      /\ cid' = [cid EXCEPT ![on[s]] = WrittenCid(s)]
  BY DEF Mark, WriteDown, Goto, task, Keep, runtime
<1>2. on[s] \in Servers /\ on[s] \notin up /\ ~ mine[s]
  BY <1>1 DEF CalmInv, TypeInv, TypeOK, Down, MineFresh
<1>3. \A t \in Sessions : t # s => on[t] # on[s]
  BY <1>2 DEF CalmInv, OneAtATime
<1>4. OneAtATime' /\ NoUpdate' /\ WantIsPlan'
  BY <1>1 DEF CalmInv, OneAtATime, NoUpdate, WantIsPlan
<1>5. Loaded' /\ StillThere'
  BY <1>1, <1>2, <1>3 DEF CalmInv, TypeInv, TypeOK, Loaded, StillThere
<1>6. MineFresh' /\ Equipped' /\ Down'
  BY <1>1, <1>2 DEF CalmInv, TypeInv, TypeOK, MineFresh, Equipped, Down, Held
<1>7. KnownBox'
  BY <1>1, <1>2 DEF CalmInv, TypeInv, TypeOK, KnownBox
<1>8. Guarded'
  <2>. SUFFICES ASSUME NEW d \in Devices, NEW v \in Servers, <<d, v>> \in rows'
                PROVE  \/ status'[v] = "running" /\ gpu'[v] # 0
                       \/ \E t \in Sessions : on'[t] = v /\ pc'[t] = "release"
                       \/ \E t \in Sessions : on'[t] = v /\ mine'[t] /\ <<d, v>> \notin aged'
    BY DEF Guarded
  <2>1. CASE v = on[s]
    BY <1>1, <2>1 DEF CalmInv, TypeInv, TypeOK
  <2>2. CASE v # on[s]
    BY <1>1, <1>2, <2>2 DEF CalmInv, TypeInv, TypeOK, Guarded
  <2>. QED
    BY <2>1, <2>2
<1>9. Doomed'
  BY <1>1, DoomedKept DEF CalmInv, TypeInv, TypeOK
<1>10. RunsOnOwnDevices'
  BY <1>1 DEF CalmInv, RunsOnOwnDevices
<1>. QED
  BY <1>4, <1>5, <1>6, <1>7, <1>8, <1>9, <1>10 DEF CalmInv

(* Release and Settle: the rows of a server that is down go.               *)
LEMMA CalmRelease ==
    ASSUME CalmInv, TypeInv', NEW s \in Sessions, Release(s) \/ Settle(s)
    PROVE  CalmInv'
<1>. USE GpuAssumption
<1>1. /\ pc' = [pc EXCEPT ![s] = "idle"] /\ op' = [op EXCEPT ![s] = None]
      /\ on' = [on EXCEPT ![s] = None] /\ mine' = [mine EXCEPT ![s] = FALSE]
      /\ myCid' = [myCid EXCEPT ![s] = None] /\ want' = [want EXCEPT ![s] = 0]
      /\ mySt' = [mySt EXCEPT ![s] = "none"]
      /\ devs' = [devs EXCEPT ![s] = {}] /\ stale' = [stale EXCEPT ![s] = {}]
      /\ rows' = {r \in rows : r[2] # on[s]} /\ aged' = {r \in aged : r[2] # on[s]}
      /\ pc[s] \in {"release", "settle"}
      /\ UNCHANGED <<gpu, box, up, baked>>
  BY DEF Release, Settle, End, runtime
<1>2. /\ \A v \in Servers : v # on[s] => status'[v] = status[v] /\ cid'[v] = cid[v]
      /\ status' \in [Servers -> {"none", "running", "stopped"}]
  BY DEF Release, Settle, WriteDown, CalmInv, TypeInv, TypeOK
<1>3. on[s] \in Servers /\ on[s] \notin up /\ ~ mine[s]
  BY <1>1 DEF CalmInv, TypeInv, TypeOK, Down, MineFresh
<1>4. \A t \in Sessions : t # s => on[t] # on[s]
  BY <1>3 DEF CalmInv, OneAtATime
<1>5. OneAtATime' /\ NoUpdate' /\ WantIsPlan'
  BY <1>1 DEF CalmInv, TypeInv, TypeOK, OneAtATime, NoUpdate, WantIsPlan, AllOps
<1>6. Loaded' /\ StillThere'
  BY <1>1, <1>2, <1>4 DEF CalmInv, TypeInv, TypeOK, Loaded, StillThere
<1>7. MineFresh' /\ Equipped' /\ Down'
  BY <1>1, <1>4 DEF CalmInv, TypeInv, TypeOK, MineFresh, Equipped, Down, Held
<1>8. KnownBox'
  BY <1>1, <1>2, <1>3, <1>4 DEF CalmInv, TypeInv, TypeOK, KnownBox
<1>9. Guarded'
  <2>. SUFFICES ASSUME NEW d \in Devices, NEW v \in Servers, <<d, v>> \in rows'
                PROVE  \/ status'[v] = "running" /\ gpu'[v] # 0
                       \/ \E t \in Sessions : on'[t] = v /\ pc'[t] = "release"
                       \/ \E t \in Sessions : on'[t] = v /\ mine'[t] /\ <<d, v>> \notin aged'
    BY DEF Guarded
  <2>1. v # on[s] /\ <<d, v>> \in rows
    BY <1>1
  <2>2. \A t \in Sessions : on[t] = v => t # s
    BY <2>1
  <2>. QED
    BY <1>1, <1>2, <2>1, <2>2 DEF CalmInv, TypeInv, TypeOK, Guarded
<1>10. Doomed'
  <2>. SUFFICES ASSUME NEW q \in Sessions, NEW d \in Devices, NEW v \in Servers,
                       pc'[q] = "reap", <<d, v>> \in stale'[q] \cap aged'
                PROVE  \E t \in Sessions : on'[t] = v /\ pc'[t] = "release"
    BY DEF Doomed
  <2>1. q # s /\ v # on[s] /\ <<d, v>> \in stale[q] \cap aged /\ pc[q] = "reap"
    BY <1>1 DEF CalmInv, TypeInv, TypeOK
  <2>2. PICK t \in Sessions : on[t] = v /\ pc[t] = "release"
    BY <2>1 DEF CalmInv, Doomed
  <2>. QED
    BY <1>1, <2>1, <2>2 DEF CalmInv, TypeInv, TypeOK
<1>11. RunsOnOwnDevices'
  BY <1>1, <1>3 DEF CalmInv, RunsOnOwnDevices
<1>. QED
  BY <1>5, <1>6, <1>7, <1>8, <1>9, <1>10, <1>11 DEF CalmInv

(* Devices are chosen: those the server holds, or free ones to reserve.    *)
LEMMA CalmChoose ==
    ASSUME CalmInv, TypeInv', NEW s \in Sessions, Reuse(s) \/ Pick(s)
    PROVE  CalmInv'
<1>. USE GpuAssumption
<1>1. op[s] \in OpsAt(pc[s]) /\ op[s] # "update" /\ s \in DOMAIN devs
  BY DEF CalmInv, TypeInv, TypeOK, OpFits, NoUpdate
<1>2. pc[s] = "devices"
  BY <1>1 DEF Reuse, Pick, OpsAt
<1>3. ~ mine[s]
  BY <1>2 DEF CalmInv, MineFresh
<1>4. CASE Reuse(s)
  <2>1. /\ Goto(s, AfterDevices(s)) /\ UNCHANGED <<mine, stale>>
        /\ \A t \in Sessions \ {s} : devs'[t] = devs[t]
        /\ UNCHANGED <<db, baked, up, box>>
        /\ devs'[s] \subseteq Held(on[s])
    BY <1>1, <1>4 DEF Reuse, runtime
  <2>2. AfterDevices(s) \in {"clear", "spawn"} /\ (AfterDevices(s) = "clear" => op[s] = "respawn")
    BY DEF AfterDevices
  <2>. QED
    BY <1>2, <1>3, <2>1, <2>2, CalmGoto
<1>5. CASE Pick(s)
  <2>1. /\ Goto(s, "reserve") /\ UNCHANGED <<mine, stale>>
        /\ \A t \in Sessions \ {s} : devs'[t] = devs[t]
        /\ UNCHANGED <<db, baked, up, box>>
        /\ want[s] > 0
    BY <1>1, <1>2, <1>5 DEF Pick, runtime
  <2>. QED
    BY <1>2, <1>3, <2>1, CalmGoto
<1>. QED
  BY <1>4, <1>5

(* New rows are fresh, and the handler that inserted them guards them.     *)
LEMMA CalmReserve ==
    ASSUME CalmInv, TypeInv', NEW s \in Sessions, Reserve(s)
    PROVE  CalmInv'
<1>. USE GpuAssumption
<1>1. op[s] \in OpsAt(pc[s]) /\ op[s] # "update"
  BY DEF CalmInv, TypeInv, OpFits, NoUpdate
<1>2. pc[s] = "reserve" /\ on[s] \in Servers /\ ~ mine[s] /\ want[s] > 0 /\ op[s] # "stop"
  BY <1>1 DEF Reserve, OpsAt, CalmInv, TypeInv, TypeOK, MineFresh
<1>3. /\ pc' = [pc EXCEPT ![s] = AfterDevices(s)] /\ mine' = [mine EXCEPT ![s] = TRUE]
      /\ UNCHANGED <<op, on, myCid, mySt, want, devs, stale, status, cid, gpu, aged, box, up, baked>>
      /\ rows' = rows \cup {<<d, on[s]>> : d \in devs[s]} /\ devs[s] \subseteq Free
  BY <1>2 DEF Reserve, Goto, task, runtime
<1>4. AfterDevices(s) \in {"clear", "spawn"} /\ (AfterDevices(s) = "clear" => op[s] = "respawn")
  BY DEF AfterDevices
<1>5. OneAtATime' /\ NoUpdate' /\ WantIsPlan' /\ Loaded' /\ StillThere'
  BY <1>2, <1>3, <1>4 DEF CalmInv, TypeInv, TypeOK, OneAtATime, NoUpdate, WantIsPlan, Loaded, StillThere
<1>6. MineFresh'
  BY <1>2, <1>3, <1>4 DEF CalmInv, TypeInv, TypeOK, MineFresh
<1>7. Equipped'
  BY <1>3, <1>4 DEF CalmInv, TypeInv, TypeOK, Equipped, Held
<1>8. Down' /\ KnownBox'
  BY <1>2, <1>3, <1>4 DEF CalmInv, TypeInv, TypeOK, Down, KnownBox
<1>9. Guarded'
  <2>. SUFFICES ASSUME NEW d \in Devices, NEW v \in Servers, <<d, v>> \in rows'
                PROVE  \/ status'[v] = "running" /\ gpu'[v] # 0
                       \/ \E t \in Sessions : on'[t] = v /\ pc'[t] = "release"
                       \/ \E t \in Sessions : on'[t] = v /\ mine'[t] /\ <<d, v>> \notin aged'
    BY DEF Guarded
  <2>1. CASE <<d, v>> \in rows
    BY <1>2, <1>3, <2>1 DEF CalmInv, TypeInv, TypeOK, Guarded
  <2>2. CASE <<d, v>> \notin rows
    <3>1. v = on[s] /\ <<d, v>> \notin aged
      BY <1>3, <2>2 DEF CalmInv, TypeInv, TypeOK
    <3>. QED
      BY <1>3, <3>1 DEF CalmInv, TypeInv, TypeOK
  <2>. QED
    BY <2>1, <2>2
<1>10. Doomed'
  BY <1>2, <1>3, <1>4, DoomedKept DEF CalmInv, TypeInv, TypeOK
<1>11. RunsOnOwnDevices'
  BY <1>3 DEF CalmInv, RunsOnOwnDevices
<1>. QED
  BY <1>5, <1>6, <1>7, <1>8, <1>9, <1>10, <1>11 DEF CalmInv

(* A container is created with devices its server holds.                   *)
LEMMA CalmSpawn ==
    ASSUME CalmInv, TypeInv', NEW s \in Sessions, Spawn(s)
    PROVE  CalmInv'
<1>. USE GpuAssumption
<1>1. /\ pc[s] = "spawn" /\ pc' = [pc EXCEPT ![s] = "record"]
      /\ myCid' = [myCid EXCEPT ![s] = lastId + 1]
      /\ box' = [box EXCEPT ![on[s]] = lastId + 1] /\ up' = up \cup {on[s]}
      /\ baked' = [baked EXCEPT ![on[s]] = devs[s]]
      /\ UNCHANGED <<op, on, mySt, want, mine, devs, stale, status, cid, gpu, rows, aged>>
  BY DEF Spawn, Keep, db
<1>2. on[s] \in Servers /\ lastId + 1 \in Nat /\ lastId + 1 # None
  BY <1>1 DEF CalmInv, TypeInv, TypeOK
<1>3. \A t \in Sessions : t # s => on[t] # on[s]
  BY <1>2 DEF CalmInv, OneAtATime
<1>4. OneAtATime' /\ NoUpdate' /\ WantIsPlan'
  BY <1>1 DEF CalmInv, OneAtATime, NoUpdate, WantIsPlan
<1>5. Loaded' /\ StillThere'
  BY <1>1 DEF CalmInv, TypeInv, TypeOK, Loaded, StillThere
<1>6. MineFresh' /\ Equipped'
  BY <1>1 DEF CalmInv, TypeInv, TypeOK, MineFresh, Equipped, Held
<1>7. Down'
  BY <1>1, <1>2, <1>3 DEF CalmInv, TypeInv, TypeOK, Down
<1>8. KnownBox'
  BY <1>1, <1>2, <1>3 DEF CalmInv, TypeInv, TypeOK, KnownBox
<1>9. Guarded'
  BY <1>1, GuardedKept DEF CalmInv, TypeInv, TypeOK
<1>10. Doomed'
  BY <1>1, DoomedKept DEF CalmInv, TypeInv, TypeOK
<1>11. RunsOnOwnDevices'
  <2>1. \A d \in devs[s] : <<d, on[s]>> \in rows
    BY <1>1 DEF CalmInv, Equipped, Held
  <2>. QED
    BY <1>1, <1>2, <2>1 DEF CalmInv, TypeInv, TypeOK, RunsOnOwnDevices
<1>. QED
  BY <1>4, <1>5, <1>6, <1>7, <1>8, <1>9, <1>10, <1>11 DEF CalmInv

(* Once recorded, the server is running on a plan with GPUs, which guards  *)
(* its rows from then on.                                                  *)
LEMMA CalmRecord ==
    ASSUME CalmInv, TypeInv', NEW s \in Sessions, Record(s)
    PROVE  CalmInv'
<1>. USE GpuAssumption
<1>1. /\ pc' = [pc EXCEPT ![s] = "idle"] /\ op' = [op EXCEPT ![s] = None]
      /\ on' = [on EXCEPT ![s] = None] /\ mine' = [mine EXCEPT ![s] = FALSE]
      /\ myCid' = [myCid EXCEPT ![s] = None] /\ want' = [want EXCEPT ![s] = 0]
      /\ mySt' = [mySt EXCEPT ![s] = "none"]
      /\ devs' = [devs EXCEPT ![s] = {}] /\ stale' = [stale EXCEPT ![s] = {}]
      /\ pc[s] = "record"
      /\ UNCHANGED <<rows, aged, box, up, baked>>
  BY DEF Record, End, runtime
<1>2. /\ on[s] \in Servers /\ mySt[s] = status[on[s]]
      /\ op[s] = "create" <=> status[on[s]] = "none"
  BY <1>1 DEF CalmInv, TypeInv, TypeOK, StillThere
<1>3. /\ status' = [status EXCEPT ![on[s]] = "running"]
      /\ cid' = [cid EXCEPT ![on[s]] = myCid[s]]
      /\ gpu' = [gpu EXCEPT ![on[s]] = want[s]]
  <2>1. op[s] # "create" => want[s] = gpu[on[s]]
    BY <1>1, <1>2 DEF CalmInv, WantIsPlan, TypeInv, OnServer
  <2>2. status \in [Servers -> {"none", "running", "stopped"}] /\ gpu \in [Servers -> Nat]
    BY DEF CalmInv, TypeInv, TypeOK
  <2>3. status' = [status EXCEPT ![on[s]] = "running"]
    BY <1>2, <2>2 DEF Record
  <2>4. gpu' = [gpu EXCEPT ![on[s]] = want[s]]
    BY <1>2, <2>1, <2>2 DEF Record
  <2>. QED
    BY <2>3, <2>4 DEF Record
<1>4. \A t \in Sessions : t # s => on[t] # on[s]
  BY <1>2 DEF CalmInv, OneAtATime
<1>5. OneAtATime' /\ NoUpdate'
  BY <1>1 DEF CalmInv, TypeInv, TypeOK, OneAtATime, NoUpdate, AllOps
<1>6. WantIsPlan'
  BY <1>1, <1>3, <1>4 DEF CalmInv, TypeInv, TypeOK, WantIsPlan, OnServer
<1>7. Loaded' /\ StillThere'
  BY <1>1, <1>2, <1>3, <1>4 DEF CalmInv, TypeInv, TypeOK, Loaded, StillThere
<1>8. MineFresh' /\ Equipped' /\ Down'
  BY <1>1 DEF CalmInv, TypeInv, TypeOK, MineFresh, Equipped, Down, Held
<1>9. KnownBox'
  <2>. SUFFICES ASSUME NEW v \in up
                PROVE  /\ box[v] # None
                       /\ cid'[v] = box[v] \/ \E t \in Sessions : on'[t] = v /\ pc'[t] = "record"
                       /\ \A t \in Sessions : on'[t] = v /\ pc'[t] = "record" => myCid'[t] = box[v]
    BY <1>1 DEF KnownBox
  <2>1. CASE v = on[s]
    BY <1>1, <1>2, <1>3, <1>4, <2>1 DEF CalmInv, TypeInv, TypeOK, KnownBox
  <2>2. CASE v # on[s]
    BY <1>1, <1>2, <1>3, <2>2 DEF CalmInv, TypeInv, TypeOK, KnownBox
  <2>. QED
    BY <2>1, <2>2
<1>10. Guarded'
  <2>. SUFFICES ASSUME NEW d \in Devices, NEW v \in Servers, <<d, v>> \in rows'
                PROVE  \/ status'[v] = "running" /\ gpu'[v] # 0
                       \/ \E t \in Sessions : on'[t] = v /\ pc'[t] = "release"
                       \/ \E t \in Sessions : on'[t] = v /\ mine'[t] /\ <<d, v>> \notin aged'
    BY DEF Guarded
  <2>1. CASE v = on[s]
    <3>1. \/ status[v] = "running" /\ gpu[v] # 0
          \/ \E t \in Sessions : on[t] = v /\ pc[t] = "release"
          \/ \E t \in Sessions : on[t] = v /\ mine[t]
      BY <1>1 DEF CalmInv, Guarded
    <3>2. want[s] # 0
      <4>1. CASE status[v] = "running" /\ gpu[v] # 0
        BY <1>1, <1>2, <2>1, <4>1 DEF CalmInv, WantIsPlan, TypeInv, OnServer
      <4>2. CASE mine[s]
        BY <4>2 DEF CalmInv, MineFresh, TypeInv, TypeOK
      <4>. QED
        BY <1>1, <1>4, <2>1, <3>1, <4>1, <4>2
    <3>. QED
      BY <1>2, <1>3, <2>1, <3>2 DEF CalmInv, TypeInv, TypeOK
  <2>2. CASE v # on[s]
    <3>1. \A t \in Sessions : on[t] = v => t # s
      BY <2>2
    <3>. QED
      BY <1>1, <1>2, <1>3, <2>2, <3>1 DEF CalmInv, TypeInv, TypeOK, Guarded
  <2>. QED
    BY <2>1, <2>2
<1>11. Doomed'
  BY <1>1, DoomedKept DEF CalmInv, TypeInv, TypeOK
<1>12. RunsOnOwnDevices'
  BY <1>1 DEF CalmInv, RunsOnOwnDevices
<1>. QED
  BY <1>5, <1>6, <1>7, <1>8, <1>9, <1>10, <1>11, <1>12 DEF CalmInv

(* A container that exits by itself, and a row that ages, disturb nothing. *)
LEMMA CalmExits ==
    ASSUME CalmInv, TypeInv', NEW w \in Servers, Exits(w)
    PROVE  CalmInv'
<1>1. /\ up' \subseteq up
      /\ UNCHANGED <<op, on, myCid, mySt, want, mine, devs, stale, pc, status, cid, gpu, rows, aged, box, baked>>
  BY DEF Exits, task, db
<1>2. OneAtATime' /\ NoUpdate' /\ Loaded' /\ StillThere' /\ WantIsPlan' /\ MineFresh'
  BY <1>1 DEF CalmInv, OneAtATime, NoUpdate, Loaded, StillThere, WantIsPlan, MineFresh
<1>3. Equipped' /\ Down' /\ KnownBox' /\ RunsOnOwnDevices'
  BY <1>1 DEF CalmInv, Equipped, Down, KnownBox, RunsOnOwnDevices, Held
<1>4. Guarded' /\ Doomed'
  BY <1>1, GuardedKept, DoomedKept DEF CalmInv
<1>. QED
  BY <1>2, <1>3, <1>4 DEF CalmInv

(* A row that ages has no handler that relies on its being fresh.          *)
LEMMA CalmAge ==
    ASSUME CalmInv, TypeInv', NEW r \in rows, Age(r)
    PROVE  CalmInv'
<1>1. /\ aged' = aged \cup {r} /\ \A s \in Sessions : ~ (mine[s] /\ on[s] = r[2]) /\ pc[s] # "reap"
      /\ UNCHANGED <<op, on, myCid, mySt, want, mine, devs, stale, pc, status, cid, gpu, rows, up, box, baked>>
  BY DEF Age, task, runtime
<1>2. OneAtATime' /\ NoUpdate' /\ Loaded' /\ StillThere' /\ WantIsPlan' /\ MineFresh'
  BY <1>1 DEF CalmInv, OneAtATime, NoUpdate, Loaded, StillThere, WantIsPlan, MineFresh
<1>3. Equipped' /\ Down' /\ KnownBox' /\ RunsOnOwnDevices'
  BY <1>1 DEF CalmInv, Equipped, Down, KnownBox, RunsOnOwnDevices, Held
<1>4. Guarded'
  <2>. SUFFICES ASSUME NEW d \in Devices, NEW v \in Servers, <<d, v>> \in rows'
                PROVE  \/ status'[v] = "running" /\ gpu'[v] # 0
                       \/ \E t \in Sessions : on'[t] = v /\ pc'[t] = "release"
                       \/ \E t \in Sessions : on'[t] = v /\ mine'[t] /\ <<d, v>> \notin aged'
    BY DEF Guarded
  <2>1. \A t \in Sessions : on[t] = v /\ mine[t] => <<d, v>> # r
    BY <1>1
  <2>. QED
    BY <1>1, <2>1 DEF CalmInv, Guarded
<1>5. Doomed'
  BY <1>1 DEF Doomed
<1>. QED
  BY <1>2, <1>3, <1>4, <1>5 DEF CalmInv

(* The steps that only move a handler on or end it.                        *)
LEMMA CalmMoves ==
    ASSUME CalmInv, TypeInv', NEW s \in Sessions,
           Admit(s) \/ Probe(s) \/ Exhausted(s) \/ RaceLost(s)
    PROVE  CalmInv'
<1>. USE GpuAssumption
<1>1. op[s] \in OpsAt(pc[s]) /\ op[s] # "update" /\ op[s] # "view"
  BY DEF CalmInv, TypeInv, OpFits, NoUpdate
<1>2. pc[s] \in {"admit", "probe", "devices", "reserve"} /\ UNCHANGED <<db, runtime, box, up, baked>>
  BY <1>1 DEF Admit, Probe, Exhausted, RaceLost, OpsAt, runtime
<1>3. ~ mine[s]
  BY <1>2 DEF CalmInv, MineFresh
<1>4. CASE End(s)
  BY <1>2, <1>3, <1>4, CalmEnd
<1>5. CASE Admit(s) /\ ~ End(s)
  <2>1. Goto(s, "devices") /\ Keep
    BY <1>1, <1>5 DEF Admit
  <2>. QED
    BY <1>2, <1>3, <2>1, CalmGoto DEF Keep
<1>6. CASE Probe(s) /\ ~ End(s)
  <2>1. pc[s] = "probe" /\ op[s] \in {"start", "restart", "stop"}
    BY <1>1, <1>6 DEF Probe, OpsAt
  <2>2. PICK seen \in Reported(s) : AfterProbe(op[s], seen) # "done" /\ Goto(s, AfterProbe(op[s], seen)) /\ Keep
    BY <1>6 DEF Probe
  <2>3. seen \in {"running", "stopped", "unknown"} /\ (seen = "stopped" => on[s] \notin up)
    BY <2>2 DEF Reported
  <2>4. AfterProbe(op[s], seen) \in {"clear", "remove", "devices"}
    BY <2>1, <2>2, <2>3, AfterProbeFits
  <2>5. AfterProbe(op[s], seen) = "clear" /\ op[s] = "stop" => seen = "stopped"
    BY <2>3 DEF AfterProbe
  <2>. QED
    BY <1>2, <1>3, <2>1, <2>2, <2>3, <2>4, <2>5, CalmGoto DEF Keep
<1>7. CASE Exhausted(s) \/ RaceLost(s)
  <2>1. End(s)
    BY <1>1, <1>7 DEF Exhausted, RaceLost, Refused, OpsAt
  <2>. QED
    BY <1>4, <2>1
<1>. QED
  BY <1>4, <1>5, <1>6, <1>7

(* The calls of the runtime that take a container down.                    *)
LEMMA CalmDown ==
    ASSUME CalmInv, TypeInv', NEW s \in Sessions, Remove(s) \/ RemoveFails(s) \/ Halt(s)
    PROVE  CalmInv'
<1>. USE GpuAssumption
<1>1. op[s] \in OpsAt(pc[s]) /\ op[s] # "update"
  BY DEF CalmInv, TypeInv, OpFits, NoUpdate
<1>2. /\ pc[s] \in {"remove", "clear", "halt"} /\ on[s] \in Servers
      /\ UNCHANGED <<db, baked>>
  BY DEF Remove, RemoveFails, Halt, CalmInv, TypeInv, TypeOK
<1>3. on[s] \in up => box[on[s]] = myCid[s]
  BY <1>2, LoadedIsTheOne
<1>4. pc[s] \in {"remove", "halt"} => ~ mine[s]
  BY <1>2 DEF CalmInv, MineFresh
<1>5. /\ pc[s] # "halt" => AfterRemove(s) \in {"devices", "spawn", "mark", "settle"}
      /\ pc[s] # "halt" /\ AfterRemove(s) = "spawn" => op[s] = "respawn" /\ pc[s] = "clear"
  BY <1>1, <1>2 DEF AfterRemove, OpsAt
<1>6. mine[s] => pc[s] = "clear" /\ op[s] = "respawn" /\ AfterRemove(s) = "spawn"
  BY <1>2 DEF CalmInv, MineFresh, AfterRemove
<1>7. pc[s] # "halt" /\ AfterRemove(s) = "spawn" => devs[s] \subseteq Held(on[s])
  BY <1>5 DEF CalmInv, Equipped
<1>8. CASE Remove(s)
  <2>1. /\ Goto(s, AfterRemove(s)) /\ Keep /\ up' \subseteq up /\ on[s] \notin up'
        /\ pc[s] # "halt"
    BY <1>3, <1>8 DEF Remove
  <2>2. \A v \in up' : box'[v] = box[v]
    BY <1>8, <2>1 DEF Remove, CalmInv, TypeInv, TypeOK
  <2>. QED
    BY <1>2, <1>5, <1>6, <1>7, <2>1, <2>2, CalmGoto DEF Keep
<1>9. CASE RemoveFails(s)
  <2>1. UNCHANGED <<db, box, baked>> /\ UNCHANGED up
    BY <1>1, <1>9 DEF RemoveFails
  <2>2. CASE pc[s] = "clear"
    <3>1. Goto(s, AfterRemove(s)) /\ Keep
      BY <1>9, <2>2 DEF RemoveFails
    <3>2. AfterRemove(s) \in {"mark", "settle"} => on[s] \notin up
      BY <1>1, <2>2 DEF AfterRemove, OpsAt, CalmInv, Down
    <3>. QED
      BY <1>2, <1>5, <1>6, <1>7, <2>1, <2>2, <3>1, <3>2, CalmGoto DEF Keep
  <2>3. CASE pc[s] = "remove"
    <3>1. End(s)
      BY <1>9, <2>3 DEF RemoveFails
    <3>. QED
      BY <1>4, <2>1, <2>3, <3>1, CalmEnd
  <2>. QED
    BY <1>9, <2>2, <2>3 DEF RemoveFails
<1>10. CASE Halt(s)
  <2>1. pc[s] = "halt" /\ up' \subseteq up /\ UNCHANGED box
    BY <1>10 DEF Halt
  <2>2. CASE End(s)
    BY <1>2, <1>4, <2>1, <2>2, CalmEnd
  <2>3. CASE ~ End(s)
    <3>1. Goto(s, "mark") /\ Keep /\ on[s] \notin up'
      BY <1>3, <1>10, <2>3 DEF Halt
    <3>. QED
      BY <1>2, <1>4, <2>1, <3>1, CalmGoto DEF Keep
  <2>. QED
    BY <2>2, <2>3
<1>. QED
  BY <1>8, <1>9, <1>10

(* CalmInv is inductive when handlers do not overlap, die or change plans. *)
LEMMA CalmNext == Calm /\ CalmInv /\ [Next]_vars => CalmInv'
<1>. SUFFICES ASSUME Calm, CalmInv, [Next]_vars PROVE CalmInv'
  OBVIOUS
<1>1. TypeInv'
  BY TypeInvNext DEF CalmInv
<1>2. ASSUME NEW s \in Sessions, Step(s) PROVE CalmInv'
  <2>1. op[s] \in OpsAt(pc[s]) /\ op[s] # "update" /\ op[s] # "view"
    BY DEF CalmInv, TypeInv, OpFits, NoUpdate
  <2>2. ~ Exchange(s) /\ ~ Replan(s) /\ ~ Sync(s)
    BY <2>1 DEF Exchange, Replan, Sync, OpsAt
  <2>3. ~ SpawnFails(s)
    BY DEF SpawnFails, Calm
  <2>4. ~ Vanished(s)
    <3>. SUFFICES ASSUME Vanished(s) PROVE FALSE
      OBVIOUS
    <3>1. on[s] # None /\ pc[s] # "release" /\ op[s] # "create" /\ status[on[s]] = "none"
      BY GpuAssumption DEF Vanished, CalmInv, TypeInv, TypeOK
    <3>. QED
      BY <3>1 DEF CalmInv, StillThere
  <2>. QED
    BY <1>1, <1>2, <2>2, <2>3, <2>4, CalmScan, CalmReap, CalmMoves, CalmDown, CalmMark,
       CalmRelease, CalmChoose, CalmReserve, CalmSpawn, CalmRecord
    DEF Step
<1>3. ASSUME NEW s \in Sessions, Crash(s) PROVE CalmInv'
  BY <1>3 DEF Crash, Calm
<1>4. CASE UNCHANGED vars
  <2>1. UNCHANGED <<op, on, myCid, mySt, want, mine, devs, stale, pc, status, cid, gpu, rows, aged,
                    up, box, baked>>
    BY <1>4 DEF vars, task, db, runtime
  <2>2. OneAtATime' /\ NoUpdate' /\ Loaded' /\ StillThere' /\ WantIsPlan' /\ MineFresh'
    BY <2>1 DEF CalmInv, OneAtATime, NoUpdate, Loaded, StillThere, WantIsPlan, MineFresh
  <2>3. Equipped' /\ Down' /\ KnownBox' /\ RunsOnOwnDevices'
    BY <2>1 DEF CalmInv, Equipped, Down, KnownBox, RunsOnOwnDevices, Held
  <2>4. Guarded' /\ Doomed'
    BY <2>1, GuardedKept, DoomedKept DEF CalmInv
  <2>. QED
    BY <1>1, <2>2, <2>3, <2>4 DEF CalmInv
<1>. QED
  BY <1>1, <1>2, <1>3, <1>4, CalmBegin, CalmBeginQuota, CalmExits, CalmAge DEF Next

(* GpuServers: while no two handlers overlap on one server, no plan        *)
(* changes, no look corrects a status and no handler dies half way, every  *)
(* device a running container was created with stays reserved for its      *)
(* server, whatever reconciles and handlers of other servers do and        *)
(* however lookups and deletes fail.                                       *)
THEOREM RunningOwnsItsDevices ==
    ASSUME Calm
    PROVE  Spec => []RunsOnOwnDevices
<1>1. CalmInv /\ [Next]_vars => CalmInv'
  BY CalmNext
<1>2. CalmInv => RunsOnOwnDevices
  BY DEF CalmInv
<1>. QED
  BY CalmInit, <1>1, <1>2, PTL DEF Spec

(* GpuServers: under the same conditions no two running containers share a *)
(* device.                                                                 *)
THEOREM NoSharedDevice ==
    ASSUME Calm
    PROVE  Spec => []Exclusive
<1>1. TypeInv /\ ReservedOnce /\ RunsOnOwnDevices => Exclusive
  BY DEF TypeInv, TypeOK, ReservedOnce, RunsOnOwnDevices, Exclusive
<1>. QED
  BY TypeInvInit, TypeInvNext, DeviceReservedOnce, RunningOwnsItsDevices, <1>1, PTL DEF Spec

(* Rows that go belong to a server whose container is down: a handler      *)
(* releases after it has taken the container down, and what a reconcile    *)
(* deletes is being released anyway.                                       *)
LEMMA OnlyIdleRowsGo ==
    ASSUME CalmInv, Next, NEW r \in rows, r \notin rows'
    PROVE  r[2] \notin up
<1>. SUFFICES ASSUME r[2] \in up PROVE FALSE
  OBVIOUS
<1>1. r[1] \in Devices /\ r[2] \in Servers /\ r = <<r[1], r[2]>>
  BY DEF CalmInv, TypeInv, TypeOK
<1>2. ASSUME NEW s \in Sessions, Release(s) \/ Settle(s) PROVE FALSE
  BY <1>1, <1>2 DEF Release, Settle, CalmInv, Down
<1>3. ASSUME NEW s \in Sessions, Reap(s) PROVE FALSE
  <2>1. pc[s] = "reap" /\ r \in stale[s] \cap aged
    BY <1>3 DEF Reap
  <2>. QED
    BY <1>1, <2>1 DEF CalmInv, Doomed, Down
<1>4. ASSUME NEW s \in Sessions, Exchange(s) PROVE FALSE
  BY <1>4 DEF Exchange, CalmInv, TypeInv, OpFits, OpsAt, NoUpdate
<1>5. (\E s \in Sessions : Release(s) \/ Settle(s) \/ Reap(s) \/ Exchange(s)) \/ rows \subseteq rows'
  BY DEF Next, Step, Begin, BeginQuota, Scan, Admit, Probe, Remove,
         RemoveFails, Halt, Vanished, Sync, Mark, Replan, Reuse, Pick, Reserve,
         Exhausted, RaceLost, Spawn, SpawnFails, Record, Crash, Exits, Age, db
<1>. QED
  BY <1>2, <1>3, <1>4, <1>5

(* GpuServers: ... and no step takes the reservation of a device away from *)
(* a container that runs on it.                                            *)
THEOREM NoReservationLostWhileUp ==
    ASSUME Calm
    PROVE  Spec => NotReapedWhileUp
<1>1. CalmInv /\ [Next]_vars =>
          [\A r \in rows : r \notin rows' => ~ (r[2] \in up /\ r[1] \in baked[r[2]])]_vars
  BY OnlyIdleRowsGo DEF vars, db
<1>2. CalmInv /\ [Next]_vars => CalmInv'
  BY CalmNext
<1>. QED
  BY CalmInit, <1>1, <1>2, PTL DEF Spec, NotReapedWhileUp

(* GpuServers: ... and no handler marks a server stopped whose container   *)
(* runs, although the runtime may not answer or not delete: a handler that *)
(* comes to the write has seen the container go.                           *)
THEOREM StoppedMeansDown ==
    ASSUME Calm
    PROVE  Spec => StopIsReal
<1>1. CalmInv /\ [Next]_vars =>
          [\A v \in Servers : status[v] = "running" /\ status'[v] = "stopped" => v \notin up']_vars
  <2>. SUFFICES ASSUME CalmInv, Next, NEW v \in Servers,
                       status[v] = "running", status'[v] = "stopped"
                PROVE  v \notin up'
    BY DEF vars, db
  <2>1. ASSUME NEW s \in Sessions, Mark(s) \/ Settle(s) PROVE v \notin up'
    <3>1. on[s] \in Servers /\ on[s] \notin up /\ up' = up
      BY <2>1 DEF Mark, Settle, runtime, CalmInv, TypeInv, TypeOK, Down
    <3>2. status' = [status EXCEPT ![on[s]] = WrittenStatus(s)]
      BY <2>1 DEF Mark, Settle, WriteDown
    <3>. QED
      BY <3>1, <3>2 DEF CalmInv, TypeInv, TypeOK
  <2>2. ASSUME NEW s \in Sessions, Sync(s) \/ Replan(s) PROVE FALSE
    BY <2>2 DEF Sync, Replan, CalmInv, TypeInv, OpFits, OpsAt, NoUpdate
  <2>3. ASSUME NEW s \in Sessions, Record(s) PROVE FALSE
    BY <2>3 DEF Record, CalmInv, TypeInv, TypeOK
  <2>4. \/ \E s \in Sessions : Mark(s) \/ Settle(s) \/ Sync(s) \/ Replan(s) \/ Record(s)
        \/ status' = status
    BY DEF Next, Step, Begin, BeginQuota, Scan, Reap, Admit, Exchange, Probe, Remove,
           RemoveFails, Halt, Vanished, Release, Reuse, Pick, Reserve,
           Exhausted, RaceLost, Spawn, SpawnFails, Crash, Exits, Age, db
  <2>. QED
    BY <2>1, <2>2, <2>3, <2>4
<1>2. CalmInv /\ [Next]_vars => CalmInv'
  BY CalmNext
<1>. QED
  BY CalmInit, <1>1, <1>2, PTL DEF Spec, StopIsReal

-----------------------------------------------------------------------------
(* The refinement of GpuPool.                                              *)

(* What GpuPool calls used: the devices of the containers that run.        *)
UsedBy == [v \in Servers |-> IF v \in up THEN baked[v] ELSE {}]

(* Steps at which neither reservations nor containers change.              *)
LEMMA PoolUntouched ==
    ASSUME Next
    PROVE  \/ UNCHANGED <<rows, up, baked>>
           \/ \E s \in Sessions : \/ Reap(s) \/ Exchange(s) \/ Release(s) \/ Settle(s)
                                  \/ Reserve(s) \/ Spawn(s) \/ SpawnFails(s)
                                  \/ Remove(s) \/ RemoveFails(s) \/ Halt(s)
           \/ \E v \in Servers : Exits(v)
  BY DEF Next, Step, Begin, BeginQuota, Scan, Admit, Probe, Vanished, Sync, Mark,
         Replan, Reuse, Pick, Exhausted, RaceLost, Record, Crash, Age, db, runtime

LEMMA AttachIsStep ==
    ASSUME NEW w \in Servers, NEW D \in SUBSET Devices, Pool!Attach(w, D)
    PROVE  Pool!Next
  BY DEF Pool!Next

(* A container that goes down gives up the devices it used.                *)
LEMMA DownDetaches ==
    ASSUME NEW w \in Servers, up' = up \ {w}, UNCHANGED <<rows, baked>>
    PROVE  Pool!Next
<1>1. UsedBy' = [UsedBy EXCEPT ![w] = {}]
  BY DEF UsedBy
<1>2. Pool!Attach(w, {})
  BY <1>1 DEF Pool!Attach, UsedBy
<1>. QED
  BY <1>2, AttachIsStep

(* Every step of a calm system is one of the pool, or none of its business.*)
LEMMA PoolStep ==
    ASSUME Calm, CalmInv, [Next]_vars
    PROVE  Pool!Next \/ UNCHANGED <<rows, UsedBy>>
<1>1. CASE UNCHANGED vars
  BY <1>1 DEF vars, db, runtime, UsedBy
<1>2. CASE Next /\ UNCHANGED <<rows, up, baked>>
  BY <1>2 DEF UsedBy
<1>3. ASSUME NEW s \in Sessions, Next, Reap(s) \/ Exchange(s) \/ Release(s) \/ Settle(s)
      PROVE  Pool!Next
  <2>1. rows' \subseteq rows /\ UNCHANGED <<up, baked>>
    BY <1>3 DEF Reap, Exchange, Release, Settle, runtime
  <2>2. UsedBy' = UsedBy
    BY <2>1 DEF UsedBy
  <2>3. ASSUME NEW r \in rows \ rows' PROVE r[1] \notin UsedBy[r[2]]
    <3>1. r[2] \in Servers
      BY DEF CalmInv, TypeInv, TypeOK
    <3>. QED
      BY <1>3, <3>1, OnlyIdleRowsGo DEF UsedBy
  <2>4. Pool!Return(rows \ rows')
    BY <2>1, <2>2, <2>3 DEF Pool!Return, UsedBy
  <2>. QED
    BY <2>4 DEF Pool!Next
<1>4. ASSUME NEW s \in Sessions, Reserve(s) PROVE Pool!Next
  <2>1. on[s] \in Servers /\ devs[s] \in SUBSET Devices
    BY <1>4 DEF Reserve, CalmInv, TypeInv, TypeOK
  <2>2. /\ \A d \in devs[s], w \in Servers : <<d, w>> \notin rows
        /\ rows' = rows \cup {<<d, on[s]>> : d \in devs[s]}
        /\ UNCHANGED <<up, baked>>
    BY <1>4 DEF Reserve, Free, runtime
  <2>3. UsedBy' = UsedBy
    BY <2>2 DEF UsedBy
  <2>4. Pool!Grant(on[s], devs[s])
    BY <2>2, <2>3 DEF Pool!Grant, UsedBy
  <2>. QED
    BY <2>1, <2>4 DEF Pool!Next
<1>5. ASSUME NEW s \in Sessions, Spawn(s) PROVE Pool!Next
  <2>1. baked \in [Servers -> SUBSET Devices]
    BY DEF CalmInv, TypeInv, TypeOK
  <2>2. PICK w \in Servers, D \in SUBSET Devices : w = on[s] /\ D = devs[s]
    BY <1>5 DEF Spawn, CalmInv, TypeInv, TypeOK
  <2>3. \A d \in D : <<d, w>> \in rows
    BY <1>5, <2>2 DEF Spawn, CalmInv, Equipped, Held
  <2>4. up' = up \cup {w} /\ baked' = [baked EXCEPT ![w] = D] /\ rows' = rows
    BY <1>5, <2>2 DEF Spawn, db
  <2>5. UsedBy' = [UsedBy EXCEPT ![w] = D]
    BY <2>1, <2>4 DEF UsedBy
  <2>6. Pool!Attach(w, D)
    BY <2>3, <2>4, <2>5 DEF Pool!Attach, UsedBy
  <2>. QED
    BY <2>6, AttachIsStep
<1>6. ASSUME NEW s \in Sessions, Remove(s) \/ RemoveFails(s) \/ Halt(s)
      PROVE  Pool!Next \/ UNCHANGED <<rows, UsedBy>>
  <2>1. on[s] \in Servers
    BY <1>6 DEF Remove, RemoveFails, Halt, CalmInv, TypeInv, TypeOK
  <2>2. UNCHANGED <<rows, baked>> /\ (up' = up \/ up' = up \ {on[s]})
    BY <1>6 DEF Remove, RemoveFails, Halt, db
  <2>. QED
    BY <2>1, <2>2, DownDetaches DEF UsedBy
<1>7. ASSUME NEW v \in Servers, Exits(v) PROVE Pool!Next
  BY <1>7, DownDetaches DEF Exits, db
<1>8. ASSUME NEW s \in Sessions PROVE ~ SpawnFails(s)
  BY DEF Calm, SpawnFails
<1>. QED
  BY <1>1, <1>2, <1>3, <1>4, <1>5, <1>6, <1>7, <1>8, PoolUntouched

(* GpuServers: under the same conditions handlers, reconciles and          *)
(* containers implement the pool: devices are handed out when free, used   *)
(* by the container of the server that has them, and taken back when it is *)
(* down.                                                                   *)
THEOREM DevicesComeFromThePool ==
    ASSUME Calm
    PROVE  Spec => ImplementsPool
<1>1. Init => Pool!Init
  BY DEF Init, Pool!Init
<1>2. CalmInv /\ [Next]_vars => [Pool!Next]_<<rows, UsedBy>>
  BY PoolStep
<1>3. CalmInv /\ [Next]_vars => CalmInv'
  BY CalmNext
<1>. QED
  BY CalmInit, <1>1, <1>2, <1>3, PTL DEF Spec, ImplementsPool, Pool!Spec, UsedBy
=============================================================================

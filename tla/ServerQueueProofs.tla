------------------------- MODULE ServerQueueProofs -------------------------
(***************************************************************************)
(* Two theorems about the queue of servers, for any number of workers, of  *)
(* entries and of crashes. The first is about money: what has been charged *)
(* for an entry is not only the servers made for it, there are also the    *)
(* workers that have charged and not yet spawned, and an entry may have    *)
(* several at a time. The second is about what an entry says at its end.   *)
(***************************************************************************)
EXTENDS ServerQueue, FiniteSetTheorems, TLAPS

Busy == {"check", "charge", "spawn", "mark"}
Places == Busy \cup {"idle", "fit", "create", "pick"}

QueueTypes ==
    /\ made \in [Entries -> Nat] /\ charged \in [Entries -> Nat]
    /\ pc \in [Threads -> Places] /\ entry \in [Threads -> 0 .. MaxEntries]

(* A worker that is busy is busy with an entry.                            *)
Working == \A t \in Threads : pc[t] \in Busy => entry[t] \in Entries

(* Workers that have charged for e and not yet spawned.                    *)
Paying(e) == {t \in Threads : pc[t] = "spawn" /\ entry[t] = e}

ChargedAhead == \A e \in Entries : made[e] + Cardinality(Paying(e)) <= charged[e]

ChargedInv == QueueTypes /\ Working /\ ChargedAhead

-----------------------------------------------------------------------------
LEMMA PayingFinite ==
    \A e : IsFiniteSet(Paying(e)) /\ Cardinality(Paying(e)) \in Nat
  <1>1. IsFiniteSet(Threads)
    BY QueueAssumption, FS_Union DEF Threads
  <1>2. \A e : Paying(e) \in SUBSET Threads
    BY DEF Paying
  <1> QED BY <1>1, <1>2, FS_Subset, FS_CardinalityType

(* Where nobody begins to pay, nothing is made and nothing charged.        *)
LEMMA StillAhead ==
    ASSUME ChargedInv, UNCHANGED history, \A e \in Entries : Paying(e)' \subseteq Paying(e)
    PROVE  ChargedAhead'
  <1> SUFFICES ASSUME NEW e \in Entries
               PROVE  made'[e] + Cardinality(Paying(e)') <= charged'[e]
    BY DEF ChargedAhead
  <1>1. /\ Cardinality(Paying(e)') <= Cardinality(Paying(e))
        /\ Cardinality(Paying(e)') \in Nat /\ Cardinality(Paying(e)) \in Nat
    BY PayingFinite, FS_Subset, FS_CardinalityType
  <1>2. made[e] + Cardinality(Paying(e)) <= charged[e] /\ made[e] \in Nat /\ charged[e] \in Nat
    BY DEF ChargedInv, QueueTypes, ChargedAhead
  <1>3. made' = made /\ charged' = charged
    BY DEF history
  <1> QED BY <1>1, <1>2, <1>3

(* A thread goes anywhere but to the spawn.                                *)
LEMMA GoesOn ==
    ASSUME ChargedInv, UNCHANGED history, NEW t \in Threads, NEW l \in Places \ {"spawn"},
           Goto(t, l), entry' \in [Threads -> 0 .. MaxEntries],
           \A u \in Threads \ {t} : entry'[u] = entry[u],
           l \in Busy => entry'[t] \in Entries
    PROVE  ChargedInv'
  <1>1. QueueTypes'
    BY DEF ChargedInv, QueueTypes, history, Goto
  <1>2. Working'
    BY DEF ChargedInv, QueueTypes, Working, Goto
  <1>3. \A e \in Entries : Paying(e)' \subseteq Paying(e)
    BY DEF ChargedInv, QueueTypes, Paying, Goto
  <1> QED BY <1>1, <1>2, <1>3, StillAhead DEF ChargedInv

LEMMA Ends ==
    ASSUME ChargedInv, UNCHANGED history, NEW t \in Threads, End(t)
    PROVE  ChargedInv'
  <1>1. entry' = [entry EXCEPT ![t] = 0] /\ 0 \in 0 .. MaxEntries /\ Goto(t, "idle")
    BY QueueAssumption DEF End
  <1>2. "idle" \in Places \ {"spawn"} /\ "idle" \notin Busy
    BY DEF Places, Busy
  <1> QED BY <1>1, <1>2, GoesOn DEF ChargedInv, QueueTypes

(* No thread moves.                                                        *)
LEMMA Stays ==
    ASSUME ChargedInv, UNCHANGED <<history, pc, entry>>
    PROVE  ChargedInv'
  <1>1. QueueTypes' /\ Working'
    BY DEF ChargedInv, QueueTypes, Working, history
  <1>2. \A e \in Entries : Paying(e)' \subseteq Paying(e)
    BY DEF Paying
  <1> QED BY <1>1, <1>2, StillAhead DEF ChargedInv

LEMMA ChargeKeeps ==
    ASSUME ChargedInv, NEW t \in Threads, Charge(t)
    PROVE  ChargedInv'
  <1> DEFINE c == entry[t]
  <1>1. c \in Entries /\ pc[t] = "charge"
    BY DEF ChargedInv, Working, Busy, Charge
  <1>2. /\ pc' = [pc EXCEPT ![t] = "spawn"] /\ entry' = entry /\ made' = made
        /\ charged' = [charged EXCEPT ![c] = @ + 1]
    BY DEF Charge, Goto
  <1>3. QueueTypes' /\ Working'
    BY <1>1, <1>2 DEF ChargedInv, QueueTypes, Working, Places, Busy
  <1>4. \A e \in Entries : Paying(e)' = IF e = c THEN Paying(e) \cup {t} ELSE Paying(e)
    BY <1>1, <1>2 DEF ChargedInv, QueueTypes, Paying
  <1>5. t \notin Paying(c)
    BY <1>1 DEF Paying
  <1>6. Cardinality(Paying(c) \cup {t}) = Cardinality(Paying(c)) + 1
    BY <1>5, PayingFinite, FS_AddElement
  <1>7. ASSUME NEW e \in Entries
        PROVE  made'[e] + Cardinality(Paying(e)') <= charged'[e]
    <2>1. /\ made[e] + Cardinality(Paying(e)) <= charged[e]
          /\ made[e] \in Nat /\ charged[e] \in Nat /\ Cardinality(Paying(e)) \in Nat
      BY PayingFinite DEF ChargedInv, QueueTypes, ChargedAhead
    <2>2. Cardinality(Paying(e)') = IF e = c THEN Cardinality(Paying(e)) + 1
                                              ELSE Cardinality(Paying(e))
      BY <1>4, <1>6
    <2>3. charged'[e] = IF e = c THEN charged[e] + 1 ELSE charged[e]
      BY <1>2 DEF ChargedInv, QueueTypes
    <2> QED BY <1>2, <2>1, <2>2, <2>3
  <1> QED BY <1>3, <1>7 DEF ChargedInv, ChargedAhead

LEMMA StartKeeps ==
    ASSUME ChargedInv, NEW t \in Threads, StartServer(t)
    PROVE  ChargedInv'
  <1> DEFINE c == entry[t]
  <1>1. c \in Entries /\ pc[t] = "spawn"
    BY DEF ChargedInv, Working, Busy, StartServer
  <1>2. /\ pc' = [pc EXCEPT ![t] = "mark"] /\ entry' = entry /\ charged' = charged
        /\ made' = [made EXCEPT ![c] = @ + 1]
    BY DEF StartServer, Goto
  <1>3. QueueTypes' /\ Working'
    BY <1>1, <1>2 DEF ChargedInv, QueueTypes, Working, Places, Busy
  <1>4. \A e \in Entries : Paying(e)' = IF e = c THEN Paying(e) \ {t} ELSE Paying(e)
    BY <1>1, <1>2 DEF ChargedInv, QueueTypes, Paying
  <1>5. t \in Paying(c)
    BY <1>1 DEF Paying
  <1>6. Cardinality(Paying(c) \ {t}) = Cardinality(Paying(c)) - 1
    BY <1>5, PayingFinite, FS_RemoveElement
  <1>7. ASSUME NEW e \in Entries
        PROVE  made'[e] + Cardinality(Paying(e)') <= charged'[e]
    <2>1. /\ made[e] + Cardinality(Paying(e)) <= charged[e]
          /\ made[e] \in Nat /\ charged[e] \in Nat /\ Cardinality(Paying(e)) \in Nat
      BY PayingFinite DEF ChargedInv, QueueTypes, ChargedAhead
    <2>2. Cardinality(Paying(e)') = IF e = c THEN Cardinality(Paying(e)) - 1
                                              ELSE Cardinality(Paying(e))
      BY <1>4, <1>6
    <2>3. made'[e] = IF e = c THEN made[e] + 1 ELSE made[e]
      BY <1>2 DEF ChargedInv, QueueTypes
    <2> QED BY <1>2, <2>1, <2>2, <2>3
  <1> QED BY <1>3, <1>7 DEF ChargedInv, ChargedAhead

-----------------------------------------------------------------------------
LEMMA ChargedInit == Init => ChargedInv
  <1> SUFFICES ASSUME Init PROVE ChargedInv
    OBVIOUS
  <1>1. QueueTypes /\ Working
    BY QueueAssumption DEF Init, QueueTypes, Working, Places, Busy
  <1>2. \A e \in Entries : Paying(e) = {}
    BY DEF Init, Paying
  <1>3. \A e \in Entries : made[e] = 0 /\ charged[e] = 0
    BY DEF Init
  <1> QED BY <1>1, <1>2, <1>3, FS_EmptySet DEF ChargedInv, ChargedAhead

LEMMA ChargedNext == ChargedInv /\ [Next]_vars => ChargedInv'
  <1> SUFFICES ASSUME ChargedInv, [Next]_vars PROVE ChargedInv'
    OBVIOUS
  <1> USE DEF ChargedInv, QueueTypes, Places, Busy, table, rows
  <1>1. ASSUME NEW t \in Requests, NEW w \in Wanted, Create(t, w) PROVE ChargedInv'
    BY <1>1, GoesOn DEF Create, Threads
  <1>2. ASSUME NEW t \in Requests, Admit(t) PROVE ChargedInv'
    <2>1. CASE Goto(t, "create") /\ entry' = entry
      BY <1>2, <2>1, GoesOn DEF Admit, Threads
    <2> QED BY <1>2, <2>1, Ends DEF Admit, Threads
  <1>3. ASSUME NEW t \in Requests, CreateServer(t) PROVE ChargedInv'
    BY <1>3, Ends DEF CreateServer, Threads
  <1>4. ASSUME NEW t \in Workers, ProcessQueue(t) PROVE ChargedInv'
    BY <1>4, GoesOn DEF ProcessQueue, Threads
  <1>5. ASSUME NEW t \in Workers, Pick(t) PROVE ChargedInv'
    <2>1. t \in Threads
      BY DEF Threads
    <2>2. ASSUME NEW e \in Entries, entry' = [entry EXCEPT ![t] = e], Goto(t, "check")
          PROVE  ChargedInv'
      <3>1. e \in 0 .. MaxEntries /\ UNCHANGED history
        BY <1>5 DEF Entries, Pick
      <3> QED BY <2>1, <2>2, <3>1, GoesOn
    <2> QED BY <1>5, <2>1, <2>2, Ends DEF Pick
  <1>6. ASSUME NEW t \in Workers, Check(t) PROVE ChargedInv'
    BY <1>6, GoesOn DEF Check, Threads, Working
  <1>7. ASSUME NEW t \in Workers, Charge(t) PROVE ChargedInv'
    BY <1>7, ChargeKeeps DEF Threads
  <1>8. ASSUME NEW t \in Workers, StartFails(t) PROVE ChargedInv'
    BY <1>8, GoesOn DEF StartFails, Settle, Threads
  <1>9. ASSUME NEW t \in Workers, StartServer(t) PROVE ChargedInv'
    BY <1>9, StartKeeps DEF Threads
  <1>10. ASSUME NEW t \in Workers, Mark(t) PROVE ChargedInv'
    BY <1>10, GoesOn DEF Mark, Settle, Threads
  <1>11. ASSUME NEW t \in Threads, Crash(t) PROVE ChargedInv'
    BY <1>11, Ends DEF Crash
  <1>12. ASSUME NEW t \in Threads, MarkFails(t) PROVE ChargedInv'
    BY <1>12, GoesOn DEF MarkFails, Settle
  <1>13. ASSUME NEW e \in Entries, Age(e) PROVE ChargedInv'
    BY <1>13, Stays DEF Age, thread
  <1>14. ASSUME NEW i \in Ids, StopServer(i) \/ RestartServer(i) \/ DeleteServer(i)
         PROVE  ChargedInv'
    BY <1>14, Stays DEF StopServer, RestartServer, DeleteServer, thread
  <1>15. CASE UNCHANGED vars
    BY <1>15, Stays DEF vars, thread
  <1> QED
    BY <1>1, <1>2, <1>3, <1>4, <1>5, <1>6, <1>7, <1>8, <1>9, <1>10, <1>11, <1>12, <1>13,
       <1>14, <1>15 DEF Next, TaskStep

(* No server of the queue is free: for every server that process_server_   *)
(* queue has made there is a debit of its own, whichever workers overlap   *)
(* on its entry and wherever they crash.                                   *)
THEOREM QueuedIsCharged == Spec => []StartedIsCharged
  <1>1. ChargedInv => StartedIsCharged
    <2> SUFFICES ASSUME ChargedInv, NEW e \in Entries PROVE made[e] <= charged[e]
      BY DEF StartedIsCharged
    <2>1. made[e] \in Nat /\ charged[e] \in Nat /\ Cardinality(Paying(e)) \in Nat
      BY PayingFinite DEF ChargedInv, QueueTypes
    <2> QED BY <2>1 DEF ChargedInv, ChargedAhead
  <1> QED BY <1>1, ChargedInit, ChargedNext, PTL DEF Spec

-----------------------------------------------------------------------------
(* What an entry says of its end. While tasks and requests come one at a   *)
(* time and nothing crashes, at most one thread is at work; an entry that  *)
(* it holds, or has set to failed and not committed, is pending, and only  *)
(* the one that it is about to mark has its server.                        *)

QueueStates == {"none", "pending", "started", "failed", "cancelled"}

FateTypes ==
    /\ queued \in 0 .. MaxEntries /\ faults \in Nat
    /\ st \in [Entries -> QueueStates] /\ failing \in [Threads -> SUBSET Entries]

Calm == mode.serial /\ faults = 0

Solo == \A t, u \in Threads : pc[t] # "idle" /\ pc[u] # "idle" => t = u

Rested == \A t \in Threads : pc[t] \in {"idle", "fit", "create"} => failing[t] = {}

Held == \A t \in Threads : pc[t] \in Busy =>
    /\ entry[t] \notin failing[t]
    /\ st[entry[t]] = "pending"
    /\ made[entry[t]] = IF pc[t] = "mark" THEN 1 ELSE 0

Dropped == \A t \in Threads : \A e \in failing[t] : st[e] = "pending" /\ made[e] = 0

Marking(e) == \E t \in Threads : pc[t] = "mark" /\ entry[t] = e

Fates == \A e \in Entries :
    /\ e > queued => st[e] = "none"
    /\ st[e] \in {"none", "failed", "cancelled"} => made[e] = 0
    /\ st[e] = "started" => made[e] = 1
    /\ st[e] = "pending" => made[e] = 0 \/ Marking(e)

FateBody == Solo /\ Rested /\ Held /\ Dropped /\ Fates

FateInv == FateTypes /\ (Calm => FateBody)

LEMMA FateInit == Init => FateInv
  BY QueueAssumption
  DEF Init, FateInv, FateTypes, FateBody, Solo, Rested, Held, Dropped, Fates, QueueStates, Busy

(* What any step leaves in the table and in the sessions.                  *)
LEMMA FateTypesNext == ChargedInv /\ FateTypes /\ [Next]_vars => FateTypes'
  <1> SUFFICES ASSUME ChargedInv, FateTypes, [Next]_vars PROVE FateTypes'
    OBVIOUS
  <1> USE QueueAssumption DEF FateTypes, QueueStates, Threads, table
  <1>1. ASSUME NEW t \in Requests, NEW w \in Wanted, Create(t, w) PROVE FateTypes'
    BY <1>1 DEF Create
  <1>2. ASSUME NEW t \in Requests, Admit(t) PROVE FateTypes'
    BY <1>2 DEF Admit, End
  <1>3. ASSUME NEW t \in Requests, CreateServer(t) PROVE FateTypes'
    BY <1>3 DEF CreateServer, End
  <1>4. ASSUME NEW t \in Workers, ProcessQueue(t) PROVE FateTypes'
    BY <1>4 DEF ProcessQueue, TimeOut
  <1>5. ASSUME NEW t \in Workers, Pick(t) PROVE FateTypes'
    BY <1>5 DEF Pick, End, Committed
  <1>6. ASSUME NEW t \in Workers, Check(t) PROVE FateTypes'
    <2>1. entry[t] \in Entries
      BY <1>6 DEF Check, ChargedInv, Working, Busy
    <2> QED BY <1>6, <2>1 DEF Check, Committed
  <1>7. ASSUME NEW t \in Workers, Charge(t) \/ StartServer(t) PROVE FateTypes'
    BY <1>7 DEF Charge, StartServer
  <1>8. ASSUME NEW t \in Workers, StartFails(t) \/ Mark(t) PROVE FateTypes'
    BY <1>8 DEF StartFails, Mark, Settle
  <1>9. ASSUME NEW t \in Threads, Crash(t) \/ MarkFails(t) PROVE FateTypes'
    BY <1>9 DEF Crash, MarkFails, Settle, End
  <1>10. ASSUME NEW e \in Entries, Age(e) PROVE FateTypes'
    BY <1>10 DEF Age, thread
  <1>11. ASSUME NEW i \in Ids, StopServer(i) \/ RestartServer(i) \/ DeleteServer(i)
         PROVE  FateTypes'
    BY <1>11 DEF StopServer, RestartServer, DeleteServer, thread
  <1>12. CASE UNCHANGED vars
    BY <1>12 DEF vars, thread
  <1> QED
    BY <1>1, <1>2, <1>3, <1>4, <1>5, <1>6, <1>7, <1>8, <1>9, <1>10, <1>11, <1>12
    DEF Next, TaskStep

(* While a thread is at work all others are idle, and hold nothing.        *)
LEMMA OthersRest ==
    ASSUME ChargedInv, FateTypes, FateBody, NEW t \in Threads, pc[t] # "idle",
           NEW u \in Threads \ {t}
    PROVE  pc[u] = "idle" /\ failing[u] = {}
  BY DEF FateBody, Solo, Rested

(* A request begins, or has found that there is room.                      *)
LEMMA FateRequest ==
    ASSUME ChargedInv, FateTypes, FateBody, NEW t \in Threads, NEW l \in {"fit", "create"},
           Goto(t, l), Alone \/ pc[t] = "fit", pc[t] \in {"idle", "fit"}, mode.serial,
           UNCHANGED <<queued, st, made, entry, failing>>
    PROVE  FateBody'
  <1> USE DEF ChargedInv, QueueTypes, FateTypes, FateBody, Goto
  <1>1. \A u \in Threads \ {t} : pc[u] = "idle" /\ pc'[u] = "idle"
    BY OthersRest DEF Alone
  <1>2. pc'[t] = l /\ l \notin Busy \cup {"idle"}
    BY DEF Busy
  <1>3. Solo' /\ Rested' /\ Dropped'
    BY <1>1, <1>2 DEF Solo, Rested, Dropped
  <1>4. Held'
    BY <1>1, <1>2 DEF Held, Busy
  <1>5. \A e \in Entries : ~Marking(e)
    BY <1>1 DEF Marking, Alone
  <1>6. Fates'
    BY <1>5 DEF Fates
  <1> QED BY <1>3, <1>4, <1>6

LEMMA FateEnds ==
    ASSUME ChargedInv, FateTypes, FateBody, NEW t \in Threads, pc[t] \notin Busy \cup {"idle"},
           End(t), queued' = queued, UNCHANGED made, st' = Committed(t)
    PROVE  FateBody'
  <1> USE DEF ChargedInv, QueueTypes, FateTypes, FateBody, End, Goto
  <1>1. \A u \in Threads \ {t} : pc[u] = "idle" /\ failing[u] = {}
    BY OthersRest
  <1>2. \A u \in Threads : pc'[u] = "idle" /\ failing'[u] = {}
    BY <1>1
  <1>3. Solo' /\ Rested' /\ Dropped' /\ Held'
    BY <1>2 DEF Solo, Rested, Dropped, Held, Busy
  <1>4. \A e \in Entries : ~Marking(e)
    BY <1>1 DEF Marking, Busy
  <1>5. Fates'
    <2> SUFFICES ASSUME NEW e \in Entries
                 PROVE  /\ e > queued => st'[e] = "none"
                        /\ st'[e] \in {"none", "failed", "cancelled"} => made[e] = 0
                        /\ st'[e] = "started" => made[e] = 1
                        /\ st'[e] = "pending" => made[e] = 0
      BY DEF Fates
    <2>1. CASE e \in failing[t]
      BY <2>1 DEF Committed, Dropped, Fates
    <2>2. CASE e \notin failing[t]
      BY <2>2, <1>4 DEF Committed, Fates
    <2> QED BY <2>1, <2>2
  <1> QED BY <1>3, <1>5

(* A request that finds no room becomes the next entry, which is fresh.    *)
LEMMA FateQueue ==
    ASSUME ChargedInv, FateTypes, FateBody, NEW t \in Threads, pc[t] = "fit", End(t),
           queued < MaxEntries, queued' = queued + 1, UNCHANGED made,
           st' = [st EXCEPT ![queued + 1] = "pending"]
    PROVE  FateBody'
  <1> USE DEF ChargedInv, QueueTypes, FateTypes, FateBody, End, Goto
  <1>1. \A u \in Threads \ {t} : pc[u] = "idle" /\ failing[u] = {}
    BY OthersRest
  <1>2. \A u \in Threads : pc'[u] = "idle" /\ failing'[u] = {}
    BY <1>1
  <1>3. Solo' /\ Rested' /\ Dropped' /\ Held'
    BY <1>2 DEF Solo, Rested, Dropped, Held, Busy
  <1>4. \A e \in Entries : ~Marking(e)
    BY <1>1 DEF Marking, Busy
  <1>5. queued + 1 \in Entries /\ made[queued + 1] = 0
    BY QueueAssumption DEF Fates, Entries
  <1>6. Fates'
    BY <1>4, <1>5, QueueAssumption DEF Fates, Entries
  <1> QED BY <1>3, <1>6

(* What waits too long has no server, since nobody is at work.             *)
LEMMA FateTimeOut ==
    ASSUME ChargedInv, FateTypes, FateBody, mode.serial, NEW t \in Threads, Alone, TimeOut,
           Goto(t, "pick"), UNCHANGED <<queued, made, entry, failing>>
    PROVE  FateBody'
  <1> USE DEF ChargedInv, QueueTypes, FateTypes, FateBody, Goto
  <1>1. \A u \in Threads : pc[u] = "idle" /\ failing[u] = {}
    BY DEF Alone, Rested
  <1>2. pc'[t] = "pick" /\ \A u \in Threads \ {t} : pc'[u] = "idle"
    BY <1>1
  <1>3. Solo' /\ Rested' /\ Dropped' /\ Held'
    BY <1>1, <1>2 DEF Solo, Rested, Dropped, Held, Busy
  <1>4. \A e \in Entries : ~Marking(e)
    BY <1>1 DEF Marking
  <1>5. Fates'
    BY <1>4 DEF Fates, TimeOut, TimedOut
  <1> QED BY <1>3, <1>5

LEMMA FatePick ==
    ASSUME ChargedInv, FateTypes, FateBody, NEW t \in Threads, pc[t] = "pick",
           NEW e \in Entries, IsNext(t, e), entry' = [entry EXCEPT ![t] = e], Goto(t, "check"),
           UNCHANGED <<queued, st, made, failing>>
    PROVE  FateBody'
  <1> USE DEF ChargedInv, QueueTypes, FateTypes, FateBody, Goto
  <1>1. \A u \in Threads \ {t} : pc[u] = "idle" /\ failing[u] = {} /\ pc'[u] = "idle"
    BY OthersRest
  <1>2. pc'[t] = "check" /\ entry'[t] = e
    OBVIOUS
  <1>3. \A d \in Entries : ~Marking(d)
    BY <1>1 DEF Marking
  <1>4. e \notin failing[t] /\ st[e] = "pending" /\ made[e] = 0
    BY <1>3 DEF IsNext, Fitting, Fates
  <1>5. Solo' /\ Rested' /\ Dropped'
    BY <1>1, <1>2 DEF Solo, Rested, Dropped
  <1>6. Held'
    BY <1>1, <1>2, <1>4 DEF Held, Busy
  <1>7. Fates'
    BY <1>3 DEF Fates
  <1> QED BY <1>5, <1>6, <1>7

LEMMA FateCheck ==
    ASSUME ChargedInv, FateTypes, FateBody, NEW t \in Threads, Check(t)
    PROVE  FateBody'
  <1> USE DEF ChargedInv, QueueTypes, FateTypes, FateBody, Goto, Check
  <1> DEFINE c == entry[t]
  <1>1. \A u \in Threads \ {t} : pc[u] = "idle" /\ failing[u] = {} /\ pc'[u] = "idle"
                                 /\ failing'[u] = {}
    BY OthersRest
  <1>2. c \in Entries /\ c \notin failing[t] /\ st[c] = "pending" /\ made[c] = 0
    BY DEF Working, Held, Busy
  <1>3. UNCHANGED <<queued, made, entry>> /\ st' \in [Entries -> QueueStates]
        /\ pc'[t] # "idle" /\ pc'[t] # "mark"
    BY DEF history, Committed, QueueStates
  <1>4. \A e \in failing[t] : e \in Entries /\ st[e] = "pending" /\ made[e] = 0
    BY DEF Dropped
  <1>5. st'[c] = "pending" /\ \A e \in failing'[t] : st'[e] = "pending" /\ made[e] = 0
    <2>1. CASE failing' = [failing EXCEPT ![t] = @ \cup {c}] /\ st' = st
      BY <1>2, <1>4, <2>1
    <2>2. CASE st' = Committed(t) /\ failing' = [failing EXCEPT ![t] = {c}]
      BY <1>2, <2>2 DEF Committed
    <2>3. CASE st' = Committed(t) /\ failing' = [failing EXCEPT ![t] = {}]
      BY <1>2, <2>3 DEF Committed
    <2> QED BY <2>1, <2>2, <2>3
  <1>6. pc'[t] \in Busy => pc'[t] = "charge" /\ failing'[t] = {}
    BY DEF Busy
  <1>7. Solo' /\ Rested'
    BY <1>1, <1>3 DEF Solo, Rested
  <1>8. Dropped'
    BY <1>1, <1>3, <1>5 DEF Dropped
  <1>9. Held'
    BY <1>1, <1>2, <1>3, <1>5, <1>6 DEF Held, Busy
  <1>10. \A e \in Entries : ~Marking(e)
    BY <1>1 DEF Marking
  <1>11. Fates'
    <2> SUFFICES ASSUME NEW e \in Entries
                 PROVE  /\ e > queued => st'[e] = "none"
                        /\ st'[e] \in {"none", "failed", "cancelled"} => made[e] = 0
                        /\ st'[e] = "started" => made[e] = 1
                        /\ st'[e] = "pending" => made[e] = 0
      BY <1>3 DEF Fates
    <2>1. CASE e \in failing[t]
      BY <2>1, <1>4, <1>10 DEF Committed, Fates
    <2>2. CASE e \notin failing[t]
      BY <2>2, <1>10 DEF Committed, Fates
    <2> QED BY <2>1, <2>2
  <1> QED BY <1>7, <1>8, <1>9, <1>11

LEMMA FateCharge ==
    ASSUME ChargedInv, FateTypes, FateBody, NEW t \in Threads, Charge(t)
    PROVE  FateBody'
  <1> USE DEF ChargedInv, QueueTypes, FateTypes, FateBody, Goto, Charge, table
  <1>1. \A u \in Threads \ {t} : pc[u] = "idle" /\ failing[u] = {} /\ pc'[u] = "idle"
    BY OthersRest
  <1>2. pc'[t] = "spawn" /\ UNCHANGED <<queued, st, made, entry, failing>>
    OBVIOUS
  <1>3. Solo' /\ Rested' /\ Dropped'
    BY <1>1, <1>2 DEF Solo, Rested, Dropped
  <1>4. Held'
    BY <1>1, <1>2 DEF Held, Busy
  <1>5. \A e \in Entries : ~Marking(e)
    BY <1>1 DEF Marking
  <1>6. Fates'
    BY <1>2, <1>5 DEF Fates
  <1> QED BY <1>3, <1>4, <1>6

LEMMA FateStart ==
    ASSUME ChargedInv, FateTypes, FateBody, NEW t \in Threads, StartServer(t)
    PROVE  FateBody'
  <1> USE DEF ChargedInv, QueueTypes, FateTypes, FateBody, Goto, StartServer, table
  <1> DEFINE c == entry[t]
  <1>1. \A u \in Threads \ {t} : pc[u] = "idle" /\ failing[u] = {} /\ pc'[u] = "idle"
    BY OthersRest
  <1>2. c \in Entries /\ c \notin failing[t] /\ st[c] = "pending" /\ made[c] = 0
    BY DEF Working, Held, Busy
  <1>3. /\ pc'[t] = "mark" /\ UNCHANGED <<queued, st, entry, failing>> /\ made'[c] = 1
        /\ \A e \in Entries \ {c} : made'[e] = made[e]
    BY <1>2
  <1>4. Solo' /\ Rested'
    BY <1>1, <1>3 DEF Solo, Rested
  <1>5. Dropped'
    BY <1>1, <1>2, <1>3 DEF Dropped
  <1>6. Held'
    BY <1>1, <1>2, <1>3 DEF Held, Busy
  <1>7. \A e \in Entries : ~Marking(e)
    BY <1>1 DEF Marking
  <1>8. Marking(c)'
    BY <1>3 DEF Marking
  <1>9. Fates'
    BY <1>2, <1>3, <1>7, <1>8 DEF Fates
  <1> QED BY <1>4, <1>5, <1>6, <1>9

(* The entry that is held is told its fate: that of its server.            *)
LEMMA FateSettle ==
    ASSUME ChargedInv, FateTypes, FateBody, NEW t \in Threads, pc[t] \in Busy,
           NEW fate \in {"failed", "started"}, (fate = "started") <=> (pc[t] = "mark"),
           Settle(t, fate), UNCHANGED made
    PROVE  FateBody'
  <1> USE DEF ChargedInv, QueueTypes, FateTypes, FateBody, Goto, Settle
  <1> DEFINE c == entry[t]
  <1>1. \A u \in Threads \ {t} : pc[u] = "idle" /\ failing[u] = {} /\ pc'[u] = "idle"
    BY OthersRest DEF Busy
  <1>2. /\ c \in Entries /\ c \notin failing[t] /\ st[c] = "pending" /\ c <= queued
        /\ made[c] = IF pc[t] = "mark" THEN 1 ELSE 0
    BY QueueAssumption DEF Working, Held, Fates, Entries
  <1>3. /\ pc'[t] = "pick" /\ UNCHANGED <<queued, made, entry, failing>> /\ st'[c] = fate
        /\ \A e \in Entries \ {c} : st'[e] = st[e]
    BY <1>2
  <1>4. Solo' /\ Rested'
    BY <1>1, <1>3 DEF Solo, Rested
  <1>5. Dropped'
    BY <1>1, <1>2, <1>3 DEF Dropped
  <1>6. Held'
    BY <1>1, <1>3 DEF Held, Busy
  <1>7. \A e \in Entries \ {c} : ~Marking(e)
    BY <1>1 DEF Marking
  <1>8. Fates'
    <2> SUFFICES ASSUME NEW e \in Entries
                 PROVE  /\ e > queued => st'[e] = "none"
                        /\ st'[e] \in {"none", "failed", "cancelled"} => made[e] = 0
                        /\ st'[e] = "started" => made[e] = 1
                        /\ st'[e] = "pending" => made[e] = 0
      BY <1>3 DEF Fates
    <2>1. CASE e = c
      BY <2>1, <1>2, <1>3, QueueAssumption DEF Entries
    <2>2. CASE e # c
      BY <2>2, <1>3, <1>7 DEF Fates
    <2> QED BY <2>1, <2>2
  <1> QED BY <1>4, <1>5, <1>6, <1>8

LEMMA FateStays ==
    ASSUME FateBody, UNCHANGED <<queued, st, made, pc, entry, failing>>
    PROVE  FateBody'
  BY DEF FateBody, Solo, Rested, Dropped, Held, Fates, Marking

LEMMA FateNext == ChargedInv /\ FateInv /\ [Next]_vars => FateInv'
  <1> SUFFICES ASSUME ChargedInv, FateInv, [Next]_vars, Calm' PROVE FateBody'
    BY FateTypesNext DEF FateInv
  <1>1. Calm /\ FateTypes /\ FateBody /\ mode.serial
    <2>1. mode' = mode /\ (faults' = faults \/ faults' = faults + 1)
      BY DEF Next, vars, Create, Admit, CreateServer, ProcessQueue, TaskStep, Pick, Check, Charge,
             StartFails, StartServer, Mark, Crash, MarkFails, Age, StopServer, RestartServer,
             DeleteServer
    <2> QED BY <2>1 DEF FateInv, FateTypes, Calm
  <1> USE <1>1 DEF Places, Busy, table, history, Threads
  <1>2. ASSUME NEW t \in Requests, NEW w \in Wanted, Create(t, w) PROVE FateBody'
    BY <1>2, FateRequest DEF Create
  <1>3. ASSUME NEW t \in Requests, Admit(t) PROVE FateBody'
    <2>1. CASE Goto(t, "create") /\ UNCHANGED <<table, entry, failing>>
      BY <1>3, <2>1, FateRequest DEF Admit
    <2> QED BY <1>3, <2>1, FateQueue DEF Admit
  <1>4. ASSUME NEW t \in Requests, CreateServer(t) PROVE FateBody'
    <2>1. st = Committed(t)
      BY <1>4 DEF CreateServer, FateTypes, FateBody, Rested, Committed
    <2> QED BY <1>4, <2>1, FateEnds DEF CreateServer
  <1>5. ASSUME NEW t \in Workers, ProcessQueue(t) PROVE FateBody'
    BY <1>5, FateTimeOut DEF ProcessQueue
  <1>6. ASSUME NEW t \in Workers, Pick(t) PROVE FateBody'
    BY <1>6, FatePick, FateEnds DEF Pick
  <1>7. ASSUME NEW t \in Workers, Check(t) PROVE FateBody'
    BY <1>7, FateCheck
  <1>8. ASSUME NEW t \in Workers, Charge(t) PROVE FateBody'
    BY <1>8, FateCharge
  <1>9. ASSUME NEW t \in Workers, StartFails(t) PROVE FateBody'
    BY <1>9, FateSettle DEF StartFails
  <1>10. ASSUME NEW t \in Workers, StartServer(t) PROVE FateBody'
    BY <1>10, FateStart
  <1>11. ASSUME NEW t \in Workers, Mark(t) PROVE FateBody'
    BY <1>11, FateSettle DEF Mark
  <1>12. ASSUME NEW t \in Threads, Crash(t) \/ MarkFails(t) PROVE FALSE
    BY <1>12 DEF Crash, MarkFails, Calm
  <1>13. ASSUME NEW e \in Entries, Age(e) PROVE FateBody'
    BY <1>13, FateStays DEF Age, thread
  <1>14. ASSUME NEW i \in Ids, StopServer(i) \/ RestartServer(i) \/ DeleteServer(i)
         PROVE  FateBody'
    BY <1>14, FateStays DEF StopServer, RestartServer, DeleteServer, thread
  <1>15. CASE UNCHANGED vars
    BY <1>15, FateStays DEF vars, thread
  <1> QED
    BY <1>2, <1>3, <1>4, <1>5, <1>6, <1>7, <1>8, <1>9, <1>10, <1>11, <1>12, <1>13, <1>14, <1>15
    DEF Next, TaskStep

(* While tasks neither overlap nor crash, process_server_queue makes at    *)
(* most one server for an entry, and what the entry says at its end is     *)
(* what has happened: started with its one server, failed or cancelled     *)
(* without.                                                                *)
THEOREM FatesAreTrue == Spec => []FateIsTrue
  <1>1. ChargedInv /\ FateInv => FateIsTrue
    <2> SUFFICES ASSUME ChargedInv, FateInv, Calm, NEW e \in Entries
                 PROVE  /\ made[e] <= 1
                        /\ st[e] = "started" => made[e] = 1
                        /\ st[e] \in {"failed", "cancelled"} => made[e] = 0
      BY DEF FateIsTrue, Calm
    <2>1. Marking(e) => made[e] = 1
      BY DEF FateInv, FateBody, Held, Marking, Busy
    <2>2. st[e] \in QueueStates
      BY DEF FateInv, FateTypes
    <2> QED BY <2>1, <2>2 DEF FateInv, FateBody, Fates, QueueStates
  <1> QED BY <1>1, ChargedInit, ChargedNext, FateInit, FateNext, PTL DEF Spec
=============================================================================

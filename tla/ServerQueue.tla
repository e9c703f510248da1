---------------------------- MODULE ServerQueue ----------------------------
(***************************************************************************)
(* Servers that have to wait: a request for which the platform has no room *)
(* becomes an entry of server_queue, and a task that runs every 30 seconds *)
(* on four worker threads starts the entries that fit. An entry is pending *)
(* until its server is in the table; nothing marks it as being worked on.  *)
(*                                                                         *)
(* The requests of one user, who is notified in the application as by      *)
(* default: a notification commits what its session has changed. Plans,    *)
(* quota, credits and devices may refuse an entry at any time. A plan is   *)
(* its share of the pool and its priority.                                 *)
(***************************************************************************)
EXTENDS Integers, FiniteSets, FiniteSetsExt

CONSTANTS
    Names,         \* server names
    Plans,         \* records [size, priority]
    Workers,       \* worker threads
    Requests,      \* threads that serve requests
    Modes,         \* the platforms to check: records, see QueueAssumption
    MaxEntries,    \* bound: entries queued
    MaxServers     \* bound: servers made

Threads == Workers \cup Requests
Entries == 1 .. MaxEntries
Ids == 1 .. MaxServers

ASSUME QueueAssumption ==
    /\ Plans \subseteq [size : Nat \ {0}, priority : Nat] /\ Plans # {}
    /\ Names # {}
    /\ IsFiniteSet(Workers) /\ IsFiniteSet(Requests) /\ Workers \cap Requests = {}
    /\ Modes \subseteq [capacity : Nat,            \* the pool: TOTAL_CPU and its like
                        plans : SUBSET Plans,      \* plans that are offered
                        workers : SUBSET Workers,  \* threads that run the task
                        serial : BOOLEAN,          \* no two tasks or requests at a time
                        restarts : BOOLEAN,        \* stopped servers are started again
                        entries : Nat,             \* bound: entries queued
                        faults : Nat]              \* bound: crashes and exceptions
    /\ MaxEntries \in Nat /\ MaxServers \in Nat

VARIABLES
    mode,      \* the kind of platform this is; never changes
    queued,    \* entries made; later ones were requested later
    st,        \* [Entries -> status of the entry]
    wants,     \* [Entries -> what it asks for]
    old,       \* entries requested more than an hour ago
    made,      \* [Entries -> servers made for the entry]
    charged,   \* [Entries -> debits for the entry]
    lastId,    \* servers made
    server,    \* [Ids -> the row in servers]
    pc,        \* where a thread stands
    entry,     \* the entry it works on, 0 for none
    ask,       \* what its request asks for
    failing,   \* entries it has set to failed and not committed
    faults

table == <<queued, st, wants, old>>
history == <<made, charged>>
rows == <<lastId, server>>
thread == <<pc, entry, ask, failing>>
vars == <<mode, table, history, rows, thread, faults>>

Wanted == [name : Names, plan : Plans]

\* Nothing is asked for: some value of the right kind.
Nothing == CHOOSE w \in Wanted : TRUE

Init ==
    /\ mode \in Modes
    /\ queued = 0
    /\ st = [e \in Entries |-> "none"]
    /\ wants = [e \in Entries |-> Nothing]
    /\ old = {}
    /\ made = [e \in Entries |-> 0]
    /\ charged = [e \in Entries |-> 0]
    /\ lastId = 0
    /\ server = [i \in Ids |-> [st |-> "none", is |-> Nothing]]
    /\ pc = [t \in Threads |-> "idle"]
    /\ entry = [t \in Threads |-> 0]
    /\ ask = [t \in Threads |-> Nothing]
    /\ failing = [t \in Threads |-> {}]
    /\ faults = 0

-----------------------------------------------------------------------------
\* The pool: only servers whose row says running take room.

Running == {i \in Ids : server[i].st = "running"}

Allocated == MapThenSumSet(LAMBDA i : server[i].is.plan.size, Running)

CanFit(plan) == Allocated + plan.size <= mode.capacity

Before(d, e) ==
    \/ wants[d].plan.priority > wants[e].plan.priority
    \/ wants[d].plan.priority = wants[e].plan.priority /\ d < e

\* get_next_in_queue, as a session sees it that has set some to failed
Fitting(t) == {e \in Entries \ failing[t] : st[e] = "pending" /\ CanFit(wants[e].plan)}

IsNext(t, e) == e \in Fitting(t) /\ \A d \in Fitting(t) \ {e} : Before(e, d)

-----------------------------------------------------------------------------
Goto(t, l) == pc' = [pc EXCEPT ![t] = l]

End(t) ==
    /\ Goto(t, "idle")
    /\ entry' = [entry EXCEPT ![t] = 0]
    /\ ask' = [ask EXCEPT ![t] = Nothing]
    /\ failing' = [failing EXCEPT ![t] = {}]

Alone == mode.serial => \A t \in Threads : pc[t] = "idle"

\* An UPDATE of an entry waits for the session that has changed it.
Unlocked(t, e) == \A u \in Threads \ {t} : e \notin failing[u]

\* A commit writes what the session has set to failed.
Committed(t) == [e \in Entries |-> IF e \in failing[t] THEN "failed" ELSE st[e]]

\* A server is spawned, and then its row is inserted.
Inserted(w) ==
    /\ lastId < MaxServers
    /\ lastId' = lastId + 1
    /\ server' = [server EXCEPT ![lastId + 1] = [st |-> "running", is |-> w]]

-----------------------------------------------------------------------------
\* create_server

NameTaken(name) == \E i \in Ids : server[i].st # "none" /\ server[i].is.name = name

Create(t, w) ==
    /\ t \in Requests /\ pc[t] = "idle" /\ Alone
    /\ w.plan \in mode.plans
    /\ lastId < MaxServers /\ (queued < mode.entries \/ CanFit(w.plan))   \* bounds
    /\ ~NameTaken(w.name)
    /\ Goto(t, "fit")
    /\ ask' = [ask EXCEPT ![t] = w]
    /\ UNCHANGED <<mode, table, history, rows, entry, failing, faults>>

\* There is room, or the request is queued.
Admit(t) ==
    /\ pc[t] = "fit"
    /\ \/ /\ CanFit(ask[t].plan)
          /\ Goto(t, "create")
          /\ UNCHANGED <<table, entry, ask, failing>>
       \/ /\ ~CanFit(ask[t].plan) /\ queued < mode.entries /\ queued < MaxEntries
          /\ queued' = queued + 1
          /\ st' = [st EXCEPT ![queued + 1] = "pending"]
          /\ wants' = [wants EXCEPT ![queued + 1] = ask[t]]
          /\ UNCHANGED old
          /\ End(t)
    /\ UNCHANGED <<mode, history, rows, faults>>

CreateServer(t) ==
    /\ pc[t] = "create"
    /\ Inserted(ask[t])
    /\ End(t)
    /\ UNCHANGED <<mode, table, history, faults>>

-----------------------------------------------------------------------------
\* process_server_queue

\* An entry has waited for more than an hour.
Age(e) ==
    /\ st[e] = "pending" /\ e \notin old
    /\ old' = old \cup {e}
    /\ UNCHANGED <<mode, queued, st, wants, history, rows, thread, faults>>

TimedOut == {e \in old : st[e] = "pending"}

(* Mutant of TimeOut: the entries that are too old are left alone.         *)
TimeOutNone == UNCHANGED st

TimeOut == st' = [e \in Entries |-> IF e \in TimedOut THEN "cancelled" ELSE st[e]]

ProcessQueue(t) ==
    /\ t \in mode.workers /\ pc[t] = "idle" /\ Alone
    /\ \A e \in TimedOut : Unlocked(t, e)
    /\ TimeOut
    /\ Goto(t, "pick")
    /\ UNCHANGED <<mode, queued, wants, old, history, rows, entry, ask, failing, faults>>

Pick(t) ==
    /\ pc[t] = "pick"
    /\ \/ \E e \in Entries :
             /\ IsNext(t, e)
             /\ entry' = [entry EXCEPT ![t] = e]
             /\ Goto(t, "check")
             /\ UNCHANGED <<st, ask, failing>>
       \/ /\ Fitting(t) = {}
          /\ st' = Committed(t)
          /\ End(t)
    /\ UNCHANGED <<mode, queued, wants, old, history, rows, faults>>

\* The plan or the user is gone; or the quota check commits, and then the quota,
\* the credits or the devices do not suffice.
Check(t) ==
    /\ pc[t] = "check" /\ Unlocked(t, entry[t])
    /\ \/ /\ failing' = [failing EXCEPT ![t] = @ \cup {entry[t]}]
          /\ Goto(t, "pick")
          /\ UNCHANGED st
       \/ /\ st' = Committed(t)
          /\ failing' = [failing EXCEPT ![t] = {entry[t]}]
          /\ Goto(t, "pick")
       \/ /\ st' = Committed(t)
          /\ failing' = [failing EXCEPT ![t] = {}]
          /\ Goto(t, "charge")
    /\ UNCHANGED <<mode, queued, wants, old, history, rows, entry, ask, faults>>

\* The notification of the user commits what has become of the entry.
Settle(t, fate) ==
    /\ st' = [st EXCEPT ![entry[t]] = fate]
    /\ Goto(t, "pick")
    /\ UNCHANGED <<queued, wants, old, entry, ask, failing>>

(* Mutant of Charge: the debit comes after the spawn, which may fail.      *)
ChargeLater(t) ==
    /\ pc[t] = "charge"
    /\ Goto(t, "spawn")
    /\ UNCHANGED <<mode, table, history, rows, entry, ask, failing, faults>>

\* consume_credits
Charge(t) ==
    /\ pc[t] = "charge"
    /\ charged' = [charged EXCEPT ![entry[t]] = @ + 1]
    /\ Goto(t, "spawn")
    /\ UNCHANGED <<mode, table, made, rows, entry, ask, failing, faults>>

\* The debit is refused or the spawn fails: what was charged is not given back.
StartFails(t) ==
    /\ pc[t] \in {"charge", "spawn"} /\ Unlocked(t, entry[t])
    /\ Settle(t, "failed")
    /\ UNCHANGED <<mode, history, rows, faults>>

StartServer(t) ==
    /\ pc[t] = "spawn"
    /\ Inserted(wants[entry[t]])
    /\ made' = [made EXCEPT ![entry[t]] = @ + 1]
    /\ Goto(t, "mark")
    /\ UNCHANGED <<mode, table, charged, entry, ask, failing, faults>>

(* Mutant of Mark: the entry is left as it is.                             *)
MarkNone(t) ==
    /\ pc[t] = "mark"
    /\ Goto(t, "pick")
    /\ UNCHANGED <<mode, table, history, rows, entry, ask, failing, faults>>

Mark(t) ==
    /\ pc[t] = "mark" /\ Unlocked(t, entry[t])
    /\ Settle(t, "started")
    /\ UNCHANGED <<mode, history, rows, faults>>

\* An exception after the server is in the table: its entry has failed all the same.
MarkFails(t) ==
    /\ pc[t] = "mark" /\ Unlocked(t, entry[t]) /\ faults < mode.faults
    /\ faults' = faults + 1
    /\ Settle(t, "failed")
    /\ UNCHANGED <<mode, history, rows>>

-----------------------------------------------------------------------------
\* Room comes and goes: a stop, a start (which does not look at the pool), a
\* deletion.
StopServer(i) ==
    /\ server[i].st = "running"
    /\ server' = [server EXCEPT ![i].st = "stopped"]
    /\ UNCHANGED <<mode, table, history, lastId, thread, faults>>

RestartServer(i) ==
    /\ server[i].st = "stopped" /\ mode.restarts
    /\ server' = [server EXCEPT ![i].st = "running"]
    /\ UNCHANGED <<mode, table, history, lastId, thread, faults>>

DeleteServer(i) ==
    /\ server[i].st # "none"
    /\ server' = [server EXCEPT ![i] = [st |-> "none", is |-> Nothing]]
    /\ UNCHANGED <<mode, table, history, lastId, thread, faults>>

\* The process ends, or an exception ends the task: the session is rolled back.
Crash(t) ==
    /\ pc[t] # "idle" /\ faults < mode.faults
    /\ faults' = faults + 1
    /\ End(t)
    /\ UNCHANGED <<mode, table, history, rows>>

-----------------------------------------------------------------------------
TaskStep(t) == Pick(t) \/ Check(t) \/ Charge(t) \/ StartFails(t) \/ StartServer(t) \/ Mark(t)

Next ==
    \/ \E t \in Requests :
          \/ \E w \in Wanted : Create(t, w)
          \/ Admit(t) \/ CreateServer(t)
    \/ \E t \in Workers : ProcessQueue(t) \/ TaskStep(t)
    \/ \E t \in Threads : Crash(t) \/ MarkFails(t)
    \/ \E e \in Entries : Age(e)
    \/ \E i \in Ids : StopServer(i) \/ RestartServer(i) \/ DeleteServer(i)

Spec == Init /\ [][Next]_vars

\* The beat sends the task for ever, what a thread does ends, entries grow old.
Fairness ==
    /\ \A e \in Entries : WF_vars(Age(e))
    /\ \A t \in Requests : WF_vars(Admit(t) \/ CreateServer(t))
    /\ \A t \in Workers : WF_vars(ProcessQueue(t)) /\ WF_vars(TaskStep(t))

FairSpec == Spec /\ Fairness

-----------------------------------------------------------------------------
\* The state is what the tables and the handlers can hold.
TypeOK ==
    /\ mode \in Modes
    /\ queued \in 0 .. MaxEntries /\ lastId \in 0 .. MaxServers
    /\ st \in [Entries -> {"none", "pending", "started", "failed", "cancelled"}]
    /\ wants \in [Entries -> Wanted] /\ old \subseteq Entries
    /\ made \in [Entries -> Nat] /\ charged \in [Entries -> Nat]
    /\ server \in [Ids -> [st : {"none", "running", "stopped"}, is : Wanted]]
    /\ pc \in [Threads -> {"idle", "fit", "create", "pick", "check", "charge", "spawn", "mark"}]
    /\ entry \in [Threads -> 0 .. MaxEntries] /\ ask \in [Threads -> Wanted]
    /\ failing \in [Threads -> SUBSET Entries]
    /\ faults \in Nat

\* No server of the queue is free (process_server_queue): for each there is a debit,
\* also if tasks overlap on an entry or crash.
StartedIsCharged == \A e \in Entries : made[e] <= charged[e]

\* When tasks neither overlap nor crash, an entry is started once, and what it says at the end
\* is what has happened: started with one server, failed or cancelled without.
FateIsTrue ==
    mode.serial /\ faults = 0 => \A e \in Entries :
        /\ made[e] <= 1
        /\ st[e] = "started" => made[e] = 1
        /\ st[e] \in {"failed", "cancelled"} => made[e] = 0

\* "Platform-wide resource limits" (resource_pool_service.py): the running servers
\* fit into the pool.
WithinPool == Allocated <= mode.capacity

\* A queued request comes to an end (process_server_queue), whatever the others
\* ask for: it is started, fails, or is told after an hour that it was not.
EntriesSettle ==
    \A e \in Entries : st[e] = "pending" ~> st[e] \in {"started", "failed", "cancelled"}

\* "Server names must be unique per user" (create_server).
NamesUnique ==
    \A i, j \in Ids :
        server[i].st # "none" /\ server[j].st # "none" /\ server[i].is.name = server[j].is.name
            => i = j
=============================================================================

--------------------------- MODULE ServerBilling ---------------------------
(***************************************************************************)
(* What a running server costs its owner: the task that debits a quarter   *)
(* of an hour for every running server, the stops that settle the exact    *)
(* time, and total_cost, the column of the server row by which the two     *)
(* know of each other. The debit and total_cost are committed apart, and   *)
(* nobody locks the server row.                                            *)
(*                                                                         *)
(* One server with a plan that costs something, and the balance of its     *)
(* owner. The container runtime answers as it likes (GpuServers follows    *)
(* the containers), the lock on the user row makes a debit one step        *)
(* (CreditLedger). Time is kept as ages, so that it may pass for ever.     *)
(***************************************************************************)
EXTENDS Integers

CONSTANTS
    Sessions,      \* concurrent requests and tasks
    Modes          \* the settings a server is followed in

\* Stops that settle with the owner: the stop request, idle shutdown, volume
\* quota, schedule, logout. Stops that do not: the runtime limit, a bulk stop.
Settling == {"request", "schedule"}
AllStops == Settling \cup {"expire"}

ASSUME BillingAssumption ==
    Modes \subseteq
        [serial : BOOLEAN,         \* no two operations at a time
         price : Nat \ {0},        \* cost_per_hour of the plan
         quarter : Nat \ {0},      \* units of time in a quarter of an hour
         balance : Nat,            \* of the owner, at first
         grants : Nat,             \* bound: credits granted to the owner
         spends : Nat,             \* bound: credits the owner spends elsewhere
         starts : Nat,             \* bound: starts and restarts
         ages : Nat,               \* bound: ages above it are not told apart
         due : Nat,                \* bound: billing tasks that wait for a worker
         faults : Nat]             \* bound: failing deletions, spawns and crashes

VARIABLES
    mode,       \* the setting, which does not change
    status,     \* servers.status
    totalCost,  \* servers.total_cost
    age,        \* how long ago started_at is; up to the stop, once it is stopped
    balance,    \* nuke_balance of the owner
    usage,      \* sum of the server's server_usage rows
    paid,       \* of these, since the server was last started
    owed,       \* exact cost of the last run, if its stop settles it
    phase,      \* time since the beat last sent the billing task
    due,        \* billing tasks that wait for a worker
    pc, kind,   \* where a session stands, what it does
    myCost, myAge,  \* total_cost and the age of started_at in its server object
    amount,     \* what it is about to take, or has taken
    granted, spent, starts, faults

row == <<status, totalCost, age>>
money == <<balance, usage, paid>>
beat == <<phase, due>>
task == <<pc, kind, myCost, myAge, amount>>
bounds == <<granted, spent, starts, faults>>
vars == <<mode, row, money, owed, beat, task, bounds>>

\* A server that has just been created and started.
Init ==
    /\ mode \in Modes
    /\ status = "running" /\ totalCost = 0 /\ age = 0
    /\ balance = mode.balance /\ usage = 0 /\ paid = 0 /\ owed = 0
    /\ phase \in 0 .. mode.quarter - 1 /\ due = 0
    /\ pc = [s \in Sessions |-> "idle"]
    /\ kind = [s \in Sessions |-> "none"]
    /\ myCost = [s \in Sessions |-> 0]
    /\ myAge = [s \in Sessions |-> 0]
    /\ amount = [s \in Sessions |-> 0]
    /\ granted = 0 /\ spent = 0 /\ starts = 0 /\ faults = 0

-----------------------------------------------------------------------------
AtLeastOne(n) == IF n <= 0 THEN 1 ELSE n

\* billing_amount: a quarter of the price, rounded down
BillingAmount == AtLeastOne(mode.price \div 4)

\* exact_cost of a run, rounded down
ExactCost(duration) == AtLeastOne((duration * mode.price) \div (4 * mode.quarter))

Older(a) == IF a < mode.ages THEN a + 1 ELSE a

End(s) ==
    /\ pc' = [pc EXCEPT ![s] = "idle"]
    /\ kind' = [kind EXCEPT ![s] = "none"]
    /\ myCost' = [myCost EXCEPT ![s] = 0]
    /\ myAge' = [myAge EXCEPT ![s] = 0]
    /\ amount' = [amount EXCEPT ![s] = 0]

Goto(s, l) == pc' = [pc EXCEPT ![s] = l] /\ UNCHANGED <<kind, myCost, myAge>>

Alone == mode.serial => \A s \in Sessions : pc[s] = "idle"

\* The server object is loaded; it keeps its values until the session ends
\* (expire_on_commit is off).
Load(s, k, l) ==
    /\ pc[s] = "idle" /\ Alone
    /\ pc' = [pc EXCEPT ![s] = l]
    /\ kind' = [kind EXCEPT ![s] = k]
    /\ myCost' = [myCost EXCEPT ![s] = totalCost]
    /\ myAge' = [myAge EXCEPT ![s] = age]
    /\ UNCHANGED amount

-----------------------------------------------------------------------------
\* Time passes. The beat sends the billing task every quarter of an hour,
\* whether or not the last one has run.
Time ==
    /\ phase' = (phase + 1) % mode.quarter
    /\ due' = IF phase' = 0 /\ due < mode.due THEN due + 1 ELSE due
    /\ age' = IF status = "running" THEN Older(age) ELSE age
    /\ myAge' = [s \in Sessions |-> IF pc[s] \in {"listed", "remove"}
                                    THEN Older(myAge[s]) ELSE myAge[s]]
    /\ UNCHANGED <<mode, status, totalCost, money, owed, pc, kind, myCost, amount, bounds>>

-----------------------------------------------------------------------------
\* process_nuke_billing

\* The running servers are listed; this one is not among them if it is stopped.
Bill(s) ==
    /\ due > 0
    /\ due' = due - 1
    /\ \/ status = "running" /\ Load(s, "bill", "listed")
       \/ status # "running" /\ pc[s] = "idle" /\ Alone /\ UNCHANGED task
    /\ UNCHANGED <<mode, row, money, owed, phase, bounds>>

(* Mutant of Depleted: a balance of zero is not taken for depleted.        *)
DepletedBelowZero == balance < 0

Depleted == balance <= 0

\* The balance is read without a lock. Nothing left: the server is stopped.
ReadBalance(s) ==
    /\ pc[s] = "listed"
    /\ IF ~Depleted
       THEN Goto(s, "debit") /\ amount' = [amount EXCEPT ![s] = BillingAmount]
       ELSE Goto(s, "remove") /\ UNCHANGED amount
    /\ UNCHANGED <<mode, row, money, owed, beat, bounds>>

-----------------------------------------------------------------------------
\* Stops: _perform_server_stop and the tasks that do the same

Stop(s, k) ==
    /\ status = "running"
    /\ Load(s, k, "remove")
    /\ UNCHANGED <<mode, row, money, owed, beat, bounds>>

(* Mutant of Additional: what the ticks have taken is not counted.         *)
AdditionalWhole(s) == ExactCost(myAge[s])

\* additional_cost
Additional(s) == ExactCost(myAge[s]) - myCost[s]

\* The release of the devices commits the stopped row as well.
Committed == status' = "stopped"

\* The container is deleted and the row says so.
Remove(s) ==
    /\ pc[s] = "remove"
    /\ Committed
    /\ \/ /\ kind[s] \in Settling \cup {"bill"}
          /\ owed' = ExactCost(myAge[s])
          /\ \/ Additional(s) > 0 /\ Goto(s, "quote") /\ UNCHANGED amount
             \/ Additional(s) <= 0 /\ End(s)
       \/ /\ kind[s] = "expire"
          /\ owed' = 0
          /\ End(s)
    /\ UNCHANGED <<mode, totalCost, age, money, beat, bounds>>

\* A stop request finds that the container has exited: the row is corrected
\* and nothing is settled.
FindExited(s) ==
    /\ pc[s] = "remove" /\ kind[s] = "request"
    /\ status' = "stopped" /\ owed' = 0
    /\ End(s)
    /\ UNCHANGED <<mode, totalCost, age, money, beat, bounds>>

\* reconcile_server_billing reads the balance and asks for no more than that.
Quote(s) ==
    /\ pc[s] = "quote"
    /\ \/ /\ balance > 0
          /\ amount' = [amount EXCEPT ![s] =
                IF balance >= Additional(s) THEN Additional(s) ELSE balance]
          /\ Goto(s, "debit")
       \/ balance <= 0 /\ End(s)
    /\ UNCHANGED <<mode, row, money, owed, beat, bounds>>

-----------------------------------------------------------------------------
\* consume_credits: one commit under the lock of the user row
Debit(s) ==
    /\ pc[s] = "debit" /\ balance >= amount[s]
    /\ balance' = balance - amount[s]
    /\ usage' = usage + amount[s]
    /\ paid' = paid + amount[s]
    /\ Goto(s, "record")
    /\ UNCHANGED <<mode, row, owed, beat, amount, bounds>>

(* Mutant of DebitRefused: the exception is caught too early.              *)
DebitRefusedRecords(s) ==
    /\ pc[s] = "debit" /\ balance < amount[s]
    /\ Goto(s, "record")
    /\ UNCHANGED <<mode, row, money, owed, beat, amount, bounds>>

\* Insufficient credits: the exception ends the work on this server.
DebitRefused(s) ==
    /\ pc[s] = "debit" /\ balance < amount[s]
    /\ End(s)
    /\ UNCHANGED <<mode, row, money, owed, beat, bounds>>

\* The commit at the end of the task or request: total_cost as the session knows
\* it, and what it has taken.
Record(s) ==
    /\ pc[s] = "record"
    /\ totalCost' = myCost[s] + amount[s]
    /\ End(s)
    /\ UNCHANGED <<mode, status, age, money, owed, beat, bounds>>

-----------------------------------------------------------------------------
\* _perform_server_start and _perform_server_restart: the owner has credits for
\* an hour, which the schedule that restarts a running server does not ask for; the
\* container is spawned, and only then is the row written.
Start(s) ==
    /\ balance >= mode.price \/ status = "running"
    /\ starts < mode.starts
    /\ starts' = starts + 1
    /\ Load(s, IF status = "running" THEN "restart" ELSE "start", "spawn")
    /\ UNCHANGED <<mode, row, money, owed, beat, granted, spent, faults>>

\* A status that is what it was when it was loaded is not written.
Started(s) ==
    /\ pc[s] = "spawn"
    /\ status' = IF kind[s] = "start" THEN "running" ELSE status
    /\ age' = 0
    /\ paid' = 0 /\ owed' = 0
    /\ End(s)
    /\ UNCHANGED <<mode, totalCost, balance, usage, beat, bounds>>

\* A call of the runtime fails, an exception is raised, or the process ends.
Fault(s) ==
    /\ pc[s] # "idle" /\ faults < mode.faults
    /\ faults' = faults + 1
    /\ End(s)
    /\ UNCHANGED <<mode, row, money, owed, beat, granted, spent, starts>>

\* The owner's balance moves for other reasons.
Grant ==
    /\ granted < mode.grants
    /\ granted' = granted + 1 /\ balance' = balance + 1
    /\ UNCHANGED <<mode, row, usage, paid, owed, beat, task, spent, starts, faults>>

Spend ==
    /\ balance > 0 /\ spent < mode.spends
    /\ spent' = spent + 1 /\ balance' = balance - 1
    /\ UNCHANGED <<mode, row, usage, paid, owed, beat, task, granted, starts, faults>>

-----------------------------------------------------------------------------
Step(s) ==
    \/ ReadBalance(s) \/ Remove(s) \/ Quote(s) \/ Debit(s) \/ DebitRefused(s)
    \/ Record(s) \/ Started(s)

Next ==
    \/ Time \/ Grant \/ Spend
    \/ \E s \in Sessions :
          \/ Bill(s) \/ Start(s) \/ FindExited(s) \/ Fault(s) \/ Step(s)
          \/ \E k \in AllStops : Stop(s, k)

Spec == Init /\ [][Next]_vars

\* Time passes, what a session does ends, a worker takes the billing task.
Fairness ==
    /\ WF_vars(Time) /\ WF_vars(\E s \in Sessions : Bill(s))
    /\ \A s \in Sessions : WF_vars(Step(s))

FairSpec == Spec /\ Fairness

-----------------------------------------------------------------------------
\* The state is what the columns and the handlers can hold.
TypeOK ==
    /\ mode \in Modes
    /\ status \in {"running", "stopped"}
    /\ totalCost \in Nat /\ usage \in Nat /\ paid \in Nat /\ balance \in Nat
    /\ age \in 0 .. mode.ages /\ owed \in Nat
    /\ phase \in 0 .. mode.quarter - 1 /\ due \in 0 .. mode.due
    /\ pc \in [Sessions -> {"idle", "listed", "remove", "quote", "debit", "record", "spawn"}]
    /\ kind \in [Sessions -> AllStops \cup {"none", "bill", "start", "restart"}]
    /\ myCost \in [Sessions -> Nat] /\ myAge \in [Sessions -> 0 .. mode.ages]
    /\ amount \in [Sessions -> Nat]
    /\ granted \in Nat /\ spent \in Nat /\ starts \in Nat /\ faults \in Nat

\* The cost a server shows (total_cost) was taken from its owner: there are debits
\* of at least that much, also if tasks overlap, overwrite each other's total_cost,
\* or end between the debit and the row (tasks.py:531, credit_service.py:317).
RecordedIsPaid == totalCost <= usage

\* What the ticks take in a time; more than ExactCost where the price is below the
\* minimum of a credit a tick.
TickCost(duration) == (duration * BillingAmount) \div mode.quarter

Dearer(m, n) == IF m <= n THEN n ELSE m

\* reconcile_server_billing "bills the difference from what was already charged
\* via periodic ticks": one operation at a time, a run costs no more than its time, the
\* tick that was rounded up, those that had waited for a worker when it began, and one
\* for each task that died before it had recorded its debit.
FairPrice ==
    mode.serial /\ age < mode.ages
        => paid <= Dearer(ExactCost(age), TickCost(age)) + (1 + mode.due + faults) * BillingAmount

\* A server whose owner has nothing left is stopped (process_nuke_billing), unless
\* credits arrive: deletions that fail and crashed tasks are made up for.
DepletedStops ==
    (status = "running" /\ balance = 0) ~> (status # "running" \/ balance > 0)

\* reconcile_server_billing "calculates exact runtime cost": a run that was settled
\* with credits to spare has been paid for.
RunIsBilled ==
    status = "stopped" /\ balance > 0 /\ (\A s \in Sessions : pc[s] = "idle")
        => paid >= owed
=============================================================================

---------------------------- MODULE CreditLedger ----------------------------
(***************************************************************************)
(* The NUKE credit ledger: the nuke_balance column of users, the rows of   *)
(* credit_transactions, and the database sessions that change both         *)
(* (CreditService._create_transaction and its callers).                    *)
(*                                                                         *)
(* A session is one request or one Celery task with one SQLAlchemy         *)
(* session.  Between the session's SELECT ... FOR UPDATE of the user row   *)
(* and its commit the row lock keeps other writers out.  What the session  *)
(* *sees* of the row is another matter: a SELECT ... FOR UPDATE without    *)
(* populate_existing() does not refresh an object that is already in the   *)
(* session's identity map, so a caller that loaded the User earlier (the   *)
(* current_user of a request, the user of a queue entry) computes with the *)
(* balance it loaded then.                                                 *)
(***************************************************************************)
EXTENDS Integers, FiniteSets

CONSTANTS Users,           \* rows of the users table
          Sessions,        \* concurrent requests and tasks
          None,            \* no session, no cached balance
          Callers,         \* which callers of the ledger exist in this instance
          Amounts,         \* amounts a caller may ask for
          SetValues,       \* balances an administrator may type into a user form
          Caps,            \* values of credits_max_balance (0 = no cap)
          DailyAllowance,  \* effective_daily_allowance of a user
          InitialBalance,  \* balance of a new account
          MaxOps,          \* bound: units of work started
          MaxDay           \* bound: days that pass

AllCallers == {"grant", "deduct", "daily", "depleted", "set",
               "auto_approve", "spawn", "stop"}

(* Callers whose session already holds the User object when the ledger     *)
(* locks the row: a credit request that approves itself, the queue task,   *)
(* and the owner's own stop request.                                       *)
Preloading == {"auto_approve", "spawn", "stop"}

(* Callers that add credits; every other one of them removes credits.      *)
Granting == {"grant", "auto_approve", "daily"}

(* Callers that come through reconcile_server_billing, which reads the     *)
(* balance without a lock and asks for no more than that.                  *)
Quoting == {"depleted", "stop"}

ASSUME ConstantsAssumption ==
    /\ None \notin Sessions /\ None \notin Int
    /\ Callers \subseteq AllCallers
    /\ Amounts \subseteq Nat \ {0}
    /\ SetValues \subseteq Nat
    /\ Caps \subseteq Nat /\ Caps # {}
    /\ DailyAllowance \in Nat \ {0}
    /\ InitialBalance \in Nat
    /\ MaxOps \in Nat /\ MaxDay \in Nat

Days == 0 .. MaxDay

VARIABLES
    balance,   \* users.nuke_balance, as committed
    active,    \* users.is_active
    ledger,    \* sum of the user's credit_transactions.amount, as committed
    dailyRows, \* number of daily_allowance rows per user and UTC day
    adjusted,  \* what the user form added to a balance, outside the ledger
    cap,       \* settings.credits_max_balance
    ceiling,   \* highest balance a cap or a form has allowed so far (0 = any)
    day,       \* the UTC day
    lock,      \* who holds the user row FOR UPDATE
    pc,        \* where a session stands
    caller, user, amount,  \* what it was asked to do
    cached,    \* the balance in its identity map, if the User is loaded
    seen,      \* the balance it computes with
    eff,       \* effective_amount, after the cap
    todo,      \* users its batch still has to visit
    ops        \* units of work started

data == <<balance, active, ledger, dailyRows, adjusted, cap, ceiling, day>>
work == <<caller, user, amount, cached, seen, eff, todo>>
vars == <<data, lock, pc, work, ops>>

Init ==
    /\ balance = [u \in Users |-> InitialBalance]
    /\ active = Users
    /\ ledger = [u \in Users |-> 0]
    /\ dailyRows = [u \in Users |-> [d \in Days |-> 0]]
    /\ adjusted = [u \in Users |-> 0]
    /\ cap \in {c \in Caps : c = 0 \/ InitialBalance <= c}
    /\ ceiling = cap
    /\ day = 0
    /\ lock = [u \in Users |-> None]
    /\ pc = [s \in Sessions |-> "idle"]
    /\ caller = [s \in Sessions |-> None]
    /\ user = [s \in Sessions |-> None]
    /\ amount = [s \in Sessions |-> 0]
    /\ cached = [s \in Sessions |-> None]
    /\ seen = [s \in Sessions |-> 0]
    /\ eff = [s \in Sessions |-> 0]
    /\ todo = [s \in Sessions |-> {}]
    /\ ops = 0

-----------------------------------------------------------------------------
(* Commit, rollback and close all give the session's row locks back.       *)
ReleaseAll(s) == lock' = [u \in Users |-> IF lock[u] = s THEN None ELSE lock[u]]

Goto(s, l) == pc' = [pc EXCEPT ![s] = l]

(* The session is closed: its locks and everything it had loaded are gone. *)
Close(s) ==
    /\ ReleaseAll(s)
    /\ Goto(s, "idle")
    /\ caller' = [caller EXCEPT ![s] = None]
    /\ user' = [user EXCEPT ![s] = None]
    /\ amount' = [amount EXCEPT ![s] = 0]
    /\ cached' = [cached EXCEPT ![s] = None]
    /\ seen' = [seen EXCEPT ![s] = 0]
    /\ eff' = [eff EXCEPT ![s] = 0]
    /\ todo' = [todo EXCEPT ![s] = {}]

(* The request or task reaches the credit service.  A preloading caller    *)
(* has read the user row, unlocked, some time before.                      *)
Begin(s, c, u, a) ==
    /\ pc[s] = "idle" /\ ops < MaxOps
    /\ c \in Callers \ {"daily", "set"}
    /\ ops' = ops + 1
    /\ caller' = [caller EXCEPT ![s] = c]
    /\ user' = [user EXCEPT ![s] = u]
    /\ amount' = [amount EXCEPT ![s] = IF c \in Granting THEN a ELSE -a]
    /\ cached' = [cached EXCEPT ![s] = IF c \in Preloading THEN balance[u] ELSE None]
    /\ Goto(s, IF c \in Quoting THEN "quoting" ELSE "waiting")
    /\ UNCHANGED <<data, lock, seen, eff, todo>>

(* grant_daily_allowance_to_all lists the ids of the active users (plain   *)
(* columns, so no User object is loaded) and visits those who have logged  *)
(* in recently, one after another.                                         *)
BeginDaily(s) ==
    /\ pc[s] = "idle" /\ ops < MaxOps
    /\ "daily" \in Callers
    /\ ops' = ops + 1
    /\ caller' = [caller EXCEPT ![s] = "daily"]
    /\ amount' = [amount EXCEPT ![s] = DailyAllowance]
    /\ cached' = [cached EXCEPT ![s] = None]
    /\ \E recent \in SUBSET active : todo' = [todo EXCEPT ![s] = recent]
    /\ Goto(s, "next")
    /\ UNCHANGED <<data, lock, user, seen, eff>>

NextUser(s) ==
    /\ pc[s] = "next"
    /\ \E u \in todo[s] :
          /\ user' = [user EXCEPT ![s] = u]
          /\ todo' = [todo EXCEPT ![s] = @ \ {u}]
    /\ Goto(s, "waiting")
    /\ UNCHANGED <<data, lock, caller, amount, cached, seen, eff, ops>>

(* The batch ends with one audit row, and that commit ends the transaction.*)
EndBatch(s) ==
    /\ pc[s] = "next" /\ todo[s] = {}
    /\ Close(s)
    /\ UNCHANGED <<data, ops>>

(* update_user compares the submitted balance with the one it loaded and   *)
(* assigns it: no row lock, no ledger row, no cap.                         *)
BeginSet(s, u, v) ==
    /\ pc[s] = "idle" /\ ops < MaxOps
    /\ "set" \in Callers
    /\ ops' = ops + 1
    /\ caller' = [caller EXCEPT ![s] = "set"]
    /\ user' = [user EXCEPT ![s] = u]
    /\ amount' = [amount EXCEPT ![s] = v]
    /\ cached' = [cached EXCEPT ![s] = balance[u]]
    /\ Goto(s, "setting")
    /\ UNCHANGED <<data, lock, seen, eff, todo>>

WriteSet(s) ==
    LET u == user[s]
        new == IF cached[s] = amount[s] THEN balance[u] ELSE amount[s]
    IN  /\ pc[s] = "setting" /\ lock[u] = None
        /\ balance' = [balance EXCEPT ![u] = new]
        /\ adjusted' = [adjusted EXCEPT ![u] = @ + (new - balance[u])]
        /\ ceiling' = IF ceiling = 0 \/ new <= ceiling THEN ceiling ELSE new
        /\ Close(s)
        /\ UNCHANGED <<active, ledger, dailyRows, cap, day, ops>>

(* Mutant of Quote: the balance is read by loading the User.               *)
QuoteLoadsUser(s) ==
    /\ pc[s] = "quoting" /\ balance[user[s]] > 0
    /\ amount' = [amount EXCEPT ![s] = IF balance[user[s]] >= -@ THEN @ ELSE -balance[user[s]]]
    /\ cached' = [cached EXCEPT ![s] = balance[user[s]]]
    /\ Goto(s, "waiting")
    /\ UNCHANGED <<data, lock, caller, user, seen, eff, todo, ops>>

(* reconcile_server_billing: "check balance first; if insufficient, record *)
(* what we can".  A column read, so the identity map is not consulted, and *)
(* no lock is taken.                                                       *)
Quote(s) ==
    /\ pc[s] = "quoting" /\ balance[user[s]] > 0
    /\ amount' = [amount EXCEPT ![s] = IF balance[user[s]] >= -@ THEN @ ELSE -balance[user[s]]]
    /\ Goto(s, "waiting")
    /\ UNCHANGED <<data, lock, caller, user, cached, seen, eff, todo, ops>>

NothingToTake(s) ==
    /\ pc[s] = "quoting" /\ balance[user[s]] = 0
    /\ Close(s)
    /\ UNCHANGED <<data, ops>>

(* What a locking SELECT shows the session: the object it already holds,   *)
(* or else the row as last committed.                                      *)
LoadedBalance(s) == IF cached[s] = None THEN balance[user[s]] ELSE cached[s]

LockRow(s) ==
    /\ pc[s] = "waiting" /\ lock[user[s]] = None
    /\ lock' = [lock EXCEPT ![user[s]] = s]
    /\ seen' = [seen EXCEPT ![s] = LoadedBalance(s)]
    /\ Goto(s, "locked")
    /\ UNCHANGED <<data, caller, user, amount, cached, eff, todo, ops>>

(* Mutant of DailyRefused: the window starts a day late.                   *)
DailyRefusedLate(u) == u \notin active \/ \E d \in Days : d > day /\ dailyRows[u][d] > 0

(* grant_daily_allowance, once it has the row: inactive users and users    *)
(* with a daily_allowance row of today or later are turned away.           *)
DailyRefused(u) ==
    u \notin active \/ \E d \in Days : d >= day /\ dailyRows[u][d] > 0

(* Mutant of Clamped: the cap is compared with the old balance.            *)
ClampedLate(b, a) == IF cap > 0 /\ b > cap THEN 0 ELSE a

Clamped(b, a) == IF cap > 0 /\ b + a > cap
                 THEN IF cap > b THEN cap - b ELSE 0
                 ELSE a

(* The cap is read live, inside the transaction.                           *)
Compute(s) ==
    LET e == IF amount[s] > 0 THEN Clamped(seen[s], amount[s]) ELSE amount[s]
        refused == \/ caller[s] = "daily" /\ DailyRefused(user[s])
                   \/ seen[s] + e < 0
    IN  /\ pc[s] = "locked"
        /\ eff' = [eff EXCEPT ![s] = e]
        /\ Goto(s, IF refused THEN "refused" ELSE "ready")
        /\ UNCHANGED <<data, lock, caller, user, amount, cached, seen, todo, ops>>

(* An exception: a request rolls back; the daily batch catches it and goes *)
(* on in the same transaction, so it keeps the locks it has.               *)
Refuse(s) ==
    /\ pc[s] = "refused"
    /\ \/ caller[s] = "daily" /\ Goto(s, "next") /\ UNCHANGED <<lock, work>>
       \/ caller[s] # "daily" /\ Close(s)
    /\ UNCHANGED <<data, ops>>

(* Mutant of NewBalance: the amount asked for, not the one after the cap.  *)
NewBalanceUncapped(s) == seen[s] + amount[s]

(* The flush writes the column only when the attribute changed.            *)
NewBalance(s) == IF eff[s] = 0 THEN balance[user[s]] ELSE seen[s] + eff[s]

(* The type under which a row is filed decides whether the daily pre-check *)
(* and the unique index uq_credit_tx_daily_allowance_per_user_per_day see  *)
(* it.  (The row lock already keeps a second insert out, so the index is   *)
(* never what decides and IntegrityError is not a reachable outcome.)      *)
FiledAsDaily(s) == caller[s] = "daily"

Commit(s) ==
    LET u == user[s]
    IN  /\ pc[s] = "ready"
        /\ balance' = [balance EXCEPT ![u] = NewBalance(s)]
        /\ ledger' = [ledger EXCEPT ![u] = @ + eff[s]]
        /\ dailyRows' = IF FiledAsDaily(s)
                        THEN [dailyRows EXCEPT ![u][day] = @ + 1]
                        ELSE dailyRows
        /\ \/ caller[s] = "daily" /\ ReleaseAll(s) /\ Goto(s, "next") /\ UNCHANGED work
           \/ caller[s] # "daily" /\ Close(s)
        /\ UNCHANGED <<active, adjusted, cap, ceiling, day, ops>>

(* Mutant of LockTimeout: only the user form has a timeout.                *)
LockTimeoutForm(s) ==
    /\ pc[s] = "setting" /\ lock[user[s]] # None
    /\ Close(s)
    /\ UNCHANGED <<data, ops>>

(* command_timeout cuts a wait for a row lock short: the way out of a lock *)
(* cycle between two batches.  The rest of the session's work fails.       *)
LockTimeout(s) ==
    /\ pc[s] \in {"waiting", "setting"} /\ lock[user[s]] # None
    /\ Close(s)
    /\ UNCHANGED <<data, ops>>

(* The process dies: nothing of the open transaction survives.             *)
Crash(s) ==
    /\ pc[s] # "idle"
    /\ Close(s)
    /\ UNCHANGED <<data, ops>>

SetCap(c) ==
    /\ c # cap
    /\ cap' = c
    /\ ceiling' = IF c = 0 \/ ceiling = 0 THEN 0
                  ELSE IF c > ceiling THEN c ELSE ceiling
    /\ UNCHANGED <<balance, active, ledger, dailyRows, adjusted, day, lock, pc, work, ops>>

(* An UPDATE of the row waits for the row lock.                            *)
Deactivate(u) ==
    /\ u \in active /\ lock[u] = None
    /\ active' = active \ {u}
    /\ UNCHANGED <<balance, ledger, dailyRows, adjusted, cap, ceiling, day, lock, pc, work, ops>>

NewDay ==
    /\ day < MaxDay
    /\ day' = day + 1
    /\ UNCHANGED <<balance, active, ledger, dailyRows, adjusted, cap, ceiling, lock, pc, work, ops>>

Step(s) == \/ NextUser(s) \/ EndBatch(s) \/ WriteSet(s)
           \/ Quote(s) \/ NothingToTake(s)
           \/ LockRow(s) \/ LockTimeout(s) \/ Compute(s) \/ Refuse(s) \/ Commit(s)

Next ==
    \/ \E s \in Sessions, c \in Callers, u \in Users, a \in Amounts : Begin(s, c, u, a)
    \/ \E s \in Sessions : BeginDaily(s)
    \/ \E s \in Sessions, u \in Users, v \in SetValues : BeginSet(s, u, v)
    \/ \E s \in Sessions : Step(s)
    \/ \E s \in Sessions : Crash(s)
    \/ \E c \in Caps : SetCap(c)
    \/ \E u \in Users : Deactivate(u)
    \/ NewDay

Spec == Init /\ [][Next]_vars

(* asyncio and the database keep serving an open session, and no statement *)
(* outlives command_timeout.  Crashes, new work, settings and midnight are *)
(* not promised.                                                           *)
FairSpec == Spec /\ \A s \in Sessions : WF_vars(Step(s))

-----------------------------------------------------------------------------
PCs == {"idle", "next", "quoting", "waiting", "setting", "locked", "ready", "refused"}

(* Every variable stays in its type; a session that is past "next" works   *)
(* for a real user.                                                        *)
TypeOK ==
    /\ balance \in [Users -> Nat]
    /\ active \in SUBSET Users
    /\ ledger \in [Users -> Int]
    /\ dailyRows \in [Users -> [Days -> Nat]]
    /\ adjusted \in [Users -> Int]
    /\ cap \in Caps /\ ceiling \in Nat /\ day \in Days
    /\ lock \in [Users -> Sessions \cup {None}]
    /\ pc \in [Sessions -> PCs]
    /\ caller \in [Sessions -> Callers \cup {None}]
    /\ user \in [Sessions -> Users \cup {None}]
    /\ amount \in [Sessions -> Int]
    /\ cached \in [Sessions -> Nat \cup {None}]
    /\ seen \in [Sessions -> Nat]
    /\ eff \in [Sessions -> Int]
    /\ todo \in [Sessions -> SUBSET Users]
    /\ ops \in Nat
    /\ \A s \in Sessions : pc[s] \notin {"idle", "next"} => user[s] \in Users

(* The stored balance is what the account began with, plus every row of    *)
(* the ledger, plus what administrators typed in: no credit or debit is    *)
(* lost to a concurrent one (_create_transaction: "concurrent transactions *)
(* cannot both read the same balance and double-spend / double-grant").    *)
BalanceIsLedger ==
    \A u \in Users : balance[u] = InitialBalance + ledger[u] + adjusted[u]

Atomic == INSTANCE AtomicLedger
              WITH balance <- balance, ledger <- ledger, adjusted <- adjusted,
                   Users <- Users, InitialBalance <- InitialBalance

(* The sessions together behave like the atomic ledger: every commit is    *)
(* one entry that moves the balance by its own amount.                     *)
ImplementsAtomicLedger == Atomic!Spec

(* A session computes with the balance the row has while it holds the lock *)
(* (_create_transaction: "the balance is re-read from the locked row       *)
(* (authoritative)").                                                      *)
AuthoritativeRead ==
    \A s \in Sessions :
        pc[s] \in {"locked", "ready"} => seen[s] = balance[user[s]]

(* No user receives the daily allowance twice in one UTC day, however the  *)
(* batches overlap and wherever midnight falls.                            *)
DailyOnce == \A u \in Users, d \in Days : dailyRows[u][d] <= 1

(* A balance never exceeds the highest cap (or hand-set value) there has   *)
(* been, even for a grant that was under way when the cap was lowered.     *)
CapRespected == ceiling = 0 \/ \A u \in Users : balance[u] <= ceiling

(* A debit never takes more than the row holds when it commits, also when  *)
(* two sessions found the same credits available ("double-spend").         *)
NoDoubleSpend ==
    [][\A u \in Users :
         ledger'[u] < ledger[u] => ledger[u] - ledger'[u] <= balance[u]]_vars

(* A deactivated user gets no allowance: the check of is_active and the    *)
(* insert sit under one row lock, so a deactivation cannot fall between.   *)
NoAllowanceForInactive ==
    [][\A u \in Users : dailyRows'[u] # dailyRows[u] => u \in active]_vars

(* Every unit of work comes to an end and gives its row locks back, also   *)
(* when two daily batches that skip users wait for each other's rows.      *)
SessionsEnd == \A s \in Sessions : pc[s] # "idle" ~> pc[s] = "idle"
=============================================================================

--------------------------- MODULE CreditRequests ---------------------------
(***************************************************************************)
(* Credit requests (CreditRequestService): users ask for credits,          *)
(* reviewers approve or reject, the requester may cancel, and messages     *)
(* move the request between pending and needs_info.                        *)
(*                                                                         *)
(* Every decision starts by locking the request row and requiring an open  *)
(* status.  Rejecting, cancelling and posting then change the status in    *)
(* that same transaction.  Approving does not: the grant goes through      *)
(* CreditService (or UserService.update_user), whose commit ends the       *)
(* transaction and with it the row lock, and the status follows in a       *)
(* second transaction.  Auto-approval never locks the row at all.          *)
(*                                                                         *)
(* bulk_review decides a list of requests in one database session.  It     *)
(* catches the refusal of a row that is closed and goes on, and the row    *)
(* stays locked until it commits a decision or ends; two batches may so    *)
(* wait for each other until the database aborts one.  A list is taken to  *)
(* name each request once, in any order.                                   *)
(***************************************************************************)
EXTENDS Integers, FiniteSets

CONSTANTS Requests,   \* rows that may come to exist
          Users,
          Owner,      \* who asks: [Requests -> Users]
          AutoSized,  \* top-ups at or below credits_auto_approve_max
          Allowances, \* requests of type allowance (no ledger transaction)
          Sessions,   \* concurrent HTTP requests
          None,
          Cooldown,   \* credits_request_cooldown_hours
          Modes       \* the deployments to check: records, see RequestsAssumption

ASSUME RequestsAssumption ==
    /\ Owner \in [Requests -> Users]
    /\ AutoSized \subseteq Requests /\ Allowances \subseteq Requests
    /\ AutoSized \cap Allowances = {}
    /\ None \notin Sessions /\ None \notin Requests
    /\ Cooldown \in Nat
    /\ Modes \subseteq [alone : BOOLEAN,    \* HTTP requests do not overlap
                        crashes : BOOLEAN,  \* processes may die
                        blocks : BOOLEAN,   \* bound: users are blocked and unblocked
                        time : Nat,         \* bound: hours that pass
                        list : Nat,         \* bound: requests of one review
                        ops : Nat]          \* bound: HTTP requests served

Open == {"pending", "needs_info"}
Terminal == {"approved", "rejected", "cancelled"}

(* What a reviewer or the requester can do to an open request.  "ask" is a *)
(* reviewer's message, "answer" the requester's, "note" an internal one.   *)
Decisions == {"reject", "cancel", "ask", "answer", "note"}

VARIABLES
    mode,       \* which deployment this is; never changes
    status,     \* credit_requests.status; "none" before the row exists
    reviewedAt, \* credit_requests.reviewed_at, -1 for NULL
    linked,     \* transaction_id / granted_amount are set
    grants,     \* how often the request was paid out, by its own meta request_id
    blocked,    \* users with an active credit-request block
    now,
    rowLock,    \* who holds the request row FOR UPDATE
    pc, act, req,
    rest,       \* requests a bulk review has still to decide
    ops

rows == <<status, reviewedAt, linked, grants, blocked>>
vars == <<mode, rows, now, rowLock, pc, act, req, rest, ops>>

Init ==
    /\ mode \in Modes
    /\ status = [r \in Requests |-> "none"]
    /\ reviewedAt = [r \in Requests |-> -1]
    /\ linked = [r \in Requests |-> FALSE]
    /\ grants = [r \in Requests |-> 0]
    /\ blocked = {}
    /\ now = 0
    /\ rowLock = [r \in Requests |-> None]
    /\ pc = [s \in Sessions |-> "idle"]
    /\ act = [s \in Sessions |-> None]
    /\ req = [s \in Sessions |-> None]
    /\ rest = [s \in Sessions |-> {}]
    /\ ops = 0

-----------------------------------------------------------------------------
(* Mutant of Unlock: a decided row stays locked.                           *)
UnlockUndecided(s) ==
    rowLock' = [r \in Requests |-> IF rowLock[r] = s /\ pc[s] # "deciding" THEN None ELSE rowLock[r]]

(* Commit or rollback: the session's row locks go.                         *)
Unlock(s) == rowLock' = [r \in Requests |-> IF rowLock[r] = s THEN None ELSE rowLock[r]]

Finish(s) ==
    /\ Unlock(s)
    /\ pc' = [pc EXCEPT ![s] = "idle"]
    /\ act' = [act EXCEPT ![s] = None]
    /\ req' = [req EXCEPT ![s] = None]
    /\ rest' = [rest EXCEPT ![s] = {}]

(* bulk_review turns to another request of its list.                       *)
Proceed(s) ==
    \E r \in rest[s] :
        /\ pc' = [pc EXCEPT ![s] = "locking"]
        /\ req' = [req EXCEPT ![s] = r]
        /\ rest' = [rest EXCEPT ![s] = @ \ {r}]
        /\ UNCHANGED act

(* A decision has been committed.                                          *)
Done(s) == IF rest[s] = {} THEN Finish(s) ELSE Unlock(s) /\ Proceed(s)

Free(s) ==
    /\ pc[s] = "idle" /\ ops < mode.ops
    /\ mode.alone => \A t \in Sessions : pc[t] = "idle"

Start(s, a, r, more, l) ==
    /\ Free(s)
    /\ ops' = ops + 1
    /\ pc' = [pc EXCEPT ![s] = l]
    /\ act' = [act EXCEPT ![s] = a]
    /\ req' = [req EXCEPT ![s] = r]
    /\ rest' = [rest EXCEPT ![s] = more]

Goto(s, l) == pc' = [pc EXCEPT ![s] = l] /\ UNCHANGED <<act, req, rest>>

(* _check_cooldown: the latest rejection must be a full window ago.        *)
InCooldown(u) ==
    /\ Cooldown > 0
    /\ \E r \in Requests : /\ Owner[r] = u /\ status[r] = "rejected"
                           /\ reviewedAt[r] + Cooldown > now

(* create_request: block and cooldown are read first, with no lock.        *)
BeginCreate(s, r) ==
    /\ status[r] = "none" /\ \A t \in Sessions : req[t] # r
    /\ Owner[r] \notin blocked
    /\ ~ InCooldown(Owner[r])
    /\ Start(s, "create", r, {}, "inserting")
    /\ UNCHANGED <<mode, rows, now, rowLock>>

(* Mutant of HasOpen: a request that waits for an answer does not count.   *)
HasOpenPending(u) == \E r \in Requests : Owner[r] = u /\ status[r] = "pending"

HasOpen(u) == \E r \in Requests : Owner[r] = u /\ status[r] \in Open

(* The insert.  The pre-check and the partial unique index                 *)
(* uq_credit_requests_pending_per_user ask the same question; the index    *)
(* answers it at the instant of the insert.                                *)
Insert(s) ==
    LET r == req[s]
    IN  /\ pc[s] = "inserting" /\ ~ HasOpen(Owner[r])
        /\ status' = [status EXCEPT ![r] = "pending"]
        /\ \/ r \in AutoSized /\ Goto(s, "granting") /\ UNCHANGED rowLock
           \/ r \notin AutoSized /\ Finish(s)
        /\ UNCHANGED <<mode, reviewedAt, linked, grants, blocked, now, ops>>

Duplicate(s) ==
    /\ pc[s] = "inserting" /\ HasOpen(Owner[req[s]])
    /\ Finish(s)
    /\ UNCHANGED <<mode, rows, now, ops>>

Existing == {r \in Requests : status[r] # "none"}

(* A decision about one request, or bulk_review about more.                *)
BeginReview(s, a, r) ==
    /\ Free(s) /\ r \in Existing
    /\ \E more \in SUBSET (Existing \ {r}) :
          /\ more # {} => a \in {"approve", "reject"}
          /\ Cardinality(more) < mode.list
          /\ Start(s, a, r, more, "locking")
    /\ UNCHANGED <<mode, rows, now, rowLock>>

(* Mutants of LockOpen: no row lock; no check of the status.               *)
LockOpenUnlocked(s) ==
    /\ pc[s] = "locking" /\ status[req[s]] \in Open
    /\ Goto(s, IF act[s] = "approve" THEN "granting" ELSE "deciding")
    /\ UNCHANGED <<mode, rows, now, rowLock, ops>>

LockOpenAny(s) ==
    /\ pc[s] = "locking" /\ rowLock[req[s]] = None
    /\ rowLock' = [rowLock EXCEPT ![req[s]] = s]
    /\ Goto(s, IF act[s] = "approve" THEN "granting" ELSE "deciding")
    /\ UNCHANGED <<mode, rows, now, ops>>

(* _get_open_for_update.                                                   *)
LockOpen(s) ==
    /\ pc[s] = "locking" /\ rowLock[req[s]] = None
    /\ status[req[s]] \in Open
    /\ rowLock' = [rowLock EXCEPT ![req[s]] = s]
    /\ Goto(s, IF act[s] = "approve" THEN "granting" ELSE "deciding")
    /\ UNCHANGED <<mode, rows, now, ops>>

(* The refusal ends the transaction of a single decision; bulk_review      *)
(* catches it and keeps the lock.                                          *)
AlreadyClosed(s) ==
    /\ pc[s] = "locking" /\ rowLock[req[s]] = None
    /\ status[req[s]] \notin Open
    /\ IF rest[s] = {} THEN Finish(s)
       ELSE rowLock' = [rowLock EXCEPT ![req[s]] = s] /\ Proceed(s)
    /\ UNCHANGED <<mode, rows, now, ops>>

(* Sessions that wait for a row of the next one, all the way round: the    *)
(* database aborts one of them, and the error is none that bulk_review     *)
(* catches.                                                                *)
Deadlock(s) ==
    /\ \E ring \in SUBSET Sessions :
          /\ s \in ring /\ \A t \in ring : pc[t] = "locking"
          /\ ring = {rowLock[req[t]] : t \in ring}
    /\ Finish(s)
    /\ UNCHANGED <<mode, rows, now, ops>>

(* reject, cancel and add_message: one transaction from lock to commit.    *)
Verdict(a, old) == CASE a = "reject" -> "rejected"
                     [] a = "cancel" -> "cancelled"
                     [] a = "ask"    -> "needs_info"
                     [] a = "answer" -> "pending"
                     [] OTHER        -> old

Decide(s) ==
    LET r == req[s]
    IN  /\ pc[s] = "deciding"
        /\ status' = [status EXCEPT ![r] = Verdict(act[s], @)]
        /\ reviewedAt' = [reviewedAt EXCEPT
                            ![r] = IF act[s] \in {"reject", "cancel"} THEN now ELSE @]
        /\ Done(s)
        /\ UNCHANGED <<mode, linked, grants, blocked, now, ops>>

(* Mutant of Grant: a failed grant is taken for a success.                 *)
GrantSwallowed(s) ==
    /\ pc[s] = "granting"
    /\ Unlock(s)
    /\ Goto(s, "marking")
    /\ UNCHANGED <<mode, rows, now, ops>>

(* The first half of an approval: grant_credits (top_up) or update_user    *)
(* (allowance) commits, and the row lock is gone.                          *)
Grant(s) ==
    LET r == req[s]
    IN  /\ pc[s] = "granting"
        /\ grants' = [grants EXCEPT ![r] = IF r \in Allowances THEN @ ELSE @ + 1]
        /\ Unlock(s)
        /\ Goto(s, "marking")
        /\ UNCHANGED <<mode, status, reviewedAt, linked, blocked, now, ops>>

(* The second half: the loaded request object is stamped and flushed, over *)
(* whatever the row says by now.  The UPDATE waits for a foreign row lock. *)
Mark(s) ==
    LET r == req[s]
    IN  /\ pc[s] = "marking" /\ rowLock[r] = None
        /\ status' = [status EXCEPT ![r] = "approved"]
        /\ reviewedAt' = [reviewedAt EXCEPT ![r] = now]
        /\ linked' = [linked EXCEPT ![r] = TRUE]
        /\ Done(s)
        /\ UNCHANGED <<mode, grants, blocked, now, ops>>

Crash(s) ==
    /\ mode.crashes /\ pc[s] # "idle"
    /\ Finish(s)
    /\ UNCHANGED <<mode, rows, now, ops>>

(* set_request_block, or the end of a time-boxed block.                    *)
SetBlock(u) ==
    /\ mode.blocks
    /\ blocked' = IF u \in blocked THEN blocked \ {u} ELSE blocked \cup {u}
    /\ UNCHANGED <<mode, status, reviewedAt, linked, grants, now, rowLock, pc, act, req, rest, ops>>

Tick ==
    /\ now < mode.time
    /\ now' = now + 1
    /\ UNCHANGED <<mode, rows, rowLock, pc, act, req, rest, ops>>

Step(s) == \/ Insert(s) \/ Duplicate(s) \/ LockOpen(s) \/ AlreadyClosed(s)
           \/ Decide(s) \/ Grant(s) \/ Mark(s) \/ Deadlock(s)

Next ==
    \/ \E s \in Sessions, r \in Requests : BeginCreate(s, r)
    \/ \E s \in Sessions, a \in Decisions \cup {"approve"}, r \in Requests : BeginReview(s, a, r)
    \/ \E s \in Sessions : Step(s)
    \/ \E s \in Sessions : Crash(s)
    \/ \E u \in Users : SetBlock(u)
    \/ Tick

Spec == Init /\ [][Next]_vars

(* A request that is being served is served to its end: the event loop     *)
(* keeps running it and the row locks are held for bounded transactions.   *)
(* (SF for the steps that wait for a lock: the lock queue is fair; of      *)
(* those that wait for each other one is aborted.)                         *)
FairSpec ==
    /\ Spec
    /\ \A s \in Sessions : WF_vars(Step(s)) /\ SF_vars(LockOpen(s) \/ AlreadyClosed(s) \/ Mark(s))

-----------------------------------------------------------------------------
PCs == {"idle", "inserting", "locking", "deciding", "granting", "marking"}

(* Types, and: a working session works on a real row.                      *)
TypeOK ==
    /\ mode \in Modes
    /\ status \in [Requests -> {"none"} \cup Open \cup Terminal]
    /\ reviewedAt \in [Requests -> Int]
    /\ linked \in [Requests -> BOOLEAN]
    /\ grants \in [Requests -> Nat]
    /\ blocked \in SUBSET Users
    /\ now \in Nat /\ ops \in Nat
    /\ rowLock \in [Requests -> Sessions \cup {None}]
    /\ pc \in [Sessions -> PCs]
    /\ act \in [Sessions -> Decisions \cup {"approve", "create", None}]
    /\ req \in [Sessions -> Requests \cup {None}]
    /\ rest \in [Sessions -> SUBSET Requests]
    /\ \A s \in Sessions : pc[s] # "idle" => req[s] \in Requests

(* At most one open request per user, under any interleaving of creating,  *)
(* answering and deciding (model comment: "At most one open ... request    *)
(* per user").                                                             *)
OneOpenPerUser ==
    \A q, r \in Requests :
        status[q] \in Open /\ status[r] \in Open /\ Owner[q] = Owner[r] => q = r

(* A closed request is never open again, although a message posted while   *)
(* the request is being decided writes an open status.                     *)
NeverReopened ==
    [][\A r \in Requests : status[r] \in Terminal => status'[r] \in Terminal]_vars

(* A top-up that reads approved has been paid out, also after crashes and  *)
(* lost races, and is linked to its transaction.                           *)
ApprovedWasPaid ==
    \A r \in Requests :
        status[r] = "approved" => linked[r] /\ (r \in Allowances \/ grants[r] >= 1)

(* No two HTTP requests overlap and none is cut off.                       *)
Calm == mode.alone /\ ~ mode.crashes

(* When all is calm, a request is paid out at most once                    *)
(* (_get_open_for_update: "Lock a request row and require it to be in an   *)
(* open state"), however often it is asked about, answered and reviewed.   *)
PaidOnce == Calm => \A r \in Requests : grants[r] <= 1

(* When all is calm, a rejected or cancelled request has paid              *)
(* nothing (reject: "no credits granted").                                 *)
RejectedPaysNothing ==
    Calm => \A r \in Requests : status[r] \in {"rejected", "cancelled"} => grants[r] = 0

(* Every review and every request comes to an end, whoever else holds the  *)
(* row: no row lock outlives the transaction that took it, also when a     *)
(* decision is refused or its process dies (_get_open_for_update), and     *)
(* batches that keep the rows refused to them do not wait for each other   *)
(* for ever (bulk_review).                                                 *)
ReviewsEnd == \A s \in Sessions : pc[s] # "idle" ~> pc[s] = "idle"
=============================================================================

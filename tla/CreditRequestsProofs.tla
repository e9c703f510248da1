------------------------ MODULE CreditRequestsProofs ------------------------
(***************************************************************************)
(* Machine-checked proofs about CreditRequests, for any number of users,   *)
(* requests and sessions, with crashes.                                    *)
(***************************************************************************)
EXTENDS CreditRequests, TLAPS

(* A session that decides holds the row and the row is open; a session     *)
(* that inserts is alone with a row that does not exist yet; a session     *)
(* about to stamp "approved" has paid; what a bulk review has still to     *)
(* decide exists.                                                          *)
SessionInv ==
    \A s \in Sessions :
        /\ pc[s] = "deciding" => /\ rowLock[req[s]] = s /\ status[req[s]] \in Open
                                 /\ act[s] \in Decisions
        /\ pc[s] = "inserting" => /\ status[req[s]] = "none"
                                  /\ \A t \in Sessions : req[t] = req[s] => t = s
        /\ pc[s] = "locking" => act[s] \in Decisions \cup {"approve"}
        /\ pc[s] = "marking" => req[s] \in Allowances \/ grants[req[s]] >= 1
        /\ rest[s] # {} => act[s] \in {"approve", "reject"}
        /\ \A r \in rest[s] : status[r] # "none"

Inv == TypeOK /\ SessionInv /\ OneOpenPerUser /\ ApprovedWasPaid

(* The invariant holds initially.                                          *)
LEMMA InvInit == Init => Inv
  BY RequestsAssumption
     DEF Init, Inv, TypeOK, SessionInv, OneOpenPerUser, ApprovedWasPaid, Open, Terminal, PCs

(* Ending one session's transaction keeps everybody else's lock.           *)
LEMMA UnlockOthers ==
  ASSUME TypeOK, NEW s \in Sessions, Unlock(s)
  PROVE  /\ rowLock' \in [Requests -> Sessions \cup {None}]
         /\ \A t \in Sessions, r \in Requests :
               t # s /\ rowLock[r] = t => rowLock'[r] = t
  BY RequestsAssumption DEF TypeOK, Unlock

(* What a session does to the control state when it is done with a row,    *)
(* whatever it did to the rows: it ends, or turns to another of its list.  *)
Leaves(s) ==
    /\ rowLock' \in [Requests -> Sessions \cup {None}]
    /\ \A t \in Sessions, r \in Requests : t # s /\ rowLock[r] = t => rowLock'[r] = t
    /\ pc' \in [Sessions -> PCs]
    /\ act' \in [Sessions -> Decisions \cup {"approve", "create", None}]
    /\ req' \in [Sessions -> Requests \cup {None}]
    /\ rest' \in [Sessions -> SUBSET Requests] /\ rest'[s] \subseteq rest[s]
    /\ \/ pc'[s] = "idle" /\ req'[s] = None /\ rest'[s] = {}
       \/ pc'[s] = "locking" /\ req'[s] \in rest[s] /\ act'[s] = act[s]
    /\ \A t \in Sessions : t # s => /\ pc'[t] = pc[t] /\ act'[t] = act[t]
                                   /\ req'[t] = req[t] /\ rest'[t] = rest[t]

LEMMA FinishFrame ==
  ASSUME TypeOK, NEW s \in Sessions, Finish(s)
  PROVE  Leaves(s)
<1>1. Unlock(s)
  BY DEF Finish
<1> QED BY <1>1, UnlockOthers DEF Finish, TypeOK, PCs, Leaves

LEMMA ProceedFrame ==
  ASSUME TypeOK, NEW s \in Sessions, Proceed(s),
         rowLock' \in [Requests -> Sessions \cup {None}],
         \A t \in Sessions, r \in Requests : t # s /\ rowLock[r] = t => rowLock'[r] = t
  PROVE  Leaves(s)
<1>1. PICK r \in rest[s] : /\ pc' = [pc EXCEPT ![s] = "locking"]
                           /\ req' = [req EXCEPT ![s] = r]
                           /\ rest' = [rest EXCEPT ![s] = @ \ {r}]
                           /\ act' = act
  BY DEF Proceed
<1> QED BY <1>1 DEF TypeOK, PCs, Leaves

LEMMA DoneFrame ==
  ASSUME TypeOK, NEW s \in Sessions, Done(s)
  PROVE  Leaves(s)
<1>1. CASE rest[s] = {}
  BY <1>1, FinishFrame DEF Done
<1>2. CASE rest[s] # {}
  BY <1>2, UnlockOthers, ProceedFrame DEF Done
<1> QED BY <1>1, <1>2

(* The refusal of a closed row; the row was free.                          *)
LEMMA ClosedFrame ==
  ASSUME TypeOK, NEW s \in Sessions, AlreadyClosed(s)
  PROVE  Leaves(s)
<1>1. CASE rest[s] = {}
  BY <1>1, FinishFrame DEF AlreadyClosed
<1>2. CASE rest[s] # {}
  <2>1. /\ rowLock' = [rowLock EXCEPT ![req[s]] = s] /\ rowLock[req[s]] = None
        /\ Proceed(s)
    BY <1>2 DEF AlreadyClosed
  <2>2. /\ rowLock' \in [Requests -> Sessions \cup {None}]
        /\ \A t \in Sessions, r \in Requests : t # s /\ rowLock[r] = t => rowLock'[r] = t
    BY <2>1, RequestsAssumption DEF TypeOK
  <2> QED BY <2>1, <2>2, ProceedFrame
<1> QED BY <1>1, <1>2

(* Then the sessions still fit the rows, if rows stay in existence and     *)
(* those the others decide or insert are left alone.                       *)
LEMMA SessionsFit ==
  ASSUME Inv, NEW s \in Sessions, Leaves(s), grants' = grants,
         \A r \in Requests : status[r] # "none" => status'[r] # "none",
         \A t \in Sessions : t # s /\ pc[t] \in {"deciding", "inserting"}
                               => status'[req[t]] = status[req[t]]
  PROVE  SessionInv'
<1>1. TypeOK /\ SessionInv
  BY DEF Inv
<1>2. \A r \in rest[s] : r \in Requests /\ status[r] # "none"
  BY <1>1 DEF TypeOK, SessionInv
<1>3. rest'[s] # {} => act'[s] \in {"approve", "reject"}
  BY <1>1 DEF Leaves, SessionInv
<1>4. pc'[s] = "locking" => act'[s] \in Decisions \cup {"approve"}
  <2>1. CASE pc'[s] = "idle"
    BY <2>1
  <2>2. CASE pc'[s] = "locking" /\ req'[s] \in rest[s] /\ act'[s] = act[s]
    <3>1. act[s] \in {"approve", "reject"}
      BY <1>1, <2>2 DEF SessionInv
    <3> QED BY <2>2, <3>1 DEF Decisions
  <2> QED BY <2>1, <2>2 DEF Leaves
<1>5. \A r \in rest'[s] : status'[r] # "none"
  BY <1>2 DEF Leaves
<1>6. pc'[s] \in {"idle", "locking"}
  BY DEF Leaves
<1>7. ASSUME NEW t \in Sessions, t # s
      PROVE  /\ pc'[t] = pc[t] /\ act'[t] = act[t] /\ req'[t] = req[t] /\ rest'[t] = rest[t]
             /\ pc[t] = "deciding" => rowLock'[req[t]] = t /\ status'[req[t]] \in Open
                                      /\ act[t] \in Decisions
             /\ pc[t] = "inserting" => status'[req[t]] = "none"
             /\ \A r \in rest[t] : status'[r] # "none"
  BY <1>1, <1>7 DEF Leaves, TypeOK, SessionInv
<1>8. ASSUME NEW t \in Sessions, t # s, pc[t] = "inserting"
      PROVE  \A u \in Sessions : req'[u] = req'[t] => u = t
  <2>1. /\ req'[t] = req[t] /\ req[t] \in Requests /\ status[req[t]] = "none"
        /\ \A u \in Sessions : req[u] = req[t] => u = t
    BY <1>1, <1>7, <1>8 DEF TypeOK, SessionInv
  <2>2. req'[s] = None \/ req'[s] \in rest[s]
    BY DEF Leaves
  <2>3. req'[s] # req[t]
    BY <1>2, <2>1, <2>2, RequestsAssumption
  <2> QED BY <1>7, <2>1, <2>3
<1>9. ASSUME NEW t \in Sessions, t # s
      PROVE  /\ pc[t] = "locking" => act[t] \in Decisions \cup {"approve"}
             /\ pc[t] = "marking" => req[t] \in Allowances \/ grants[req[t]] >= 1
             /\ rest[t] # {} => act[t] \in {"approve", "reject"}
  BY <1>1 DEF SessionInv
<1>10. ASSUME NEW t \in Sessions
       PROVE  /\ pc'[t] = "deciding" => /\ rowLock'[req'[t]] = t /\ status'[req'[t]] \in Open
                                         /\ act'[t] \in Decisions
              /\ pc'[t] = "inserting" => /\ status'[req'[t]] = "none"
                                          /\ \A u \in Sessions : req'[u] = req'[t] => u = t
              /\ pc'[t] = "locking" => act'[t] \in Decisions \cup {"approve"}
              /\ pc'[t] = "marking" => req'[t] \in Allowances \/ grants'[req'[t]] >= 1
              /\ rest'[t] # {} => act'[t] \in {"approve", "reject"}
              /\ \A r \in rest'[t] : status'[r] # "none"
  <2>1. CASE t = s
    BY <2>1, <1>3, <1>4, <1>5, <1>6
  <2>2. CASE t # s
    BY <2>2, <1>7, <1>8, <1>9
  <2> QED BY <2>1, <2>2
<1> QED BY <1>10 DEF SessionInv

(* Leaving a row without touching the rows keeps the invariant.            *)
LEMMA LeaveKeeps ==
  ASSUME Inv, NEW s \in Sessions, Leaves(s), UNCHANGED <<mode, rows, now, ops>>
  PROVE  Inv'
<1>1. TypeOK'
  BY DEF Leaves, Inv, TypeOK, rows
<1>2. SessionInv'
  BY SessionsFit DEF rows
<1>3. OneOpenPerUser' /\ ApprovedWasPaid'
  BY DEF Inv, OneOpenPerUser, ApprovedWasPaid, rows
<1> QED BY <1>1, <1>2, <1>3 DEF Inv

(* Every step keeps the invariant.                                         *)
LEMMA InvNext == Inv /\ [Next]_vars => Inv'
<1> SUFFICES ASSUME Inv, [Next]_vars PROVE Inv'
  OBVIOUS
<1> USE RequestsAssumption
<1>1. ASSUME NEW s \in Sessions, NEW r \in Requests, BeginCreate(s, r) PROVE Inv'
  <2>1. TypeOK'
    BY <1>1 DEF BeginCreate, Start, Inv, TypeOK, PCs, rows
  <2>2. SessionInv'
    BY <1>1 DEF BeginCreate, Start, Inv, TypeOK, SessionInv, rows
  <2>3. OneOpenPerUser' /\ ApprovedWasPaid'
    BY <1>1 DEF BeginCreate, Inv, OneOpenPerUser, ApprovedWasPaid, rows
  <2> QED BY <2>1, <2>2, <2>3 DEF Inv
<1>2. ASSUME NEW s \in Sessions, NEW a \in Decisions \cup {"approve"}, NEW r \in Requests,
             BeginReview(s, a, r)
      PROVE  Inv'
  <2>0. PICK more \in SUBSET (Existing \ {r}) :
            /\ more # {} => a \in {"approve", "reject"}
            /\ Start(s, a, r, more, "locking")
    BY <1>2 DEF BeginReview
  <2>1. TypeOK'
    BY <1>2, <2>0 DEF BeginReview, Existing, Start, Inv, TypeOK, PCs, rows
  <2>2. SessionInv'
    BY <1>2, <2>0 DEF BeginReview, Existing, Start, Inv, TypeOK, SessionInv, rows
  <2>3. OneOpenPerUser' /\ ApprovedWasPaid'
    BY <1>2 DEF BeginReview, Inv, OneOpenPerUser, ApprovedWasPaid, rows
  <2> QED BY <2>1, <2>2, <2>3 DEF Inv
<1>3. ASSUME NEW s \in Sessions, Insert(s) PROVE Inv'
  <2>0. /\ pc[s] = "inserting" /\ req[s] \in Requests /\ status[req[s]] = "none"
        /\ \A t \in Sessions : req[t] = req[s] => t = s
        /\ ~ HasOpen(Owner[req[s]])
        /\ status' = [status EXCEPT ![req[s]] = "pending"]
        /\ UNCHANGED <<mode, reviewedAt, linked, grants, blocked, now, ops>>
    BY <1>3 DEF Insert, Inv, TypeOK, SessionInv
  <2>1. CASE req[s] \in AutoSized
    <3>0. pc' = [pc EXCEPT ![s] = "granting"] /\ UNCHANGED <<act, req, rest, rowLock>>
      BY <1>3, <2>1 DEF Insert, Goto
    <3>1. TypeOK'
      BY <2>0, <3>0 DEF Inv, TypeOK, PCs, Open
    <3>2. SessionInv'
      BY <2>0, <3>0 DEF Inv, TypeOK, SessionInv, Open
    <3>3. OneOpenPerUser'
      BY <2>0 DEF Inv, TypeOK, OneOpenPerUser, HasOpen
    <3>4. ApprovedWasPaid'
      BY <2>0 DEF Inv, TypeOK, ApprovedWasPaid
    <3> QED BY <3>1, <3>2, <3>3, <3>4 DEF Inv
  <2>2. CASE req[s] \notin AutoSized
    <3>0. Finish(s)
      BY <1>3, <2>2 DEF Insert
    <3>1. TypeOK'
      BY <2>0, <3>0, FinishFrame DEF Leaves, Inv, TypeOK, Open
    <3>2. SessionInv'
      BY <2>0, <3>0, FinishFrame, SessionsFit DEF Inv, TypeOK
    <3>3. OneOpenPerUser'
      BY <2>0 DEF Inv, TypeOK, OneOpenPerUser, HasOpen
    <3>4. ApprovedWasPaid'
      BY <2>0 DEF Inv, TypeOK, ApprovedWasPaid
    <3> QED BY <3>1, <3>2, <3>3, <3>4 DEF Inv
  <2> QED BY <2>1, <2>2
<1>4. ASSUME NEW s \in Sessions, Duplicate(s) PROVE Inv'
  BY <1>4, FinishFrame, LeaveKeeps DEF Duplicate, Inv
<1>5. ASSUME NEW s \in Sessions, LockOpen(s) PROVE Inv'
  <2>0. /\ pc[s] = "locking" /\ req[s] \in Requests /\ rowLock[req[s]] = None
        /\ status[req[s]] \in Open
        /\ rowLock' = [rowLock EXCEPT ![req[s]] = s]
        /\ pc' = [pc EXCEPT ![s] = IF act[s] = "approve" THEN "granting" ELSE "deciding"]
        /\ act[s] \in Decisions \cup {"approve"}
        /\ UNCHANGED <<mode, act, req, rest, rows, now, ops>>
    BY <1>5 DEF LockOpen, Goto, Inv, TypeOK, SessionInv
  <2>1. TypeOK'
    BY <2>0 DEF Inv, TypeOK, PCs, rows
  <2>2. SessionInv'
    BY <2>0 DEF Inv, TypeOK, SessionInv, rows
  <2>3. OneOpenPerUser' /\ ApprovedWasPaid'
    BY <2>0 DEF Inv, OneOpenPerUser, ApprovedWasPaid, rows
  <2> QED BY <2>1, <2>2, <2>3 DEF Inv
<1>6. ASSUME NEW s \in Sessions, AlreadyClosed(s) PROVE Inv'
  BY <1>6, ClosedFrame, LeaveKeeps DEF AlreadyClosed, Inv
<1>7. ASSUME NEW s \in Sessions, Decide(s) PROVE Inv'
  <2>0. /\ pc[s] = "deciding" /\ req[s] \in Requests /\ rowLock[req[s]] = s
        /\ status[req[s]] \in Open /\ act[s] \in Decisions
        /\ Leaves(s)
        /\ status' = [status EXCEPT ![req[s]] = Verdict(act[s], status[req[s]])]
        /\ UNCHANGED <<mode, linked, grants, blocked, now, ops>>
    BY <1>7, DoneFrame DEF Decide, Inv, TypeOK, SessionInv
  <2>1. Verdict(act[s], status[req[s]]) \in Open \cup {"rejected", "cancelled"}
    BY <2>0 DEF Verdict, Open, Decisions
  <2>2. reviewedAt' \in [Requests -> Int]
    BY <1>7, <2>0 DEF Decide, Inv, TypeOK
  <2>3. TypeOK'
    BY <2>0, <2>1, <2>2 DEF Leaves, Inv, TypeOK, Open, Terminal
  <2>4. \A t \in Sessions : t # s /\ pc[t] = "deciding" => req[t] # req[s]
    BY <2>0 DEF Inv, SessionInv
  <2>5. \A t \in Sessions : t # s /\ pc[t] = "inserting" => req[t] # req[s]
    BY <2>0 DEF Inv, SessionInv
  <2>6. SessionInv'
    BY <2>0, <2>1, <2>4, <2>5, SessionsFit DEF Inv, TypeOK, Open
  <2>7. OneOpenPerUser'
    BY <2>0 DEF Inv, TypeOK, OneOpenPerUser
  <2>8. ApprovedWasPaid'
    BY <2>0, <2>1 DEF Inv, TypeOK, ApprovedWasPaid, Open
  <2> QED BY <2>3, <2>6, <2>7, <2>8 DEF Inv
<1>8. ASSUME NEW s \in Sessions, Grant(s) PROVE Inv'
  <2>0. /\ pc[s] = "granting" /\ req[s] \in Requests
        /\ Unlock(s) /\ grants' = [grants EXCEPT ![req[s]] = IF req[s] \in Allowances THEN @ ELSE @ + 1]
        /\ pc' = [pc EXCEPT ![s] = "marking"]
        /\ UNCHANGED <<mode, act, req, rest, status, reviewedAt, linked, blocked, now, ops>>
    BY <1>8 DEF Grant, Goto, Inv, TypeOK
  <2>1. /\ grants' \in [Requests -> Nat]
        /\ req[s] \in Allowances \/ grants'[req[s]] >= 1
        /\ \A r \in Requests : grants'[r] >= grants[r]
    BY <2>0 DEF Inv, TypeOK
  <2>2. TypeOK'
    BY <2>0, <2>1, UnlockOthers DEF Inv, TypeOK, PCs
  <2>3. SessionInv'
    BY <2>0, <2>1, <2>2, UnlockOthers DEF Inv, TypeOK, SessionInv
  <2>4. OneOpenPerUser' /\ ApprovedWasPaid'
    BY <2>0, <2>1 DEF Inv, TypeOK, OneOpenPerUser, ApprovedWasPaid
  <2> QED BY <2>2, <2>3, <2>4 DEF Inv
<1>9. ASSUME NEW s \in Sessions, Mark(s) PROVE Inv'
  <2>0. /\ pc[s] = "marking" /\ req[s] \in Requests /\ rowLock[req[s]] = None
        /\ Leaves(s)
        /\ req[s] \in Allowances \/ grants[req[s]] >= 1
        /\ status' = [status EXCEPT ![req[s]] = "approved"]
        /\ linked' = [linked EXCEPT ![req[s]] = TRUE]
        /\ reviewedAt' \in [Requests -> Int]
        /\ UNCHANGED <<mode, grants, blocked, now, ops>>
    BY <1>9, DoneFrame DEF Mark, Inv, TypeOK, SessionInv
  <2>1. TypeOK'
    BY <2>0 DEF Leaves, Inv, TypeOK, Terminal
  <2>2. \A t \in Sessions : t # s /\ pc[t] \in {"deciding", "inserting"} => req[t] # req[s]
    BY <2>0 DEF Inv, SessionInv
  <2>3. SessionInv'
    BY <2>0, <2>2, SessionsFit DEF Inv, TypeOK
  <2>4. OneOpenPerUser' /\ ApprovedWasPaid'
    BY <2>0 DEF Inv, TypeOK, OneOpenPerUser, ApprovedWasPaid, Open
  <2> QED BY <2>1, <2>3, <2>4 DEF Inv
<1>10. ASSUME NEW s \in Sessions, Crash(s) \/ Deadlock(s) PROVE Inv'
  BY <1>10, FinishFrame, LeaveKeeps DEF Crash, Deadlock, Inv
<1>11. CASE (\E u \in Users : SetBlock(u)) \/ Tick \/ UNCHANGED vars
  BY <1>11 DEF SetBlock, Tick, vars, rows, Inv, TypeOK, SessionInv, OneOpenPerUser, ApprovedWasPaid
<1> QED
  BY <1>1, <1>2, <1>3, <1>4, <1>5, <1>6, <1>7, <1>8, <1>9, <1>10, <1>11 DEF Next, Step

(* The inductive invariant holds in every reachable state.                 *)
LEMMA Invariant == Spec => []Inv
  BY InvInit, InvNext, PTL DEF Spec

(* Every variable keeps its type.                                          *)
THEOREM RequestsTypeCorrect == Spec => []TypeOK
  BY Invariant, PTL DEF Inv

(* A user never has two open requests, whatever creates, answers, decides  *)
(* and crashes concurrently.                                               *)
THEOREM AtMostOneOpen == Spec => []OneOpenPerUser
  BY Invariant, PTL DEF Inv

(* A request that reads approved has been paid out and is linked to the    *)
(* transaction.                                                            *)
THEOREM ApprovedMeansPaid == Spec => []ApprovedWasPaid
  BY Invariant, PTL DEF Inv

(* A closed request is never open again.                                   *)
THEOREM ClosedStaysClosed == Spec => NeverReopened
<1>1. ASSUME Inv, [Next]_vars
      PROVE  [\A r \in Requests : status[r] \in Terminal => status'[r] \in Terminal]_vars
  <2>1. ASSUME NEW s \in Sessions, Insert(s)
        PROVE  \A r \in Requests : status[r] \in Terminal => status'[r] \in Terminal
    BY <1>1, <2>1 DEF Insert, Inv, TypeOK, SessionInv, Terminal
  <2>2. ASSUME NEW s \in Sessions, Decide(s)
        PROVE  \A r \in Requests : status[r] \in Terminal => status'[r] \in Terminal
    BY <1>1, <2>2 DEF Decide, Inv, TypeOK, SessionInv, Terminal, Open
  <2>3. ASSUME NEW s \in Sessions, Mark(s)
        PROVE  \A r \in Requests : status[r] \in Terminal => status'[r] \in Terminal
    BY <1>1, <2>3 DEF Mark, Inv, TypeOK, Terminal
  <2>4. \/ \E s \in Sessions : Insert(s) \/ Decide(s) \/ Mark(s)
        \/ status' = status
    BY <1>1 DEF Next, Step, BeginCreate, BeginReview, Duplicate, LockOpen, AlreadyClosed,
                Deadlock, Grant, Crash, SetBlock, Tick, vars, rows
  <2> QED BY <2>1, <2>2, <2>3, <2>4
<1> QED BY <1>1, Invariant, PTL DEF Spec, NeverReopened

-----------------------------------------------------------------------------
(* When all is calm there is one session at work, the row it grants or     *)
(* marks is still open, and what was paid is approved or about to be.      *)
OneAtWork == \A s, t \in Sessions : pc[s] # "idle" /\ pc[t] # "idle" => s = t

StillOpen == \A s \in Sessions : pc[s] \in {"granting", "marking"} => status[req[s]] \in Open

Marking(r) == \E s \in Sessions : pc[s] = "marking" /\ req[s] = r

PaidIsApproved ==
    \A r \in Requests : /\ grants[r] \in {0, 1}
                        /\ grants[r] = 1 => status[r] = "approved" \/ Marking(r)

CalmInv == Calm => OneAtWork /\ StillOpen /\ PaidIsApproved

LEMMA CalmInit == Init => CalmInv
  BY DEF Init, CalmInv, OneAtWork, StillOpen, PaidIsApproved

(* A session that was not at its mark leaves its row, and no row has       *)
(* changed.                                                                *)
LEMMA CalmLeave ==
  ASSUME Inv, CalmInv, NEW s \in Sessions, Leaves(s), pc[s] \notin {"idle", "marking"},
         UNCHANGED <<mode, status, grants>>
  PROVE  CalmInv'
<1> SUFFICES ASSUME Calm PROVE OneAtWork' /\ StillOpen' /\ PaidIsApproved'
  BY DEF CalmInv, Calm
<1>1. /\ pc'[s] \in {"idle", "locking"}
      /\ \A t \in Sessions : t # s => pc'[t] = pc[t] /\ req'[t] = req[t]
  BY DEF Leaves
<1>2. OneAtWork' /\ StillOpen'
  BY <1>1 DEF CalmInv, OneAtWork, StillOpen
<1>3. \A r \in Requests : Marking(r) => Marking(r)'
  BY <1>1 DEF Marking
<1> QED BY <1>2, <1>3 DEF CalmInv, PaidIsApproved

LEMMA CalmStart ==
  ASSUME Inv, CalmInv, NEW s \in Sessions, NEW a, NEW r \in Requests, NEW more,
         NEW l \in {"inserting", "locking"}, Start(s, a, r, more, l), UNCHANGED <<mode, rows>>
  PROVE  CalmInv'
<1> SUFFICES ASSUME Calm PROVE OneAtWork' /\ StillOpen' /\ PaidIsApproved'
  BY DEF CalmInv, Calm
<1>1. /\ \A t \in Sessions : pc[t] = "idle"
      /\ pc' = [pc EXCEPT ![s] = l] /\ status' = status /\ grants' = grants
  BY DEF Calm, Free, Start, rows
<1>2. OneAtWork' /\ StillOpen'
  BY <1>1 DEF OneAtWork, StillOpen, Inv, TypeOK
<1>3. \A q \in Requests : ~ Marking(q)
  BY <1>1 DEF Marking
<1> QED BY <1>1, <1>2, <1>3 DEF CalmInv, PaidIsApproved

LEMMA CalmNext == Inv /\ CalmInv /\ [Next]_vars => CalmInv'
<1> SUFFICES ASSUME Inv, CalmInv, [Next]_vars PROVE CalmInv'
  OBVIOUS
<1>1. ASSUME NEW s \in Sessions, NEW r \in Requests, BeginCreate(s, r) PROVE CalmInv'
  BY <1>1, CalmStart DEF BeginCreate
<1>2. ASSUME NEW s \in Sessions, NEW a \in Decisions \cup {"approve"}, NEW r \in Requests,
             BeginReview(s, a, r)
      PROVE  CalmInv'
  BY <1>2, CalmStart DEF BeginReview
<1>3. ASSUME NEW s \in Sessions, Duplicate(s) \/ AlreadyClosed(s) \/ Deadlock(s)
      PROVE  CalmInv'
  BY <1>3, FinishFrame, ClosedFrame, CalmLeave
     DEF Duplicate, AlreadyClosed, Deadlock, Inv, rows
<1>4. ASSUME NEW s \in Sessions, Crash(s) PROVE CalmInv'
  BY <1>4 DEF Crash, CalmInv, Calm
<1>5. CASE (\E u \in Users : SetBlock(u)) \/ Tick \/ UNCHANGED vars
  <2>1. UNCHANGED <<mode, status, grants, pc, req>>
    BY <1>5 DEF SetBlock, Tick, vars, rows
  <2> QED BY <2>1 DEF CalmInv, Calm, OneAtWork, StillOpen, PaidIsApproved, Marking
<1>6. ASSUME NEW s \in Sessions, pc[s] # "idle", Calm
      PROVE  /\ \A t \in Sessions : t # s => pc[t] = "idle"
             /\ req[s] \in Requests /\ status \in [Requests -> {"none"} \cup Open \cup Terminal]
             /\ grants \in [Requests -> Nat] /\ pc \in [Sessions -> PCs]
             /\ pc[s] # "marking" => \A r \in Requests :
                   grants[r] = 0 \/ (grants[r] = 1 /\ status[r] = "approved")
  <2>1. \A t \in Sessions : t # s => pc[t] = "idle"
    BY <1>6 DEF CalmInv, OneAtWork
  <2>2. pc[s] # "marking" => \A r \in Requests : ~ Marking(r)
    BY <2>1 DEF Marking
  <2> QED BY <1>6, <2>1, <2>2 DEF CalmInv, PaidIsApproved, Inv, TypeOK
<1>7. ASSUME NEW s \in Sessions, Insert(s) PROVE CalmInv'
  <2> SUFFICES ASSUME Calm PROVE OneAtWork' /\ StillOpen' /\ PaidIsApproved'
    BY <1>7 DEF CalmInv, Calm, Insert
  <2>1. /\ pc[s] = "inserting" /\ status' = [status EXCEPT ![req[s]] = "pending"]
        /\ grants' = grants /\ status[req[s]] = "none"
    BY <1>7 DEF Insert, Inv, SessionInv
  <2>2. /\ pc'[s] \in {"idle", "granting"} /\ \A t \in Sessions : t # s => pc'[t] = pc[t]
        /\ pc'[s] = "granting" => req'[s] = req[s]
    BY <1>6, <1>7, <2>1 DEF Finish, Insert, Goto
  <2>3. OneAtWork' /\ StillOpen'
    BY <1>6, <2>1, <2>2 DEF OneAtWork, StillOpen, Open
  <2>4. PaidIsApproved'
    BY <1>6, <2>1 DEF PaidIsApproved
  <2> QED BY <2>3, <2>4
<1>8. ASSUME NEW s \in Sessions, LockOpen(s) PROVE CalmInv'
  <2> SUFFICES ASSUME Calm PROVE OneAtWork' /\ StillOpen' /\ PaidIsApproved'
    BY <1>8 DEF CalmInv, Calm, LockOpen
  <2>1. /\ pc[s] = "locking" /\ status[req[s]] \in Open /\ req' = req
        /\ status' = status /\ grants' = grants
        /\ pc' = [pc EXCEPT ![s] = IF act[s] = "approve" THEN "granting" ELSE "deciding"]
    BY <1>8 DEF LockOpen, Goto, rows
  <2>2. OneAtWork' /\ StillOpen'
    BY <1>6, <2>1 DEF OneAtWork, StillOpen
  <2>3. PaidIsApproved'
    BY <1>6, <2>1 DEF PaidIsApproved
  <2> QED BY <2>2, <2>3
<1>9. ASSUME NEW s \in Sessions, Decide(s) PROVE CalmInv'
  <2> SUFFICES ASSUME Calm PROVE OneAtWork' /\ StillOpen' /\ PaidIsApproved'
    BY <1>9 DEF CalmInv, Calm, Decide
  <2>1. /\ pc[s] = "deciding" /\ status[req[s]] \in Open /\ grants' = grants
        /\ \A r \in Requests : r # req[s] => status'[r] = status[r]
    BY <1>6, <1>9 DEF Decide, Inv, SessionInv
  <2>2. pc'[s] \in {"idle", "locking"} /\ \A t \in Sessions : t # s => pc'[t] = pc[t]
    BY <1>9, DoneFrame DEF Leaves, Decide, Inv
  <2>3. OneAtWork' /\ StillOpen'
    BY <1>6, <2>1, <2>2 DEF OneAtWork, StillOpen
  <2>4. PaidIsApproved'
    BY <1>6, <2>1 DEF PaidIsApproved, Open
  <2> QED BY <2>3, <2>4
<1>10. ASSUME NEW s \in Sessions, Grant(s) PROVE CalmInv'
  <2> SUFFICES ASSUME Calm PROVE OneAtWork' /\ StillOpen' /\ PaidIsApproved'
    BY <1>10 DEF CalmInv, Calm, Grant
  <2>1. /\ pc[s] = "granting" /\ status' = status /\ req' = req
        /\ pc' = [pc EXCEPT ![s] = "marking"]
        /\ grants' = [grants EXCEPT ![req[s]] = IF req[s] \in Allowances THEN @ ELSE @ + 1]
    BY <1>10 DEF Grant, Goto
  <2>2. status[req[s]] \in Open
    BY <2>1 DEF CalmInv, StillOpen
  <2>3. OneAtWork' /\ StillOpen'
    BY <1>6, <2>1, <2>2 DEF OneAtWork, StillOpen
  <2>4. Marking(req[s])'
    BY <1>6, <2>1 DEF Marking
  <2>5. grants[req[s]] = 0
    BY <1>6, <2>1, <2>2 DEF Open
  <2>6. PaidIsApproved'
    BY <1>6, <2>1, <2>4, <2>5 DEF PaidIsApproved
  <2> QED BY <2>3, <2>6
<1>11. ASSUME NEW s \in Sessions, Mark(s) PROVE CalmInv'
  <2> SUFFICES ASSUME Calm PROVE OneAtWork' /\ StillOpen' /\ PaidIsApproved'
    BY <1>11 DEF CalmInv, Calm, Mark
  <2>1. /\ pc[s] = "marking" /\ grants' = grants
        /\ status' = [status EXCEPT ![req[s]] = "approved"]
    BY <1>11 DEF Mark
  <2>2. pc'[s] \in {"idle", "locking"} /\ \A t \in Sessions : t # s => pc'[t] = pc[t]
    BY <1>11, DoneFrame DEF Leaves, Mark, Inv
  <2>3. OneAtWork' /\ StillOpen'
    BY <1>6, <2>1, <2>2 DEF OneAtWork, StillOpen
  <2>4. \A r \in Requests : Marking(r) => r = req[s]
    BY <1>6, <2>1 DEF Marking
  <2>5. PaidIsApproved'
    BY <1>6, <2>1, <2>4 DEF CalmInv, PaidIsApproved
  <2> QED BY <2>3, <2>5
<1> QED
  BY <1>1, <1>2, <1>3, <1>4, <1>5, <1>7, <1>8, <1>9, <1>10, <1>11 DEF Next, Step

LEMMA CalmInvariant == Spec => [](Inv /\ CalmInv)
  BY InvInit, InvNext, CalmInit, CalmNext, PTL DEF Spec

(* Without overlaps and crashes no request is paid out twice, although     *)
(* approving gives its row lock up before it writes the status.            *)
THEOREM CalmPaysOnce == Spec => []PaidOnce
<1>1. CalmInv => PaidOnce
  BY DEF CalmInv, PaidIsApproved, PaidOnce
<1> QED BY <1>1, CalmInvariant, PTL

(* Without overlaps and crashes a request that was turned down has paid    *)
(* nothing.                                                                *)
THEOREM CalmRejectionIsFree == Spec => []RejectedPaysNothing
<1>1. CalmInv => RejectedPaysNothing
  <2> SUFFICES ASSUME CalmInv, Calm, NEW r \in Requests, status[r] \in {"rejected", "cancelled"}
               PROVE  grants[r] = 0
    BY DEF RejectedPaysNothing
  <2>1. status[r] # "approved" /\ ~ Marking(r)
    BY DEF CalmInv, StillOpen, Marking, Open
  <2> QED BY <2>1 DEF CalmInv, PaidIsApproved
<1> QED BY <1>1, CalmInvariant, PTL
=============================================================================

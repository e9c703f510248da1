------------------------- MODULE CreditLedgerProofs -------------------------
(***************************************************************************)
(* Machine-checked proofs about CreditLedger, for any number of users and  *)
(* sessions, any amounts and any bounds.                                   *)
(***************************************************************************)
EXTENDS CreditLedger, TLAPS

(* A session that computes holds the row it computes for, and what it is   *)
(* about to write is a legal balance.                                      *)
LockInv ==
    \A s \in Sessions :
        /\ pc[s] \in {"locked", "ready", "refused"} => lock[user[s]] = s
        /\ pc[s] = "ready" => seen[s] + eff[s] >= 0
        /\ pc[s] = "setting" => amount[s] \in SetValues

TypeInv == TypeOK /\ LockInv

(* They hold initially.                                                    *)
LEMMA TypeInvInit == Init => TypeInv
  BY ConstantsAssumption DEF Init, TypeInv, TypeOK, LockInv, PCs, Days

(* Giving up one session's locks takes nothing from another session.       *)
LEMMA OthersKeepLocks ==
  ASSUME TypeInv, NEW s \in Sessions, ReleaseAll(s)
  PROVE  /\ lock' \in [Users -> Sessions \cup {None}]
         /\ \A t \in Sessions :
               t # s /\ pc[t] \in {"locked", "ready", "refused"} => lock'[user[t]] = t
  BY ConstantsAssumption DEF TypeInv, TypeOK, LockInv, ReleaseAll

(* Closing a session keeps the types and the lock invariant.               *)
LEMMA CloseType ==
  ASSUME TypeInv, NEW s \in Sessions, Close(s)
  PROVE  /\ lock' \in [Users -> Sessions \cup {None}]
         /\ pc' \in [Sessions -> PCs]
         /\ caller' \in [Sessions -> Callers \cup {None}]
         /\ user' \in [Sessions -> Users \cup {None}]
         /\ amount' \in [Sessions -> Int]
         /\ cached' \in [Sessions -> Nat \cup {None}]
         /\ seen' \in [Sessions -> Nat]
         /\ eff' \in [Sessions -> Int]
         /\ todo' \in [Sessions -> SUBSET Users]
         /\ \A t \in Sessions : pc'[t] \notin {"idle", "next"} => user'[t] \in Users
         /\ LockInv'
<1> USE ConstantsAssumption DEF TypeInv, TypeOK, Close, Goto
<1>1. LockInv'
  BY OthersKeepLocks DEF LockInv
<1> QED
  BY <1>1, OthersKeepLocks DEF PCs

(* Every step keeps the types and the lock invariant.                      *)
LEMMA TypeInvNext == TypeInv /\ [Next]_vars => TypeInv'
<1> SUFFICES ASSUME TypeInv, [Next]_vars PROVE TypeInv'
  OBVIOUS
<1> USE ConstantsAssumption DEF TypeInv, data, work
<1>1. ASSUME NEW s \in Sessions, NEW c \in Callers, NEW u \in Users, NEW a \in Amounts,
             Begin(s, c, u, a)
      PROVE  TypeInv'
  BY <1>1 DEF Begin, Goto, TypeOK, LockInv, PCs
<1>2. ASSUME NEW s \in Sessions, BeginDaily(s) PROVE TypeInv'
  BY <1>2 DEF BeginDaily, Goto, TypeOK, LockInv, PCs
<1>3. ASSUME NEW s \in Sessions, NEW u \in Users, NEW v \in SetValues, BeginSet(s, u, v)
      PROVE  TypeInv'
  BY <1>3 DEF BeginSet, Goto, TypeOK, LockInv, PCs
<1>4. ASSUME NEW s \in Sessions, NextUser(s) PROVE TypeInv'
  BY <1>4 DEF NextUser, Goto, TypeOK, LockInv, PCs
<1>5. ASSUME NEW s \in Sessions, EndBatch(s) PROVE TypeInv'
  BY <1>5, CloseType DEF EndBatch, TypeOK
<1>6. ASSUME NEW s \in Sessions, WriteSet(s) PROVE TypeInv'
  <2>1. amount[s] \in Nat
    BY <1>6 DEF WriteSet, LockInv
  <2>2. /\ balance' \in [Users -> Nat]
        /\ adjusted' \in [Users -> Int]
        /\ ceiling' \in Nat
    BY <1>6, <2>1 DEF WriteSet, TypeOK
  <2> QED BY <1>6, <2>2, CloseType DEF WriteSet, TypeOK
<1>7. ASSUME NEW s \in Sessions, Quote(s) PROVE TypeInv'
  BY <1>7 DEF Quote, Goto, TypeOK, LockInv, PCs
<1>8. ASSUME NEW s \in Sessions, NothingToTake(s) PROVE TypeInv'
  BY <1>8, CloseType DEF NothingToTake, TypeOK
<1>9. ASSUME NEW s \in Sessions, LockRow(s) PROVE TypeInv'
  BY <1>9 DEF LockRow, LoadedBalance, Goto, TypeOK, LockInv, PCs
<1>10. ASSUME NEW s \in Sessions, LockTimeout(s) PROVE TypeInv'
  BY <1>10, CloseType DEF LockTimeout, TypeOK
<1>11. ASSUME NEW s \in Sessions, Compute(s) PROVE TypeInv'
  BY <1>11 DEF Compute, Clamped, Goto, TypeOK, LockInv, PCs
<1>12. ASSUME NEW s \in Sessions, Refuse(s) PROVE TypeInv'
  <2>1. CASE caller[s] = "daily"
    BY <1>12, <2>1 DEF Refuse, Goto, TypeOK, LockInv, PCs
  <2>2. CASE caller[s] # "daily"
    BY <1>12, <2>2, CloseType DEF Refuse, TypeOK
  <2> QED BY <2>1, <2>2
<1>13. ASSUME NEW s \in Sessions, Commit(s) PROVE TypeInv'
  <2>1. /\ balance' \in [Users -> Nat]
        /\ ledger' \in [Users -> Int]
        /\ dailyRows' \in [Users -> [Days -> Nat]]
    <3>1. NewBalance(s) \in Nat
      BY <1>13 DEF Commit, NewBalance, TypeOK, LockInv
    <3>2. user[s] \in Users /\ day \in Days
      BY <1>13 DEF Commit, TypeOK
    <3>3. [dailyRows EXCEPT ![user[s]][day] = @ + 1] \in [Users -> [Days -> Nat]]
      BY <3>2 DEF TypeOK
    <3>4. dailyRows' \in [Users -> [Days -> Nat]]
      BY <1>13, <3>3 DEF Commit, FiledAsDaily, TypeOK
    <3> QED BY <1>13, <3>1, <3>2, <3>4 DEF Commit, TypeOK
  <2>2. CASE caller[s] = "daily"
    <3>1. ReleaseAll(s) /\ Goto(s, "next") /\ UNCHANGED work
      BY <1>13, <2>2 DEF Commit
    <3>2. LockInv'
      BY <3>1, OthersKeepLocks DEF Goto, TypeOK, LockInv
    <3> QED
      BY <1>13, <2>1, <3>1, <3>2, OthersKeepLocks DEF Commit, Goto, TypeOK, PCs
  <2>3. CASE caller[s] # "daily"
    BY <1>13, <2>1, <2>3, CloseType DEF Commit, TypeOK
  <2> QED BY <2>2, <2>3
<1>14. ASSUME NEW s \in Sessions, Crash(s) PROVE TypeInv'
  BY <1>14, CloseType DEF Crash, TypeOK
<1>15. ASSUME NEW c \in Caps, SetCap(c) PROVE TypeInv'
  BY <1>15 DEF SetCap, TypeOK, LockInv
<1>16. ASSUME NEW u \in Users, Deactivate(u) PROVE TypeInv'
  BY <1>16 DEF Deactivate, TypeOK, LockInv
<1>17. CASE NewDay
  BY <1>17 DEF NewDay, TypeOK, LockInv, Days
<1>18. CASE UNCHANGED vars
  BY <1>18 DEF vars, TypeOK, LockInv
<1> QED
  BY <1>1, <1>2, <1>3, <1>4, <1>5, <1>6, <1>7, <1>8, <1>9, <1>10, <1>11, <1>12,
     <1>13, <1>14, <1>15, <1>16, <1>17, <1>18 DEF Next, Step

(* Every variable keeps its type; in particular no balance is negative.    *)
THEOREM TypeCorrect == Spec => []TypeOK
<1>1. Spec => []TypeInv
  BY TypeInvInit, TypeInvNext, PTL DEF Spec
<1> QED BY <1>1, PTL DEF TypeInv

-----------------------------------------------------------------------------
(* A step of one session, and a step of the environment.                   *)
SessionStep(s) ==
    \/ \E c \in Callers, u \in Users, a \in Amounts : Begin(s, c, u, a)
    \/ BeginDaily(s)
    \/ \E u \in Users, v \in SetValues : BeginSet(s, u, v)
    \/ Step(s)
    \/ Crash(s)

SetCapStep == \E c \in Caps : SetCap(c)
DeactivateStep == \E u \in Users : Deactivate(u)

OthersKeep(s) ==
    \A t \in Sessions : t # s =>
        /\ pc'[t] = pc[t] /\ caller'[t] = caller[t] /\ user'[t] = user[t]
        /\ cached'[t] = cached[t] /\ seen'[t] = seen[t] /\ eff'[t] = eff[t]

(* Which step can do what: the shape every later proof splits on.          *)
LEMMA WhatMoves ==
  ASSUME TypeInv, NEW s \in Sessions, SessionStep(s)
  PROVE  /\ OthersKeep(s)
         /\ UNCHANGED <<active, cap, day>>
         /\ pc'[s] = "ready" => Compute(s)
         /\ pc'[s] = "locked" => LockRow(s)
         /\ dailyRows' # dailyRows \/ ledger' # ledger => Commit(s)
         /\ balance' # balance => Commit(s) \/ WriteSet(s)
         /\ adjusted' # adjusted \/ ceiling' # ceiling => WriteSet(s)
<1> USE DEF TypeInv, TypeOK, OthersKeep, data, work, Goto
<1>1. CASE \E c \in Callers, u \in Users, a \in Amounts : Begin(s, c, u, a)
  BY <1>1 DEF Begin
<1>2. CASE BeginDaily(s)
  BY <1>2 DEF BeginDaily
<1>3. CASE \E u \in Users, v \in SetValues : BeginSet(s, u, v)
  BY <1>3 DEF BeginSet
<1>4. CASE NextUser(s)
  BY <1>4 DEF NextUser
<1>5. CASE EndBatch(s) \/ LockTimeout(s) \/ NothingToTake(s) \/ Crash(s)
  BY <1>5 DEF EndBatch, LockTimeout, NothingToTake, Crash, Close
<1>6. CASE WriteSet(s)
  BY <1>6 DEF WriteSet, Close
<1>7. CASE Quote(s)
  BY <1>7 DEF Quote
<1>8. CASE LockRow(s)
  BY <1>8 DEF LockRow
<1>9. CASE Compute(s)
  BY <1>9 DEF Compute
<1>10. CASE Refuse(s)
  BY <1>10 DEF Refuse, Close
<1>11. CASE Commit(s)
  BY <1>11 DEF Commit, Close
<1> QED
  BY <1>1, <1>2, <1>3, <1>4, <1>5, <1>6, <1>7, <1>8, <1>9, <1>10, <1>11
     DEF SessionStep, Step

(* The next-state relation, by who moves.                                  *)
LEMMA NextCases ==
  ASSUME [Next]_vars
  PROVE  \/ \E s \in Sessions : SessionStep(s)
         \/ SetCapStep \/ DeactivateStep \/ NewDay \/ UNCHANGED vars
  BY DEF Next, SessionStep, SetCapStep, DeactivateStep

-----------------------------------------------------------------------------
(* The daily allowance: between the check under the row lock and the       *)
(* insert, no row for today (or a later day) can appear, and the user      *)
(* cannot be deactivated.                                                  *)
DailyInv ==
    /\ DailyOnce
    /\ \A u \in Users, d \in Days : d > day => dailyRows[u][d] = 0
    /\ \A s \in Sessions : pc[s] = "ready" /\ caller[s] = "daily" =>
          /\ user[s] \in active
          /\ \A d \in Days : d >= day => dailyRows[user[s]][d] = 0

(* Every step keeps the counting argument behind the daily allowance.      *)
LEMMA DailyInvNext == TypeInv /\ DailyInv /\ [Next]_vars => DailyInv'
<1> SUFFICES ASSUME TypeInv, DailyInv, [Next]_vars PROVE DailyInv'
  OBVIOUS
<1>1. ASSUME NEW s \in Sessions, SessionStep(s) PROVE DailyInv'
  <2>0. /\ OthersKeep(s)
        /\ UNCHANGED <<active, cap, day>>
        /\ pc'[s] = "ready" => Compute(s)
        /\ dailyRows' # dailyRows => Commit(s)
    BY <1>1, WhatMoves
  <2>1. CASE Commit(s)
    <3>1. pc'[s] # "ready"
      BY <2>1, <2>0 DEF Commit, Compute
    <3>2. /\ pc[s] = "ready" /\ user[s] \in Users /\ day \in Days
          /\ lock[user[s]] = s
          /\ caller[s] = "daily" => dailyRows[user[s]][day] = 0
      <4>1. pc[s] = "ready"
        BY <2>1 DEF Commit
      <4>2. user[s] \in Users /\ day \in Days /\ lock[user[s]] = s
        BY <4>1 DEF TypeInv, TypeOK, LockInv
      <4>3. day >= day
        BY <4>2 DEF Days
      <4> QED BY <4>1, <4>2, <4>3 DEF DailyInv
    <3>3. /\ \A t \in Sessions \ {s} : pc[t] = "ready" => user[t] # user[s]
          /\ \A t \in Sessions : pc[t] = "ready" => user[t] \in Users
      BY <3>2 DEF TypeInv, TypeOK, LockInv
    <3>4. CASE caller[s] = "daily"
      <4>1. dailyRows' = [dailyRows EXCEPT ![user[s]][day] = @ + 1]
        BY <2>1, <3>4 DEF Commit, FiledAsDaily
      <4>2. \A u \in Users, d \in Days :
               dailyRows'[u][d] = IF u = user[s] /\ d = day THEN 1 ELSE dailyRows[u][d]
        BY <4>1, <3>2, <3>4 DEF TypeInv, TypeOK
      <4>3. DailyOnce'
        BY <4>2 DEF DailyInv, DailyOnce
      <4>4. \A u \in Users, d \in Days : d > day => dailyRows'[u][d] = 0
        BY <4>2, <3>2 DEF DailyInv, Days
      <4>5. \A t \in Sessions : pc'[t] = "ready" /\ caller'[t] = "daily" =>
               /\ user'[t] \in active
               /\ \A d \in Days : d >= day => dailyRows'[user'[t]][d] = 0
        BY <4>2, <3>1, <3>3, <2>0 DEF DailyInv, OthersKeep
      <4> QED
        BY <4>3, <4>4, <4>5, <2>0 DEF DailyInv
    <3>5. CASE caller[s] # "daily"
      BY <2>0, <2>1, <3>1, <3>5 DEF Commit, FiledAsDaily, DailyInv, DailyOnce, OthersKeep
    <3> QED BY <3>4, <3>5
  <2>2. CASE Compute(s)
    <3>1. /\ caller'[s] = caller[s] /\ user'[s] = user[s] /\ dailyRows' = dailyRows
          /\ pc'[s] = "ready" /\ caller[s] = "daily" => ~ DailyRefused(user[s])
          /\ user[s] \in Users
      BY <2>2 DEF Compute, Goto, TypeInv, TypeOK, data
    <3>2. ~ DailyRefused(user[s]) =>
             user[s] \in active /\ \A d \in Days : d >= day => dailyRows[user[s]][d] = 0
      BY <3>1 DEF DailyRefused, TypeInv, TypeOK
    <3> QED
      BY <2>0, <3>1, <3>2 DEF DailyInv, DailyOnce, OthersKeep
  <2>3. CASE ~ Commit(s) /\ ~ Compute(s)
    BY <2>0, <2>3 DEF DailyInv, DailyOnce, OthersKeep
  <2> QED BY <2>1, <2>2, <2>3
<1>2. CASE SetCapStep
  BY <1>2 DEF SetCapStep, SetCap, DailyInv, DailyOnce, work
<1>3. CASE DeactivateStep
  <2>1. PICK u \in Users : Deactivate(u)
    BY <1>3 DEF DeactivateStep
  <2>2. \A s \in Sessions : pc[s] = "ready" => user[s] # u
    BY <2>1, ConstantsAssumption DEF Deactivate, TypeInv, LockInv
  <2> QED
    BY <2>1, <2>2 DEF Deactivate, DailyInv, DailyOnce, work
<1>4. CASE NewDay
  BY <1>4 DEF NewDay, DailyInv, DailyOnce, work, TypeInv, TypeOK, Days
<1>5. CASE UNCHANGED vars
  BY <1>5 DEF vars, data, work, DailyInv, DailyOnce
<1> QED BY NextCases, <1>1, <1>2, <1>3, <1>4, <1>5

(* No user gets the daily allowance twice on one day, with any number of   *)
(* overlapping batches, crashes and midnights.                             *)
THEOREM DailyAllowanceOnce == Spec => []DailyOnce
<1>1. Init => DailyInv
  BY DEF Init, DailyInv, DailyOnce
<1>2. Spec => [](TypeInv /\ DailyInv)
  BY <1>1, TypeInvInit, TypeInvNext, DailyInvNext, PTL DEF Spec
<1> QED BY <1>2, PTL DEF DailyInv

-----------------------------------------------------------------------------
(* The balance and the ledger, when no caller brings a User object along.  *)
FreshInv ==
    /\ \A s \in Sessions : pc[s] # "setting" => cached[s] = None
    /\ AuthoritativeRead
    /\ BalanceIsLedger

NoPreload == Callers \cap Preloading = {}

(* A step moves the balance of one user only, and by the ledger entry it   *)
(* writes or the adjustment it makes.                                      *)
LEMMA CommitPosts ==
  ASSUME TypeInv, FreshInv, NEW s \in Sessions, Commit(s)
  PROVE  /\ user[s] \in Users
         /\ balance' = [balance EXCEPT ![user[s]] = @ + eff[s]]
         /\ ledger' = [ledger EXCEPT ![user[s]] = @ + eff[s]]
         /\ balance[user[s]] + eff[s] >= 0
         /\ UNCHANGED adjusted
<1>1. /\ pc[s] = "ready" /\ user[s] \in Users
      /\ seen[s] = balance[user[s]] /\ balance[user[s]] \in Nat /\ eff[s] \in Int
      /\ seen[s] + eff[s] >= 0
  BY DEF Commit, TypeInv, TypeOK, LockInv, FreshInv, AuthoritativeRead
<1>2. NewBalance(s) = balance[user[s]] + eff[s]
  BY <1>1 DEF NewBalance
<1> QED BY <1>1, <1>2 DEF Commit

(* Every step of a fresh caller keeps what it saw equal to the locked row. *)
LEMMA FreshInvNext ==
  ASSUME NoPreload
  PROVE  TypeInv /\ FreshInv /\ [Next]_vars => FreshInv'
<1> SUFFICES ASSUME TypeInv, FreshInv, [Next]_vars PROVE FreshInv'
  OBVIOUS
<1>1. ASSUME NEW s \in Sessions, SessionStep(s) PROVE FreshInv'
  <2>0. /\ OthersKeep(s)
        /\ pc'[s] = "ready" => Compute(s)
        /\ pc'[s] = "locked" => LockRow(s)
        /\ ledger' # ledger => Commit(s)
        /\ balance' # balance => Commit(s) \/ WriteSet(s)
        /\ adjusted' # adjusted => WriteSet(s)
    BY <1>1, WhatMoves
  <2>1. \A t \in Sessions : pc'[t] # "setting" => cached'[t] = None
    <3>1. pc'[s] # "setting" => cached'[s] = None
      <4> USE DEF FreshInv, TypeInv, TypeOK, Goto, work
      <4>1. CASE \E c \in Callers, u \in Users, a \in Amounts : Begin(s, c, u, a)
        BY <4>1 DEF Begin, NoPreload
      <4>2. CASE BeginDaily(s)
        BY <4>2 DEF BeginDaily
      <4>3. CASE \E u \in Users, v \in SetValues : BeginSet(s, u, v)
        BY <4>3 DEF BeginSet
      <4>4. CASE NextUser(s)
        BY <4>4 DEF NextUser
      <4>5. CASE EndBatch(s) \/ LockTimeout(s) \/ NothingToTake(s) \/ Crash(s) \/ WriteSet(s)
        BY <4>5 DEF EndBatch, LockTimeout, NothingToTake, Crash, WriteSet, Close
      <4>6. CASE Quote(s)
        BY <4>6 DEF Quote
      <4>7. CASE LockRow(s) \/ Compute(s)
        BY <4>7 DEF LockRow, Compute
      <4>8. CASE Refuse(s) \/ Commit(s)
        BY <4>8 DEF Refuse, Commit, Close
      <4> QED
        BY <1>1, <4>1, <4>2, <4>3, <4>4, <4>5, <4>6, <4>7, <4>8 DEF SessionStep, Step
    <3> QED BY <2>0, <3>1 DEF FreshInv, OthersKeep
  <2>2. CASE Commit(s)
    <3>1. /\ user[s] \in Users
          /\ balance' = [balance EXCEPT ![user[s]] = @ + eff[s]]
          /\ ledger' = [ledger EXCEPT ![user[s]] = @ + eff[s]]
          /\ UNCHANGED adjusted
      BY <2>2, CommitPosts
    <3>2. pc'[s] \notin {"locked", "ready"}
      BY <2>2, <2>0 DEF Commit, LockRow, Compute
    <3>3. \A t \in Sessions \ {s} : pc[t] \in {"locked", "ready"} =>
             user[t] \in Users /\ user[t] # user[s]
      BY <2>2 DEF Commit, TypeInv, TypeOK, LockInv
    <3>4. AuthoritativeRead'
      BY <2>0, <3>1, <3>2, <3>3 DEF FreshInv, AuthoritativeRead, OthersKeep, TypeInv, TypeOK
    <3>5. BalanceIsLedger'
      BY <3>1, ConstantsAssumption DEF FreshInv, BalanceIsLedger, TypeInv, TypeOK
    <3> QED BY <2>1, <3>4, <3>5 DEF FreshInv
  <2>3. CASE WriteSet(s)
    <3>1. /\ user[s] \in Users /\ lock[user[s]] = None /\ ledger' = ledger
          /\ amount[s] \in Nat
      BY <2>3, ConstantsAssumption DEF WriteSet, TypeInv, TypeOK, LockInv
    <3>2. pc'[s] \notin {"locked", "ready"}
      BY <2>3, <2>0 DEF WriteSet, LockRow, Compute
    <3>3. \A t \in Sessions \ {s} : pc[t] \in {"locked", "ready"} =>
             user[t] \in Users /\ user[t] # user[s]
      BY <3>1, ConstantsAssumption DEF TypeInv, TypeOK, LockInv
    <3>4. \A u \in Users : u # user[s] => balance'[u] = balance[u]
      BY <2>3 DEF WriteSet, TypeInv, TypeOK
    <3>5. AuthoritativeRead'
      BY <2>0, <3>2, <3>3, <3>4 DEF FreshInv, AuthoritativeRead, OthersKeep
    <3>6. BalanceIsLedger'
      BY <2>3, <3>1, ConstantsAssumption DEF WriteSet, FreshInv, BalanceIsLedger, TypeInv, TypeOK
    <3> QED BY <2>1, <3>5, <3>6 DEF FreshInv
  <2>4. CASE ~ Commit(s) /\ ~ WriteSet(s)
    <3>1. UNCHANGED <<balance, ledger, adjusted>>
      BY <2>0, <2>4
    <3>2. pc'[s] = "locked" => seen'[s] = balance[user'[s]]
      BY <2>0 DEF LockRow, LoadedBalance, FreshInv, TypeInv, TypeOK
    <3>3. pc'[s] = "ready" => seen'[s] = balance[user'[s]]
      BY <2>0 DEF Compute, FreshInv, AuthoritativeRead, TypeInv, TypeOK
    <3>4. AuthoritativeRead'
      BY <2>0, <3>1, <3>2, <3>3 DEF FreshInv, AuthoritativeRead, OthersKeep
    <3> QED BY <2>1, <3>1, <3>4 DEF FreshInv, BalanceIsLedger
  <2> QED BY <2>2, <2>3, <2>4
<1>2. CASE SetCapStep \/ DeactivateStep \/ NewDay
  BY <1>2 DEF SetCapStep, SetCap, DeactivateStep, Deactivate, NewDay, work, FreshInv,
              AuthoritativeRead, BalanceIsLedger
<1>3. CASE UNCHANGED vars
  BY <1>3 DEF vars, data, work, FreshInv, AuthoritativeRead, BalanceIsLedger
<1> QED BY NextCases, <1>1, <1>2, <1>3

(* ... so it is an invariant of every such instance.                       *)
LEMMA FreshInvariant ==
  ASSUME NoPreload
  PROVE  Spec => [](TypeInv /\ FreshInv)
<1>1. Init => FreshInv
  BY ConstantsAssumption DEF Init, FreshInv, AuthoritativeRead, BalanceIsLedger
<1> QED
  BY <1>1, TypeInvInit, TypeInvNext, FreshInvNext, PTL DEF Spec

(* Where no caller brings a loaded User object along, no update of a       *)
(* balance is ever lost, whatever the interleaving.                        *)
THEOREM NoLostUpdate ==
  ASSUME NoPreload
  PROVE  Spec => []BalanceIsLedger
  BY FreshInvariant, PTL DEF FreshInv

(* Under the same condition the locking SELECT is authoritative.           *)
THEOREM LockedReadIsAuthoritative ==
  ASSUME NoPreload
  PROVE  Spec => []AuthoritativeRead
  BY FreshInvariant, PTL DEF FreshInv

(* ... and the same credits are never spent twice.                         *)
THEOREM CreditsSpentOnce ==
  ASSUME NoPreload
  PROVE  Spec => NoDoubleSpend
<1>1. ASSUME TypeInv, FreshInv, [Next]_vars
      PROVE  [\A u \in Users :
                 ledger'[u] < ledger[u] => ledger[u] - ledger'[u] <= balance[u]]_vars
  <2>1. ASSUME NEW s \in Sessions, SessionStep(s), NEW u \in Users, ledger'[u] < ledger[u]
        PROVE  ledger[u] - ledger'[u] <= balance[u]
    <3>1. Commit(s)
      BY <2>1, <1>1, WhatMoves DEF TypeInv, TypeOK
    <3>2. /\ user[s] \in Users /\ eff[s] \in Int
          /\ ledger' = [ledger EXCEPT ![user[s]] = @ + eff[s]]
          /\ balance[user[s]] + eff[s] >= 0
          /\ balance \in [Users -> Nat] /\ ledger \in [Users -> Int]
      BY <1>1, <3>1, CommitPosts DEF TypeInv, TypeOK
    <3>3. u = user[s] /\ ledger'[u] = ledger[u] + eff[s]
      BY <2>1, <3>2
    <3> QED BY <3>2, <3>3
  <2>2. CASE SetCapStep \/ DeactivateStep \/ NewDay \/ UNCHANGED vars
    <3>1. ledger' = ledger
      BY <2>2 DEF SetCapStep, SetCap, DeactivateStep, Deactivate, NewDay, vars, data
    <3> QED BY <1>1, <3>1 DEF TypeInv, TypeOK
  <2> QED BY <1>1, <2>1, <2>2, NextCases
<1> QED BY <1>1, FreshInvariant, PTL DEF Spec, NoDoubleSpend

(* ... so that the sessions implement the atomic ledger: each commit maps  *)
(* to one entry (or, for a grant the cap absorbs whole, to a stutter),     *)
(* each write of the user form to one adjustment, all else to a stutter.   *)
THEOREM ImplementsAtomic ==
  ASSUME NoPreload
  PROVE  Spec => ImplementsAtomicLedger
<1>1. Init => Atomic!Init
  BY DEF Init, Atomic!Init
<1>2. ASSUME TypeInv, FreshInv, [Next]_vars
      PROVE  [Atomic!Next]_<<balance, ledger, adjusted>>
  <2>1. ASSUME NEW s \in Sessions, SessionStep(s)
        PROVE  [Atomic!Next]_<<balance, ledger, adjusted>>
    <3>1. CASE Commit(s)
      <4>1. /\ user[s] \in Users /\ eff[s] \in Int
            /\ balance' = [balance EXCEPT ![user[s]] = @ + eff[s]]
            /\ ledger' = [ledger EXCEPT ![user[s]] = @ + eff[s]]
            /\ balance[user[s]] + eff[s] >= 0
            /\ UNCHANGED adjusted
            /\ balance \in [Users -> Nat] /\ ledger \in [Users -> Int]
        BY <1>2, <3>1, CommitPosts DEF TypeInv, TypeOK
      <4>2. CASE eff[s] = 0
        BY <4>1, <4>2
      <4>3. CASE eff[s] # 0
        <5>1. Atomic!Post(user[s])
          <6>1. ledger'[user[s]] = ledger[user[s]] + eff[s]
            BY <4>1
          <6>2. ledger'[user[s]] - ledger[user[s]] = eff[s]
            BY <4>1, <6>1
          <6>3. balance'[user[s]] = balance[user[s]] + eff[s]
            BY <4>1
          <6>4. /\ balance' = [balance EXCEPT ![user[s]] = @ + (ledger'[user[s]] - ledger[user[s]])]
                /\ ledger' = [ledger EXCEPT ![user[s]] = ledger'[user[s]]]
            BY <4>1, <6>1, <6>2
          <6>5. ledger'[user[s]] # ledger[user[s]] /\ balance'[user[s]] >= 0
            BY <4>1, <4>3, <6>1, <6>3
          <6> QED BY <4>1, <6>4, <6>5 DEF Atomic!Post
        <5> QED BY <4>1, <5>1 DEF Atomic!Next
      <4> QED BY <4>2, <4>3
    <3>2. CASE WriteSet(s)
      <4>1. Atomic!Adjust(user[s])
        <5> DEFINE new == IF cached[s] = amount[s] THEN balance[user[s]] ELSE amount[s]
        <5>1. /\ user[s] \in Users /\ new \in Nat
              /\ balance \in [Users -> Nat] /\ adjusted \in [Users -> Int]
          BY <1>2, <3>2, ConstantsAssumption DEF WriteSet, TypeInv, TypeOK, LockInv
        <5>2. /\ balance' = [balance EXCEPT ![user[s]] = new]
              /\ adjusted' = [adjusted EXCEPT ![user[s]] = @ + (new - balance[user[s]])]
              /\ ledger' = ledger
          BY <3>2 DEF WriteSet
        <5> HIDE DEF new
        <5>3. balance'[user[s]] = new
          BY <5>1, <5>2
        <5>4. balance' = [balance EXCEPT ![user[s]] = balance'[user[s]]]
          BY <5>2, <5>3
        <5>5. adjusted' = [adjusted EXCEPT ![user[s]] = @ + (balance'[user[s]] - balance[user[s]])]
          BY <5>2, <5>3
        <5>6. balance'[user[s]] >= 0
          BY <5>1, <5>3
        <5> QED BY <5>2, <5>4, <5>5, <5>6 DEF Atomic!Adjust
      <4> QED BY <1>2, <3>2, <4>1 DEF WriteSet, Atomic!Next, TypeInv, TypeOK
    <3>3. CASE ~ Commit(s) /\ ~ WriteSet(s)
      BY <1>2, <2>1, <3>3, WhatMoves
    <3> QED BY <3>1, <3>2, <3>3
  <2>2. CASE SetCapStep \/ DeactivateStep \/ NewDay \/ UNCHANGED vars
    BY <2>2 DEF SetCapStep, SetCap, DeactivateStep, Deactivate, NewDay, vars, data
  <2> QED BY <1>2, <2>1, <2>2, NextCases
<1> QED BY <1>1, <1>2, FreshInvariant, PTL DEF Spec, ImplementsAtomicLedger, Atomic!Spec

-----------------------------------------------------------------------------
(* An inactive user is never given the allowance: at the commit the user   *)
(* is still active, because is_active was checked under the row lock.      *)
THEOREM InactiveGetsNothing == Spec => NoAllowanceForInactive
<1>1. ASSUME TypeInv, DailyInv, [Next]_vars
      PROVE  [\A u \in Users : dailyRows'[u] # dailyRows[u] => u \in active]_vars
  <2>1. ASSUME NEW s \in Sessions, SessionStep(s), NEW u \in Users, dailyRows'[u] # dailyRows[u]
        PROVE  u \in active
    <3>1. Commit(s)
      BY <2>1, <1>1, WhatMoves
    <3>2. FiledAsDaily(s) /\ dailyRows' = [dailyRows EXCEPT ![user[s]][day] = @ + 1]
      BY <2>1, <3>1 DEF Commit
    <3>3. u = user[s] /\ pc[s] = "ready" /\ caller[s] = "daily"
      BY <2>1, <1>1, <3>1, <3>2 DEF Commit, FiledAsDaily, TypeInv, TypeOK
    <3> QED BY <1>1, <3>3 DEF DailyInv
  <2>2. CASE SetCapStep \/ DeactivateStep \/ NewDay \/ UNCHANGED vars
    BY <2>2 DEF SetCapStep, SetCap, DeactivateStep, Deactivate, NewDay, vars, data
  <2> QED BY <1>1, <2>1, <2>2, NextCases
<1>2. Init => DailyInv
  BY DEF Init, DailyInv, DailyOnce
<1> QED
  BY <1>1, <1>2, TypeInvInit, TypeInvNext, DailyInvNext, PTL DEF Spec, NoAllowanceForInactive

-----------------------------------------------------------------------------
(* Everything a session has read, and everything it is about to write,     *)
(* stays under the ceiling, which never comes down.                        *)
CapInv ==
    /\ cap = 0 => ceiling = 0
    /\ ceiling = 0 \/ cap <= ceiling
    /\ CapRespected
    /\ \A s \in Sessions :
          ceiling = 0 \/ /\ seen[s] <= ceiling
                         /\ cached[s] # None => cached[s] <= ceiling
                         /\ pc[s] = "ready" => seen[s] + eff[s] <= ceiling

(* Every step keeps balances, and amounts about to be added, under the     *)
(* ceiling.                                                                *)
LEMMA CapInvNext == TypeInv /\ CapInv /\ [Next]_vars => CapInv'
<1> SUFFICES ASSUME TypeInv, CapInv, [Next]_vars PROVE CapInv'
  OBVIOUS
<1> USE ConstantsAssumption
<1>0. /\ cap \in Nat /\ ceiling \in Nat /\ balance \in [Users -> Nat]
      /\ seen \in [Sessions -> Nat] /\ eff \in [Sessions -> Int]
      /\ cached \in [Sessions -> Nat \cup {None}]
  BY DEF TypeInv, TypeOK
<1>1. ASSUME NEW s \in Sessions, SessionStep(s) PROVE CapInv'
  <2>0. /\ OthersKeep(s) /\ cap' = cap
        /\ pc'[s] = "ready" => Compute(s)
        /\ balance' # balance => Commit(s) \/ WriteSet(s)
        /\ ceiling' # ceiling => WriteSet(s)
    BY <1>1, WhatMoves
  <2>1. /\ cap' = 0 => ceiling' = 0
        /\ ceiling' = 0 \/ cap' <= ceiling'
        /\ ceiling' = 0 <=> ceiling = 0
        /\ ceiling <= ceiling' /\ ceiling' \in Nat
    <3>1. CASE WriteSet(s)
      <4>1. amount[s] \in Nat /\ user[s] \in Users
        BY <3>1 DEF WriteSet, TypeInv, TypeOK, LockInv
      <4> QED BY <1>0, <2>0, <3>1, <4>1 DEF WriteSet, CapInv
    <3>2. CASE ~ WriteSet(s)
      BY <1>0, <2>0, <3>2 DEF CapInv
    <3> QED BY <3>1, <3>2
  <2>2. CapRespected'
    <3>1. CASE WriteSet(s)
      <4>1. amount[s] \in Nat /\ user[s] \in Users
        BY <3>1 DEF WriteSet, TypeInv, TypeOK, LockInv
      <4> DEFINE new == IF cached[s] = amount[s] THEN balance[user[s]] ELSE amount[s]
      <4>2. /\ balance' = [balance EXCEPT ![user[s]] = new]
            /\ ceiling' = IF ceiling = 0 \/ new <= ceiling THEN ceiling ELSE new
        BY <3>1 DEF WriteSet
      <4>3. new \in Nat
        BY <1>0, <4>1
      <4> HIDE DEF new
      <4>4. ceiling' = 0 \/ new <= ceiling'
        BY <4>2, <4>3, <1>0
      <4> QED BY <1>0, <2>1, <4>2, <4>3, <4>4 DEF CapInv, CapRespected
    <3>2. CASE Commit(s)
      <4>1. user[s] \in Users /\ pc[s] = "ready" /\ ceiling' = ceiling
        BY <3>2, <2>0 DEF Commit, TypeInv, TypeOK
      <4>2. ceiling = 0 \/ NewBalance(s) <= ceiling
        BY <1>0, <4>1 DEF NewBalance, CapInv, CapRespected
      <4>3. balance' = [balance EXCEPT ![user[s]] = NewBalance(s)]
        BY <3>2 DEF Commit
      <4> QED BY <1>0, <4>1, <4>2, <4>3 DEF CapInv, CapRespected
    <3>3. CASE ~ Commit(s) /\ ~ WriteSet(s)
      BY <2>0, <3>3 DEF CapInv, CapRespected
    <3> QED BY <3>1, <3>2, <3>3
  <2>3. ceiling' = 0 \/ /\ seen'[s] <= ceiling'
                        /\ cached'[s] # None => cached'[s] <= ceiling'
                        /\ pc'[s] = "ready" => seen'[s] + eff'[s] <= ceiling'
    <3>1. ceiling = 0 \/ seen'[s] <= ceiling
      <4> USE <1>0 DEF CapInv, CapRespected, work, Goto
      <4>1. CASE LockRow(s)
        <5>1. user[s] \in Users
          BY <4>1 DEF LockRow, TypeInv, TypeOK
        <5> QED BY <4>1, <5>1 DEF LockRow, LoadedBalance
      <4>2. CASE ~ LockRow(s)
        <5>1. seen'[s] = seen[s] \/ seen'[s] = 0
          BY <1>1, <4>2 DEF SessionStep, Step, Begin, BeginDaily, BeginSet, NextUser, EndBatch,
             WriteSet, Quote, NothingToTake, LockTimeout, Compute, Refuse, Commit, Crash, Close
        <5> QED BY <5>1
      <4> QED BY <4>1, <4>2
    <3>2. ceiling = 0 \/ cached'[s] = None \/ cached'[s] <= ceiling
      <4>1. \/ cached'[s] = cached[s] \/ cached'[s] = None
            \/ \E u \in Users : cached'[s] = balance[u]
        BY <1>0, <1>1 DEF SessionStep, Step, Begin, BeginDaily, BeginSet, NextUser, EndBatch, LockRow,
             WriteSet, Quote, NothingToTake, LockTimeout, Compute, Refuse, Commit, Crash, Close, work
      <4> QED BY <1>0, <4>1 DEF CapInv, CapRespected
    <3>3. pc'[s] = "ready" => ceiling = 0 \/ seen'[s] + eff'[s] <= ceiling
      <4>1. SUFFICES ASSUME Compute(s), ceiling # 0 PROVE seen'[s] + eff'[s] <= ceiling
        BY <2>0
      <4>2. seen'[s] = seen[s] /\ seen[s] <= ceiling /\ cap # 0 /\ cap <= ceiling
        BY <4>1 DEF Compute, CapInv
      <4>3. amount[s] \in Int /\ amount[s] > 0 => seen[s] + Clamped(seen[s], amount[s]) <= ceiling
        BY <1>0, <4>2 DEF Clamped
      <4>4. amount[s] \in Int
        BY DEF TypeInv, TypeOK
      <4>5. eff'[s] = IF amount[s] > 0 THEN Clamped(seen[s], amount[s]) ELSE amount[s]
        BY <4>1, <1>0 DEF Compute
      <4> QED BY <1>0, <4>2, <4>3, <4>4, <4>5
    <3>4. seen'[s] \in Nat /\ eff'[s] \in Int /\ cached'[s] \in Nat \cup {None}
      BY TypeInvNext DEF TypeInv, TypeOK
    <3> QED BY <1>0, <2>1, <3>1, <3>2, <3>3, <3>4
  <2>4. \A t \in Sessions : t # s =>
           ceiling' = 0 \/ /\ seen'[t] <= ceiling'
                           /\ cached'[t] # None => cached'[t] <= ceiling'
                           /\ pc'[t] = "ready" => seen'[t] + eff'[t] <= ceiling'
    BY <1>0, <2>0, <2>1 DEF OthersKeep, CapInv
  <2> QED BY <2>1, <2>2, <2>3, <2>4 DEF CapInv
<1>2. CASE SetCapStep
  <2>1. PICK c \in Caps : SetCap(c)
    BY <1>2 DEF SetCapStep
  <2>2. c \in Nat /\ (ceiling' # 0 => ceiling # 0 /\ ceiling <= ceiling' /\ c <= ceiling')
        /\ (c = 0 => ceiling' = 0) /\ ceiling' \in Nat
    BY <1>0, <2>1 DEF SetCap
  <2> QED BY <1>0, <2>1, <2>2 DEF SetCap, CapInv, CapRespected, work
<1>3. CASE DeactivateStep \/ NewDay \/ UNCHANGED vars
  BY <1>3 DEF DeactivateStep, Deactivate, NewDay, vars, data, work, CapInv, CapRespected
<1> QED BY NextCases, <1>1, <1>2, <1>3

(* No balance exceeds the highest cap there has been, whichever session    *)
(* read whichever cap, and also when what it saw of the balance is stale.  *)
THEOREM BalanceUnderCap == Spec => []CapRespected
<1>1. Init => CapInv
  BY ConstantsAssumption DEF Init, CapInv, CapRespected
<1>2. Spec => [](TypeInv /\ CapInv)
  BY <1>1, TypeInvInit, TypeInvNext, CapInvNext, PTL DEF Spec
<1> QED BY <1>2, PTL DEF CapInv
=============================================================================

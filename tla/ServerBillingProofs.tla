------------------------ MODULE ServerBillingProofs ------------------------
(***************************************************************************)
(* Theorems about the billing of a server, for any number of sessions, any *)
(* price and any faults: the cost it shows was paid, also where sessions   *)
(* overlap; and where they do not, a run costs no more than its time.      *)
(***************************************************************************)
EXTENDS ServerBilling, TLAPS

(* Sessions that hold a server object.                                     *)
Loaded == {"listed", "remove", "quote", "debit", "record", "spawn"}

CostTypes ==
    /\ mode \in Modes
    /\ totalCost \in Nat /\ usage \in Nat /\ balance \in Nat
    /\ pc \in [Sessions -> Loaded \cup {"idle"}]
    /\ myCost \in [Sessions -> Nat] /\ amount \in [Sessions -> Nat]
    /\ myAge \in [Sessions -> Nat] /\ age \in Nat

(* What a session has loaded was paid then, and what it has taken since is *)
(* paid on top of it, whatever the others do in between.                   *)
KnownIsPaid ==
    \A s \in Sessions :
        /\ pc[s] # "idle" => myCost[s] <= usage
        /\ pc[s] = "record" => myCost[s] + amount[s] <= usage

(* A session that asks for the balance has something to settle.            *)
Owes == \A s \in Sessions : pc[s] = "quote" => Additional(s) > 0

CostInv == CostTypes /\ KnownIsPaid /\ Owes /\ RecordedIsPaid

-----------------------------------------------------------------------------
(* A session that ends takes nothing with it.                              *)
LEMMA EndKeeps ==
    ASSUME CostInv, NEW s \in Sessions, End(s),
           totalCost' \in Nat, totalCost' <= usage, balance' \in Nat, age' \in Nat,
           usage' = usage, UNCHANGED mode
    PROVE  CostInv'
  <1>1. CostTypes'
    BY DEF End, CostInv, CostTypes
  <1>2. KnownIsPaid'
    BY DEF End, CostInv, CostTypes, KnownIsPaid
  <1>3. Owes'
    BY DEF End, CostInv, CostTypes, Owes, Additional, ExactCost, AtLeastOne
  <1> QED BY <1>1, <1>2, <1>3 DEF CostInv, RecordedIsPaid

(* A session goes on without money changing hands.                         *)
LEMMA GotoKeeps ==
    ASSUME CostInv, NEW s \in Sessions, NEW l \in Loaded \ {"record"},
           l = "quote" => Additional(s) > 0,
           pc[s] # "idle", Goto(s, l), amount' \in [Sessions -> Nat],
           \A t \in Sessions \ {s} : amount'[t] = amount[t],
           UNCHANGED <<mode, totalCost, usage, balance, age>>
    PROVE  CostInv'
  <1>1. CostTypes'
    BY DEF Goto, CostInv, CostTypes, Loaded
  <1>2. KnownIsPaid'
    BY DEF Goto, CostInv, CostTypes, KnownIsPaid
  <1>3. Owes'
    BY DEF Goto, CostInv, CostTypes, Owes, Additional, ExactCost, AtLeastOne
  <1> QED BY <1>1, <1>2, <1>3 DEF CostInv, RecordedIsPaid

(* A session that loads the row loads a cost that is paid.                 *)
LEMMA LoadKeeps ==
    ASSUME CostInv, NEW s \in Sessions, NEW k, NEW l \in {"listed", "remove", "spawn"},
           Load(s, k, l), UNCHANGED <<mode, totalCost, usage, balance, age>>
    PROVE  CostInv'
  <1>1. CostTypes'
    BY DEF Load, CostInv, CostTypes, Loaded
  <1>2. KnownIsPaid'
    BY DEF Load, CostInv, CostTypes, KnownIsPaid, RecordedIsPaid
  <1>3. Owes'
    BY DEF Load, CostInv, CostTypes, Owes, Additional, ExactCost, AtLeastOne
  <1> QED BY <1>1, <1>2, <1>3 DEF CostInv, RecordedIsPaid

(* The sessions are left alone.                                            *)
LEMMA IdleKeeps ==
    ASSUME CostInv, UNCHANGED <<mode, totalCost, usage, pc, myCost, amount>>,
           balance' \in Nat, age' \in Nat, myAge' \in [Sessions -> Nat],
           \A s \in Sessions : pc[s] = "quote" => myAge'[s] = myAge[s]
    PROVE  CostInv'
  <1>1. CostTypes' /\ KnownIsPaid' /\ RecordedIsPaid'
    BY DEF CostInv, CostTypes, KnownIsPaid, RecordedIsPaid
  <1>2. Owes'
    BY DEF CostInv, Owes, Additional, ExactCost, AtLeastOne
  <1> QED BY <1>1, <1>2 DEF CostInv

(* The lock on the user row makes the debit and its row one commit.        *)
LEMMA DebitKeeps ==
    ASSUME CostInv, NEW s \in Sessions, Debit(s)
    PROVE  CostInv'
  <1>1. /\ amount[s] \in Nat /\ balance >= amount[s] /\ balance' = balance - amount[s]
        /\ usage' = usage + amount[s] /\ pc[s] = "debit"
        /\ pc' = [pc EXCEPT ![s] = "record"]
        /\ UNCHANGED <<mode, totalCost, age, myCost, myAge, amount>>
    BY DEF Debit, Goto, row, CostInv, CostTypes
  <1>2. CostTypes'
    BY <1>1 DEF CostInv, CostTypes, Loaded
  <1>3. KnownIsPaid'
    <2> SUFFICES ASSUME NEW t \in Sessions, pc'[t] # "idle"
                 PROVE  /\ myCost[t] <= usage'
                        /\ pc'[t] = "record" => myCost[t] + amount[t] <= usage'
      BY <1>1 DEF KnownIsPaid
    <2>1. /\ myCost[t] \in Nat /\ amount[t] \in Nat /\ usage \in Nat /\ myCost[t] <= usage
          /\ pc[t] = "record" => myCost[t] + amount[t] <= usage
      BY <1>1 DEF CostInv, CostTypes, KnownIsPaid
    <2>2. t # s => pc'[t] = pc[t]
      BY <1>1 DEF CostInv, CostTypes
    <2> QED BY <1>1, <2>1, <2>2
  <1>4. RecordedIsPaid'
    BY <1>1 DEF CostInv, CostTypes, RecordedIsPaid
  <1>5. Owes'
    BY <1>1 DEF CostInv, CostTypes, Owes, Additional, ExactCost, AtLeastOne
  <1> QED BY <1>2, <1>3, <1>4, <1>5 DEF CostInv

-----------------------------------------------------------------------------
(* A tick, the difference at a stop and an age are numbers.                *)
LEMMA ModeTypes ==
    ASSUME CostTypes
    PROVE  mode.price \in Nat \ {0} /\ mode.quarter \in Nat \ {0} /\ mode.balance \in Nat
  BY BillingAssumption DEF CostTypes

LEMMA BillingAmountIsNat ==
    ASSUME CostTypes
    PROVE  BillingAmount \in Nat
  <1>1. mode.price \in Nat
    BY ModeTypes
  <1> QED BY <1>1 DEF BillingAmount, AtLeastOne

LEMMA AdditionalIsInt ==
    ASSUME CostTypes, NEW s \in Sessions
    PROVE  Additional(s) \in Int
  <1>1. myAge[s] * mode.price \in Nat /\ 4 * mode.quarter \in Nat \ {0} /\ myCost[s] \in Nat
    BY ModeTypes DEF CostTypes
  <1>2. \A n \in Nat, d \in Nat \ {0} : n \div d \in Int
    OBVIOUS
  <1>3. (myAge[s] * mode.price) \div (4 * mode.quarter) \in Int
    BY <1>1, <1>2
  <1> QED BY <1>1, <1>3 DEF Additional, ExactCost, AtLeastOne

LEMMA OlderIsNat == \A a \in Nat : Older(a) \in Nat
  BY DEF Older

(* Nothing is charged and nothing is under way.                            *)
LEMMA CostInit == Init => CostInv
  <1> SUFFICES ASSUME Init PROVE CostInv
    OBVIOUS
  <1>1. mode \in Modes /\ mode.balance \in Nat
    BY BillingAssumption DEF Init
  <1> QED BY <1>1 DEF Init, CostInv, CostTypes, KnownIsPaid, Owes, RecordedIsPaid, Loaded

(* One step of a session.                                                  *)
LEMMA CostStep ==
    ASSUME CostInv, NEW s \in Sessions, Step(s)
    PROVE  CostInv'
  <1>1. CASE ReadBalance(s)
    BY <1>1, GotoKeeps, BillingAmountIsNat
       DEF ReadBalance, row, money, CostInv, CostTypes, Loaded
  <1>2. CASE Remove(s)
    <2>1. CASE End(s)
      BY <1>2, <2>1, EndKeeps DEF Remove, money, CostInv, CostTypes, RecordedIsPaid
    <2>2. CASE Additional(s) > 0 /\ Goto(s, "quote") /\ UNCHANGED amount
      BY <1>2, <2>2, GotoKeeps DEF Remove, money, CostInv, CostTypes, Loaded
    <2> QED BY <1>2, <2>1, <2>2 DEF Remove
  <1>3. CASE Quote(s)
    <2>1. CASE End(s)
      BY <1>3, <2>1, EndKeeps DEF Quote, row, money, CostInv, CostTypes, RecordedIsPaid
    <2>2. CASE /\ Goto(s, "debit") /\ balance > 0
               /\ amount' = [amount EXCEPT ![s] =
                     IF balance >= Additional(s) THEN Additional(s) ELSE balance]
      <3>1. (IF balance >= Additional(s) THEN Additional(s) ELSE balance) \in Nat
        <4>1. Additional(s) > 0 /\ Additional(s) \in Int /\ balance \in Nat
          BY <1>3, AdditionalIsInt DEF Quote, CostInv, CostTypes, Owes
        <4> QED BY <4>1
      <3> QED BY <1>3, <2>2, <3>1, GotoKeeps DEF Quote, row, money, CostInv, CostTypes, Loaded
    <2> QED BY <1>3, <2>1, <2>2 DEF Quote
  <1>4. CASE Debit(s)
    BY <1>4, DebitKeeps
  <1>5. CASE DebitRefused(s)
    BY <1>5, EndKeeps DEF DebitRefused, row, money, CostInv, CostTypes, RecordedIsPaid
  <1>6. CASE Record(s)
    <2>1. myCost[s] + amount[s] \in Nat /\ myCost[s] + amount[s] <= usage
      BY <1>6 DEF Record, CostInv, CostTypes, KnownIsPaid
    <2> QED BY <1>6, <2>1, EndKeeps DEF Record, money, CostInv, CostTypes
  <1>7. CASE Started(s)
    BY <1>7, EndKeeps DEF Started, CostInv, CostTypes, RecordedIsPaid
  <1> QED BY <1>1, <1>2, <1>3, <1>4, <1>5, <1>6, <1>7 DEF Step

(* The actions one by one.                                                 *)
LEMMA CostNext == CostInv /\ [Next]_vars => CostInv'
  <1> SUFFICES ASSUME CostInv, [Next]_vars PROVE CostInv'
    OBVIOUS
  <1>1. /\ balance \in Nat /\ age \in Nat /\ myAge \in [Sessions -> Nat]
        /\ totalCost \in Nat /\ totalCost <= usage
    BY DEF CostInv, CostTypes, RecordedIsPaid
  <1>2. CASE UNCHANGED vars
    BY <1>1, <1>2, IdleKeeps DEF vars, row, money, task
  <1>3. CASE Time
    <2>1. age' \in Nat /\ myAge' \in [Sessions -> Nat]
      BY <1>1, <1>3, OlderIsNat DEF Time
    <2>2. \A s \in Sessions : pc[s] = "quote" => myAge'[s] = myAge[s]
      BY <1>3 DEF Time
    <2> QED BY <1>1, <1>3, <2>1, <2>2, IdleKeeps DEF Time, money
  <1>4. CASE Grant \/ Spend
    BY <1>1, <1>4, IdleKeeps DEF Grant, Spend, row, task
  <1>5. ASSUME NEW s \in Sessions, Bill(s) PROVE CostInv'
    <2>1. CASE Load(s, "bill", "listed")
      BY <1>5, <2>1, LoadKeeps DEF Bill, row, money
    <2>2. CASE UNCHANGED task
      BY <1>1, <1>5, <2>2, IdleKeeps DEF Bill, row, money, task
    <2> QED BY <1>5, <2>1, <2>2 DEF Bill
  <1>6. ASSUME NEW s \in Sessions, Start(s) PROVE CostInv'
    BY <1>6, LoadKeeps DEF Start, row, money
  <1>7. ASSUME NEW s \in Sessions, NEW k \in AllStops, Stop(s, k) PROVE CostInv'
    BY <1>7, LoadKeeps DEF Stop, row, money
  <1>8. ASSUME NEW s \in Sessions, FindExited(s) \/ Fault(s) PROVE CostInv'
    BY <1>1, <1>8, EndKeeps DEF FindExited, Fault, row, money
  <1>9. ASSUME NEW s \in Sessions, Step(s) PROVE CostInv'
    BY <1>9, CostStep
  <1> QED BY <1>2, <1>3, <1>4, <1>5, <1>6, <1>7, <1>8, <1>9 DEF Next

(* total_cost of tasks.py and credit_service.py: however many ticks and    *)
(* stops overlap, overwrite each other's total_cost or end between two     *)
(* commits, the cost a server shows was taken from its owner.              *)
THEOREM CostIsPaid == Spec => []RecordedIsPaid
  <1>1. CostInv => RecordedIsPaid
    BY DEF CostInv
  <1> QED BY <1>1, CostInit, CostNext, PTL DEF Spec

-----------------------------------------------------------------------------
(* What a run costs while no two operations overlap. The ticks of the run  *)
(* that have been paid, those under way and those that wait come to no     *)
(* more than the beats since it began, and those that waited then; and all *)
(* that was paid is in total_cost, but for the debit that is about to be   *)
(* recorded and those that a fault has kept from it.                       *)

FairTypes ==
    /\ status \in {"running", "stopped"} /\ paid \in Nat /\ faults \in Nat
    /\ phase \in 0 .. mode.quarter - 1 /\ due \in 0 .. mode.due

Solo == \A s, t \in Sessions : pc[s] # "idle" /\ pc[t] # "idle" => s = t

Difference == ExactCost(age) - totalCost

(* The server object of a session is what the row says; a debit is a tick  *)
(* as long as the server runs, and a settlement once it is stopped.        *)
Current == \A s \in Sessions :
    /\ pc[s] # "idle" => myCost[s] = totalCost
    /\ pc[s] \in {"listed", "remove", "quote"} => myAge[s] = age
    /\ pc[s] \in {"listed", "remove"} => status = "running"
    /\ pc[s] = "quote" => status = "stopped"
    /\ pc[s] = "debit" => amount[s] <= IF status = "running" THEN BillingAmount ELSE Difference
    /\ pc[s] \in {"debit", "record"} /\ status = "running" => amount[s] = BillingAmount

AnyAt(P) == IF \E s \in Sessions : pc[s] \in P THEN 1 ELSE 0

(* n ticks of this run are paid.                                           *)
Ticks(n) ==
    /\ paid <= n * BillingAmount
    /\ mode.quarter * (n + due + AnyAt({"listed", "debit"}))
          <= mode.quarter * mode.due + mode.quarter - 1 + age - phase

Ticking == status = "running" => \E n \in Nat : Ticks(n)

Recorded ==
    status = "running" \/ AnyAt({"quote", "debit"}) = 1 =>
        paid <= totalCost + (faults + AnyAt({"record"})) * BillingAmount

Price == Dearer(ExactCost(age), TickCost(age)) + (1 + mode.due + faults) * BillingAmount

Settled == status = "stopped" => paid <= Price

FairBody == Current /\ Recorded /\ (age < mode.ages => Ticking /\ Settled)

FairInv == FairTypes /\ (mode.serial => Solo /\ FairBody)

-----------------------------------------------------------------------------
(* Arithmetic of beats, ticks and rounding.                                *)

LEMMA TimesMono == \A a, b \in Int, c \in Nat : a <= b => a * c <= b * c
  OBVIOUS

LEMMA DivIsNat == \A y \in Nat, q \in Nat \ {0} : y \div q \in Nat
  OBVIOUS

LEMMA DivIsFloor == \A y \in Nat, q \in Nat \ {0} : q * (y \div q) <= y
  OBVIOUS

LEMMA DivIsLargest ==
    ASSUME NEW x \in Int, NEW y \in Nat, NEW q \in Nat \ {0}, x * q <= y
    PROVE  x <= y \div q
  OBVIOUS

LEMMA ExactIsFair ==
    ASSUME NEW e \in Nat, NEW t \in Nat, NEW w \in Nat, NEW k \in Nat, NEW b \in Nat,
           NEW p \in Nat, p <= e + k * b
    PROVE  p <= Dearer(e, t) + (1 + w + k) * b
  <1>1. (1 + w + k) * b = (1 + w) * b + k * b /\ (1 + w) * b \in Nat /\ k * b \in Nat
    OBVIOUS
  <1> QED BY <1>1 DEF Dearer

(* A unit of time adds one to the age, and one to the phase or one beat.   *)
LEMMA TicksInTime ==
    ASSUME NEW q \in Nat \ {0}, NEW n \in Nat, NEW d \in Nat, NEW i \in Nat, NEW w \in Nat,
           NEW a \in Nat, NEW f \in 0 .. q - 1, NEW d2 \in Nat, NEW f2,
           f2 = (f + 1) % q, d2 = d \/ (f2 = 0 /\ d2 = d + 1),
           q * (n + d + i) <= q * w + q - 1 + a - f
    PROVE  q * (n + d2 + i) <= q * w + q - 1 + (a + 1) - f2
  <1>1. CASE f + 1 < q
    <2>1. f2 = f + 1
      BY <1>1
    <2> QED BY <1>1, <2>1
  <1>2. CASE f + 1 = q
    <2>1. f2 = 0
      BY <1>2
    <2>2. q * (n + d + 1 + i) = q * (n + d + i) + q
      OBVIOUS
    <2> QED BY <1>2, <2>1, <2>2
  <1> QED BY <1>1, <1>2

(* n ticks of b credits, no more of them than beats and what had waited.   *)
LEMMA TicksAreFair ==
    ASSUME NEW q \in Nat \ {0}, NEW b \in Nat, NEW n \in Nat, NEW d \in Nat, NEW i \in Nat,
           NEW w \in Nat, NEW a \in Nat, NEW f \in Nat, NEW p \in Nat, NEW k \in Nat,
           p <= n * b, q * (n + d + i) <= q * w + q - 1 + a - f
    PROVE  p <= (a * b) \div q + (1 + w + k) * b
  <1> DEFINE x == n - w - 1
  <1>1. x * q <= a
    <2>1. q * (n + d + i) = q * n + q * d + q * i /\ q * d \in Nat /\ q * i \in Nat
      OBVIOUS
    <2>2. x * q = q * n - q * w - q
      OBVIOUS
    <2> QED BY <2>1, <2>2
  <1>2. (x * b) * q <= a * b
    <2>1. x * q * b <= a * b
      BY <1>1, TimesMono
    <2> QED BY <2>1
  <1>3. x * b <= (a * b) \div q
    BY <1>2, DivIsLargest
  <1>4. n * b = x * b + (1 + w) * b /\ (1 + w + k) * b = (1 + w) * b + k * b /\ k * b \in Nat
    OBVIOUS
  <1>5. (a * b) \div q \in Nat
    BY DivIsNat
  <1> QED BY <1>3, <1>4, <1>5

-----------------------------------------------------------------------------
LEMMA FairFacts ==
    ASSUME CostTypes
    PROVE  /\ BillingAmount \in Nat /\ mode.quarter \in Nat \ {0}
           /\ mode.due \in Nat /\ mode.ages \in Nat
           /\ ExactCost(age) \in Nat /\ TickCost(age) \in Nat
  <1>1. mode.price \in Nat /\ mode.quarter \in Nat \ {0} /\ mode.due \in Nat /\ mode.ages \in Nat
    BY BillingAssumption DEF CostTypes
  <1>2. BillingAmount \in Nat /\ age \in Nat
    BY BillingAmountIsNat DEF CostTypes
  <1>3. age * mode.price \in Nat /\ 4 * mode.quarter \in Nat \ {0} /\ age * BillingAmount \in Nat
    BY <1>1, <1>2
  <1>4. ExactCost(age) \in Nat
    BY <1>3, DivIsNat DEF ExactCost, AtLeastOne
  <1>5. TickCost(age) \in Nat
    BY <1>1, <1>3, DivIsNat DEF TickCost
  <1> QED BY <1>1, <1>2, <1>4, <1>5

LEMMA FairInit == Init => FairInv
  <1> SUFFICES ASSUME Init PROVE FairInv
    OBVIOUS
  <1>1. CostTypes
    BY CostInit DEF CostInv
  <1>2. FairTypes
    BY <1>1, FairFacts DEF Init, FairTypes
  <1>3. Solo /\ Current
    BY DEF Init, Solo, Current
  <1>4. AnyAt({"listed", "debit"}) = 0 /\ AnyAt({"record"}) = 0
    BY DEF Init, AnyAt
  <1>5. Recorded
    BY <1>1, <1>4, FairFacts DEF Init, Recorded
  <1>6. Ticks(0)
    BY <1>1, <1>4, FairFacts DEF Init, Ticks
  <1> QED BY <1>2, <1>3, <1>5, <1>6 DEF FairInv, FairBody, Ticking, Settled, Init

(* What any step leaves in the row and with the beat.                      *)
LEMMA FairTypesNext == CostInv /\ FairTypes /\ [Next]_vars => FairTypes' /\ mode' = mode
  <1> SUFFICES ASSUME CostInv, FairTypes, [Next]_vars PROVE FairTypes' /\ mode' = mode
    OBVIOUS
  <1>1. mode.quarter \in Nat \ {0} /\ mode.due \in Nat
    BY FairFacts DEF CostInv
  <1> USE <1>1 DEF FairTypes, row, money, beat, bounds
  <1>2. CASE Time
    BY <1>2 DEF Time
  <1>3. CASE Grant \/ Spend
    BY <1>3 DEF Grant, Spend
  <1>4. ASSUME NEW s \in Sessions, Bill(s) PROVE FairTypes' /\ mode' = mode
    BY <1>4 DEF Bill
  <1>5. ASSUME NEW s \in Sessions, Start(s) PROVE FairTypes' /\ mode' = mode
    BY <1>5 DEF Start
  <1>6. ASSUME NEW s \in Sessions, NEW k \in AllStops, Stop(s, k) PROVE FairTypes' /\ mode' = mode
    BY <1>6 DEF Stop
  <1>7. ASSUME NEW s \in Sessions, FindExited(s) \/ Fault(s) PROVE FairTypes' /\ mode' = mode
    BY <1>7 DEF FindExited, Fault
  <1>8. ASSUME NEW s \in Sessions, Debit(s) PROVE FairTypes' /\ mode' = mode
    BY <1>8 DEF Debit, CostInv, CostTypes
  <1>9. ASSUME NEW s \in Sessions, Remove(s) \/ Started(s) PROVE FairTypes' /\ mode' = mode
    BY <1>9 DEF Remove, Committed, Started
  <1>10. ASSUME NEW s \in Sessions, ReadBalance(s) \/ Quote(s) \/ DebitRefused(s) \/ Record(s)
         PROVE  FairTypes' /\ mode' = mode
    BY <1>10 DEF ReadBalance, Quote, DebitRefused, Record
  <1>11. CASE UNCHANGED vars
    BY <1>11 DEF vars
  <1> QED
    BY <1>2, <1>3, <1>4, <1>5, <1>6, <1>7, <1>8, <1>9, <1>10, <1>11 DEF Next, Step

(* The invariants of a platform on which no two operations overlap.        *)
SerialInv == CostInv /\ FairTypes /\ mode.serial /\ Solo /\ FairBody

(* The row and what is paid stay.                                          *)
LEMMA FairKept ==
    ASSUME SerialInv, FairTypes', Current', UNCHANGED <<mode, status, totalCost, age, paid, phase>>,
           faults' >= faults,
           status = "running" =>
               /\ due' + AnyAt({"listed", "debit"})' <= due + AnyAt({"listed", "debit"})
               /\ faults' + AnyAt({"record"})' >= faults + AnyAt({"record"}),
           AnyAt({"quote", "debit"})' = 1 /\ status = "stopped" =>
               AnyAt({"quote", "debit"}) = 1 /\ AnyAt({"record"}) = 0
    PROVE  FairBody'
  <1> DEFINE b == BillingAmount
             q == mode.quarter
  <1>1. b \in Nat /\ q \in Nat \ {0} /\ mode.due \in Nat /\ ExactCost(age) \in Nat
        /\ TickCost(age) \in Nat /\ paid \in Nat /\ totalCost \in Nat /\ faults \in Nat
        /\ faults' \in Nat /\ due \in Nat /\ due' \in Nat /\ age \in Nat /\ phase \in Nat
    BY FairFacts DEF SerialInv, CostInv, CostTypes, FairTypes
  <1>2. BillingAmount' = b /\ mode'.quarter = q /\ ExactCost(age)' = ExactCost(age)
        /\ TickCost(age)' = TickCost(age)
    BY DEF BillingAmount, ExactCost, TickCost
  <1>3. \A P : AnyAt(P) \in {0, 1} /\ AnyAt(P)' \in {0, 1}
    BY DEF AnyAt
  <1>4. Recorded'
    <2> SUFFICES ASSUME status = "running" \/ AnyAt({"quote", "debit"})' = 1
                 PROVE  paid <= totalCost + (faults' + AnyAt({"record"})') * b
      BY <1>2 DEF Recorded
    <2> DEFINE k == faults + AnyAt({"record"})
               m == faults' + AnyAt({"record"})'
    <2>1. k <= m /\ paid <= totalCost + k * b /\ k \in Nat /\ m \in Nat
      BY <1>1, <1>3 DEF SerialInv, FairBody, Recorded, FairTypes
    <2>2. k * b <= m * b
      BY <1>1, <2>1, TimesMono
    <2> HIDE DEF k, m, b
    <2>3. paid <= totalCost + m * b
      BY <1>1, <2>1, <2>2
    <2> QED BY <2>3 DEF m
  <1>5. age < mode.ages => Ticking'
    <2> SUFFICES ASSUME age < mode.ages, status = "running", NEW n \in Nat, Ticks(n)
                 PROVE  Ticks(n)'
      BY DEF SerialInv, FairBody, Ticking
    <2> DEFINE k == n + due + AnyAt({"listed", "debit"})
               m == n + due' + AnyAt({"listed", "debit"})'
    <2>1. m <= k /\ k \in Nat /\ m \in Nat
      BY <1>1, <1>3
    <2>2. q * m <= q * k
      BY <1>1, <2>1, TimesMono
    <2>3. q * k <= q * mode.due + q - 1 + age - phase /\ paid <= n * b
      BY DEF Ticks
    <2> HIDE DEF k, m
    <2>4. q * m <= q * mode.due + q - 1 + age - phase
      BY <1>1, <2>1, <2>2, <2>3
    <2> QED BY <1>2, <2>3, <2>4 DEF Ticks, m
  <1>6. age < mode.ages => Settled'
    <2> SUFFICES ASSUME age < mode.ages, status = "stopped" PROVE paid <= Price'
      BY DEF Settled
    <2>1. (1 + mode.due + faults) * b <= (1 + mode.due + faults') * b
      BY <1>1, TimesMono
    <2>2. paid <= Price
      BY DEF SerialInv, FairBody, Settled
    <2> QED BY <1>1, <1>2, <2>1, <2>2 DEF Price, Dearer
  <1> QED BY <1>4, <1>5, <1>6 DEF FairBody

(* A session takes up the row: all others rest.                            *)
LEMMA FairLoad ==
    ASSUME SerialInv, FairTypes', NEW s \in Sessions, NEW k, NEW l \in {"listed", "remove", "spawn"},
           Load(s, k, l), l = "spawn" \/ status = "running",
           due' = IF l = "listed" THEN due - 1 ELSE due,
           UNCHANGED <<mode, status, totalCost, age, paid, phase, faults>>
    PROVE  Solo' /\ FairBody'
  <1>1. /\ pc' = [pc EXCEPT ![s] = l] /\ myCost' = [myCost EXCEPT ![s] = totalCost]
        /\ myAge' = [myAge EXCEPT ![s] = age] /\ \A t \in Sessions : pc[t] = "idle"
    BY DEF Load, Alone, SerialInv
  <1>2. pc'[s] = l /\ \A t \in Sessions \ {s} : pc'[t] = "idle"
    BY <1>1 DEF SerialInv, CostInv, CostTypes
  <1>3. Solo'
    BY <1>2 DEF Solo
  <1>4. Current'
    BY <1>1, <1>2 DEF Current, SerialInv, CostInv, CostTypes
  <1>5. /\ AnyAt({"listed", "debit"}) = 0 /\ AnyAt({"record"}) = 0
        /\ AnyAt({"record"})' = 0 /\ AnyAt({"quote", "debit"})' = 0
        /\ AnyAt({"listed", "debit"})' = IF l = "listed" THEN 1 ELSE 0
    BY <1>1, <1>2 DEF AnyAt
  <1>6. due \in Nat /\ due' \in Nat /\ faults \in Nat /\ mode.due \in Nat
    BY FairFacts DEF SerialInv, CostInv, FairTypes
  <1>7. due' + AnyAt({"listed", "debit"})' <= due + AnyAt({"listed", "debit"})
    BY <1>5, <1>6
  <1> QED BY <1>3, <1>4, <1>5, <1>6, <1>7, FairKept

(* A session gives up, or is cut short, before it has written anything:    *)
(* what it had taken is no longer going to be recorded.                    *)
LEMMA FairGivesUp ==
    ASSUME SerialInv, FairTypes', NEW s \in Sessions, End(s), pc[s] # "idle",
           UNCHANGED <<mode, status, totalCost, age, paid, phase, due>>,
           faults' = faults + 1 \/ (faults' = faults /\ pc[s] # "record")
    PROVE  Solo' /\ FairBody'
  <1>1. \A t \in Sessions : pc'[t] = "idle"
    BY DEF End, SerialInv, Solo, CostInv, CostTypes
  <1>2. Solo' /\ Current'
    BY <1>1 DEF Solo, Current
  <1>3. /\ AnyAt({"listed", "debit"})' = 0 /\ AnyAt({"record"})' = 0
        /\ AnyAt({"quote", "debit"})' = 0
    BY <1>1 DEF AnyAt
  <1>4. AnyAt({"listed", "debit"}) \in {0, 1} /\ AnyAt({"record"}) \in {0, 1}
        /\ (pc[s] # "record" => AnyAt({"record"}) = 0)
    BY DEF AnyAt, SerialInv, Solo
  <1>5. due \in Nat /\ faults \in Nat /\ mode.due \in Nat
    BY FairFacts DEF SerialInv, CostInv, FairTypes
  <1> QED BY <1>2, <1>3, <1>4, <1>5, FairKept

(* The balance is read, or the difference quoted.                          *)
LEMMA FairMoves ==
    ASSUME SerialInv, FairTypes', NEW s \in Sessions, NEW l \in {"debit", "remove"}, Goto(s, l),
           UNCHANGED <<mode, status, totalCost, age, paid, phase, due, faults>>,
           pc[s] \in {"listed", "quote"}, pc[s] = "quote" => l = "debit",
           l = "debit" => amount'[s] <= IF status = "running" THEN BillingAmount ELSE Difference,
           l = "debit" /\ status = "running" => amount'[s] = BillingAmount
    PROVE  Solo' /\ FairBody'
  <1>1. pc' = [pc EXCEPT ![s] = l] /\ UNCHANGED <<myCost, myAge>>
    BY DEF Goto
  <1>2. pc'[s] = l /\ \A t \in Sessions \ {s} : pc[t] = "idle" /\ pc'[t] = "idle"
    BY <1>1 DEF SerialInv, Solo, CostInv, CostTypes
  <1>3. Solo'
    BY <1>2 DEF Solo
  <1>4. BillingAmount' = BillingAmount /\ Difference' = Difference
    BY DEF BillingAmount, Difference, ExactCost
  <1>5. /\ myCost[s] = totalCost /\ myAge[s] = age
        /\ pc[s] = "listed" => status = "running"
        /\ pc[s] = "quote" => status = "stopped"
    BY DEF SerialInv, FairBody, Current
  <1>6. Current'
    BY <1>1, <1>2, <1>4, <1>5 DEF Current
  <1>7. /\ AnyAt({"listed", "debit"})' \in {0, 1}
        /\ AnyAt({"record"})' = 0 /\ AnyAt({"record"}) = 0
        /\ pc[s] = "listed" => AnyAt({"listed", "debit"}) = 1
        /\ pc[s] = "quote" => AnyAt({"quote", "debit"}) = 1
    BY <1>2 DEF AnyAt
  <1>8. due \in Nat /\ faults \in Nat /\ mode.due \in Nat
    BY FairFacts DEF SerialInv, CostInv, FairTypes
  <1>9. status = "running" =>
           /\ due' + AnyAt({"listed", "debit"})' <= due + AnyAt({"listed", "debit"})
           /\ faults' + AnyAt({"record"})' >= faults + AnyAt({"record"})
    BY <1>5, <1>7, <1>8
  <1>10. AnyAt({"quote", "debit"})' = 1 /\ status = "stopped" =>
           AnyAt({"quote", "debit"}) = 1 /\ AnyAt({"record"}) = 0
    BY <1>5, <1>7
  <1> QED BY <1>3, <1>6, <1>8, <1>9, <1>10, FairKept

LEMMA FairTime ==
    ASSUME SerialInv, FairTypes', Time
    PROVE  Solo' /\ FairBody'
  <1> DEFINE b == BillingAmount
             q == mode.quarter
  <1>1. /\ UNCHANGED <<mode, status, totalCost, paid, pc, myCost, amount, faults>>
        /\ age' = IF status = "running" THEN Older(age) ELSE age
    BY DEF Time, money, bounds
  <1>2. /\ b \in Nat /\ q \in Nat \ {0} /\ mode.due \in Nat /\ mode.ages \in Nat
        /\ age \in Nat /\ due \in Nat /\ due' \in Nat /\ phase \in 0 .. q - 1
        /\ status \in {"running", "stopped"}
    BY <1>1, FairFacts DEF SerialInv, CostInv, CostTypes, FairTypes
  <1>3. BillingAmount' = b /\ \A P : AnyAt(P)' = AnyAt(P) /\ AnyAt(P) \in {0, 1}
    BY <1>1 DEF BillingAmount, AnyAt
  <1>4. status = "stopped" => UNCHANGED <<Difference, ExactCost(age), TickCost(age)>>
    BY <1>1 DEF Difference, ExactCost, TickCost, BillingAmount
  <1>5. Solo'
    BY <1>1 DEF SerialInv, Solo
  <1>6. Current'
    <2> SUFFICES ASSUME NEW s \in Sessions
                 PROVE  /\ pc[s] # "idle" => myCost[s] = totalCost
                        /\ pc[s] \in {"listed", "remove", "quote"} => myAge'[s] = age'
                        /\ pc[s] \in {"listed", "remove"} => status = "running"
                        /\ pc[s] = "quote" => status = "stopped"
                        /\ pc[s] = "debit" => amount[s] <= IF status = "running" THEN b ELSE Difference'
                        /\ pc[s] \in {"debit", "record"} /\ status = "running" => amount[s] = b
      BY <1>1, <1>3 DEF Current
    <2>1. myAge'[s] = IF pc[s] \in {"listed", "remove"} THEN Older(myAge[s]) ELSE myAge[s]
      BY DEF Time
    <2>2. /\ pc[s] # "idle" => myCost[s] = totalCost
          /\ pc[s] \in {"listed", "remove", "quote"} => myAge[s] = age
          /\ pc[s] \in {"listed", "remove"} => status = "running"
          /\ pc[s] = "quote" => status = "stopped"
          /\ pc[s] = "debit" => amount[s] <= IF status = "running" THEN b ELSE Difference
          /\ pc[s] \in {"debit", "record"} /\ status = "running" => amount[s] = b
      BY DEF SerialInv, FairBody, Current
    <2>3. pc[s] \in {"listed", "remove", "quote"} => myAge'[s] = age'
      BY <1>1, <2>1, <2>2
    <2> HIDE DEF b
    <2> QED BY <1>2, <1>4, <2>2, <2>3
  <1>7. Recorded'
    BY <1>1, <1>3 DEF SerialInv, FairBody, Recorded
  <1>8. ASSUME age' < mode.ages PROVE Ticking'
    <2> SUFFICES ASSUME status = "running" PROVE \E n \in Nat : Ticks(n)'
      BY <1>1 DEF Ticking
    <2>1. age < mode.ages /\ age' = age + 1
      BY <1>1, <1>2, <1>8 DEF Older
    <2>2. PICK n \in Nat : Ticks(n)
      BY <2>1 DEF SerialInv, FairBody, Ticking
    <2> DEFINE i == AnyAt({"listed", "debit"})
    <2>3. paid <= n * b /\ q * (n + due + i) <= q * mode.due + q - 1 + age - phase
      BY <2>2 DEF Ticks
    <2>4. phase' = (phase + 1) % q /\ (due' = due \/ (phase' = 0 /\ due' = due + 1)) /\ i \in Nat
      BY <1>2, <1>3 DEF Time
    <2>5. q * (n + due' + i) <= q * mode.due + q - 1 + (age + 1) - phase'
      <3> HIDE DEF i, q
      <3> QED BY <1>2, <2>3, <2>4, TicksInTime
    <2>6. Ticks(n)'
      BY <1>1, <1>3, <2>1, <2>3, <2>5 DEF Ticks
    <2> QED BY <2>6
  <1>9. ASSUME age' < mode.ages PROVE Settled'
    <2> SUFFICES ASSUME status = "stopped" PROVE paid <= Price'
      BY <1>1 DEF Settled
    <2>1. paid <= Price
      BY <1>1, <1>9 DEF SerialInv, FairBody, Settled
    <2> QED BY <1>1, <1>3, <1>4, <2>1 DEF Price
  <1> QED BY <1>1, <1>5, <1>6, <1>7, <1>8, <1>9 DEF FairBody

(* While the server runs the ticks are fair.                               *)
LEMMA RunningIsFair ==
    ASSUME SerialInv, status = "running", age < mode.ages
    PROVE  paid <= Price
  <1>1. PICK n \in Nat : Ticks(n)
    BY DEF SerialInv, FairBody, Ticking
  <1> DEFINE b == BillingAmount
             q == mode.quarter
             i == AnyAt({"listed", "debit"})
  <1>2. paid <= n * b /\ q * (n + due + i) <= q * mode.due + q - 1 + age - phase
    BY <1>1 DEF Ticks
  <1>3. /\ b \in Nat /\ q \in Nat \ {0} /\ mode.due \in Nat /\ ExactCost(age) \in Nat
        /\ TickCost(age) \in Nat /\ age \in Nat /\ due \in Nat /\ phase \in Nat /\ paid \in Nat
        /\ faults \in Nat
    BY FairFacts DEF SerialInv, CostInv, CostTypes, FairTypes
  <1>4. i \in Nat
    BY DEF AnyAt
  <1>5. paid <= (age * b) \div q + (1 + mode.due + faults) * b
    <2> HIDE DEF b, q, i
    <2> QED BY <1>2, <1>3, <1>4, TicksAreFair
  <1> QED BY <1>3, <1>5 DEF Price, Dearer, TickCost

(* The server is stopped; if its stop settles, the session goes on.        *)
LEMMA FairStops ==
    ASSUME SerialInv, FairTypes', NEW s \in Sessions, pc[s] = "remove", status' = "stopped",
           UNCHANGED <<mode, totalCost, age, paid, phase, due, faults>>,
           End(s) \/ (Goto(s, "quote") /\ UNCHANGED amount)
    PROVE  Solo' /\ FairBody'
  <1>1. \A t \in Sessions \ {s} : pc[t] = "idle" /\ pc'[t] = "idle"
    BY DEF SerialInv, Solo, CostInv, CostTypes, Goto, End
  <1>2. /\ status = "running" /\ myCost[s] = totalCost /\ myAge[s] = age
        /\ pc'[s] = "idle" \/ (pc'[s] = "quote" /\ UNCHANGED <<myCost, myAge>>)
    BY DEF SerialInv, FairBody, Current, CostInv, CostTypes, Goto, End
  <1>3. Solo' /\ Current'
    BY <1>1, <1>2 DEF Solo, Current
  <1>4. AnyAt({"record"}) = 0 /\ AnyAt({"record"})' = 0
    BY <1>1, <1>2 DEF AnyAt
  <1>5. BillingAmount' = BillingAmount /\ Price' = Price
    BY DEF BillingAmount, Price, ExactCost, TickCost
  <1>6. Recorded'
    BY <1>2, <1>4, <1>5 DEF SerialInv, FairBody, Recorded
  <1>7. age < mode.ages => Settled' /\ Ticking'
    BY <1>2, <1>5, RunningIsFair DEF Settled, Ticking
  <1> QED BY <1>3, <1>6, <1>7 DEF FairBody

LEMMA FairDebit ==
    ASSUME SerialInv, FairTypes', NEW s \in Sessions, Debit(s)
    PROVE  Solo' /\ FairBody'
  <1> DEFINE b == BillingAmount
             q == mode.quarter
             m == amount[s]
  <1>1. /\ pc[s] = "debit" /\ pc' = [pc EXCEPT ![s] = "record"] /\ paid' = paid + m
        /\ UNCHANGED <<mode, status, totalCost, age, phase, due, faults, amount, myCost, myAge>>
    BY DEF Debit, Goto, row, beat, bounds
  <1>2. pc'[s] = "record" /\ \A t \in Sessions \ {s} : pc[t] = "idle" /\ pc'[t] = "idle"
    BY <1>1 DEF SerialInv, Solo, CostInv, CostTypes
  <1>3. /\ myCost[s] = totalCost /\ m <= (IF status = "running" THEN b ELSE Difference)
        /\ status = "running" => m = b
    BY <1>1 DEF SerialInv, FairBody, Current
  <1>4. BillingAmount' = b /\ Price' = Price
    BY <1>1 DEF BillingAmount, Price, ExactCost, TickCost
  <1>5. Solo' /\ Current'
    BY <1>1, <1>2, <1>3, <1>4 DEF Solo, Current
  <1>6. /\ AnyAt({"record"}) = 0 /\ AnyAt({"record"})' = 1 /\ AnyAt({"quote", "debit"}) = 1
        /\ AnyAt({"quote", "debit"})' = 0 /\ AnyAt({"listed", "debit"}) = 1
        /\ AnyAt({"listed", "debit"})' = 0
    BY <1>1, <1>2 DEF AnyAt
  <1>7. /\ b \in Nat /\ q \in Nat \ {0} /\ mode.due \in Nat /\ ExactCost(age) \in Nat
        /\ TickCost(age) \in Nat /\ age \in Nat /\ due \in Nat /\ phase \in Nat /\ paid \in Nat
        /\ faults \in Nat /\ totalCost \in Nat /\ m \in Nat /\ status \in {"running", "stopped"}
    BY FairFacts DEF SerialInv, CostInv, CostTypes, FairTypes
  <1>8. paid <= totalCost + faults * b
    BY <1>6, <1>7 DEF SerialInv, FairBody, Recorded
  <1>9. Recorded'
    <2> SUFFICES ASSUME status = "running" PROVE paid + b <= totalCost + (faults + 1) * b
      BY <1>1, <1>3, <1>4, <1>6 DEF Recorded
    <2> HIDE DEF b
    <2> QED BY <1>7, <1>8
  <1>10. ASSUME age < mode.ages PROVE Ticking'
    <2> SUFFICES ASSUME status = "running" PROVE \E n \in Nat : Ticks(n)'
      BY <1>1 DEF Ticking
    <2>1. PICK n \in Nat : Ticks(n)
      BY <1>10 DEF SerialInv, FairBody, Ticking
    <2>2. paid <= n * b /\ q * (n + due + 1) <= q * mode.due + q - 1 + age - phase
      BY <1>6, <2>1 DEF Ticks
    <2>3. paid + b <= (n + 1) * b /\ q * (n + 1 + due + 0) <= q * mode.due + q - 1 + age - phase
      <3> HIDE DEF b, q
      <3> QED BY <1>7, <2>2
    <2>4. Ticks(n + 1)'
      BY <1>1, <1>3, <1>4, <1>6, <2>3 DEF Ticks
    <2> QED BY <2>4
  <1>11. ASSUME age < mode.ages PROVE Settled'
    <2> SUFFICES ASSUME status = "stopped" PROVE paid + m <= Price
      BY <1>1, <1>4 DEF Settled
    <2>1. paid + m <= ExactCost(age) + faults * b
      BY <1>3, <1>7, <1>8 DEF Difference
    <2>2. paid + m \in Nat
      BY <1>7
    <2> HIDE DEF b, m
    <2>3. paid + m <= Dearer(ExactCost(age), TickCost(age)) + (1 + mode.due + faults) * b
      BY <1>7, <2>1, <2>2, ExactIsFair
    <2> QED BY <2>3 DEF Price, b
  <1> QED BY <1>1, <1>5, <1>9, <1>10, <1>11 DEF FairBody

LEMMA FairRecord ==
    ASSUME SerialInv, FairTypes', NEW s \in Sessions, Record(s)
    PROVE  Solo' /\ FairBody'
  <1> DEFINE b == BillingAmount
  <1>1. /\ pc[s] = "record" /\ totalCost' = myCost[s] + amount[s]
        /\ UNCHANGED <<mode, status, age, paid, phase, due, faults>>
    BY DEF Record, money, beat, bounds
  <1>2. \A t \in Sessions : pc'[t] = "idle"
    BY <1>1 DEF Record, End, SerialInv, Solo, CostInv, CostTypes
  <1>3. Solo' /\ Current'
    BY <1>2 DEF Solo, Current
  <1>4. /\ AnyAt({"record"}) = 1 /\ AnyAt({"record"})' = 0 /\ AnyAt({"quote", "debit"})' = 0
        /\ AnyAt({"listed", "debit"})' = 0 /\ AnyAt({"listed", "debit"}) = 0
    BY <1>1, <1>2 DEF AnyAt, SerialInv, Solo
  <1>5. BillingAmount' = b /\ Price' = Price
    BY <1>1 DEF BillingAmount, Price, ExactCost, TickCost
  <1>6. b \in Nat /\ paid \in Nat /\ faults \in Nat /\ totalCost \in Nat
    BY FairFacts DEF SerialInv, CostInv, CostTypes, FairTypes
  <1>7. Recorded'
    <2> SUFFICES ASSUME status = "running" PROVE paid <= totalCost' + (faults + 0) * b
      BY <1>1, <1>4, <1>5 DEF Recorded
    <2>1. totalCost' = totalCost + b
      BY <1>1 DEF SerialInv, FairBody, Current
    <2>2. paid <= totalCost + (faults + 1) * b
      BY <1>4 DEF SerialInv, FairBody, Recorded
    <2> HIDE DEF b
    <2> QED BY <1>6, <2>1, <2>2
  <1>8. age < mode.ages => Ticking' /\ Settled'
    BY <1>1, <1>4, <1>5 DEF SerialInv, FairBody, Ticking, Ticks, Settled
  <1> QED BY <1>1, <1>3, <1>7, <1>8 DEF FairBody

(* A new run: nothing is paid yet, and no more wait than may.              *)
LEMMA FairStarted ==
    ASSUME SerialInv, CostInv', FairTypes', NEW s \in Sessions, Started(s)
    PROVE  Solo' /\ FairBody'
  <1>1. /\ pc[s] = "spawn" /\ age' = 0 /\ paid' = 0
        /\ UNCHANGED <<mode, totalCost, phase, due, faults>>
    BY DEF Started, beat, bounds
  <1>2. \A t \in Sessions : pc'[t] = "idle"
    BY <1>1 DEF Started, End, SerialInv, Solo, CostInv, CostTypes
  <1>3. Solo' /\ Current'
    BY <1>2 DEF Solo, Current
  <1>4. AnyAt({"record"})' = 0 /\ AnyAt({"listed", "debit"})' = 0
    BY <1>2 DEF AnyAt
  <1> DEFINE b == BillingAmount
             q == mode.quarter
  <1>5. /\ b \in Nat /\ q \in Nat \ {0} /\ mode.due \in Nat /\ totalCost \in Nat /\ faults \in Nat
        /\ due \in 0 .. mode.due /\ phase \in 0 .. q - 1
    BY FairFacts DEF SerialInv, CostInv, CostTypes, FairTypes
  <1>6. BillingAmount' = b /\ mode'.quarter = q
    BY <1>1 DEF BillingAmount
  <1>7. Recorded'
    <2>1. 0 <= totalCost + (faults + 0) * b
      <3> HIDE DEF b
      <3> QED BY <1>5
    <2> QED BY <1>1, <1>4, <1>6, <2>1 DEF Recorded
  <1>8. Ticks(0)'
    <2>1. 0 <= 0 * b /\ q * (0 + due + 0) <= q * mode.due + q - 1 + 0 - phase
      <3> HIDE DEF b, q
      <3>1. due * q <= mode.due * q
        BY <1>5, TimesMono
      <3> QED BY <1>5, <3>1
    <2> QED BY <1>1, <1>4, <1>6, <2>1 DEF Ticks
  <1>9. Settled'
    <2>1. ExactCost(0) \in Nat /\ TickCost(0) \in Nat
      <3>1. mode.price \in Nat
        BY ModeTypes DEF SerialInv, CostInv
      <3>2. 0 * mode.price = 0 /\ 0 * b = 0 /\ 4 * q \in Nat \ {0}
        BY <1>5, <3>1
      <3> QED BY <1>5, <3>2, DivIsNat DEF ExactCost, TickCost, AtLeastOne
    <2>2. ExactCost(age)' = ExactCost(0) /\ TickCost(age)' = TickCost(0)
      BY <1>1 DEF ExactCost, TickCost, BillingAmount
    <2>3. (1 + mode.due + faults) * b \in Nat
      <3> HIDE DEF b
      <3> QED BY <1>5
    <2> QED BY <1>1, <1>6, <2>1, <2>2, <2>3 DEF Settled, Price, Dearer
  <1> QED BY <1>3, <1>7, <1>8, <1>9 DEF FairBody, Ticking

LEMMA FairNext == CostInv /\ FairInv /\ [Next]_vars => FairInv'
  <1> SUFFICES ASSUME CostInv, FairInv, [Next]_vars, mode'.serial PROVE Solo' /\ FairBody'
    BY FairTypesNext DEF FairInv
  <1>1. SerialInv /\ FairTypes' /\ CostInv' /\ mode' = mode
    BY FairTypesNext, CostNext DEF FairInv, SerialInv
  <1> USE <1>1 DEF row, money, beat, bounds
  <1>2. CASE Time
    BY <1>2, FairTime
  <1>3. CASE Grant \/ Spend \/ UNCHANGED vars
    <2>1. UNCHANGED <<mode, status, totalCost, age, paid, phase, due, pc, myCost, myAge, amount, faults>>
      BY <1>3 DEF Grant, Spend, vars, task
    <2>2. Solo' /\ Current' /\ \A P : AnyAt(P)' = AnyAt(P) /\ AnyAt(P) \in {0, 1}
      BY <2>1 DEF SerialInv, FairBody, Solo, Current, AnyAt, Difference, ExactCost, BillingAmount
    <2>3. Recorded' /\ (age < mode.ages => Ticking' /\ Settled')
      BY <2>1, <2>2 DEF SerialInv, FairBody, Recorded, Ticking, Ticks, Settled, Price, ExactCost,
                        TickCost, BillingAmount
    <2> QED BY <2>1, <2>2, <2>3 DEF FairBody
  <1>4. ASSUME NEW s \in Sessions, Bill(s) PROVE Solo' /\ FairBody'
    <2>1. CASE status = "running" /\ Load(s, "bill", "listed")
      BY <1>4, <2>1, FairLoad DEF Bill
    <2>2. CASE status # "running" /\ UNCHANGED task
      <3>1. UNCHANGED <<mode, status, totalCost, age, paid, phase, pc, myCost, myAge, amount, faults>>
        BY <1>4, <2>2 DEF Bill, task
      <3>2. Solo' /\ Current' /\ \A P : AnyAt(P)' = AnyAt(P)
        BY <3>1 DEF SerialInv, FairBody, Solo, Current, AnyAt, Difference, ExactCost, BillingAmount
      <3>3. Recorded' /\ (age < mode.ages => Ticking' /\ Settled')
        BY <2>2, <3>1, <3>2
        DEF SerialInv, FairBody, Recorded, Ticking, Settled, Price, ExactCost, TickCost, BillingAmount
      <3> QED BY <3>1, <3>2, <3>3 DEF FairBody
    <2> QED BY <1>4, <2>1, <2>2 DEF Bill
  <1>5. ASSUME NEW s \in Sessions, Start(s) PROVE Solo' /\ FairBody'
    BY <1>5, FairLoad DEF Start
  <1>6. ASSUME NEW s \in Sessions, NEW k \in AllStops, Stop(s, k) PROVE Solo' /\ FairBody'
    BY <1>6, FairLoad DEF Stop
  <1>7. ASSUME NEW s \in Sessions, FindExited(s) PROVE Solo' /\ FairBody'
    BY <1>7, FairStops DEF FindExited
  <1>8. ASSUME NEW s \in Sessions, Remove(s) PROVE Solo' /\ FairBody'
    BY <1>8, FairStops DEF Remove, Committed
  <1>9. ASSUME NEW s \in Sessions, Fault(s) \/ DebitRefused(s) PROVE Solo' /\ FairBody'
    BY <1>9, FairGivesUp DEF Fault, DebitRefused
  <1>10. ASSUME NEW s \in Sessions, ReadBalance(s) PROVE Solo' /\ FairBody'
    <2>1. status = "running" /\ BillingAmount \in Nat
      BY <1>10, FairFacts DEF ReadBalance, SerialInv, CostInv, FairBody, Current
    <2>2. amount \in [Sessions -> Nat]
      BY DEF SerialInv, CostInv, CostTypes
    <2> QED BY <1>10, <2>1, <2>2, FairMoves DEF ReadBalance
  <1>11. ASSUME NEW s \in Sessions, Quote(s) PROVE Solo' /\ FairBody'
    <2>1. CASE End(s)
      BY <1>11, <2>1, FairGivesUp DEF Quote
    <2>2. CASE /\ Goto(s, "debit")
               /\ amount' = [amount EXCEPT ![s] =
                     IF balance >= Additional(s) THEN Additional(s) ELSE balance]
      <3>1. status = "stopped" /\ Additional(s) = Difference
        BY <1>11 DEF Quote, SerialInv, FairBody, Current, Additional, Difference
      <3>2. Additional(s) \in Int /\ balance \in Nat /\ amount \in [Sessions -> Nat]
        BY AdditionalIsInt DEF SerialInv, CostInv, CostTypes
      <3>3. amount'[s] <= Difference
        BY <2>2, <3>1, <3>2
      <3> QED BY <1>11, <2>2, <3>1, <3>3, FairMoves DEF Quote
    <2> QED BY <1>11, <2>1, <2>2 DEF Quote
  <1>12. ASSUME NEW s \in Sessions, Debit(s) PROVE Solo' /\ FairBody'
    BY <1>12, FairDebit
  <1>13. ASSUME NEW s \in Sessions, Record(s) PROVE Solo' /\ FairBody'
    BY <1>13, FairRecord
  <1>14. ASSUME NEW s \in Sessions, Started(s) PROVE Solo' /\ FairBody'
    BY <1>14, FairStarted
  <1> QED
    BY <1>2, <1>3, <1>4, <1>5, <1>6, <1>7, <1>8, <1>9, <1>10, <1>11, <1>12, <1>13, <1>14
    DEF Next, Step

(* Where no two operations overlap, a run costs its owner no more than its *)
(* time (process_nuke_billing, reconcile_server_billing): at most the tick *)
(* that was rounded up is added, those that had waited for a worker when   *)
(* it began, and one for each task that died before it recorded its debit. *)
THEOREM RunIsFair == Spec => []FairPrice
  <1>1. CostInv /\ FairInv => FairPrice
    <2> SUFFICES ASSUME CostInv, FairInv, mode.serial, age < mode.ages PROVE paid <= Price
      BY DEF FairPrice, Price
    <2>1. SerialInv /\ status \in {"running", "stopped"}
      BY DEF FairInv, SerialInv, FairTypes
    <2> QED BY <2>1, RunningIsFair DEF SerialInv, FairBody, Settled
  <1> QED BY <1>1, CostInit, CostNext, FairInit, FairNext, PTL DEF Spec

(* What a run may cost at a plan of at least a credit a quarter.           *)
ExactPrice ==
    mode.serial /\ mode.price >= 4 /\ age < mode.ages
        => paid <= ExactCost(age) + (1 + mode.due + faults) * BillingAmount

(* Where the plan costs at least a credit a quarter, the ticks of          *)
(* process_nuke_billing take no more than reconcile_server_billing would,  *)
(* and the exact cost of its time bounds what a run costs.                 *)
THEOREM RunCostsItsTime == Spec => []ExactPrice
  <1>1. CostInv /\ FairPrice => ExactPrice
    <2> SUFFICES ASSUME CostInv, mode.price >= 4 PROVE TickCost(age) <= ExactCost(age)
      <3>1. CostInv => ExactCost(age) \in Nat /\ TickCost(age) \in Nat
        BY FairFacts DEF CostInv
      <3> QED BY <3>1 DEF FairPrice, ExactPrice, Dearer
    <2> DEFINE p == mode.price
               q == mode.quarter
               b == BillingAmount
               x == TickCost(age)
    <2>1. /\ p \in Nat /\ q \in Nat \ {0} /\ b \in Nat /\ age \in Nat /\ x \in Nat /\ p >= 4
      BY FairFacts, ModeTypes DEF CostInv, CostTypes
    <2>2. 4 * b <= p
      BY <2>1 DEF BillingAmount, AtLeastOne
    <2>3. q * x <= age * b
      <3>1. x = (age * b) \div q
        BY DEF TickCost
      <3> HIDE DEF b, q, x
      <3>2. age * b \in Nat
        BY <2>1
      <3> QED BY <2>1, <3>1, <3>2, DivIsFloor
    <2>4. x * (4 * q) <= age * p
      <3> HIDE DEF b, p, q, x
      <3>1. (4 * b) * age <= p * age
        BY <2>1, <2>2, TimesMono
      <3> QED BY <2>1, <2>3, <3>1
    <2>5. x <= (age * p) \div (4 * q) /\ (age * p) \div (4 * q) \in Nat
      <3> HIDE DEF b, p, q, x
      <3>1. age * p \in Nat /\ 4 * q \in Nat \ {0}
        BY <2>1
      <3> QED BY <2>1, <2>4, <3>1, DivIsLargest, DivIsNat
    <2> QED BY <2>1, <2>5 DEF ExactCost, AtLeastOne
  <1> QED BY <1>1, RunIsFair, CostInit, CostNext, PTL DEF Spec
=============================================================================
